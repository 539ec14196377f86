----------------------------- MODULE Bisection ------------------------------
(***************************************************************************)
(* Where the walk of Verifier.updateRound is: after k rounds it stands at  *)
(* one position of level k of both trees.  The contract stores only the    *)
(* two hashes found there, a witness and two flags; the properties say     *)
(* what these mean in terms of the position.                               *)
(***************************************************************************)
EXTENDS VerificationGame

Halves(h) == IF h \in DOMAIN Open THEN Open[h] ELSE [left |-> h, right |-> h]

\* The hashes below those of a level, from left to right: twice as many.  Below a
\* zero hash everything is zero.
LevelBelow(above) ==
    [i \in 1 .. 2 * Len(above) |->
        LET parent == Halves(above[(i + 1) \div 2])
        IN  IF i % 2 = 1 THEN parent.left ELSE parent.right]

\* Levels(root)[k]: level k of the tree with this root.
Levels(root) ==
    LET level[k \in Nat] == IF k = 0 THEN <<root>> ELSE LevelBelow(level[k - 1])
    IN  level

SolverLevel(id) == Levels(id.execution.root)[id.depth - disputes[id].treeDepth]
ChallengerLevel(id) == Levels(id.challengerRoot)[id.depth - disputes[id].treeDepth]

\* Position i of the levels explains the paths, START flag and witness of d.
Explains(i, d, solverLevel, challengerLevel) ==
    /\ d.solverPath = solverLevel[i]
    /\ d.challengerPath = challengerLevel[i]
    /\ "START_OF_EXECUTION" \in d.state <=> i = 1
    /\ IF i = 1
       THEN d.witness = Zero
       ELSE d.witness = solverLevel[i - 1] /\ d.witness = challengerLevel[i - 1]

\* Solver and challenger are always questioned about the same position of their
\* trees; START_OF_EXECUTION is set exactly at the leftmost one, and anywhere else
\* the witness is the hash just left of the position, on which both trees agree.
\* At the leaf it is the state that the proven step must start from.
SamePosition ==
    \A id \in DOMAIN disputes : Unresolved(id) =>
        LET s == SolverLevel(id)
            c == ChallengerLevel(id)
        IN  \E i \in DOMAIN s : Explains(i, disputes[id], s, c)

\* END_OF_EXECUTION, which makes submitProof ask for a halting opcode, is set
\* exactly when nothing follows that position in the solver's tree.
EndFlagMeansLast ==
    \A id \in DOMAIN disputes : Unresolved(id) =>
        LET s == SolverLevel(id)
            c == ChallengerLevel(id)
        IN  \E i \in DOMAIN s :
                /\ Explains(i, disputes[id], s, c)
                /\ "END_OF_EXECUTION" \in disputes[id].state
                       <=> \A j \in DOMAIN s : j > i => s[j] = Zero

\* docs/Merkelizer.md:53: "Both of them need to follow the path they do *not* agree
\* on."  Players with different roots are never sent to a node they share.
FollowsDisagreement ==
    \A id \in DOMAIN disputes :
        Unresolved(id) /\ id.execution.root # id.challengerRoot =>
            disputes[id].solverPath # disputes[id].challengerPath

\* contracts/Verifier.sol:147: "the left-most (first) execution step must be a
\* `Merkelizer.initialStateHash`".  A solver is not verified at the left-most step
\* of a tree that starts anywhere else.
LeftmostStepIsInitial ==
    \A id \in DOMAIN disputes :
        /\ disputes[id].treeDepth = 0
        /\ {"SOLVER_VERIFIED", "START_OF_EXECUTION"} \subseteq disputes[id].state
        => disputes[id].solver.left = InitialState[id.execution.task]

=============================================================================
