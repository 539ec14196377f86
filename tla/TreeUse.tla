------------------------------ MODULE TreeUse -------------------------------
(***************************************************************************)
(* One tree as the players use it: built over an execution, cut down to    *)
(* the depth of somebody else's claim, or built over a code.  What they    *)
(* then send is checked by the contracts.                                  *)
(***************************************************************************)
EXTENDS MerkleTree, FiniteSets

CONSTANTS
    State,        \* [pre, returnData]
    MaxSteps,     \* bound on the length of an execution
    MaxWords,     \* bound on the length of a code
    WordBytes,    \* 32
    Fragment      \* words of code

\* No preStateHash is zero.
ASSUME TreeUseAssumption ==
    /\ MaxSteps \in Nat \ {0} /\ MaxWords \in Nat /\ WordBytes \in Nat \ {0}
    /\ \A s \in State :
           s = [pre |-> s.pre, returnData |-> s.returnData] /\ s.pre # ZERO_HASH

VARIABLES
    input,      \* what the tree was built over
    tree,
    uncut,      \* the tree before it was cut down
    claimDepth  \* executionDepth of the claim it was cut down to, 0 while it was not

vars == <<input, tree, uncut, claimDepth>>

Executions == UNION {[1 .. n + 1 -> State] : n \in 1 .. MaxSteps}
Codes == UNION {[1 .. n -> Fragment] : n \in 1 .. MaxWords}

IsExecution == input.class = "Merkelizer"
IsCode == input.class = "FragmentTree"

Init == input = [class |-> "none"] /\ tree = << >> /\ uncut = << >> /\ claimDepth = 0

RunExecution(states) ==
    /\ input.class = "none"
    /\ input' = [class |-> "Merkelizer", states |-> states]
    /\ tree' = run(states)
    /\ uncut' = tree'
    /\ UNCHANGED claimDepth

\* validateExecution, in both bots, with the depth of the claim.
ScaleDown(executionDepth) ==
    /\ IsExecution /\ claimDepth = 0
    /\ executionDepth < depth(tree)
    /\ tree' = scaleDown(tree, executionDepth)
    /\ claimDepth' = executionDepth
    /\ UNCHANGED <<input, uncut>>

\* Words of code, the last of them with `tail` bytes.
RunCode(words, tail) ==
    /\ input.class = "none"
    /\ input' = [class |-> "FragmentTree", words |-> words,
                 byteLength |-> WordBytes * (Len(words) - 1) + tail]
    /\ tree' = runCode(words, input'.byteLength)
    /\ uncut' = tree'
    /\ UNCHANGED claimDepth

Next ==
    \/ \E states \in Executions : RunExecution(states)
    \/ \E executionDepth \in 1 .. MaxSteps : ScaleDown(executionDepth)
    \/ \E words \in Codes, tail \in {1, WordBytes} : RunCode(words, tail)

Spec == Init /\ [][Next]_vars

-----------------------------------------------------------------------------
\* What the players of a game agree on about every execution.
Committed ==
    [states \in Executions |->
        LET t == run(states) IN [root |-> root(t).hash, depth |-> depth(t)]]

\* A root of a given depth commits to one execution: the zero leaves that fill up a
\* level, and the zero nodes that fill up the levels above, stand for no step
\* (AbstractMerkleTree.recal), so a solver cannot register one root for two results.
RootCommits ==
    IsExecution /\ claimDepth = 0 =>
        \A other \in Executions :
            Committed[other] = [root |-> root(tree).hash, depth |-> depth(tree)]
                => other = input.states

\* The proof a solver sends with its registration is accepted, off chain (the
\* "paranoia" check of registerExecution) and by the Enforcer, with the return data of
\* the execution's last state and with no other (computeResultProof finds its way by
\* hash and past the padding).
ResultProofAccepted ==
    IsExecution /\ claimDepth = 0 =>
        LET r == computeResultProof(tree, input.states)
        IN  /\ Len(r.resultProof) = 2 * depth(tree)
            /\ \A data \in {s.returnData : s \in State} :
                   verifyResultProof(r.resultProof, data, root(tree).hash)
                       = (data = Last(input.states).returnData)

\* A challenger whose tree is deeper than the claim submits "only the left subtree with
\* the same depth" (IEnforcer.dispute): cutting the leaves and building anew gives a tree
\* as deep as the claim, with the nodes of the leftmost subtree of that depth on every
\* level.  Not for a claim of depth one: recal never stops at the leaves, the tree cut to
\* one leaf has depth two.
ScaledDownIsLeftSubtree ==
    claimDepth > 1 =>
        /\ depth(tree) = claimDepth
        /\ \A level \in 1 .. claimDepth :
               /\ Len(tree[level]) = 2^(claimDepth - level)
               /\ \A i \in 1 .. 2^(claimDepth - level) :
                      tree[level][i].hash = uncut[level][i].hash

\* The only lengths for which the depth that verifyCode computes is that of the tree:
\* it makes the leaves even and rounds down from there, recal makes every level even.
SameDepth(words) == \E k \in 1 .. words + 1 : words \in {2^k - 1, 2^k}

\* Every word of a code given by its hash can be supplied to the on-chain runtime: the
\* proof that ProofHelper sends is one that verifyCode takes, and only for the word that
\* is really there (FragmentTree.calculateProof against Verifier.verifyCode).  For the
\* lengths that the two sides disagree about, no word can be supplied at all.
FragmentsProvable ==
    IsCode =>
        \A slot \in 0 .. Len(input.words) - 1, word \in Fragment :
            LET proof == calculateProof(tree, slot)
            IN  /\ verifyProof(tree, tree[1][slot + 1].hash, slot, proof)
                /\ verifyCode(root(tree).hash, word, slot, input.byteLength, Len(input.words), proof)
                       = (word = input.words[slot + 1] /\ SameDepth(Len(input.words)))

=============================================================================
