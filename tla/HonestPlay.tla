----------------------------- MODULE HonestPlay -----------------------------
(***************************************************************************)
(* What the game is for: a party that knows the true execution and acts in *)
(* time gets the right verdict, whatever everybody else does.              *)
(*                                                                         *)
(* An honest party registers the root of the true tree, disputes any other *)
(* registration with that root at the depth of the claim, answers each     *)
(* round with the node of its tree at the path it is asked about, proves   *)
(* the leaf or claims the timeout.  This is an assumption about players:   *)
(* utils/ExecutionPoker.js does the same except that it never claims a     *)
(* timeout and does not pad a tree that is too shallow.  All honest moves  *)
(* are steps of VerificationGame; being honest only means that time does   *)
(* not pass the player by.                                                 *)
(***************************************************************************)
EXTENDS Bisection

CONSTANTS
    TrueDepth,  \* [TaskHash -> Nat]: depth of the true execution's tree
    TrueRoot    \* [TaskHash -> [depth -> Hash]]: its root, resized to a depth

(***************************************************************************)
(* IEnforcer.dispute: "In case challenger's tree is shallower, he should   *)
(* use node with zero hash to make it deeper.  In case challenger's tree   *)
(* is deeper, he should submit only the left subtree".                     *)
(***************************************************************************)
ASSUME TrueTreeAssumption ==
    /\ TrueDepth \in [TaskHash -> 1 .. maxExecutionDepth]
    /\ TrueRoot \in [TaskHash -> [1 .. maxExecutionDepth -> ChallengerRoot]]

\* The rounds of the deepest tree fit into a challenge period with a second to spare.
\* No contract checks this: whoever deploys them has to choose the periods so.
ASSUME PeriodAssumption ==
    challengePeriod > 1 + (maxExecutionDepth + 1) * timeoutDuration

(***************************************************************************)
(* The tree of depth d with this root is that of an execution of t, or of  *)
(* its beginning: every node that is not zero is known and has a left      *)
(* half; the leaves, in pairs, are the states before and after each step;  *)
(* the steps follow each other from the initial state, and each can be     *)
(* proved to lead to the state after it, and with a memory that is not     *)
(* full, but to no other.  The step that halts is the last one.            *)
(***************************************************************************)
ExecutionTree(t, root, d) ==
    LET leaf == Levels(root)[d]
    IN  /\ \A k \in 0 .. d - 1 : \A i \in DOMAIN Levels(root)[k] :
               LET h == Levels(root)[k][i]
               IN  h # Zero => h \in DOMAIN Open /\ Open[h].left # Zero
        /\ leaf[1] = InitialState[t]
        /\ \A i \in DOMAIN leaf : leaf[i] \in StateHash \cup {Zero}
        /\ \A i \in DOMAIN leaf : i % 2 = 1 /\ leaf[i] # Zero =>
               /\ i > 1 => leaf[i] = leaf[i - 1]
               /\ leaf[i + 1] # Zero
               /\ \A o \in Outcomes[t][leaf[i]] :
                      /\ o.next = leaf[i + 1] /\ ~o.full
                      /\ o.halts => /\ d >= TrueDepth[t]
                                    /\ \A j \in DOMAIN leaf : j > i + 1 => leaf[j] = Zero

ASSUME TrueExecutionAssumption ==
    \A t \in TaskHash : \A d \in 1 .. maxExecutionDepth : ExecutionTree(t, TrueRoot[t][d], d)

TrueRootFor(e) == TrueRoot[e.task][executions[e].executionDepth]

\* The registration claims the true execution, all of it.
Truthful(e) ==
    /\ executions[e].executionDepth >= TrueDepth[e.task]
    /\ e.root = TrueRootFor(e)

TrueDispute(e) == DisputeOf(e, TrueRootFor(e))

-----------------------------------------------------------------------------
(***************************************************************************)
(* What is up to the honest solver and the honest challenger.              *)
(***************************************************************************)
HonestDispute(id) == Registered(id.execution) /\ id = TrueDispute(id.execution)

SolverMustAct(id) ==
    /\ Unresolved(id)
    /\ Registered(id.execution) /\ Truthful(id.execution)
    /\ disputes[id].treeDepth = 0 \/ "SOLVER_RESPONDED" \notin disputes[id].state

ChallengerMustAnswer(id) ==
    /\ Unresolved(id)
    /\ HonestDispute(id) /\ ~Truthful(id.execution)
    /\ disputes[id].treeDepth > 0 /\ "CHALLENGER_RESPONDED" \notin disputes[id].state

\* At the leaf nobody may have a proof; then the game has to be timed out.
ChallengerMustClaim(id) ==
    /\ Unresolved(id)
    /\ HonestDispute(id) /\ ~Truthful(id.execution)
    /\ disputes[id].timeout < now

ChallengerMustDispute(e) == ~Truthful(e) /\ ~Exists(TrueDispute(e))

\* The clock moves on only if that makes no honest party late.  The challenger
\* disputes one second before LeavesTimeToPlay is over: without that spare second
\* a game in which everybody takes all his time ends too late to be timed out.
Punctual ==
    /\ \A id \in DOMAIN disputes :
           /\ SolverMustAct(id) \/ ChallengerMustAnswer(id) => now < disputes[id].timeout
           /\ ChallengerMustClaim(id) =>
                  now + 1 < executions[id.execution].startTime + challengePeriod
    /\ \A e \in DOMAIN executions : ChallengerMustDispute(e) =>
           executions[e].startTime + challengePeriod
               > now + 2 + (executions[e].executionDepth + 1) * timeoutDuration

\* The true root is that of the solver's tree, and the tree is not too shallow.
SolverHasTruth(id) ==
    /\ id.depth >= TrueDepth[id.execution.task]
    /\ id.execution.root = TrueRoot[id.execution.task][id.depth]
ChallengerHasTruth(id) == id.challengerRoot = TrueRoot[id.execution.task][id.depth]

\* There are no games between two dishonest parties: these could delete a registration
\* in the middle of an honest game about it.
HonestGames == \A id \in DOMAIN disputes : SolverHasTruth(id) \/ ChallengerHasTruth(id)

\* Bound: one registration at a time.
OneRegistration == Cardinality(DOMAIN executions) <= 1

HonestNext ==
    Next /\ (now' # now => Punctual) /\ HonestGames' /\ OneRegistration'

\* Time does not stop, and an honest party does not let the clock wait for it.
HonestSpec == Init /\ [][HonestNext]_vars /\ WF_vars(HonestNext)

-----------------------------------------------------------------------------
(***************************************************************************)
(* Four kinds of wrong registrations survive an honest challenger.  In the *)
(* first three the game ends at a step with whose result both trees agree; *)
(* a proof of it verifies both players, and then the solver wins.  They    *)
(* are about a dispute in which the challenger has the truth.              *)
(***************************************************************************)
SolverNode(k, p, id) == Levels(id.execution.root)[k][p]
ChallengerNode(k, p, id) == Levels(id.challengerRoot)[k][p]
NodesOn(k, id) == DOMAIN Levels(id.execution.root)[k]

\* On level k, p is the first node on which the players disagree; both can open it, so
\* the game goes on below it.
PartAt(k, p, id) ==
    /\ SolverNode(k, p, id) # ChallengerNode(k, p, id)
    /\ {SolverNode(k, p, id), ChallengerNode(k, p, id)} \subseteq DOMAIN Open
    /\ \A j \in 1 .. p - 1 : SolverNode(k, j, id) = ChallengerNode(k, j, id)

SolverPair(k, p, id) == Open[SolverNode(k, p, id)]
ChallengerPair(k, p, id) == Open[ChallengerNode(k, p, id)]

\* The solver's tree goes on where the true execution ends.
Outlasts(id) ==
    \E k \in 0 .. id.depth - 1 : \E p \in NodesOn(k, id) :
        /\ PartAt(k, p, id)
        /\ SolverPair(k, p, id).left = ChallengerPair(k, p, id).left
        /\ ChallengerPair(k, p, id).right = Zero

\* Above the last round, it leaves a right half empty where the true execution goes on,
\* and does not end there.
Skips(id) ==
    \E k \in 0 .. id.depth - 2 : \E p \in NodesOn(k, id) :
        /\ PartAt(k, p, id)
        /\ SolverPair(k, p, id).left = ChallengerPair(k, p, id).left
        /\ SolverPair(k, p, id).right = Zero
        /\ \E j \in NodesOn(k, id) : j > p /\ SolverNode(k, j, id) # Zero

\* Its first wrong step leads to the right state from a wrong one, which nobody proved.
Misconnects(id) ==
    \E p \in NodesOn(id.depth - 1, id) :
        /\ PartAt(id.depth - 1, p, id)
        /\ SolverPair(id.depth - 1, p, id).right = ChallengerPair(id.depth - 1, p, id).right

Misleading(id) == Outlasts(id) \/ Skips(id) \/ Misconnects(id)

\* The challenger won this very dispute before, and the solver registered again.
AlreadyPlayed(id) ==
    Exists(id) /\ disputes[id].state \cap VERIFIED = {"CHALLENGER_VERIFIED"}

Refutable(e) ==
    ~Truthful(e) /\ ~Misleading(TrueDispute(e)) /\ ~AlreadyPlayed(TrueDispute(e))

\* A solver that registers the true execution and answers in time keeps its
\* registration, whoever disputes it with whatever tree.
TruthStands ==
    [][\A e \in DOMAIN executions : Truthful(e) => e \in DOMAIN executions']_vars

\* A wrong registration does not outlive its challenge period if one challenger
\* knows the true execution and acts in time: steps missing, wrong, swapped or
\* started elsewhere, a tree cut short or with holes, a game not played on.
NoLieStands ==
    \A e \in DOMAIN executions : Refutable(e) => InChallengePeriod(e)

\* Being punctual is always possible: no honest move is ever refused, and there
\* is always one left to make, so the clock never waits for an honest party.
TimeGoesOn == <>(now = MaxTime)

\* docs/SystemDescriptionDocument.md:30: "If the off-chain result does not match the
\* on-chain result, the validator is free to open a dispute, becoming a
\* challenger."  As long as there is time for it, a dispute with the true root
\* about a wrong registration is open or can be opened.
DisputeAvailable ==
    \A e \in DOMAIN executions : ~Truthful(e) /\ LeavesTimeToPlay(e) =>
        ~Exists(TrueDispute(e)) \/ Unresolved(TrueDispute(e))

=============================================================================
