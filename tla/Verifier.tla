------------------------------ MODULE Verifier ------------------------------
(***************************************************************************)
(* contracts/Verifier.sol: the game between solver and challenger.  Both   *)
(* open their trees one level per round, towards their first disagreement, *)
(* and at the leaf one EVM step is executed on chain.                      *)
(*                                                                         *)
(* An action that ends a game has the verdict it reports to the Enforcer   *)
(* as a parameter; VerificationGame makes the report part of the action.   *)
(***************************************************************************)
EXTENDS Deployment

CONSTANTS
    InitialState,       \* [TaskHash -> StateHash]: Merkelizer.initialStateHash
    Outcomes            \* [TaskHash -> [StateHash -> SUBSET Outcome]]

(***************************************************************************)
(* One EVM step, started in a state under a task's code.  A caller of      *)
(* submitProof chooses which parts of the state to supply, hence a set;    *)
(* steps with an error or too large a stack are not in it.                 *)
(***************************************************************************)
Outcome ==
    [next : Hash,       \* hash of the state after the step
     halts : BOOLEAN,   \* the opcode is REVERT, RETURN or STOP
     full : BOOLEAN]    \* memSize >= MAX_MEM_WORD_COUNT after the step

ASSUME StepAssumption ==
    /\ InitialState \in [TaskHash -> StateHash]
    /\ Outcomes \in [TaskHash -> [StateHash -> SUBSET Outcome]]

VARIABLE disputes       \* mapping(bytes32 => Dispute)

Flag == {"SOLVER_RESPONDED", "CHALLENGER_RESPONDED", "SOLVER_VERIFIED",
         "CHALLENGER_VERIFIED", "START_OF_EXECUTION", "END_OF_EXECUTION"}
RESPONDED == {"SOLVER_RESPONDED", "CHALLENGER_RESPONDED"}
VERIFIED == {"SOLVER_VERIFIED", "CHALLENGER_VERIFIED"}
INITIAL_STATE == {"START_OF_EXECUTION", "END_OF_EXECUTION"}

\* What enforcer.result is told; "none": it is not called.
Verdict == {"none", "solver", "challenger"}

(***************************************************************************)
(* keccak256 of executionId, initialStateHash, both roots and the depth.   *)
(* The solver's root and the initial state follow from the executionId;    *)
(* the challenger's address is not part of it.                             *)
(***************************************************************************)
DisputeId ==
    [execution : ExecutionId, challengerRoot : ChallengerRoot, depth : 1 .. maxExecutionDepth]

\* executionId, initialStateHash and codeHash are read off the dispute's id.
DisputeRecord ==
    [challengerAddr : Account,
     solverPath : Hash,
     challengerPath : Hash,
     treeDepth : Nat,
     witness : Hash,
     solver : ComputationPath,
     challenger : ComputationPath,
     state : SUBSET Flag,
     timeout : Nat]

Exists(id) == id \in DOMAIN disputes
Unresolved(id) == Exists(id) /\ disputes[id].state \cap VERIFIED = {}

-----------------------------------------------------------------------------
\* Plausible bugs of the definitions below; no specification here uses them.
PlayingForever(id) == Unresolved(id)
AboveLeafOrAtIt(d) == d.treeDepth >= 0
ZeroLeftVerdictSwapped(d) ==
    IF d.solver.left = Zero THEN "solver"
    ELSE IF d.challenger.left = Zero THEN "challenger"
    ELSE "none"
FollowsRightOnEqualLeft(d) == d.solver.left = d.challenger.left
TimeoutWinnerSolverFirst(d) ==
    IF "CHALLENGER_RESPONDED" \in d.state THEN "challenger" ELSE "solver"
GoLeftKeepsEnd(d) ==
    [d EXCEPT !.solverPath = d.solver.left, !.challengerPath = d.challenger.left]
NextWitnessLeft(d) == IF d.witness = Zero THEN Zero ELSE Open[d.witness].left
-----------------------------------------------------------------------------

getTimeout == now + timeoutDuration

\* The modifier onlyPlaying.
Playing(id) == Unresolved(id) /\ now <= disputes[id].timeout

InitGame(id, challenger) ==
    /\ ~Exists(id)
    /\ disputes' = Put(disputes, id,
           [challengerAddr |-> challenger,
            solverPath |-> id.execution.root,
            challengerPath |-> id.challengerRoot,
            treeDepth |-> id.depth,
            witness |-> Zero,
            solver |-> [left |-> id.execution.root, right |-> id.execution.root],
            challenger |-> [left |-> id.challengerRoot, right |-> id.challengerRoot],
            state |-> INITIAL_STATE,
            timeout |-> getTimeout])

-----------------------------------------------------------------------------
(***************************************************************************)
(* respond and updateRound.                                                *)
(***************************************************************************)

\* "already reach leaf"
AboveLeaf(d) == d.treeDepth > 0

\* The response `path`, whose hash is h, is taken for every party at h.
Received(d, h, path) ==
    [d EXCEPT
        !.solver = IF h = d.solverPath THEN path ELSE @,
        !.challenger = IF h = d.challengerPath THEN path ELSE @,
        !.state = @ \cup (IF h = d.solverPath THEN {"SOLVER_RESPONDED"} ELSE {})
                    \cup (IF h = d.challengerPath THEN {"CHALLENGER_RESPONDED"} ELSE {})]

\* "left can not be zero", asked of the solver first.
ZeroLeftVerdict(d) ==
    IF d.solver.left = Zero THEN "challenger"
    ELSE IF d.challenger.left = Zero THEN "solver"
    ELSE "none"

\* The flag a verdict sets.
Resolved(d, verdict) ==
    [d EXCEPT !.state = @ \cup
        (IF verdict = "solver" THEN {"SOLVER_VERIFIED"} ELSE {"CHALLENGER_VERIFIED"})]

\* A witness must be opened with the response; its right half is the next one.
WitnessOpened(d) == d.witness = Zero \/ d.witness \in DOMAIN Open
NextWitness(d) == IF d.witness = Zero THEN Zero ELSE Open[d.witness].right

FollowsRight(d) ==
    /\ d.solver.left = d.challenger.left
    /\ d.solver.right # Zero
    /\ d.challenger.right # Zero

GoRight(d) ==
    [d EXCEPT !.witness = d.solver.left,
              !.solverPath = d.solver.right,
              !.challengerPath = d.challenger.right,
              !.state = @ \ {"START_OF_EXECUTION"}]

GoLeft(d) ==
    [d EXCEPT !.solverPath = d.solver.left,
              !.challengerPath = d.challenger.left,
              !.state = @ \ (IF d.solver.right # Zero THEN {"END_OF_EXECUTION"} ELSE {})]

NextRound(d) ==
    LET r == [d EXCEPT !.witness = NextWitness(d),
                       !.timeout = getTimeout,
                       !.state = @ \ RESPONDED,
                       !.treeDepth = @ - 1]
    IN  IF FollowsRight(d) THEN GoRight(r) ELSE GoLeft(r)

\* updateRound, for the dispute record r with the response in it.
UpdateRound(id, r, verdict) ==
    \/ /\ ~(RESPONDED \subseteq r.state)
       /\ verdict = "none"
       /\ disputes' = [disputes EXCEPT ![id] = r]
    \/ /\ RESPONDED \subseteq r.state
       /\ verdict = ZeroLeftVerdict(r)
       /\ \/ /\ verdict # "none"
             /\ disputes' = [disputes EXCEPT ![id] = Resolved(r, verdict)]
          \/ /\ verdict = "none"
             /\ WitnessOpened(r)
             /\ disputes' = [disputes EXCEPT ![id] = NextRound(r)]

Respond(id, h, verdict) ==
    LET d == disputes[id]
    IN  /\ Playing(id)
        /\ AboveLeaf(d)
        /\ h \in {d.solverPath, d.challengerPath} \cap DOMAIN Open
        /\ UpdateRound(id, Received(d, h, Open[h]), verdict)

-----------------------------------------------------------------------------
(***************************************************************************)
(* submitProof: one step from `input`, with the outcome o.  Where the code *)
(* returns early nothing changes and there is no step.                     *)
(***************************************************************************)

AcceptsInput(id, input) ==
    LET d == disputes[id]
    IN  /\ input \in {d.solver.left, d.challenger.left}
        /\ "START_OF_EXECUTION" \in d.state => input = InitialState[id.execution.task]
        /\ d.witness # Zero => input = d.witness

Proven(d, o) ==
    (IF o.next = d.solver.right /\ ~o.full THEN {"SOLVER_VERIFIED"} ELSE {})
        \cup (IF o.next = d.challenger.right THEN {"CHALLENGER_VERIFIED"} ELSE {})

SubmitProof(id, input, o, verdict) ==
    LET d == disputes[id]
    IN  /\ Playing(id)
        /\ d.treeDepth = 0
        /\ AcceptsInput(id, input)
        /\ "END_OF_EXECUTION" \in d.state => o.halts
        /\ o.next \in {d.solver.right, d.challenger.right}
        /\ verdict = IF "SOLVER_VERIFIED" \in Proven(d, o) THEN "solver" ELSE "challenger"
        /\ disputes' = [disputes EXCEPT ![id].state = @ \cup Proven(d, o)]

-----------------------------------------------------------------------------
TimeoutWinner(d) ==
    IF "SOLVER_RESPONDED" \in d.state THEN "solver"
    ELSE IF "CHALLENGER_RESPONDED" \in d.state THEN "challenger"
    ELSE IF d.treeDepth > 0 THEN "solver"
    ELSE "challenger"

ClaimTimeout(id, verdict) ==
    /\ Unresolved(id)
    /\ disputes[id].timeout < now
    /\ verdict = TimeoutWinner(disputes[id])
    /\ disputes' = [disputes EXCEPT ![id] = Resolved(@, verdict)]

-----------------------------------------------------------------------------
VerifierInit == disputes = NoEntries

=============================================================================
