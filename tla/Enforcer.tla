------------------------------ MODULE Enforcer ------------------------------
(***************************************************************************)
(* contracts/Enforcer.sol: the registry of tasks and executions, and the   *)
(* bonds.  The specification at the end runs it against an arbitrary       *)
(* verifier; VerificationGame composes it with the real one.               *)
(***************************************************************************)
EXTENDS Deployment, Sequences

CONSTANTS
    EmptySlot,          \* bytes32(0) in a task's list of executions
    MaxSlots,           \* bound on the length of that list
    ProofDepth          \* pairs in a result proof: all of Nat, fewer for TLC

ASSUME SlotAssumption ==
    /\ EmptySlot \notin ExecutionId
    /\ MaxSlots \in Nat
    /\ ProofDepth \subseteq Nat

VARIABLES
    tasks,              \* mapping(bytes32 => Task)
    executions,         \* mapping(bytes32 => ExecutionResult)
    bonds,              \* mapping(address => uint256)
    balance             \* the ether the contract holds

enforcerVars == <<tasks, executions, bonds, balance>>

Task == [startTime : Nat, executions : Seq(ExecutionId \cup {EmptySlot})]

\* taskHash and solverPathRoot are the execution's id; resultHash is a function of it.
ExecutionResult ==
    [startTime : Nat, executionDepth : 1 .. maxExecutionDepth, solver : Account]

NoTask == [startTime |-> 0, executions |-> <<>>]

Registered(id) == id \in DOMAIN executions

-----------------------------------------------------------------------------
(***************************************************************************)
(* verifyResultProof: the pairs of the proof are a path from the root that *)
(* turns right unless the right child is zero; the last hash on it must be *)
(* that of a state whose return data is known.  RightEdge[n][root] is the  *)
(* hash after n pairs, Zero when one of them has no known preimage.  Any   *)
(* 64-byte preimage also reads as 32 bytes and 32 bytes of return data, so *)
(* an inner node passes for the last state.                                *)
(***************************************************************************)
RightUnlessZero(path) == IF path.right # Zero THEN path.right ELSE path.left

RightEdge[n \in Nat] ==
    IF n = 0 THEN [root \in Hash |-> root]
    ELSE [root \in Hash |->
             IF root \in DOMAIN Open
             THEN RightEdge[n - 1][RightUnlessZero(Open[root])]
             ELSE Zero]

VerifyResultProof(root, depth) ==
    /\ depth >= 1
    /\ RightEdge[depth][root] \in StateHash \cup DOMAIN Open

-----------------------------------------------------------------------------
\* Plausible bugs of the definitions below; no specification here uses them.
RegistrationOpenOnePeriod(t) == now + challengePeriod < tasks[t].startTime + taskPeriod
InChallengePeriodForever(id) == TRUE
DepthOneTooDeep(depth) == depth <= maxExecutionDepth + 1
ClearLastSlot(list, id) ==
    [i \in DOMAIN list |-> IF i = Len(list) THEN EmptySlot ELSE list[i]]
-----------------------------------------------------------------------------

RegistrationOpen(t) == now + 2 * challengePeriod < tasks[t].startTime + taskPeriod

DepthAccepted(depth) == depth <= maxExecutionDepth

\* The `+ 1` leaves a round for submitProof.
LeavesTimeToPlay(id) ==
    executions[id].startTime + challengePeriod
        > now + (executions[id].executionDepth + 1) * timeoutDuration

InChallengePeriod(id) == executions[id].startTime + challengePeriod > now

\* The loop over Task.executions stops at the first match.
ClearSlot(list, id) ==
    [i \in DOMAIN list |->
        IF list[i] = id /\ \A j \in 1 .. (i - 1) : list[j] # id
        THEN EmptySlot
        ELSE list[i]]

\* bonds[account] -= bondAmount, unchecked.
Slash(account) == [bonds EXCEPT ![account] = (@ - bondAmount) % Word]

\* msg.value == bondAmount, credited to the sender.
Deposit(sender) ==
    /\ balance + bondAmount <= EtherSupply
    /\ balance' = balance + bondAmount
    /\ bonds' = [bonds EXCEPT ![sender] = (@ + bondAmount) % Word]

\* address.transfer reverts when the contract is short or the receiver refuses.
Payout(account) ==
    /\ account \notin Rejecting
    /\ balance >= bondAmount
    /\ balance' = balance - bondAmount

-----------------------------------------------------------------------------
Request(t) ==
    /\ tasks[t].startTime = 0
    /\ tasks' = [tasks EXCEPT ![t].startTime = now]
    /\ UNCHANGED <<executions, bonds, balance>>

Register(sender, id, depth) ==
    /\ tasks[id.task].startTime # 0
    /\ RegistrationOpen(id.task)
    /\ ~Registered(id)
    /\ DepthAccepted(depth)
    /\ Len(tasks[id.task].executions) < MaxSlots
    /\ VerifyResultProof(id.root, depth)
    /\ executions' = Put(executions, id,
           [startTime |-> now, executionDepth |-> depth, solver |-> sender])
    /\ tasks' = [tasks EXCEPT ![id.task].executions = Append(@, id)]
    /\ Deposit(sender)

\* dispute, up to the call of verifier.initGame.
ChargeChallenger(sender, id) ==
    /\ Registered(id)
    /\ LeavesTimeToPlay(id)
    /\ Deposit(sender)
    /\ UNCHANGED <<tasks, executions>>

SolverWon(id, challenger) ==
    /\ bonds' = Slash(challenger)
    /\ Payout(executions[id].solver)
    /\ UNCHANGED <<tasks, executions>>

ChallengerWon(id, challenger) ==
    /\ tasks' = [tasks EXCEPT ![id.task].executions = ClearSlot(@, id)]
    /\ executions' = Delete(executions, id)
    /\ bonds' = Slash(executions[id].solver)
    /\ Payout(challenger)

\* Only the verifier calls it.
Result(id, solverWon, challenger) ==
    /\ Registered(id)
    /\ InChallengePeriod(id)
    /\ \/ solverWon /\ SolverWon(id, challenger)
       \/ ~solverWon /\ ChallengerWon(id, challenger)

\* getStatus: when the task ends and the executions that still stand.
WithoutEmptySlots(list) == SelectSeq(list, LAMBDA id : id # EmptySlot)
GetStatus(t) ==
    [endTime |-> tasks[t].startTime + taskPeriod,
     pathRoots |-> WithoutEmptySlots(tasks[t].executions)]

-----------------------------------------------------------------------------
EnforcerInit ==
    /\ ClockInit
    /\ tasks = [t \in TaskHash |-> NoTask]
    /\ executions = NoEntries
    /\ bonds = [a \in Account |-> 0]
    /\ balance = 0

\* With a verifier that may report anything at any time.
EnforcerNext ==
    \/ Tick /\ UNCHANGED enforcerVars
    \/ /\ UNCHANGED now
       /\ \/ \E t \in TaskHash : Request(t)
          \/ \E a \in Account, id \in ExecutionId, depth \in ProofDepth :
                 Register(a, id, depth)
          \/ \E a \in Account, id \in DOMAIN executions : ChargeChallenger(a, id)
          \/ \E a \in Account, id \in DOMAIN executions, solverWon \in BOOLEAN :
                 Result(id, solverWon, a)

EnforcerSpec == EnforcerInit /\ [][EnforcerNext]_<<now, enforcerVars>>

-----------------------------------------------------------------------------
\* The values the contract's storage and the clock range over.
EnforcerTypeOK ==
    /\ now \in Nat \ {0}
    /\ tasks \in [TaskHash -> Task]
    /\ DOMAIN executions \subseteq ExecutionId
    /\ executions \in [DOMAIN executions -> ExecutionResult]
    /\ bonds \in [Account -> 0 .. Word - 1]
    /\ balance \in 0 .. EtherSupply

\* An execution is registered exactly while its task's list names it, and the
\* list names it once: the push in register, the first-match clearing in result
\* and a later registration of the same root never leave a ghost or a duplicate
\* for getStatus to report.
TaskListsMatch ==
    \A id \in ExecutionId :
        LET list == tasks[id.task].executions
            slots == {i \in DOMAIN list : list[i] = id}
        IN  IF Registered(id)
            THEN \E i \in slots : slots = {i}
            ELSE slots = {}

\* What getStatus reports about a task is final one challenge period before the
\* end time it reports: nothing is added, removed or reordered after that.
Settled(t) ==
    tasks[t].startTime # 0 /\ now + challengePeriod >= tasks[t].startTime + taskPeriod
StatusIsFinal ==
    [][\A t \in TaskHash : Settled(t) => GetStatus(t)' = GetStatus(t)]_<<now, enforcerVars>>

-----------------------------------------------------------------------------
(***************************************************************************)
(* What the registry promises, with the clock abstracted to phases: it     *)
(* implements TaskBoard.                                                   *)
(***************************************************************************)
Phase(t) ==
    IF tasks[t].startTime = 0 THEN "none"
    ELSE IF RegistrationOpen(t) THEN "open"
    ELSE IF ~Settled(t) THEN "closing"
    ELSE "closed"

Standing(t) ==
    {tasks[t].executions[i] : i \in DOMAIN tasks[t].executions} \ {EmptySlot}

phaseBar == [t \in TaskHash |-> Phase(t)]
standingBar == [t \in TaskHash |-> Standing(t)]

Board == INSTANCE TaskBoard WITH
    Task <- TaskHash, Execution <- ExecutionId,
    phase <- phaseBar, standing <- standingBar

\* Every behaviour of the registry is one of the task board: executions join a
\* task only while it is open, leave it only before it is closed, and a task
\* never returns to an earlier phase.
ImplementsBoard == Board!Spec

=============================================================================
