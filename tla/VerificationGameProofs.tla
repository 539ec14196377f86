----------------------- MODULE VerificationGameProofs -----------------------
(***************************************************************************)
(* First the registry against an arbitrary verifier, then the two          *)
(* contracts together, for every value of the constants.  In the second    *)
(* part every proof looks at a move in a game through PlayStep, which says *)
(* what the three functions a player can call have in common.              *)
(***************************************************************************)
EXTENDS VerificationGame, SequenceTheorems, FiniteSetTheorems, TLAPS

Slots == ExecutionId \cup {EmptySlot}

\* Unsigned arithmetic stays within a word.
LEMMA WordRange == \A x \in Int : x % Word \in 0 .. Word - 1
BY ParameterAssumption

\* The values of Put and Delete.
LEMMA Mappings ==
    ASSUME NEW map, NEW key, NEW value
    PROVE  /\ DOMAIN Put(map, key, value) = DOMAIN map \cup {key}
           /\ \A k \in DOMAIN map \cup {key} :
                  Put(map, key, value)[k] = IF k = key THEN value ELSE map[k]
           /\ DOMAIN Delete(map, key) = DOMAIN map \ {key}
           /\ \A k \in DOMAIN map \ {key} : Delete(map, key)[k] = map[k]
BY DEF Put, Delete

\* Clearing a slot keeps a task's list in shape and changes at most one entry.
LEMMA ClearSlotShape ==
    ASSUME NEW list \in Seq(Slots), NEW id
    PROVE  /\ ClearSlot(list, id) \in Seq(Slots)
           /\ Len(ClearSlot(list, id)) = Len(list)
           /\ \A i \in 1 .. Len(list) :
                  ClearSlot(list, id)[i] =
                      IF list[i] = id /\ \A j \in 1 .. (i - 1) : list[j] # id
                      THEN EmptySlot ELSE list[i]
<1> DEFINE cleared == ClearSlot(list, id)
<1>1. /\ Len(list) \in Nat
      /\ DOMAIN list = 1 .. Len(list)
      /\ \A i \in 1 .. Len(list) : list[i] \in Slots
  BY LenProperties, ElementOfSeq
<1>2. /\ DOMAIN cleared = 1 .. Len(list)
      /\ \A i \in 1 .. Len(list) :
             cleared[i] = IF list[i] = id /\ \A j \in 1 .. (i - 1) : list[j] # id
                          THEN EmptySlot ELSE list[i]
  BY <1>1 DEF ClearSlot
<1>3. cleared \in [1 .. Len(list) -> Slots]
  BY <1>1, <1>2 DEF ClearSlot, Slots
<1>4. cleared \in Seq(Slots)
  BY <1>1, <1>3, SeqDef
<1>5. Len(cleared) = Len(list)
  BY <1>1, <1>2, <1>4, LenProperties
<1> QED
  BY <1>2, <1>4, <1>5

-----------------------------------------------------------------------------
\* The initial storage has the right types.
LEMMA InitTypeOK == EnforcerInit => EnforcerTypeOK
<1> SUFFICES ASSUME EnforcerInit PROVE EnforcerTypeOK
  OBVIOUS
<1>1. NoTask \in Task
  BY EmptySeq DEF NoTask, Task
<1>2. tasks \in [TaskHash -> Task]
  BY <1>1 DEF EnforcerInit
<1> QED
  BY <1>2, ParameterAssumption DEF EnforcerInit, EnforcerTypeOK, ClockInit, NoEntries

\* Every transaction and the clock keep the types.
LEMMA StepTypeOK == EnforcerTypeOK /\ [EnforcerNext]_<<now, enforcerVars>> => EnforcerTypeOK'
<1> SUFFICES ASSUME EnforcerTypeOK, [EnforcerNext]_<<now, enforcerVars>>
             PROVE  EnforcerTypeOK'
  OBVIOUS
<1> USE DEF EnforcerTypeOK
<1>1. CASE Tick /\ UNCHANGED enforcerVars
  BY <1>1 DEF Tick, enforcerVars
<1>2. ASSUME NEW t \in TaskHash, Request(t), UNCHANGED now
      PROVE  EnforcerTypeOK'
  BY <1>2 DEF Request, Task
<1>3. ASSUME NEW a \in Account, NEW id \in ExecutionId, NEW depth \in ProofDepth,
             Register(a, id, depth), UNCHANGED now
      PROVE  EnforcerTypeOK'
  <2>1. tasks' \in [TaskHash -> Task]
    <3>1. id.task \in TaskHash
      BY DEF ExecutionId
    <3>2. tasks[id.task].executions \in Seq(Slots)
      BY <3>1 DEF Task, Slots
    <3>3. Append(tasks[id.task].executions, id) \in Seq(Slots)
      BY <3>2 DEF Slots
    <3> QED
      BY <1>3, <3>1, <3>3 DEF Register, Task, Slots
  <2>2. depth \in 1 .. maxExecutionDepth
    <3>1. depth >= 1 /\ depth <= maxExecutionDepth
      BY <1>3 DEF Register, DepthAccepted, VerifyResultProof
    <3> QED
      BY <3>1, SlotAssumption, ParameterAssumption
  <2>3. /\ DOMAIN executions' \subseteq ExecutionId
        /\ executions' \in [DOMAIN executions' -> ExecutionResult]
    <3> DEFINE entry == [startTime |-> now, executionDepth |-> depth, solver |-> a]
    <3>1. entry \in ExecutionResult
      BY <2>2 DEF ExecutionResult
    <3>2. executions' = Put(executions, id, entry)
      BY <1>3 DEF Register
    <3> HIDE DEF entry
    <3> QED
      BY <3>1, <3>2 DEF Put
  <2>4. bonds' \in [Account -> 0 .. Word - 1] /\ balance' \in 0 .. EtherSupply
    <3>1. Deposit(a)
      BY <1>3 DEF Register
    <3> QED
      BY <3>1, WordRange, ParameterAssumption DEF Deposit
  <2> QED
    BY <1>3, <2>1, <2>3, <2>4
<1>4. ASSUME NEW a \in Account, NEW id \in DOMAIN executions, ChargeChallenger(a, id),
             UNCHANGED now
      PROVE  EnforcerTypeOK'
  BY <1>4, WordRange, ParameterAssumption DEF ChargeChallenger, Deposit
<1>5. ASSUME NEW a \in Account, NEW id \in DOMAIN executions, NEW solverWon \in BOOLEAN,
             Result(id, solverWon, a), UNCHANGED now
      PROVE  EnforcerTypeOK'
  <2>1. \A b \in Account : Slash(b) \in [Account -> 0 .. Word - 1]
    BY WordRange, ParameterAssumption DEF Slash
  <2>2. executions[id].solver \in Account
    BY DEF ExecutionResult
  <2>3. ASSUME NEW b, Payout(b) PROVE balance' \in 0 .. EtherSupply
    BY <2>3, ParameterAssumption DEF Payout
  <2>4. CASE SolverWon(id, a)
    BY <1>5, <2>1, <2>3, <2>4 DEF SolverWon
  <2>5. CASE ChallengerWon(id, a)
    <3>1. id.task \in TaskHash
      BY DEF ExecutionId
    <3>2. ClearSlot(tasks[id.task].executions, id) \in Seq(Slots)
      BY <3>1, ClearSlotShape DEF Task, Slots
    <3>3. tasks' \in [TaskHash -> Task]
      BY <2>5, <3>1, <3>2 DEF ChallengerWon, Task, Slots
    <3>4. executions' \in [DOMAIN executions' -> ExecutionResult]
      BY <2>5 DEF ChallengerWon, Delete
    <3>5. DOMAIN executions' \subseteq ExecutionId
      BY <2>5 DEF ChallengerWon, Delete
    <3> QED
      BY <1>5, <2>1, <2>2, <2>3, <2>5, <3>3, <3>4, <3>5 DEF ChallengerWon
  <2> QED
    BY <1>5, <2>4, <2>5 DEF Result
<1>6. CASE UNCHANGED <<now, enforcerVars>>
  BY <1>6 DEF enforcerVars
<1> QED
  BY <1>1, <1>2, <1>3, <1>4, <1>5, <1>6 DEF EnforcerNext

\* Type correctness of the registry's storage: bonds stay 256-bit words, the
\* balance stays non-negative and every stored execution has a depth of 1 to
\* maxExecutionDepth, whatever the verifier reports.
THEOREM EnforcerTypeCorrect == EnforcerSpec => []EnforcerTypeOK
BY InitTypeOK, StepTypeOK, PTL DEF EnforcerSpec

-----------------------------------------------------------------------------
(***************************************************************************)
(* The list of a task names its registered executions once each.           *)
(***************************************************************************)
SlotsOf(list, id) == {i \in DOMAIN list : list[i] = id}
Listed(id) ==
    IF Registered(id)
    THEN \E i \in SlotsOf(tasks[id.task].executions, id) :
             SlotsOf(tasks[id.task].executions, id) = {i}
    ELSE SlotsOf(tasks[id.task].executions, id) = {}

\* Appending a new execution gives it its one slot and moves no other.
LEMMA AppendSlot ==
    ASSUME NEW list \in Seq(Slots), NEW id \in ExecutionId, NEW other \in ExecutionId,
           SlotsOf(list, id) = {}
    PROVE  SlotsOf(Append(list, id), other) =
               IF other = id THEN {Len(list) + 1} ELSE SlotsOf(list, other)
<1>1. /\ Len(list) \in Nat
      /\ DOMAIN list = 1 .. Len(list)
  BY LenProperties
<1>2. /\ DOMAIN Append(list, id) = 1 .. Len(list) + 1
      /\ \A i \in 1 .. Len(list) : Append(list, id)[i] = list[i]
      /\ Append(list, id)[Len(list) + 1] = id
  BY <1>1 DEF Slots
<1>3. \A i : i \in 1 .. Len(list) + 1 <=> i \in 1 .. Len(list) \/ i = Len(list) + 1
  BY <1>1
<1> QED
  BY <1>1, <1>2, <1>3 DEF SlotsOf

\* Clearing an execution that has one slot removes it and moves no other.
LEMMA ClearSlotOnce ==
    ASSUME NEW list \in Seq(Slots), NEW id \in ExecutionId, NEW other \in ExecutionId,
           NEW slot, SlotsOf(list, id) = {slot}
    PROVE  /\ other = id => SlotsOf(ClearSlot(list, id), other) = {}
           /\ other # id => SlotsOf(ClearSlot(list, id), other) = SlotsOf(list, other)
<1>1. /\ DOMAIN list = 1 .. Len(list)
      /\ DOMAIN ClearSlot(list, id) = 1 .. Len(list)
  BY LenProperties, ClearSlotShape
<1>2. \A i \in 1 .. Len(list) : list[i] = id <=> i = slot
  BY <1>1 DEF SlotsOf
<1>3. slot \in 1 .. Len(list) /\ Len(list) \in Nat
  BY <1>1, LenProperties DEF SlotsOf
<1>4. \A j \in 1 .. (slot - 1) : list[j] # id
  BY <1>2, <1>3
<1>5. \A i \in 1 .. Len(list) :
          ClearSlot(list, id)[i] = IF i = slot THEN EmptySlot ELSE list[i]
  BY <1>2, <1>4, ClearSlotShape
<1> QED
  BY <1>1, <1>2, <1>5, SlotAssumption DEF SlotsOf

\* TaskListsMatch, execution by execution.
LEMMA ListedEach == TaskListsMatch <=> \A id \in ExecutionId : Listed(id)
BY DEF TaskListsMatch, Listed, SlotsOf

\* No list names anything before the first registration.
LEMMA InitListsMatch == EnforcerInit => TaskListsMatch
<1> SUFFICES ASSUME EnforcerInit, NEW id \in ExecutionId PROVE Listed(id)
  BY ListedEach
<1>1. tasks[id.task].executions = <<>>
  BY DEF EnforcerInit, NoTask, ExecutionId
<1>2. ~Registered(id)
  BY DEF EnforcerInit, Registered, NoEntries
<1>3. SlotsOf(<<>>, id) = {}
  BY DEF SlotsOf
<1> QED
  BY <1>1, <1>2, <1>3 DEF Listed

\* Every step keeps lists and registrations in accordance.
LEMMA StepListsMatch ==
    EnforcerTypeOK /\ TaskListsMatch /\ [EnforcerNext]_<<now, enforcerVars>> => TaskListsMatch'
<1> SUFFICES ASSUME EnforcerTypeOK, TaskListsMatch, [EnforcerNext]_<<now, enforcerVars>>,
                    NEW other \in ExecutionId
             PROVE  Listed(other)'
  BY DEF TaskListsMatch, Listed, SlotsOf
<1>1. \A id \in ExecutionId :
          /\ Listed(id)
          /\ id.task \in TaskHash
          /\ tasks[id.task].executions \in Seq(Slots)
  BY ListedEach DEF EnforcerTypeOK, Task, ExecutionId, Slots
<1>2. CASE UNCHANGED <<tasks, executions>>
  BY <1>1, <1>2 DEF Listed, Registered
<1>3. ASSUME NEW t \in TaskHash, Request(t) PROVE Listed(other)'
  <2>1. tasks'[other.task].executions = tasks[other.task].executions
    BY <1>1, <1>3 DEF Request, EnforcerTypeOK, Task
  <2> QED
    BY <1>1, <1>3, <2>1 DEF Request, Listed, Registered
<1>4. ASSUME NEW a \in Account, NEW id \in ExecutionId, NEW depth \in ProofDepth,
             Register(a, id, depth)
      PROVE  Listed(other)'
  <2> DEFINE list == tasks[id.task].executions
  <2>1. ~Registered(id) /\ SlotsOf(list, id) = {} /\ list \in Seq(Slots)
    BY <1>1, <1>4 DEF Register, Listed
  <2>2. Registered(other)' <=> (Registered(other) \/ other = id)
    BY <1>4 DEF Register, Registered, Put
  <2>3. tasks'[other.task].executions =
            IF other.task = id.task THEN Append(list, id) ELSE tasks[other.task].executions
    BY <1>1, <1>4 DEF Register, EnforcerTypeOK, Task
  <2>4. SlotsOf(Append(list, id), other) =
            IF other = id THEN {Len(list) + 1} ELSE SlotsOf(list, other)
    BY <2>1, AppendSlot
  <2> HIDE DEF list
  <2>5. CASE other = id
    BY <2>2, <2>3, <2>4, <2>5 DEF Listed
  <2>6. CASE other # id
    BY <1>1, <2>2, <2>3, <2>4, <2>6 DEF Listed, list
  <2> QED
    BY <2>5, <2>6
<1>5. ASSUME NEW a \in Account, NEW id \in DOMAIN executions, NEW solverWon \in BOOLEAN,
             Result(id, solverWon, a)
      PROVE  Listed(other)'
  <2>1. CASE SolverWon(id, a)
    BY <1>2, <2>1 DEF SolverWon
  <2>2. CASE ChallengerWon(id, a)
    <3> DEFINE list == tasks[id.task].executions
    <3>1. id \in ExecutionId /\ Registered(id) /\ list \in Seq(Slots)
      BY <1>1 DEF EnforcerTypeOK, Registered
    <3>2. PICK slot : SlotsOf(list, id) = {slot}
      BY <1>1, <3>1 DEF Listed
    <3>3. Registered(other)' <=> (Registered(other) /\ other # id)
      BY <2>2 DEF ChallengerWon, Registered, Delete
    <3>4. tasks'[other.task].executions =
              IF other.task = id.task THEN ClearSlot(list, id) ELSE tasks[other.task].executions
      BY <1>1, <2>2, <3>1 DEF ChallengerWon, EnforcerTypeOK, Task
    <3>5. /\ other = id => SlotsOf(ClearSlot(list, id), other) = {}
          /\ other # id => SlotsOf(ClearSlot(list, id), other) = SlotsOf(list, other)
      <4> HIDE DEF list
      <4> QED
        BY <3>1, <3>2, ClearSlotOnce, Z3
    <3> HIDE DEF list
    <3>6. CASE other = id
      BY <3>3, <3>4, <3>5, <3>6 DEF Listed
    <3>7. CASE other # id
      BY <1>1, <3>3, <3>4, <3>5, <3>7 DEF Listed, list
    <3> QED
      BY <3>6, <3>7
  <2> QED
    BY <1>5, <2>1, <2>2 DEF Result
<1> QED
  BY <1>2, <1>3, <1>4, <1>5 DEF EnforcerNext, enforcerVars, ChargeChallenger

\* An execution is registered exactly while its task's list names it, once: for
\* getStatus no push, first-match clearing or re-registration leaves a ghost.
THEOREM TaskListsAlwaysMatch == EnforcerSpec => []TaskListsMatch
<1>1. EnforcerInit => EnforcerTypeOK /\ TaskListsMatch
  BY InitTypeOK, InitListsMatch
<1>2. EnforcerTypeOK /\ TaskListsMatch /\ [EnforcerNext]_<<now, enforcerVars>>
          => EnforcerTypeOK' /\ TaskListsMatch'
  BY StepTypeOK, StepListsMatch
<1> QED
  BY <1>1, <1>2, PTL DEF EnforcerSpec

-----------------------------------------------------------------------------
(***************************************************************************)
(* The periods of tasks and executions.                                    *)
(***************************************************************************)

\* What register's guard makes of an execution's and its task's start: the execution's
\* challenge period ends one more challenge period before its task does.
ChallengeEndsBeforeTask ==
    \A id \in ExecutionId : Registered(id) =>
        /\ tasks[id.task].startTime # 0
        /\ executions[id].startTime <= now
        /\ executions[id].startTime + 2 * challengePeriod
               < tasks[id.task].startTime + taskPeriod

\* No step changes either time while the execution is registered.
LEMMA StepEndsBeforeTask ==
    EnforcerTypeOK /\ ChallengeEndsBeforeTask /\ [EnforcerNext]_<<now, enforcerVars>>
        => ChallengeEndsBeforeTask'
<1> SUFFICES ASSUME EnforcerTypeOK, ChallengeEndsBeforeTask,
                    [EnforcerNext]_<<now, enforcerVars>>,
                    NEW e \in ExecutionId, Registered(e)'
             PROVE  /\ tasks'[e.task].startTime # 0
                    /\ executions'[e].startTime <= now'
                    /\ executions'[e].startTime + 2 * challengePeriod
                           < tasks'[e.task].startTime + taskPeriod
  BY DEF ChallengeEndsBeforeTask
<1> DEFINE Kept == /\ Registered(e)
                   /\ executions'[e] = executions[e]
                   /\ tasks'[e.task].startTime = tasks[e.task].startTime
<1>1. e.task \in TaskHash /\ now \in Nat /\ now' \in Nat /\ now <= now'
  BY DEF ExecutionId, EnforcerTypeOK, EnforcerNext, Tick, enforcerVars
<1>2. CASE Kept
  <2>1. executions[e].startTime \in Nat
    BY <1>2 DEF EnforcerTypeOK, ExecutionResult, Registered
  <2> QED
    BY <1>1, <1>2, <2>1 DEF ChallengeEndsBeforeTask
<1>3. CASE UNCHANGED <<tasks, executions>>
  BY <1>2, <1>3 DEF Registered
<1>4. ASSUME NEW t \in TaskHash, Request(t) PROVE Kept
  <2>1. Registered(e) /\ executions'[e] = executions[e]
    BY <1>4 DEF Request, Registered
  <2>2. t # e.task
    BY <1>4, <2>1 DEF Request, ChallengeEndsBeforeTask
  <2> QED
    BY <1>1, <1>4, <2>1, <2>2 DEF Request, EnforcerTypeOK
<1>5. ASSUME NEW a \in Account, NEW id \in ExecutionId, NEW depth \in ProofDepth,
             Register(a, id, depth), now' = now
      PROVE  Kept \/ e = id
  BY <1>1, <1>5 DEF Register, Registered, Put, EnforcerTypeOK, Task
<1>6. ASSUME NEW a \in Account, NEW id \in ExecutionId, NEW depth \in ProofDepth,
             Register(a, id, depth), now' = now, e = id
      PROVE  /\ tasks'[e.task].startTime # 0
             /\ executions'[e].startTime <= now'
             /\ executions'[e].startTime + 2 * challengePeriod
                    < tasks'[e.task].startTime + taskPeriod
  <2>1. tasks'[e.task].startTime = tasks[e.task].startTime
    BY <1>1, <1>6 DEF Register, EnforcerTypeOK, Task
  <2>2. executions'[e].startTime = now
    BY <1>6 DEF Register, Put
  <2> QED
    BY <1>1, <1>6, <2>1, <2>2 DEF Register, RegistrationOpen
<1>7. ASSUME NEW a \in Account, NEW id \in DOMAIN executions, NEW solverWon \in BOOLEAN,
             Result(id, solverWon, a), ~UNCHANGED <<tasks, executions>>
      PROVE  Kept
  <2>1. ChallengerWon(id, a)
    BY <1>7 DEF Result, SolverWon
  <2> QED
    BY <1>1, <2>1 DEF ChallengerWon, Registered, Delete, EnforcerTypeOK, Task
<1> QED
  BY <1>2, <1>3, <1>4, <1>5, <1>6, <1>7 DEF EnforcerNext, enforcerVars, ChargeChallenger

\* What is stored about a registered execution is not changed, only deleted and
\* stored anew.
LEMMA ExecutionsKept ==
    ASSUME [EnforcerNext]_<<now, enforcerVars>>, NEW x \in DOMAIN executions'
    PROVE  \/ x \in DOMAIN executions /\ executions'[x] = executions[x]
           \/ executions'[x].startTime = now
<1>1. CASE UNCHANGED executions
  BY <1>1
<1>2. ASSUME NEW a \in Account, NEW id \in ExecutionId, NEW depth \in ProofDepth,
             Register(a, id, depth)
      PROVE  \/ x \in DOMAIN executions /\ executions'[x] = executions[x]
             \/ executions'[x].startTime = now
  BY <1>2 DEF Register, Put
<1>3. ASSUME NEW a \in Account, NEW id \in DOMAIN executions, ChallengerWon(id, a)
      PROVE  x \in DOMAIN executions /\ executions'[x] = executions[x]
  BY <1>3 DEF ChallengerWon, Delete
<1> QED
  BY <1>1, <1>2, <1>3
  DEF EnforcerNext, enforcerVars, Request, ChargeChallenger, Result, SolverWon

\* The two invariants the finality of a task's status rests on.
LEMMA PeriodsInvariant == EnforcerSpec => [](EnforcerTypeOK /\ ChallengeEndsBeforeTask)
<1>1. EnforcerInit => ChallengeEndsBeforeTask
  BY DEF EnforcerInit, ChallengeEndsBeforeTask, Registered, NoEntries
<1> QED
  BY <1>1, InitTypeOK, StepTypeOK, StepEndsBeforeTask, PTL DEF EnforcerSpec

\* A settled task has no open registration and no execution in its challenge
\* period, so no step touches its list.
LEMMA SettledUntouched ==
    ASSUME EnforcerTypeOK, ChallengeEndsBeforeTask, [EnforcerNext]_<<now, enforcerVars>>,
           NEW t \in TaskHash, Settled(t)
    PROVE  tasks'[t] = tasks[t]
<1>1. now \in Nat /\ tasks[t].startTime \in Nat /\ tasks[t].startTime # 0
  BY DEF EnforcerTypeOK, Task, Settled
<1>2. CASE UNCHANGED tasks
  BY <1>2
<1>3. ASSUME NEW u \in TaskHash, Request(u) PROVE tasks'[t] = tasks[t]
  BY <1>1, <1>3 DEF Request, EnforcerTypeOK
<1>4. ASSUME NEW a \in Account, NEW id \in ExecutionId, NEW depth \in ProofDepth,
             Register(a, id, depth)
      PROVE  tasks'[t] = tasks[t]
  <2>1. id.task # t
    <3>1. now + 2 * challengePeriod < tasks[id.task].startTime + taskPeriod
      BY <1>4 DEF Register, RegistrationOpen
    <3>2. now + challengePeriod >= tasks[t].startTime + taskPeriod
      BY DEF Settled
    <3>3. \A e \in Nat : now + challengePeriod >= e => ~(now + 2 * challengePeriod < e)
      BY <1>1, ParameterAssumption
    <3>4. tasks[t].startTime + taskPeriod \in Nat
      BY <1>1, ParameterAssumption
    <3> QED
      BY <3>1, <3>2, <3>3, <3>4
  <2> QED
    BY <1>4, <2>1 DEF Register, EnforcerTypeOK
<1>5. ASSUME NEW id \in DOMAIN executions, InChallengePeriod(id) PROVE id.task # t
  <2>1. /\ executions[id].startTime \in Nat
        /\ executions[id].startTime + 2 * challengePeriod
               < tasks[id.task].startTime + taskPeriod
    BY DEF EnforcerTypeOK, ExecutionResult, ChallengeEndsBeforeTask, Registered
  <2> QED
    BY <1>1, <1>5, <2>1, ParameterAssumption DEF InChallengePeriod, Settled
<1>6. ASSUME NEW a \in Account, NEW id \in DOMAIN executions, NEW solverWon \in BOOLEAN,
             Result(id, solverWon, a)
      PROVE  tasks'[t] = tasks[t]
  BY <1>5, <1>6 DEF Result, SolverWon, ChallengerWon, EnforcerTypeOK
<1> QED
  BY <1>2, <1>3, <1>4, <1>6 DEF EnforcerNext, enforcerVars, ChargeChallenger

\* What getStatus reports is final one challenge period before the task's end.
THEOREM StatusBecomesFinal == EnforcerSpec => StatusIsFinal
<1> DEFINE FinalStep == \A t \in TaskHash : Settled(t) => GetStatus(t)' = GetStatus(t)
<1>1. EnforcerTypeOK /\ ChallengeEndsBeforeTask /\ [EnforcerNext]_<<now, enforcerVars>>
          => [FinalStep]_<<now, enforcerVars>>
  <2> SUFFICES ASSUME EnforcerTypeOK, ChallengeEndsBeforeTask,
                      [EnforcerNext]_<<now, enforcerVars>>,
                      NEW t \in TaskHash, Settled(t)
               PROVE  GetStatus(t)' = GetStatus(t)
    OBVIOUS
  <2>1. tasks'[t] = tasks[t]
    BY SettledUntouched
  <2> QED
    BY <2>1 DEF GetStatus
<1> QED
  BY <1>1, PeriodsInvariant, PTL DEF EnforcerSpec, StatusIsFinal

-----------------------------------------------------------------------------
(***************************************************************************)
(* The registry implements the task board.                                 *)
(***************************************************************************)

\* A phase is left only for a later one.
LEMMA PhasesAdvance ==
    ASSUME EnforcerTypeOK, NEW t \in TaskHash, now' \in Nat, now <= now',
           tasks'[t].startTime = tasks[t].startTime
    PROVE  IF Phase(t) = "none" THEN Phase(t)' = "none" ELSE Phase(t)' \in Board!Before(Phase(t))
<1>1. now \in Nat /\ tasks[t].startTime \in Nat
  BY DEF EnforcerTypeOK, Task
<1>2. CASE tasks[t].startTime = 0
  BY <1>2 DEF Phase
<1>3. CASE tasks[t].startTime # 0
  <2>1. RegistrationOpen(t)' => RegistrationOpen(t)
    BY <1>1, ParameterAssumption DEF RegistrationOpen
  <2>2. Settled(t) => Settled(t)'
    BY <1>1, <1>3, ParameterAssumption DEF Settled
  <2>3. RegistrationOpen(t) => ~Settled(t)
    BY <1>1, ParameterAssumption DEF RegistrationOpen, Settled
  <2>4. CASE Phase(t) = "open"
    BY <1>3, <2>4 DEF Phase, Board!Before
  <2>5. CASE Phase(t) = "closing"
    BY <1>3, <2>1, <2>5 DEF Phase, Board!Before
  <2>6. CASE Phase(t) = "closed"
    BY <1>3, <2>1, <2>2, <2>3, <2>6 DEF Phase, Board!Before
  <2> QED
    BY <1>3, <2>4, <2>5, <2>6 DEF Phase
<1> QED
  BY <1>2, <1>3

\* Listed executions of a list, as a set.
Members(list) == {list[i] : i \in DOMAIN list} \ {EmptySlot}

\* Appending posts one execution, clearing refutes one.
LEMMA MembersChange ==
    ASSUME NEW list \in Seq(Slots), NEW id \in ExecutionId
    PROVE  /\ Members(Append(list, id)) = Members(list) \cup {id}
           /\ \A slot : SlotsOf(list, id) = {slot} =>
                  Members(ClearSlot(list, id)) = Members(list) \ {id}
<1>1. Len(list) \in Nat /\ DOMAIN list = 1 .. Len(list)
  BY LenProperties
<1>2. /\ DOMAIN Append(list, id) = 1 .. Len(list) + 1
      /\ \A i \in 1 .. Len(list) : Append(list, id)[i] = list[i]
      /\ Append(list, id)[Len(list) + 1] = id
  BY <1>1 DEF Slots
<1>3. \A i : i \in 1 .. Len(list) + 1 <=> i \in 1 .. Len(list) \/ i = Len(list) + 1
  BY <1>1
<1>4. Members(Append(list, id)) = Members(list) \cup {id}
  BY <1>1, <1>2, <1>3, SlotAssumption DEF Members
<1>5. ASSUME NEW slot, SlotsOf(list, id) = {slot}
      PROVE  Members(ClearSlot(list, id)) = Members(list) \ {id}
  <2>1. DOMAIN ClearSlot(list, id) = 1 .. Len(list)
    BY ClearSlotShape, LenProperties
  <2>2. \A i \in 1 .. Len(list) : list[i] = id <=> i = slot
    BY <1>1, <1>5 DEF SlotsOf
  <2>3. slot \in 1 .. Len(list)
    BY <1>1, <1>5 DEF SlotsOf
  <2>4. \A j \in 1 .. (slot - 1) : list[j] # id
    BY <1>1, <2>2, <2>3
  <2>5. \A i \in 1 .. Len(list) :
            ClearSlot(list, id)[i] = IF i = slot THEN EmptySlot ELSE list[i]
    BY <2>2, <2>4, ClearSlotShape
  <2> QED
    BY <1>1, <2>1, <2>2, <2>5 DEF Members
<1> QED
  BY <1>4, <1>5

\* Standing is the set of members of a task's list.
LEMMA StandingMembers ==
    \A t : /\ Standing(t) = Members(tasks[t].executions)
           /\ Standing(t)' = Members(tasks'[t].executions)
BY DEF Standing, Members

\* The registry starts as an empty board.
LEMMA InitRefines == EnforcerInit => Board!Init
<1> SUFFICES ASSUME EnforcerInit PROVE Board!Init
  OBVIOUS
<1>1. \A t \in TaskHash : tasks[t].startTime = 0 /\ tasks[t].executions = <<>>
  BY DEF EnforcerInit, NoTask
<1>2. phaseBar = [t \in TaskHash |-> "none"]
  BY <1>1 DEF phaseBar, Phase
<1>3. standingBar = [t \in TaskHash |-> {}]
  BY <1>1 DEF standingBar, Standing
<1> QED
  BY <1>2, <1>3 DEF Board!Init

\* Every step of the registry is one of the board or changes nothing on it.
LEMMA StepRefines ==
    EnforcerTypeOK /\ TaskListsMatch /\ ChallengeEndsBeforeTask
        /\ [EnforcerNext]_<<now, enforcerVars>>
    => [Board!Next]_<<phaseBar, standingBar>>
<1> SUFFICES ASSUME EnforcerTypeOK, TaskListsMatch, ChallengeEndsBeforeTask,
                    [EnforcerNext]_<<now, enforcerVars>>
             PROVE  [Board!Next]_<<phaseBar, standingBar>>
  OBVIOUS
<1>1. /\ now \in Nat
      /\ \A t \in TaskHash : /\ tasks[t].startTime \in Nat
                             /\ tasks[t].executions \in Seq(Slots)
  BY DEF EnforcerTypeOK, Task, Slots
<1>2. CASE Tick /\ UNCHANGED enforcerVars
  <2>1. now' \in Nat /\ now <= now' /\ tasks' = tasks
    BY <1>1, <1>2 DEF Tick, enforcerVars
  <2>2. \A t \in TaskHash :
            IF Phase(t) = "none" THEN Phase(t)' = "none"
                                 ELSE Phase(t)' \in Board!Before(Phase(t))
    BY <2>1, PhasesAdvance
  <2>3. phaseBar' \in [TaskHash -> {"none", "open", "closing", "closed"}]
    BY DEF phaseBar, Phase
  <2>4. UNCHANGED standingBar
    BY <2>1 DEF standingBar, Standing
  <2> QED
    BY <2>2, <2>3, <2>4 DEF phaseBar, Board!Next, Board!TimePasses
<1>3. ASSUME NEW t \in TaskHash, Request(t), UNCHANGED now PROVE Board!Request(t)
  <2>1. /\ \A u \in TaskHash : tasks'[u].executions = tasks[u].executions
        /\ \A u \in TaskHash \ {t} : tasks'[u].startTime = tasks[u].startTime
    BY <1>3 DEF Request, EnforcerTypeOK, Task
  <2>2. UNCHANGED standingBar
    BY <2>1 DEF standingBar, Standing
  <2>3. tasks'[t].startTime # 0
    BY <1>1, <1>3 DEF Request, EnforcerTypeOK, Task
  <2>4. Phase(t)' \in {"open", "closing", "closed"}
    BY <2>3 DEF Phase
  <2>5. \A u \in TaskHash \ {t} : Phase(u)' = Phase(u)
    BY <1>3, <2>1 DEF Phase, RegistrationOpen, Settled
  <2>6. Phase(t) = "none"
    BY <1>3 DEF Request, Phase
  <2> QED
    BY <2>2, <2>4, <2>5, <2>6 DEF phaseBar, Board!Request
<1>4. ASSUME \A t \in TaskHash : tasks'[t].startTime = tasks[t].startTime, UNCHANGED now
      PROVE  UNCHANGED phaseBar
  BY <1>4 DEF phaseBar, Phase, RegistrationOpen, Settled
<1>5. ASSUME NEW a \in Account, NEW id \in ExecutionId, NEW depth \in ProofDepth,
             Register(a, id, depth), UNCHANGED now
      PROVE  Board!Post(id.task, id)
  <2>1. id.task \in TaskHash
    BY DEF ExecutionId
  <2>2. \A t \in TaskHash :
            /\ tasks'[t].startTime = tasks[t].startTime
            /\ tasks'[t].executions = IF t = id.task THEN Append(tasks[t].executions, id)
                                                     ELSE tasks[t].executions
    BY <1>5, <2>1 DEF Register, EnforcerTypeOK, Task
  <2>3. Members(Append(tasks[id.task].executions, id))
            = Members(tasks[id.task].executions) \cup {id}
    BY <1>1, <2>1, MembersChange
  <2>4. \A t \in TaskHash :
            Standing(t)' = IF t = id.task THEN Standing(t) \cup {id} ELSE Standing(t)
    BY <2>2, <2>3, StandingMembers
  <2>5. Phase(id.task) = "open"
    BY <1>5 DEF Register, Phase
  <2> QED
    BY <1>4, <1>5, <2>1, <2>2, <2>4, <2>5 DEF standingBar, phaseBar, Board!Post
<1>6. ASSUME NEW a \in Account, NEW id \in DOMAIN executions, NEW solverWon \in BOOLEAN,
             Result(id, solverWon, a), ChallengerWon(id, a), UNCHANGED now
      PROVE  Board!Refute(id.task, id)
  <2>1. id \in ExecutionId /\ id.task \in TaskHash /\ Registered(id)
    BY DEF EnforcerTypeOK, ExecutionId, Registered
  <2>2. \A t \in TaskHash :
            /\ tasks'[t].startTime = tasks[t].startTime
            /\ tasks'[t].executions = IF t = id.task THEN ClearSlot(tasks[t].executions, id)
                                                     ELSE tasks[t].executions
    BY <1>6, <2>1 DEF ChallengerWon, EnforcerTypeOK, Task
  <2>3. PICK slot : SlotsOf(tasks[id.task].executions, id) = {slot}
    BY <2>1, ListedEach DEF Listed
  <2>4. Members(ClearSlot(tasks[id.task].executions, id))
            = Members(tasks[id.task].executions) \ {id}
    BY <1>1, <2>1, <2>3, MembersChange
  <2>5. \A t \in TaskHash :
            Standing(t)' = IF t = id.task THEN Standing(t) \ {id} ELSE Standing(t)
    BY <2>2, <2>4, StandingMembers
  <2>6. Phase(id.task) \in {"open", "closing"}
    <3>1. ~Settled(id.task)
      <4>1. /\ executions[id].startTime \in Nat
            /\ executions[id].startTime + 2 * challengePeriod
                   < tasks[id.task].startTime + taskPeriod
            /\ executions[id].startTime + challengePeriod > now
        BY <1>6, <2>1 DEF EnforcerTypeOK, ExecutionResult, ChallengeEndsBeforeTask,
                          Result, InChallengePeriod
      <4> QED
        BY <1>1, <2>1, <4>1, ParameterAssumption DEF Settled
    <3>2. tasks[id.task].startTime # 0
      BY <2>1 DEF ChallengeEndsBeforeTask
    <3> QED
      BY <3>1, <3>2 DEF Phase
  <2> QED
    BY <1>4, <1>6, <2>1, <2>2, <2>5, <2>6 DEF standingBar, phaseBar, Board!Refute
<1>7. CASE UNCHANGED <<now, tasks>>
  BY <1>4, <1>7 DEF standingBar, Standing
<1>8. CASE \E id \in DOMAIN executions, a \in Account, solverWon \in BOOLEAN :
               Result(id, solverWon, a) /\ UNCHANGED now
  <2>1. PICK id \in DOMAIN executions, a \in Account, solverWon \in BOOLEAN :
            Result(id, solverWon, a) /\ UNCHANGED now
    BY <1>8
  <2>2. id \in ExecutionId /\ id.task \in TaskHash
    BY DEF EnforcerTypeOK, ExecutionId
  <2>3. CASE SolverWon(id, a)
    BY <1>7, <2>1, <2>3 DEF SolverWon
  <2>4. CASE ChallengerWon(id, a)
    BY <1>6, <2>1, <2>2, <2>4 DEF Board!Next
  <2> QED
    BY <2>1, <2>3, <2>4 DEF Result
<1>9. ASSUME NEW t \in TaskHash, Request(t), UNCHANGED now PROVE Board!Next
  BY <1>3, <1>9 DEF Board!Next
<1>10. ASSUME NEW a \in Account, NEW id \in ExecutionId, NEW depth \in ProofDepth,
              Register(a, id, depth), UNCHANGED now
       PROVE  Board!Next
  <2>1. id.task \in TaskHash
    BY DEF ExecutionId
  <2> QED
    BY <1>5, <1>10, <2>1 DEF Board!Next
<1> QED
  BY <1>2, <1>7, <1>8, <1>9, <1>10 DEF EnforcerNext, enforcerVars, ChargeChallenger

\* The registry implements the task board: executions join a task only while it
\* is open and leave it only before it is closed.
THEOREM RegistryImplementsBoard == EnforcerSpec => ImplementsBoard
<1>1. EnforcerSpec => [](EnforcerTypeOK /\ TaskListsMatch /\ ChallengeEndsBeforeTask)
  BY PeriodsInvariant, TaskListsAlwaysMatch, PTL
<1> QED
  BY <1>1, InitRefines, StepRefines, PTL DEF EnforcerSpec, ImplementsBoard, Board!Spec

-----------------------------------------------------------------------------
\* The two contracts together.

\* What a move may make of the record of a dispute, when it reports `verdict`:
\* it ends the game, or keeps depth and deadline, or is a round played in time.
Move(d, r, verdict) ==
    /\ r \in DisputeRecord
    /\ r.challengerAddr = d.challengerAddr
    /\ "SOLVER_VERIFIED" \in r.state <=> verdict = "solver"
    /\ \/ r.state \cap VERIFIED # {}
       \/ r.treeDepth = d.treeDepth /\ r.timeout = d.timeout /\ d.state \subseteq r.state
       \/ /\ d.treeDepth > 0
          /\ now <= d.timeout
          /\ r.treeDepth = d.treeDepth - 1
          /\ r.timeout = now + timeoutDuration

\* The response is recorded and nothing else.
LEMMA ReceivedMove ==
    ASSUME NEW d \in DisputeRecord, d.state \cap VERIFIED = {}, NEW h \in DOMAIN Open
    PROVE  LET r == Received(d, h, Open[h])
           IN  /\ r \in DisputeRecord
               /\ r.challengerAddr = d.challengerAddr
               /\ r.treeDepth = d.treeDepth
               /\ r.timeout = d.timeout
               /\ r.witness = d.witness
               /\ d.state \subseteq r.state
               /\ r.state \cap VERIFIED = {}
<1> DEFINE r == Received(d, h, Open[h])
<1>1. Open[h] \in ComputationPath
  BY HashAssumption
<1>2. r.state \subseteq d.state \cup RESPONDED /\ r.state \in SUBSET Flag
  BY DEF Received, DisputeRecord, RESPONDED, Flag
<1>3. r.state \cap VERIFIED = {}
  BY <1>2 DEF RESPONDED, VERIFIED
<1>4. r \in DisputeRecord
  BY <1>1, <1>2 DEF Received, DisputeRecord
<1> QED
  BY <1>3, <1>4 DEF Received, DisputeRecord

\* A verdict sets its flag and nothing else.
LEMMA ResolvedMove ==
    ASSUME NEW d \in DisputeRecord, d.state \cap VERIFIED = {},
           NEW verdict \in {"solver", "challenger"}
    PROVE  Move(d, Resolved(d, verdict), verdict)
<1>1. Resolved(d, verdict).state =
          d.state \cup (IF verdict = "solver" THEN {"SOLVER_VERIFIED"}
                                              ELSE {"CHALLENGER_VERIFIED"})
  BY DEF Resolved, DisputeRecord
<1>2. Resolved(d, verdict) \in DisputeRecord
  BY DEF Resolved, DisputeRecord, Flag
<1> QED
  BY <1>1, <1>2 DEF Move, Resolved, DisputeRecord, VERIFIED

\* A round goes one level down and starts the clock anew.
LEMMA NextRoundMove ==
    ASSUME NEW d \in DisputeRecord, d.state \cap VERIFIED = {}, d.treeDepth > 0,
           now \in Nat, now <= d.timeout, WitnessOpened(d)
    PROVE  Move(d, NextRound(d), "none")
<1> DEFINE r == [d EXCEPT !.witness = NextWitness(d),
                          !.timeout = getTimeout,
                          !.state = @ \ RESPONDED,
                          !.treeDepth = @ - 1]
<1>1. NextWitness(d) \in Hash
  BY HashAssumption DEF NextWitness, WitnessOpened, DisputeRecord, ComputationPath
<1>2. getTimeout \in Nat
  BY ParameterAssumption DEF getTimeout
<1>3. r \in DisputeRecord
  <2>1. d.treeDepth - 1 \in Nat /\ d.state \ RESPONDED \in SUBSET Flag
    BY DEF DisputeRecord
  <2> QED
    BY <1>1, <1>2, <2>1 DEF DisputeRecord
<1>4. /\ r.challengerAddr = d.challengerAddr
      /\ r.treeDepth = d.treeDepth - 1
      /\ r.timeout = now + timeoutDuration
      /\ r.state = d.state \ RESPONDED
  BY DEF DisputeRecord, getTimeout
<1>5. NextRound(d) = GoRight(r) \/ NextRound(d) = GoLeft(r)
  BY DEF NextRound
<1> HIDE DEF r
<1>6. /\ GoRight(r) \in DisputeRecord
      /\ GoRight(r).challengerAddr = r.challengerAddr
      /\ GoRight(r).treeDepth = r.treeDepth
      /\ GoRight(r).timeout = r.timeout
      /\ GoRight(r).state \subseteq r.state
  BY <1>3 DEF GoRight, DisputeRecord, ComputationPath
<1>7. /\ GoLeft(r) \in DisputeRecord
      /\ GoLeft(r).challengerAddr = r.challengerAddr
      /\ GoLeft(r).treeDepth = r.treeDepth
      /\ GoLeft(r).timeout = r.timeout
      /\ GoLeft(r).state \subseteq r.state
  BY <1>3 DEF GoLeft, DisputeRecord, ComputationPath
<1>8. "SOLVER_VERIFIED" \notin NextRound(d).state
  BY <1>4, <1>5, <1>6, <1>7 DEF VERIFIED
<1> QED
  BY <1>4, <1>5, <1>6, <1>7, <1>8 DEF Move

-----------------------------------------------------------------------------
\* A move in the game `id` makes r of its record and reports `verdict`.
Played(id, r, verdict) ==
    /\ Unresolved(id)
    /\ disputes' = [disputes EXCEPT ![id] = r]
    /\ Move(disputes[id], r, verdict)
    /\ Notify(id, verdict)

\* What a player can do, and the verdict it has.
PlayWith(id, verdict) ==
    \/ \E h : Respond(id, h, verdict)
    \/ \E input \in StateHash : \E o \in Outcomes[id.execution.task][input] :
           SubmitProof(id, input, o, verdict)
    \/ ClaimTimeout(id, verdict)

\* respond, submitProof and claimTimeout: each changes the record of one dispute
\* that is not resolved, by a Move, and reports the verdict of that move, if any,
\* to the Enforcer.
LEMMA PlayWithStep ==
    ASSUME TypeOK, NEW id \in DOMAIN disputes, NEW verdict \in Verdict,
           PlayWith(id, verdict), Notify(id, verdict)
    PROVE  \E r \in DisputeRecord : Played(id, r, verdict)
<1> DEFINE d == disputes[id]
           Goal == \E r \in DisputeRecord : Played(id, r, verdict)
<1>1. d \in DisputeRecord /\ now \in Nat
  BY DEF TypeOK, EnforcerTypeOK
<1>2. ASSUME NEW h, Respond(id, h, verdict)
      PROVE  Goal
  <2> DEFINE r == Received(d, h, Open[h])
  <2>1. /\ h \in DOMAIN Open
        /\ d.treeDepth > 0
        /\ now <= d.timeout
        /\ Unresolved(id)
        /\ d.state \cap VERIFIED = {}
        /\ UpdateRound(id, r, verdict)
    BY <1>2 DEF Respond, Playing, AboveLeaf, Unresolved
  <2>2. /\ r \in DisputeRecord
        /\ r.challengerAddr = d.challengerAddr
        /\ r.treeDepth = d.treeDepth
        /\ r.timeout = d.timeout
        /\ d.state \subseteq r.state
        /\ r.state \cap VERIFIED = {}
    BY <1>1, <2>1, ReceivedMove
  <2> HIDE DEF r, d
  <2>3. CASE verdict = "none" /\ disputes' = [disputes EXCEPT ![id] = r]
    <3>1. Move(d, r, "none")
      BY <2>2 DEF Move, VERIFIED
    <3>2. Played(id, r, verdict)
      BY <1>2, <2>1, <2>3, <3>1 DEF Played, d
    <3> QED
      BY <3>1, <3>2 DEF Move
  <2>4. CASE /\ verdict = ZeroLeftVerdict(r) /\ verdict # "none"
             /\ disputes' = [disputes EXCEPT ![id] = Resolved(r, verdict)]
    <3>1. verdict \in {"solver", "challenger"}
      BY <2>4 DEF Verdict
    <3>2. Move(r, Resolved(r, verdict), verdict)
      BY <2>2, <3>1, ResolvedMove
    <3>3. Resolved(r, verdict).state \cap VERIFIED # {}
      BY <2>2, <3>1 DEF Resolved, DisputeRecord, VERIFIED
    <3>4. Move(d, Resolved(r, verdict), verdict)
      BY <2>2, <3>2, <3>3 DEF Move
    <3>5. Played(id, Resolved(r, verdict), verdict)
      BY <1>2, <2>1, <2>4, <3>4 DEF Played, d
    <3> QED
      BY <3>4, <3>5 DEF Move
  <2>5. CASE /\ verdict = "none" /\ WitnessOpened(r)
             /\ disputes' = [disputes EXCEPT ![id] = NextRound(r)]
    <3>1. Move(r, NextRound(r), "none")
      BY <1>1, <2>1, <2>2, <2>5, NextRoundMove
    <3>2. Move(d, NextRound(r), "none")
      BY <2>2, <3>1 DEF Move
    <3>3. Played(id, NextRound(r), verdict)
      BY <1>2, <2>1, <2>5, <3>2 DEF Played, d
    <3> QED
      BY <3>2, <3>3 DEF Move
  <2> QED
    BY <2>1, <2>3, <2>4, <2>5 DEF UpdateRound
<1>3. ASSUME NEW input, NEW o, SubmitProof(id, input, o, verdict)
      PROVE  Goal
  <2> DEFINE r == [d EXCEPT !.state = @ \cup Proven(d, o)]
  <2>1. Unresolved(id) /\ d.state \cap VERIFIED = {}
    BY <1>3 DEF SubmitProof, Playing, Unresolved
  <2>2. Proven(d, o) \subseteq VERIFIED
    BY DEF Proven, VERIFIED
  <2>3. disputes' = [disputes EXCEPT ![id] = r]
    BY <1>3 DEF SubmitProof
  <2>4. /\ r \in DisputeRecord
        /\ r.challengerAddr = d.challengerAddr
        /\ r.treeDepth = d.treeDepth
        /\ r.timeout = d.timeout
        /\ r.state = d.state \cup Proven(d, o)
    BY <1>1, <2>2 DEF DisputeRecord, VERIFIED, Flag
  <2>5. "SOLVER_VERIFIED" \in r.state <=> verdict = "solver"
    BY <1>3, <2>1, <2>4 DEF SubmitProof, VERIFIED
  <2>6. Move(d, r, verdict)
    <3> HIDE DEF r, d
    <3> QED
      BY <2>4, <2>5 DEF Move
  <2> HIDE DEF r, d
  <2>7. Played(id, r, verdict)
    BY <1>3, <2>1, <2>3, <2>6 DEF Played, d
  <2> QED
    BY <2>6, <2>7 DEF Move
<1>4. CASE ClaimTimeout(id, verdict)
  <2>1. /\ Unresolved(id)
        /\ d.state \cap VERIFIED = {}
        /\ verdict \in {"solver", "challenger"}
        /\ disputes' = [disputes EXCEPT ![id] = Resolved(d, verdict)]
    BY <1>4 DEF ClaimTimeout, Unresolved, TimeoutWinner
  <2>2. Move(d, Resolved(d, verdict), verdict)
    BY <1>1, <2>1, ResolvedMove
  <2> HIDE DEF d
  <2>3. Played(id, Resolved(d, verdict), verdict)
    BY <1>4, <2>1, <2>2 DEF Played, d
  <2> QED
    BY <2>2, <2>3 DEF Move
<1> QED
  BY <1>2, <1>3, <1>4 DEF PlayWith

\* Every move is one of these.
LEMMA PlayStep ==
    ASSUME TypeOK, NEW id \in DOMAIN disputes, Play(id)
    PROVE  \E r \in DisputeRecord, verdict \in Verdict :
               PlayWith(id, verdict) /\ Played(id, r, verdict)
<1>1. PICK verdict \in Verdict : PlayWith(id, verdict) /\ Notify(id, verdict)
  BY DEF Play, PlayWith
<1> QED
  BY <1>1, PlayWithStep

-----------------------------------------------------------------------------
(***************************************************************************)
(* The real verifier is one of the arbitrary verifiers of EnforcerSpec, so *)
(* what is proved of the registry holds in the composition.                *)
(***************************************************************************)

\* Every step of the composition is a step of the registry or leaves it alone.
LEMMA StepIsEnforcerStep ==
    TypeOK /\ [Next]_vars => [EnforcerNext]_<<now, enforcerVars>>
<1> SUFFICES ASSUME TypeOK, [Next]_vars PROVE [EnforcerNext]_<<now, enforcerVars>>
  OBVIOUS
<1>1. ASSUME NEW id \in DOMAIN disputes, Play(id), UNCHANGED now
      PROVE  [EnforcerNext]_<<now, enforcerVars>>
  <2>1. PICK r \in DisputeRecord, verdict \in Verdict : Played(id, r, verdict)
    BY <1>1, PlayStep
  <2>2. /\ disputes[id].challengerAddr \in Account
        /\ (verdict = "solver") \in BOOLEAN
    BY DEF TypeOK, DisputeRecord
  <2>3. CASE UNCHANGED enforcerVars
    BY <1>1, <2>3
  <2>4. CASE Result(id.execution, verdict = "solver", disputes[id].challengerAddr)
    <3>1. id.execution \in DOMAIN executions
      BY <2>4 DEF Result, Registered
    <3>2. EnforcerNext
      BY <1>1, <2>2, <2>4, <3>1, Zenon DEF EnforcerNext
    <3> QED
      BY <3>2
  <2> QED
    BY <2>1, <2>3, <2>4 DEF Played, Notify
<1>2. ASSUME NEW a \in Account, NEW execution \in DOMAIN executions,
             NEW root \in ChallengerRoot, Dispute(a, execution, root), UNCHANGED now
      PROVE  EnforcerNext
  BY <1>2 DEF Dispute, EnforcerNext
<1>3. CASE Tick /\ UNCHANGED <<enforcerVars, disputes>>
  BY <1>3 DEF EnforcerNext
<1>4. CASE UNCHANGED vars
  BY <1>4 DEF vars, enforcerVars
<1>5. ASSUME NEW t \in TaskHash, Request(t), UNCHANGED now PROVE EnforcerNext
  BY <1>5 DEF EnforcerNext
<1>6. ASSUME NEW a \in Account, NEW id \in ExecutionId, NEW depth \in ProofDepth,
             Register(a, id, depth), UNCHANGED now
      PROVE  EnforcerNext
  BY <1>6 DEF EnforcerNext
<1> QED
  BY <1>1, <1>2, <1>3, <1>4, <1>5, <1>6 DEF Next

\* A dispute that is opened has the right types and one round per level, and one
\* for the proof, before the challenge period ends.
LEMMA DisputeStep ==
    ASSUME TypeOK, NEW a \in Account, NEW execution \in DOMAIN executions,
           NEW root \in ChallengerRoot, Dispute(a, execution, root)
    PROVE  \E id \in DisputeId \ DOMAIN disputes, r \in DisputeRecord :
               /\ id.execution = execution
               /\ disputes' = Put(disputes, id, r)
               /\ r.challengerAddr = a
               /\ r.state \cap VERIFIED = {}
               /\ r.timeout + r.treeDepth * timeoutDuration
                      < executions[execution].startTime + challengePeriod
<1> DEFINE id == DisputeOf(execution, root)
           r == [challengerAddr |-> a,
                 solverPath |-> id.execution.root,
                 challengerPath |-> id.challengerRoot,
                 treeDepth |-> id.depth,
                 witness |-> Zero,
                 solver |-> [left |-> id.execution.root, right |-> id.execution.root],
                 challenger |-> [left |-> id.challengerRoot, right |-> id.challengerRoot],
                 state |-> INITIAL_STATE,
                 timeout |-> getTimeout]
<1>1. /\ execution \in ExecutionId
      /\ executions[execution] \in ExecutionResult
      /\ now \in Nat
  BY DEF TypeOK, EnforcerTypeOK
<1>2. id \in DisputeId
  BY <1>1 DEF DisputeOf, DisputeId, ExecutionResult
<1>3. id.execution = execution /\ id.depth = executions[execution].executionDepth
  BY DEF DisputeOf
<1>4. id \notin DOMAIN disputes /\ disputes' = Put(disputes, id, r)
  BY DEF Dispute, InitGame, Exists
<1>5. r.state \cap VERIFIED = {} /\ INITIAL_STATE \in SUBSET Flag
  BY DEF INITIAL_STATE, VERIFIED, Flag
<1>6. id.execution.root \in Hash /\ id.challengerRoot \in Hash
  BY <1>1, HashAssumption DEF DisputeOf, ExecutionId
<1>7. getTimeout \in Nat /\ id.depth \in Nat /\ Zero \in Hash
  BY <1>1, <1>2, HashAssumption, ParameterAssumption DEF getTimeout, DisputeId
<1>8. r \in DisputeRecord
  <2> HIDE DEF id
  <2> QED
    BY <1>5, <1>6, <1>7 DEF DisputeRecord, ComputationPath
<1>9. r.timeout + r.treeDepth * timeoutDuration
          < executions[execution].startTime + challengePeriod
  <2>1. executions[execution].startTime + challengePeriod
            > now + (id.depth + 1) * timeoutDuration
    BY <1>3 DEF Dispute, ChargeChallenger, LeavesTimeToPlay
  <2>2. (id.depth + 1) * timeoutDuration = id.depth * timeoutDuration + timeoutDuration
    BY <1>7, ParameterAssumption
  <2>3. id.depth * timeoutDuration \in Nat /\ executions[execution].startTime \in Nat
    BY <1>1, <1>7, ParameterAssumption DEF ExecutionResult
  <2> HIDE DEF id
  <2> QED
    BY <1>1, <2>1, <2>2, <2>3, ParameterAssumption DEF getTimeout
<1>10. r.challengerAddr = a
  OBVIOUS
<1> HIDE DEF r, id
<1> QED
  BY <1>2, <1>3, <1>4, <1>5, <1>8, <1>9, <1>10

\* Every step keeps the types of the disputes.
LEMMA GameStepTypeOK == TypeOK /\ [Next]_vars => TypeOK'
<1> SUFFICES ASSUME TypeOK, [Next]_vars PROVE TypeOK'
  OBVIOUS
<1>1. EnforcerTypeOK'
  BY StepIsEnforcerStep, StepTypeOK DEF TypeOK
<1> DEFINE DisputesOK == /\ DOMAIN disputes \subseteq DisputeId
                         /\ disputes \in [DOMAIN disputes -> DisputeRecord]
<1>2. CASE UNCHANGED disputes
  BY <1>1, <1>2 DEF TypeOK
<1>3. ASSUME NEW id \in DOMAIN disputes, Play(id) PROVE DisputesOK'
  <2>1. PICK r \in DisputeRecord, verdict \in Verdict : Played(id, r, verdict)
    BY <1>3, PlayStep
  <2> QED
    BY <2>1 DEF Played, TypeOK
<1>4. ASSUME NEW a \in Account, NEW execution \in DOMAIN executions,
             NEW root \in ChallengerRoot, Dispute(a, execution, root)
      PROVE  DisputesOK'
  <2>1. PICK id \in DisputeId \ DOMAIN disputes, r \in DisputeRecord :
            disputes' = Put(disputes, id, r)
    BY <1>4, DisputeStep
  <2> QED
    BY <2>1 DEF Put, TypeOK
<1> QED
  BY <1>1, <1>2, <1>3, <1>4 DEF Next, vars, TypeOK

\* Type correctness of both contracts' storage.
THEOREM TypeCorrect == Spec => []TypeOK
<1>1. Init => TypeOK
  BY InitTypeOK DEF Init, VerifierInit, NoEntries, TypeOK
<1> QED
  BY <1>1, GameStepTypeOK, PTL DEF Spec

\* The two contracts together implement the registry with an arbitrary verifier:
\* the theorems about the registry hold of them.
THEOREM ImplementsRegistry == Spec => EnforcerSpec
<1>1. Init => EnforcerInit
  BY DEF Init
<1> QED
  BY <1>1, TypeCorrect, StepIsEnforcerStep, PTL DEF Spec, EnforcerSpec

\* With the real verifier, too, the reported status of a task becomes final.
THEOREM StatusIsFinalInTheGame == Spec => StatusIsFinal
BY ImplementsRegistry, StatusBecomesFinal, PTL

-----------------------------------------------------------------------------
(***************************************************************************)
(* The rounds fit into the challenge period.  PlayFitsChallenge is not     *)
(* inductive: an execution that was deleted can be registered anew while a *)
(* dispute about it is still unresolved.  The invariant also bounds the    *)
(* latest end of every such dispute by a challenge period that started now. *)
(***************************************************************************)
LatestEnd(id) == disputes[id].timeout + disputes[id].treeDepth * timeoutDuration

FitsFromNow ==
    \A id \in DOMAIN disputes : Unresolved(id) => LatestEnd(id) < now + challengePeriod

Fits == FitsFromNow /\ PlayFitsChallenge

\* A move never makes a game that goes on end later.
LEMMA MoveEndsNoLater ==
    ASSUME TypeOK, NEW id \in DOMAIN disputes, NEW r \in DisputeRecord, NEW verdict,
           Move(disputes[id], r, verdict), r.state \cap VERIFIED = {}
    PROVE  r.timeout + r.treeDepth * timeoutDuration <= LatestEnd(id)
<1> DEFINE d == disputes[id]
<1>1. /\ now \in Nat /\ timeoutDuration \in Nat
      /\ d.treeDepth \in Nat /\ d.timeout \in Nat
      /\ r.treeDepth \in Nat /\ r.timeout \in Nat
  BY ParameterAssumption DEF TypeOK, EnforcerTypeOK, DisputeRecord
<1>2. LatestEnd(id) = d.timeout + d.treeDepth * timeoutDuration
  BY DEF LatestEnd
<1> HIDE DEF d
<1>3. CASE r.treeDepth = d.treeDepth /\ r.timeout = d.timeout
  BY <1>1, <1>2, <1>3
<1>4. CASE /\ d.treeDepth > 0
           /\ now <= d.timeout
           /\ r.treeDepth = d.treeDepth - 1
           /\ r.timeout = now + timeoutDuration
  <2>1. r.treeDepth * timeoutDuration = d.treeDepth * timeoutDuration - timeoutDuration
    BY <1>1, <1>4
  <2>2. d.treeDepth * timeoutDuration \in Nat
    BY <1>1
  <2> QED
    BY <1>1, <1>2, <1>4, <2>1, <2>2
<1> QED
  BY <1>3, <1>4 DEF Move, d

\* Every step keeps both bounds.
LEMMA FitsStep ==
    TypeOK /\ TypeOK' /\ ChallengeEndsBeforeTask /\ Fits /\ [Next]_vars => Fits'
<1> SUFFICES ASSUME TypeOK, TypeOK', ChallengeEndsBeforeTask, Fits, [Next]_vars,
                    NEW id \in DOMAIN disputes', Unresolved(id)'
             PROVE  /\ LatestEnd(id)' < now' + challengePeriod
                    /\ Registered(id.execution)' =>
                           LatestEnd(id)' < executions'[id.execution].startTime + challengePeriod
  BY DEF Fits, FitsFromNow, PlayFitsChallenge, LatestEnd
<1> DEFINE Goal == /\ LatestEnd(id)' < now' + challengePeriod
                   /\ Registered(id.execution)' =>
                          LatestEnd(id)' < executions'[id.execution].startTime + challengePeriod
<1>1. /\ now \in Nat /\ now' \in Nat /\ now <= now' /\ challengePeriod \in Nat
      /\ \A x \in DOMAIN executions : executions[x].startTime \in Nat /\ x \in ExecutionId
      /\ \A x \in DOMAIN executions' : executions'[x].startTime \in Nat
  <2>1. now <= now'
    BY DEF Next, Tick, vars, TypeOK, EnforcerTypeOK
  <2> QED
    BY <2>1, ParameterAssumption DEF TypeOK, EnforcerTypeOK, ExecutionResult
<1>2. LatestEnd(id)' \in Nat
  BY ParameterAssumption DEF LatestEnd, TypeOK, DisputeRecord
<1>3. \A x \in DOMAIN executions' :
          \/ x \in DOMAIN executions /\ executions'[x] = executions[x]
          \/ executions'[x].startTime = now
  BY StepIsEnforcerStep, ExecutionsKept
<1>4. ASSUME id \in DOMAIN disputes, Unresolved(id), LatestEnd(id)' <= LatestEnd(id)
      PROVE  Goal
  <2>1. LatestEnd(id) \in Nat
    BY <1>4, ParameterAssumption DEF LatestEnd, TypeOK, DisputeRecord
  <2>2. /\ LatestEnd(id) < now + challengePeriod
        /\ id.execution \in DOMAIN executions =>
               LatestEnd(id) < executions[id.execution].startTime + challengePeriod
    BY <1>4 DEF Fits, FitsFromNow, PlayFitsChallenge, LatestEnd, Registered
  <2>3. Registered(id.execution)' =>
            LatestEnd(id) < executions'[id.execution].startTime + challengePeriod
    BY <1>3, <2>2 DEF Registered
  <2> QED
    BY <1>1, <1>2, <1>4, <2>1, <2>2, <2>3 DEF Registered
<1>5. CASE UNCHANGED disputes
  <2>1. Unresolved(id) /\ LatestEnd(id)' = LatestEnd(id)
    BY <1>5 DEF Unresolved, Exists, LatestEnd
  <2> QED
    BY <1>2, <1>4, <1>5, <2>1
<1>6. ASSUME NEW other \in DOMAIN disputes, Play(other) PROVE Goal
  <2>1. PICK r \in DisputeRecord, verdict \in Verdict : Played(other, r, verdict)
    BY <1>6, PlayStep
  <2>2. id \in DOMAIN disputes
    BY <2>1 DEF Played
  <2>3. CASE id # other
    <3>1. disputes'[id] = disputes[id]
      BY <2>1, <2>2, <2>3 DEF Played
    <3> QED
      BY <1>2, <1>4, <2>2, <3>1 DEF Unresolved, Exists, LatestEnd
  <2>4. CASE id = other
    <3>1. disputes'[id] = r /\ Unresolved(id) /\ Move(disputes[id], r, verdict)
      BY <2>1, <2>2, <2>4 DEF Played
    <3>2. r.state \cap VERIFIED = {}
      BY <3>1 DEF Unresolved
    <3>3. LatestEnd(id)' <= LatestEnd(id)
      BY <2>2, <3>1, <3>2, MoveEndsNoLater DEF LatestEnd
    <3> QED
      BY <1>4, <2>2, <3>1, <3>3
  <2> QED
    BY <2>3, <2>4
<1>7. ASSUME NEW a \in Account, NEW execution \in DOMAIN executions,
             NEW root \in ChallengerRoot, Dispute(a, execution, root), UNCHANGED now
      PROVE  Goal
  <2>1. PICK new \in DisputeId \ DOMAIN disputes, r \in DisputeRecord :
            /\ new.execution = execution
            /\ disputes' = Put(disputes, new, r)
            /\ r.timeout + r.treeDepth * timeoutDuration
                   < executions[execution].startTime + challengePeriod
    BY <1>7, DisputeStep
  <2>2. CASE id # new
    <3>1. id \in DOMAIN disputes /\ disputes'[id] = disputes[id]
      BY <2>1, <2>2 DEF Put
    <3> QED
      BY <1>2, <1>4, <3>1 DEF Unresolved, Exists, LatestEnd
  <2>3. CASE id = new
    <3>1. disputes'[id] = r
      BY <2>1, <2>3 DEF Put
    <3>2. LatestEnd(id)' < executions[execution].startTime + challengePeriod
      BY <2>1, <3>1 DEF LatestEnd
    <3>3. UNCHANGED executions
      BY <1>7 DEF Dispute, ChargeChallenger
    <3>4. executions[execution].startTime <= now
      BY <1>1 DEF ChallengeEndsBeforeTask, Registered
    <3> QED
      BY <1>1, <1>2, <1>7, <2>1, <2>3, <3>2, <3>3, <3>4
  <2> QED
    BY <2>2, <2>3
<1> QED
  BY <1>5, <1>6, <1>7 DEF Next, vars

\* If every remaining round of an unresolved dispute takes its full time, the last
\* answer still comes before the challenge period of the execution in dispute ends.
THEOREM PlayAlwaysFits == Spec => []PlayFitsChallenge
<1>1. Init => Fits
  BY DEF Init, VerifierInit, NoEntries, Fits, FitsFromNow, PlayFitsChallenge
<1>2. Spec => []ChallengeEndsBeforeTask
  BY ImplementsRegistry, PeriodsInvariant, PTL
<1>3. Fits => PlayFitsChallenge
  BY DEF Fits
<1> QED
  BY <1>1, <1>2, <1>3, TypeCorrect, FitsStep, PTL DEF Spec

-----------------------------------------------------------------------------
\* Bonds.  Stakes are counted as the cardinalities of two sets, each transaction adds
\* or removes one element of one of them, and the arithmetic on bonds and balance
\* follows.

NotLost == {id \in DOMAIN disputes : ~Lost(id)}
Stakes(a) == Cardinality(ExecutionsOf(a)) + Cardinality(DisputesOf(a))
AllStakes == Cardinality(DOMAIN executions) + Cardinality(NotLost)

FinitelyMany == IsFiniteSet(DOMAIN executions) /\ IsFiniteSet(DOMAIN disputes)

\* The inductive invariant.  Neither equation is inductive alone: that a deposit
\* does not wrap around follows from the contract's balance, which bounds it.
Accounts == FinitelyMany /\ BondsAccounted /\ PayoutsFunded

-----------------------------------------------------------------------------
\* Below 2^256 the word arithmetic is exact.
LEMMA ExactWord == \A x \in 0 .. Word - 1 : x % Word = x
BY ParameterAssumption

\* Multiples of a bond.
LEMMA Multiples ==
    ASSUME NEW b \in Nat, NEW k \in Nat
    PROVE  /\ b * k \in Nat
           /\ b * (k + 1) = b * k + b
           /\ \A n \in Nat : k <= n => b * k <= b * n
<1>1. b * k \in Nat /\ b * (k + 1) = b * k + b
  OBVIOUS
<1>2. ASSUME NEW n \in Nat, k <= n PROVE b * k <= b * n
  <2>1. n - k \in Nat /\ n = k + (n - k)
    BY <1>2
  <2>2. b * (n - k) \in Nat
    BY <2>1
  <2>3. b * n = b * k + b * (n - k)
    BY <2>1
  <2> QED
    BY <1>1, <2>2, <2>3
<1> QED
  BY <1>1, <1>2

\* One element less.
LEMMA OneLess ==
    ASSUME NEW S, IsFiniteSet(S), NEW x \in S
    PROVE  Cardinality(S \ {x}) \in Nat /\ Cardinality(S) = Cardinality(S \ {x}) + 1
<1>1. IsFiniteSet(S \ {x}) /\ Cardinality(S \ {x}) = Cardinality(S) - 1
  BY FS_RemoveElement
<1>2. Cardinality(S) \in Nat /\ Cardinality(S \ {x}) \in Nat
  BY <1>1, FS_CardinalityType
<1> QED
  BY <1>1, <1>2

\* All the sets that are counted are finite.
LEMMA CountsNatural ==
    ASSUME FinitelyMany, NEW a
    PROVE  /\ IsFiniteSet(ExecutionsOf(a)) /\ Cardinality(ExecutionsOf(a)) \in Nat
           /\ IsFiniteSet(DisputesOf(a)) /\ Cardinality(DisputesOf(a)) \in Nat
           /\ IsFiniteSet(NotLost) /\ Cardinality(NotLost) \in Nat
           /\ Cardinality(DOMAIN executions) \in Nat
<1>1. /\ ExecutionsOf(a) \in SUBSET DOMAIN executions
      /\ NotLost \in SUBSET DOMAIN disputes
      /\ DisputesOf(a) \in SUBSET DOMAIN disputes
  BY DEF ExecutionsOf, NotLost, DisputesOf
<1> QED
  BY <1>1, FS_Subset, FS_CardinalityType DEF FinitelyMany

\* An account's stakes are some of all stakes.
LEMMA StakesBounded ==
    ASSUME FinitelyMany, NEW a
    PROVE  Stakes(a) \in Nat /\ AllStakes \in Nat /\ Stakes(a) <= AllStakes
<1>1. ExecutionsOf(a) \in SUBSET DOMAIN executions /\ DisputesOf(a) \in SUBSET NotLost
  BY DEF ExecutionsOf, NotLost, DisputesOf
<1>2. /\ Cardinality(ExecutionsOf(a)) <= Cardinality(DOMAIN executions)
      /\ Cardinality(DisputesOf(a)) <= Cardinality(NotLost)
  BY <1>1, CountsNatural, FS_Subset DEF FinitelyMany
<1> QED
  BY <1>2, CountsNatural DEF Stakes, AllStakes

\* The two invariants in terms of stakes.
LEMMA InStakes ==
    /\ BondsAccounted <=> \A a \in Account : bonds[a] = bondAmount * Stakes(a)
    /\ PayoutsFunded <=> balance = bondAmount * AllStakes
    /\ BondsAccounted' <=> \A a \in Account : bonds'[a] = bondAmount * Stakes(a)'
    /\ PayoutsFunded' <=> balance' = bondAmount * AllStakes'
BY DEF BondsAccounted, PayoutsFunded, Stakes, AllStakes, NotLost

\* A deposit for one more stake.
LEMMA DepositCounts ==
    ASSUME TypeOK, Accounts, NEW s \in Account, Deposit(s),
           AllStakes' = AllStakes + 1,
           \A a \in Account : Stakes(a)' = IF a = s THEN Stakes(a) + 1 ELSE Stakes(a)
    PROVE  BondsAccounted' /\ PayoutsFunded'
<1>1. /\ bondAmount \in Nat /\ Word \in Nat /\ EtherSupply \in Nat /\ EtherSupply < Word
      /\ balance \in Nat
      /\ bonds \in [Account -> 0 .. Word - 1]
  BY ParameterAssumption DEF TypeOK, EnforcerTypeOK
<1>2. /\ balance = bondAmount * AllStakes
      /\ \A a \in Account : bonds[a] = bondAmount * Stakes(a)
  BY InStakes DEF Accounts
<1>3. Stakes(s) \in Nat /\ AllStakes \in Nat /\ Stakes(s) <= AllStakes
  BY StakesBounded DEF Accounts
<1>4. bonds[s] <= balance
  BY <1>1, <1>2, <1>3, Multiples
<1>5. bonds[s] + bondAmount \in 0 .. Word - 1
  BY <1>1, <1>4 DEF Deposit
<1>6. bonds'[s] = bonds[s] + bondAmount
  BY <1>1, <1>5, ExactWord DEF Deposit
<1>7. bonds'[s] = bondAmount * Stakes(s)'
  BY <1>1, <1>2, <1>3, <1>6, Multiples
<1>8. \A a \in Account \ {s} : bonds'[a] = bondAmount * Stakes(a)'
  BY <1>1, <1>2 DEF Deposit
<1>9. balance' = bondAmount * AllStakes'
  BY <1>1, <1>2, <1>3, Multiples DEF Deposit
<1> QED
  BY <1>7, <1>8, <1>9, InStakes

\* A slashed bond, paid out, for one stake less.
LEMMA SlashCounts ==
    ASSUME TypeOK, Accounts, NEW s \in Account, bonds' = Slash(s),
           balance' = balance - bondAmount,
           NEW stakes \in Nat, NEW all \in Nat,
           Stakes(s) = stakes + 1, AllStakes = all + 1, AllStakes' = all,
           \A a \in Account : Stakes(a)' = IF a = s THEN stakes ELSE Stakes(a)
    PROVE  BondsAccounted' /\ PayoutsFunded'
<1>1. bondAmount \in Nat /\ Word \in Nat /\ bonds \in [Account -> 0 .. Word - 1]
  BY ParameterAssumption DEF TypeOK, EnforcerTypeOK
<1>2. /\ balance = bondAmount * AllStakes
      /\ \A a \in Account : bonds[a] = bondAmount * Stakes(a)
  BY InStakes DEF Accounts
<1>3. bonds[s] = bondAmount * stakes + bondAmount /\ bondAmount * stakes \in Nat
  BY <1>1, <1>2, Multiples
<1>4. bonds[s] - bondAmount = bondAmount * stakes
  BY <1>1, <1>3
<1>5. bondAmount * stakes \in 0 .. Word - 1
  BY <1>1, <1>3
<1>6. bonds'[s] = bondAmount * stakes
  BY <1>1, <1>4, <1>5, ExactWord DEF Slash
<1>7. \A a \in Account \ {s} : bonds'[a] = bondAmount * Stakes(a)'
  BY <1>1, <1>2 DEF Slash
<1>8. balance' = bondAmount * AllStakes'
  BY <1>1, <1>2, Multiples
<1> QED
  BY <1>6, <1>7, <1>8, InStakes

-----------------------------------------------------------------------------
\* Nothing that is counted changes.
LEMMA SameCounts ==
    ASSUME Accounts, UNCHANGED <<executions, bonds, balance>>,
           DOMAIN disputes' = DOMAIN disputes,
           \A id \in DOMAIN disputes :
               /\ disputes'[id].challengerAddr = disputes[id].challengerAddr
               /\ Lost(id)' <=> Lost(id)
    PROVE  Accounts'
<1>1. \A a : ExecutionsOf(a)' = ExecutionsOf(a) /\ DisputesOf(a)' = DisputesOf(a)
  BY DEF ExecutionsOf, DisputesOf
<1>2. NotLost' = NotLost
  BY DEF NotLost
<1>3. \A a : Stakes(a)' = Stakes(a)
  BY <1>1 DEF Stakes
<1>4. AllStakes' = AllStakes
  BY <1>2 DEF AllStakes
<1> QED
  BY <1>3, <1>4, InStakes DEF Accounts, FinitelyMany

\* register: one more execution of the sender.
LEMMA RegisterCounts ==
    ASSUME TypeOK, Accounts, NEW a \in Account, NEW id \in ExecutionId, NEW depth,
           Register(a, id, depth), UNCHANGED disputes
    PROVE  Accounts'
<1>1. id \notin DOMAIN executions
  BY DEF Register, Registered
<1>2. /\ DOMAIN executions' = DOMAIN executions \cup {id}
      /\ executions'[id].solver = a
      /\ \A x \in DOMAIN executions : executions'[x] = executions[x]
  BY <1>1 DEF Register, Put
<1>3. \A b : ExecutionsOf(b)' = IF b = a THEN ExecutionsOf(b) \cup {id} ELSE ExecutionsOf(b)
  BY <1>1, <1>2 DEF ExecutionsOf
<1>4. \A b : DisputesOf(b)' = DisputesOf(b)
  BY DEF DisputesOf, Lost
<1>5. NotLost' = NotLost
  BY DEF NotLost, Lost
<1>6. IsFiniteSet(ExecutionsOf(a)) /\ id \notin ExecutionsOf(a)
  BY <1>1, CountsNatural DEF Accounts, ExecutionsOf
<1>7. Cardinality(ExecutionsOf(a) \cup {id}) = Cardinality(ExecutionsOf(a)) + 1
  BY <1>6, FS_AddElement
<1>8. /\ IsFiniteSet(DOMAIN executions')
      /\ Cardinality(DOMAIN executions') = Cardinality(DOMAIN executions) + 1
  BY <1>1, <1>2, FS_AddElement DEF Accounts, FinitelyMany
<1>9. FinitelyMany'
  BY <1>8 DEF Accounts, FinitelyMany
<1>10. \A b \in Account : Stakes(b)' = IF b = a THEN Stakes(b) + 1 ELSE Stakes(b)
  <2>1. Stakes(a)' = Cardinality(ExecutionsOf(a)) + 1 + Cardinality(DisputesOf(a))
    BY <1>3, <1>4, <1>7 DEF Stakes
  <2>2. Cardinality(ExecutionsOf(a)) \in Nat /\ Cardinality(DisputesOf(a)) \in Nat
    BY CountsNatural DEF Accounts
  <2>3. Stakes(a)' = Stakes(a) + 1
    BY <2>1, <2>2 DEF Stakes
  <2>4. \A b : b # a => Stakes(b)' = Stakes(b)
    BY <1>3, <1>4 DEF Stakes
  <2> QED
    BY <2>3, <2>4
<1>11. AllStakes' = AllStakes + 1
  <2>1. Cardinality(NotLost) \in Nat /\ Cardinality(DOMAIN executions) \in Nat
    BY CountsNatural DEF Accounts
  <2> QED
    BY <1>5, <1>8, <2>1 DEF AllStakes
<1>12. Deposit(a)
  BY DEF Register
<1> QED
  BY <1>9, <1>10, <1>11, <1>12, DepositCounts DEF Accounts

\* dispute: one more dispute of the sender.
LEMMA DisputeCounts ==
    ASSUME TypeOK, Accounts, NEW a \in Account, NEW execution \in DOMAIN executions,
           NEW root \in ChallengerRoot, Dispute(a, execution, root)
    PROVE  Accounts'
<1>1. PICK id \in DisputeId \ DOMAIN disputes, r \in DisputeRecord :
          /\ disputes' = Put(disputes, id, r)
          /\ r.challengerAddr = a
          /\ r.state \cap VERIFIED = {}
  BY DisputeStep
<1>2. /\ DOMAIN disputes' = DOMAIN disputes \cup {id}
      /\ disputes'[id] = r
      /\ \A x \in DOMAIN disputes : disputes'[x] = disputes[x]
  BY <1>1 DEF Put
<1>3. ~Lost(id)' /\ \A x \in DOMAIN disputes : Lost(x)' <=> Lost(x)
  BY <1>1, <1>2 DEF Lost, VERIFIED
<1>4. UNCHANGED executions /\ Deposit(a)
  BY DEF Dispute, ChargeChallenger
<1>5. \A b : DisputesOf(b)' = IF b = a THEN DisputesOf(b) \cup {id} ELSE DisputesOf(b)
  BY <1>1, <1>2, <1>3 DEF DisputesOf
<1>6. \A b : ExecutionsOf(b)' = ExecutionsOf(b)
  BY <1>4 DEF ExecutionsOf
<1>7. NotLost' = NotLost \cup {id}
  BY <1>1, <1>2, <1>3 DEF NotLost
<1>8. id \notin DisputesOf(a) /\ id \notin NotLost
  BY <1>1 DEF DisputesOf, NotLost
<1>9. /\ Cardinality(DisputesOf(a) \cup {id}) = Cardinality(DisputesOf(a)) + 1
      /\ Cardinality(NotLost \cup {id}) = Cardinality(NotLost) + 1
  BY <1>8, CountsNatural, FS_AddElement DEF Accounts
<1>10. FinitelyMany'
  BY <1>2, <1>4, FS_AddElement DEF Accounts, FinitelyMany
<1>11. \A b \in Account : Stakes(b)' = IF b = a THEN Stakes(b) + 1 ELSE Stakes(b)
  <2>1. Stakes(a)' = Stakes(a) + 1
    <3>1. Stakes(a)' = Cardinality(ExecutionsOf(a)) + (Cardinality(DisputesOf(a)) + 1)
      BY <1>5, <1>6, <1>9 DEF Stakes
    <3>2. Cardinality(ExecutionsOf(a)) \in Nat /\ Cardinality(DisputesOf(a)) \in Nat
      BY CountsNatural DEF Accounts
    <3> QED
      BY <3>1, <3>2 DEF Stakes
  <2>2. \A b : b # a => Stakes(b)' = Stakes(b)
    BY <1>5, <1>6 DEF Stakes
  <2> QED
    BY <2>1, <2>2
<1>12. AllStakes' = AllStakes + 1
  BY <1>4, <1>7, <1>9, CountsNatural DEF AllStakes, Accounts
<1> QED
  BY <1>4, <1>10, <1>11, <1>12, DepositCounts DEF Accounts

\* A verdict for the solver: one dispute of its challenger is lost.
LEMMA SolverVerdictCounts ==
    ASSUME TypeOK, Accounts, NEW id \in DOMAIN disputes, NEW r \in DisputeRecord,
           Played(id, r, "solver")
    PROVE  Accounts'
<1>1. PICK c \in Account : c = disputes[id].challengerAddr
  BY DEF TypeOK, DisputeRecord
<1>2. SolverWon(id.execution, c)
  BY <1>1 DEF Played, Notify, Result
<1>3. /\ UNCHANGED executions
      /\ bonds' = Slash(c)
      /\ balance' = balance - bondAmount
  BY <1>2 DEF SolverWon, Payout
<1>4. /\ DOMAIN disputes' = DOMAIN disputes
      /\ disputes'[id] = r
      /\ \A x \in DOMAIN disputes \ {id} : disputes'[x] = disputes[x]
  BY DEF Played
<1>5. ~Lost(id) /\ Lost(id)' /\ r.challengerAddr = c
  BY <1>1, <1>4 DEF Played, Move, Unresolved, Lost, VERIFIED
<1>6. \A x \in DOMAIN disputes \ {id} : Lost(x)' <=> Lost(x)
  BY <1>4 DEF Lost
<1>7. \A b : DisputesOf(b)' = IF b = c THEN DisputesOf(b) \ {id} ELSE DisputesOf(b)
  BY <1>1, <1>4, <1>5, <1>6 DEF DisputesOf
<1>8. NotLost' = NotLost \ {id}
  BY <1>4, <1>5, <1>6 DEF NotLost
<1>9. \A b : ExecutionsOf(b)' = ExecutionsOf(b)
  BY <1>3 DEF ExecutionsOf
<1>10. id \in DisputesOf(c) /\ id \in NotLost
  BY <1>1, <1>5 DEF DisputesOf, NotLost
<1> DEFINE lost == Cardinality(DisputesOf(c) \ {id})
           open == Cardinality(NotLost \ {id})
<1>11. /\ lost \in Nat /\ Cardinality(DisputesOf(c)) = lost + 1
       /\ open \in Nat /\ Cardinality(NotLost) = open + 1
  BY <1>10, CountsNatural, OneLess DEF Accounts
<1> DEFINE stakes == Cardinality(ExecutionsOf(c)) + lost
           all == Cardinality(DOMAIN executions) + open
<1>12. /\ stakes \in Nat /\ Stakes(c) = stakes + 1 /\ Stakes(c)' = stakes
       /\ all \in Nat /\ AllStakes = all + 1 /\ AllStakes' = all
  <2>1. Stakes(c)' = stakes /\ AllStakes' = all
    BY <1>3, <1>7, <1>8, <1>9 DEF Stakes, AllStakes
  <2> HIDE DEF lost, open
  <2> QED
    BY <1>11, <2>1, CountsNatural DEF Stakes, AllStakes, Accounts
<1>13. \A b \in Account : Stakes(b)' = IF b = c THEN stakes ELSE Stakes(b)
  <2> HIDE DEF stakes
  <2>1. \A b : b # c => Stakes(b)' = Stakes(b)
    BY <1>7, <1>9 DEF Stakes
  <2> QED
    BY <1>12, <2>1
<1>14. FinitelyMany'
  BY <1>3, <1>4 DEF Accounts, FinitelyMany
<1> HIDE DEF stakes, all
<1> QED
  BY <1>1, <1>3, <1>12, <1>13, <1>14, SlashCounts DEF Accounts

\* A verdict for the challenger: one execution of its solver is deleted.
LEMMA ChallengerVerdictCounts ==
    ASSUME TypeOK, Accounts, NEW id \in DOMAIN disputes, NEW r \in DisputeRecord,
           Played(id, r, "challenger")
    PROVE  Accounts'
<1> DEFINE e == id.execution
<1>1. e \in DOMAIN executions /\ ChallengerWon(e, disputes[id].challengerAddr)
  BY DEF Played, Notify, Result, Registered
<1>2. PICK s \in Account : s = executions[e].solver
  BY <1>1 DEF TypeOK, EnforcerTypeOK, ExecutionResult
<1>3. /\ DOMAIN executions' = DOMAIN executions \ {e}
      /\ \A x \in DOMAIN executions' : executions'[x] = executions[x]
      /\ bonds' = Slash(s)
      /\ balance' = balance - bondAmount
  BY <1>1, <1>2 DEF ChallengerWon, Delete, Payout
<1>4. /\ DOMAIN disputes' = DOMAIN disputes
      /\ \A x \in DOMAIN disputes : /\ disputes'[x].challengerAddr = disputes[x].challengerAddr
                                    /\ Lost(x)' <=> Lost(x)
  BY DEF Played, Move, Unresolved, Lost, VERIFIED
<1>5. \A b : DisputesOf(b)' = DisputesOf(b)
  BY <1>4 DEF DisputesOf
<1>6. NotLost' = NotLost
  BY <1>4 DEF NotLost
<1>7. \A b : ExecutionsOf(b)' = IF b = s THEN ExecutionsOf(b) \ {e} ELSE ExecutionsOf(b)
  BY <1>1, <1>2, <1>3 DEF ExecutionsOf
<1>8. e \in ExecutionsOf(s)
  BY <1>1, <1>2 DEF ExecutionsOf
<1> DEFINE mine == Cardinality(ExecutionsOf(s) \ {e})
           rest == Cardinality(DOMAIN executions \ {e})
<1>9. /\ mine \in Nat /\ Cardinality(ExecutionsOf(s)) = mine + 1
      /\ rest \in Nat /\ Cardinality(DOMAIN executions) = rest + 1
  BY <1>1, <1>8, CountsNatural, OneLess DEF Accounts, FinitelyMany
<1> DEFINE stakes == mine + Cardinality(DisputesOf(s))
           all == rest + Cardinality(NotLost)
<1>10. /\ stakes \in Nat /\ Stakes(s) = stakes + 1 /\ Stakes(s)' = stakes
       /\ all \in Nat /\ AllStakes = all + 1 /\ AllStakes' = all
  <2> HIDE DEF e
  <2>1. Stakes(s)' = stakes /\ AllStakes' = all
    BY <1>3, <1>5, <1>6, <1>7 DEF Stakes, AllStakes
  <2> HIDE DEF mine, rest
  <2> QED
    BY <1>9, <2>1, CountsNatural DEF Stakes, AllStakes, Accounts
<1>11. \A b \in Account : Stakes(b)' = IF b = s THEN stakes ELSE Stakes(b)
  <2> HIDE DEF stakes
  <2>1. \A b : b # s => Stakes(b)' = Stakes(b)
    BY <1>5, <1>7 DEF Stakes
  <2> QED
    BY <1>10, <2>1
<1>12. FinitelyMany'
  BY <1>3, <1>4, FS_RemoveElement DEF Accounts, FinitelyMany
<1> HIDE DEF e, stakes, all
<1> QED
  BY <1>2, <1>3, <1>10, <1>11, <1>12, SlashCounts DEF Accounts

-----------------------------------------------------------------------------
\* Every step keeps the accounts.
LEMMA StepAccounts == TypeOK /\ Accounts /\ [Next]_vars => Accounts'
<1> SUFFICES ASSUME TypeOK, Accounts, [Next]_vars PROVE Accounts'
  OBVIOUS
<1>1. CASE UNCHANGED <<executions, bonds, balance, disputes>>
  BY <1>1, SameCounts DEF Lost
<1>2. ASSUME NEW a \in Account, NEW id \in ExecutionId, NEW depth \in ProofDepth,
             Register(a, id, depth), UNCHANGED disputes
      PROVE  Accounts'
  BY <1>2, RegisterCounts
<1>3. ASSUME NEW a \in Account, NEW execution \in DOMAIN executions,
             NEW root \in ChallengerRoot, Dispute(a, execution, root)
      PROVE  Accounts'
  BY <1>3, DisputeCounts
<1>4. ASSUME NEW id \in DOMAIN disputes, Play(id) PROVE Accounts'
  <2>1. PICK r \in DisputeRecord, verdict \in Verdict : Played(id, r, verdict)
    BY <1>4, PlayStep
  <2>2. CASE verdict = "none"
    <3>1. UNCHANGED <<executions, bonds, balance>>
      BY <2>1, <2>2 DEF Played, Notify, enforcerVars
    <3>2. /\ DOMAIN disputes' = DOMAIN disputes
          /\ \A x \in DOMAIN disputes :
                 /\ disputes'[x].challengerAddr = disputes[x].challengerAddr
                 /\ Lost(x)' <=> Lost(x)
      BY <2>1, <2>2 DEF Played, Move, Unresolved, Lost, VERIFIED
    <3> QED
      BY <3>1, <3>2, SameCounts
  <2>3. CASE verdict = "solver"
    BY <2>1, <2>3, SolverVerdictCounts
  <2>4. CASE verdict = "challenger"
    BY <2>1, <2>4, ChallengerVerdictCounts
  <2> QED
    BY <2>2, <2>3, <2>4 DEF Verdict
<1> QED
  BY <1>1, <1>2, <1>3, <1>4 DEF Next, vars, enforcerVars, Request

\* No stakes, no bonds, no ether.
LEMMA InitAccounts == Init => Accounts
<1> SUFFICES ASSUME Init PROVE Accounts
  OBVIOUS
<1>1. DOMAIN executions = {} /\ DOMAIN disputes = {}
  BY DEF Init, EnforcerInit, VerifierInit, NoEntries
<1>2. \A a : ExecutionsOf(a) = {} /\ DisputesOf(a) = {}
  BY <1>1 DEF ExecutionsOf, DisputesOf
<1>3. NotLost = {}
  BY <1>1 DEF NotLost
<1>4. AllStakes = 0 /\ \A a : Stakes(a) = 0
  BY <1>1, <1>2, <1>3, FS_EmptySet DEF AllStakes, Stakes
<1>5. BondsAccounted /\ PayoutsFunded
  BY <1>4, InStakes, ParameterAssumption DEF Init, EnforcerInit
<1> QED
  BY <1>1, <1>5, FS_EmptySet DEF Accounts, FinitelyMany

\* An account's bonds are exactly its stakes, so the unchecked subtraction in
\* result never wraps around; over any history of registrations, overlapping
\* disputes, deletions and re-registrations.
THEOREM BondsAlwaysAccounted == Spec => []BondsAccounted
<1>1. Accounts => BondsAccounted
  BY DEF Accounts
<1> QED
  BY <1>1, InitAccounts, StepAccounts, TypeCorrect, PTL DEF Spec

\* The contract holds one bond per standing execution and per dispute not lost, so
\* a payout never fails for lack of funds.
THEOREM PayoutsAlwaysFunded == Spec => []PayoutsFunded
<1>1. Accounts => PayoutsFunded
  BY DEF Accounts
<1> QED
  BY <1>1, InitAccounts, StepAccounts, TypeCorrect, PTL DEF Spec

=============================================================================
