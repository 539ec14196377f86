----------------------------- MODULE Deployment -----------------------------
(***************************************************************************)
(* What the Enforcer and the Verifier contract share: the accounts, the    *)
(* 32-byte hashes and which of them have a known preimage, the numbers the *)
(* two constructors are given, and block.timestamp.                        *)
(*                                                                         *)
(* A transaction is one atomic step.  A require that fails reverts all of  *)
(* it, so a failing require is a step that is not enabled.                 *)
(***************************************************************************)
EXTENDS Integers, FiniteSets

CONSTANTS
    Account,            \* addresses that send transactions
    Rejecting,          \* accounts whose fallback function reverts a transfer
    TaskHash,           \* parameterHash of the tasks
    Hash,               \* the bytes32 values in use
    Zero,               \* bytes32(0)
    StateHash,          \* hashes of EVM states whose content is known
    Open,               \* preimages: hash of a pair |-> its left and right
    SolverRoot,         \* roots a solver may register: all of Hash, fewer for TLC
    ChallengerRoot      \* roots a challenger may name: all of Hash, fewer for TLC

CONSTANTS
    taskPeriod,         \* Enforcer: how long a task is active
    challengePeriod,    \* Enforcer: how long an execution can be challenged
    bondAmount,         \* Enforcer: the stake of a solver and of a challenger
    maxExecutionDepth,  \* Enforcer: the deepest tree it accepts
    timeoutDuration     \* Verifier: time to answer in one round

CONSTANTS
    EtherSupply,        \* all the ether there is: caps what can be deposited
    Word,               \* 2^256, where unsigned subtraction wraps
    MaxTime             \* bound on the clock

VARIABLE now            \* block.timestamp

ComputationPath == [left : Hash, right : Hash]

ASSUME HashAssumption ==
    /\ IsFiniteSet(Hash)
    /\ Zero \in Hash
    /\ StateHash \subseteq Hash \ {Zero}
    /\ DOMAIN Open \subseteq Hash \ {Zero}
    /\ Open \in [DOMAIN Open -> ComputationPath]
    /\ SolverRoot \subseteq Hash
    /\ ChallengerRoot \subseteq Hash

\* A hash is a function of what it commits to.
ASSUME PreimageAssumption == \A g, h \in DOMAIN Open : Open[g] = Open[h] => g = h

ASSUME AccountAssumption ==
    /\ IsFiniteSet(Account)
    /\ IsFiniteSet(TaskHash)
    /\ Rejecting \subseteq Account

ASSUME ParameterAssumption ==
    /\ taskPeriod \in Nat
    /\ challengePeriod \in Nat
    /\ bondAmount \in Nat
    /\ maxExecutionDepth \in Nat
    /\ timeoutDuration \in Nat
    /\ MaxTime \in Nat
    /\ EtherSupply \in Nat
    /\ Word \in Nat
    /\ EtherSupply < Word

(***************************************************************************)
(* keccak256(taskHash, solverPathRoot): distinct arguments, distinct ids.  *)
(***************************************************************************)
ExecutionId == [task : TaskHash, root : SolverRoot]

\* A Solidity mapping is a function on the keys whose entry is not zero.
NoEntries == [k \in {} |-> 0]
Put(map, key, value) ==
    [k \in DOMAIN map \cup {key} |-> IF k = key THEN value ELSE map[k]]
Delete(map, key) == [k \in DOMAIN map \ {key} |-> map[k]]

ClockInit == now = 1

\* Blocks carry non-decreasing timestamps; several transactions may share one.
Tick ==
    /\ now < MaxTime
    /\ now' = now + 1

=============================================================================
