SPECIFICATION EnforcerSpec
CONSTANTS
    Account = {alice}
    Rejecting = {}
    TaskHash = {t1, t2}
    EmptySlot = EmptySlot
    Hash <- MCHash
    Zero <- ZeroHash
    StateHash <- MCStateHash
    Open <- MCOpen
    SolverRoot <- MCRoots
    ChallengerRoot = {}
    taskPeriod = 6
    challengePeriod = 2
    bondAmount = 1
    maxExecutionDepth = 1
    timeoutDuration = 1
    EtherSupply = 2
    Word = 3
    MaxTime = 5
    MaxSlots = 3
    ProofDepth = {0, 1, 2, 3}
INVARIANTS
    EnforcerTypeOK
    TaskListsMatch
PROPERTIES
    StatusIsFinal
    ImplementsBoard
CHECK_DEADLOCK FALSE
