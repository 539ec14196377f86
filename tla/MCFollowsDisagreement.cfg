SPECIFICATION Spec
CONSTANTS
    t1 = t1
    Account = {alice}
    Rejecting = {}
    TaskHash = {t1}
    EmptySlot = EmptySlot
    Hash <- MCHash
    Zero <- ZeroHash
    StateHash <- MCStateHash
    Open <- MCOpen
    SolverRoot <- MCRoots
    ChallengerRoot <- MCRoots
    InitialState <- MCInitialState
    Outcomes <- MCOutcomes
    taskPeriod = 14
    challengePeriod = 6
    bondAmount = 1
    maxExecutionDepth = 3
    timeoutDuration = 1
    EtherSupply = 2
    Word = 8
    MaxTime = 1
    MaxSlots = 1
    ProofDepth = {1, 2, 3}
    MaxDisputes = 1
INVARIANT FollowsDisagreement
CHECK_DEADLOCK FALSE
