SPECIFICATION HonestSpec
CONSTANTS
    t1 = t1
    Account = {alice}
    Rejecting = {}
    TaskHash = {t1}
    EmptySlot = EmptySlot
    Hash <- MCHash
    Zero <- ZeroHash
    StateHash <- MCStateHash
    Open <- MCOpen
    SolverRoot <- MCSolverRoot
    ChallengerRoot <- MCChallengerRoot
    InitialState <- MCInitialState
    Outcomes <- MCOutcomes
    taskPeriod = 16
    challengePeriod = 7
    bondAmount = 1
    maxExecutionDepth = 3
    timeoutDuration = 1
    EtherSupply = 3
    Word = 8
    MaxTime = 9
    MaxSlots = 2
    ProofDepth = {1, 2, 3}
    MaxDisputes = 1
    TrueDepth <- MCTrueDepth
    TrueRoot <- MCTrueRoot
INVARIANT DisputeAvailable
CHECK_DEADLOCK FALSE
