SPECIFICATION Spec
CONSTANTS
    t1 = t1
    Account = {alice, bob}
    Rejecting = {}
    TaskHash = {t1}
    EmptySlot = EmptySlot
    Hash <- MCHash
    Zero <- ZeroHash
    StateHash <- MCStateHash
    Open <- MCOpen
    SolverRoot <- MCSolverRoot
    ChallengerRoot <- MCChallengerRoot
    InitialState <- MCInitialState
    Outcomes <- MCOutcomes
    taskPeriod = 12
    challengePeriod = 5
    bondAmount = 1
    maxExecutionDepth = 2
    timeoutDuration = 1
    EtherSupply = 3
    Word = 8
    MaxTime = 8
    MaxSlots = 3
    ProofDepth = {1, 2, 3}
    MaxDisputes = 4
INVARIANTS
    TypeOK
    BondsAccounted
    PayoutsFunded
    PlayFitsChallenge
SYMMETRY Symmetry
CHECK_DEADLOCK FALSE
