SPECIFICATION PokerSpec
CONSTANTS
    t1 = t1
    Account = {alice, bob}
    Rejecting = {}
    TaskHash = {t1}
    EmptySlot = EmptySlot
    Hash <- MCHash
    Zero <- ZeroHash
    StateHash <- MCStateHash
    Open <- MCOpen
    SolverRoot <- MCSolverRoot
    ChallengerRoot <- MCChallengerRoot
    InitialState <- MCInitialState
    Outcomes <- MCOutcomes
    Execution <- MCExecution
    TrueExecution <- MCTrueExecution
    alwaysChallenge = {}
    hash <- Pair
    stateHash <- HashOfState
    leafHash <- NoLeaf
    taskPeriod = 40
    challengePeriod = 12
    bondAmount = 1
    maxExecutionDepth = 5
    timeoutDuration = 1
    EtherSupply = 4
    Word = 8
    MaxTime = 3
    MaxSlots = 2
    ProofDepth = {1, 2, 3, 4, 5}
    MaxDisputes = 2
INVARIANTS
    RightVerdict
    AnswersTaken
PROPERTIES
    GamesEnd
CHECK_DEADLOCK FALSE
