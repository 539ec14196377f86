CONSTANTS
    ZERO_HASH <- ZeroHash
    hash <- Pair
    stateHash <- Pair
    leafHash <- Leaf
    State <- MCState
    MaxSteps = 5
    MaxWords = 9
    WordBytes = 2
    Fragment <- MCFragment

SPECIFICATION Spec

INVARIANTS
    RootCommits
    ResultProofAccepted
    ScaledDownIsLeftSubtree
    FragmentsProvable

CHECK_DEADLOCK FALSE
