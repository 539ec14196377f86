\* Words of 2 bytes of 2 bits; a stack of 8, 4 words of memory.
CONSTANTS
    WordBytes = 2
    ByteBits = 2
    AddressBits = 3
    MaxStack = 8
    MaxMemWords = 4
    QuadDivisor = 2
    Caller = 12
    Address = 7
    Keccak <- MCKeccak
    Programs <- MCPrograms

SPECIFICATION Spec

INVARIANTS
    CompletedStepIsProven
    FailedStepIsNotProven
    StackCacheIsCurrent
    MemoryCacheIsCurrent
    ExportResumes

PROPERTIES
    GasBoundsTheRun

CHECK_DEADLOCK FALSE
