SPECIFICATION Spec
CONSTANTS
    SeqSpace = 64
    MaxCacheSeqDifference = 3
    Calls <- MCCalls
    FirstSeqs = {62}
    MaxSent = 7
    MaxLost = 2
CHECK_DEADLOCK FALSE
INVARIANTS
    ProtectsWholeBlock
    RecoveredAreOriginals
    NothingDropped
    DanglingNeverUsed
PROPERTIES
    OutputInOrder
    FecRecoversOneLoss
