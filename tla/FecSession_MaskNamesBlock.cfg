SPECIFICATION Spec
CONSTANTS
    SeqSpace = 64
    MaxCacheSeqDifference = 3
    Calls <- NoOverlap
    FirstSeqs = {62}
    MaxSent = 0
    MaxLost = 0
CHECK_DEADLOCK FALSE
INVARIANT MaskNamesBlock
