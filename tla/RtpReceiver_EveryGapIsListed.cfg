SPECIFICATION Spec
CONSTANTS
  SeqSpace = 16
  Positions <- AroundTheWrap
  Kinds <- MediaOnly
  RtxEnabled = TRUE
  MaxCacheDuration = 2
  NackInterval = 1
  MaxTime = 4
  MaxReceived = 7
INVARIANT EveryGapIsListed
CHECK_DEADLOCK FALSE
