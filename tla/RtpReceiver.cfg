SPECIFICATION Spec
CONSTANTS
  SeqSpace = 16
  Positions <- TwoStreams
  Kinds <- PacketKinds
  RtxEnabled = TRUE
  MaxCacheDuration = 2
  NackInterval = 2
  MaxTime = 4
  MaxReceived = 7
INVARIANTS DeliveredInOrder CacheHoldsUndelivered LossNeverOverstated LossListIsGaps
PROPERTIES GapsWaitOutTheCache ExtendedHighestFollowsStream ImplementsInOrderDelivery
CHECK_DEADLOCK FALSE
