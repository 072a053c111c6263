SPECIFICATION FairSpec
CONSTANTS
  SeqSpace = 16
  FirstSeqs <- EarlyStart
  MaxSent = 4
  MaxFaults = 2
  LossyKinds <- MediaOnly
  RtxStarts <- AtTheEnd
  MaxCacheSeqDifference = 2
  MaxCacheDuration = 1
  NackInterval = 1
  MaxTime = 2
  MaxReceived = 10
INVARIANTS NackAsksOnlyForMissing RetransmissionsPaced
PROPERTY LostPacketsRecovered
CHECK_DEADLOCK FALSE
