SPECIFICATION Spec
CONSTANTS
  SeqSpace = 5
  RtxEnabled = TRUE
  MaxCacheSeqDifference = 3
  PayloadKinds <- AllMapped
  WithoutPayload <- OneBare
  Requests <- ShortRequests
  RtxStarts <- AnyNumber
  MaxSent = 8
INVARIANTS CacheIsWindow RtxAnswersRequest
CHECK_DEADLOCK FALSE
