SPECIFICATION ExchangeSpec
CONSTANTS
  SeqSpace = 8
  MaskBits = 3
  Lists <- ShortLists
  Reports <- MCReports
  CnameSizes <- MCCnameSizes
  Reasons <- MCReasons
  RtpPackets <- MCRtpPackets
CHECK_DEADLOCK FALSE
INVARIANTS NothingLostInPacking NoItemWasted CompoundsSent CompoundRead RtpRead
