SPECIFICATION Spec
CONSTANTS
  Interval = 2
  MaxLateness = 1
  ReceivesRtp = TRUE
  SeqSpace = 8
  FirstSeqs <- EarlyOrLate
  Losses <- NoneOrTwo
  MaxReceived = 4
  MaxSent = 6
  MaxTime = 7
INVARIANTS OneSchedule SilenceBounded
PROPERTIES SilentAfterBye FractionSinceLastReport
CHECK_DEADLOCK FALSE
