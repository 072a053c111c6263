SPECIFICATION FairSpec
CONSTANTS
  Configs <- MCConfigs
  Datagrams <- MCDatagrams
  MaxArrivals = 2
  MaxSends = 1
  MaxStarts = 2
CHECK_DEADLOCK FALSE
INVARIANTS OnlyLiveObjectsCalled AllOrNothing GivenInOrder
PROPERTIES StartedSessionDelivers CallsReturn
