SPECIFICATION FairSpec
CONSTANTS
  Topics = {"x"}
  Receive = {"x"}
  Links <- MCLinks
  QueueMax = 1
  MaxStops = 1
  MaxMsgs = 2
  MaxConns = 2
  MaxFaults = 1
INVARIANTS
  AtMostOnce
  OrderedPerConnection
  NewestKept
  NothingOutlives
PROPERTIES
  ShutdownReturns
  QueueDrains
CHECK_DEADLOCK FALSE
