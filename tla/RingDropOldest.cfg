SPECIFICATION FairSpec
CONSTANTS
  s1 = s1
  Capacity = 2
  MaxSubs = 1
  Subs = {s1}
  Words = 2
  MaxRetries = 2
  Modulus = 16
  Policy = "DropOldest"
  Wal = TRUE
  Buffered = TRUE
  TSO = TRUE
  SubKill = TRUE
  Starts <- StartAny
  MaxTail = 4
  MaxGen = 2
INVARIANTS
  TypeOK
  NoTornDelivery
PROPERTIES
  CaughtUpWhenIdle
  ImplementsLog
CHECK_DEADLOCK FALSE
