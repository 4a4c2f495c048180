SPECIFICATION FairSpec
CONSTANTS
  c1 = c1
  c2 = c2
  Subs = {c1, c2}
  MaxSubs = 2
  Wakers = {"eventfd"}
  MayExit = FALSE
  MayKill = TRUE
  MaxBatch = 1
  MaxTail = 1
PROPERTIES
  PublishReturns
  DropReaped
  AcceptedReceive
