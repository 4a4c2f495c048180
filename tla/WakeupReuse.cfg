SPECIFICATION Spec
CONSTANTS
  c1 = c1
  c2 = c2
  Subs = {c1, c2}
  MaxSubs = 1
  Wakers = {"eventfd"}
  MayExit = FALSE
  MayKill = FALSE
  MaxBatch = 1
  MaxTail = 2
INVARIANTS
  AcceptedWoken
