SPECIFICATION Spec
CONSTANTS
  c1 = c1
  c2 = c2
  Subs = {c1, c2}
  MaxSubs = 2
  Wakers = {"eventfd", "socket"}
  MayExit = TRUE
  MayKill = TRUE
  MaxBatch = 2
  MaxTail = 2
SYMMETRY Symmetric
INVARIANTS
  SoleClientWoken
  LiveClientsKept
  NoInheritedFlag
CHECK_DEADLOCK FALSE
