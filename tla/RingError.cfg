SPECIFICATION Spec
CONSTANTS
  s1 = s1
  s2 = s2
  Capacity = 2
  MaxSubs = 2
  Subs = {s1, s2}
  Words = 1
  MaxRetries = 2
  Modulus = 16
  Policy = "Error"
  Wal = TRUE
  Buffered = FALSE
  TSO = TRUE
  SubKill = FALSE
  Starts <- StartNow
  MaxTail = 3
  MaxGen = 2
SYMMETRY Symmetric
INVARIANTS
  NoLossUnderError
  CursorSlotsOwned
  FullMeansBehind
