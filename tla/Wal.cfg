SPECIFICATION Spec
CONSTANTS
  Policies = {"None", "Batched", "Each"}
  HeaderLen = 1
  Sizes = {1}
  SegmentSizeMax = 3
  RetentionBytes = 4
  MayKill = TRUE
  MayLosePower = TRUE
  MayReplay = TRUE
  IoErrors = {"create", "sync"}
  MaxCursor = 3
  MaxOpens = 3
INVARIANTS
  SyncedSurvive
  CursorsNotReissued
  LogContiguous
  ReplayReachesDurable
PROPERTIES
  ReplayNoGap
  RetentionHolds
CHECK_DEADLOCK FALSE
