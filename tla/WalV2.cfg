SPECIFICATION Spec
CONSTANTS
  Policies = {"Batched", "Each"}
  HeaderLen = 2
  SkipLen = 1
  Sizes = {2}
  SegmentSizeMax = 7
  RetentionBytes = 8
  MayKill = TRUE
  MayLosePower = TRUE
  MayReplay = TRUE
  IoErrors = {"create", "sync"}
  MaxCursor = 3
  MaxOpens = 2
INVARIANTS
  EachSurvives
  LogContiguous
  ReplayComplete
PROPERTIES
  ReplayNoGap
  RetentionHolds
CHECK_DEADLOCK FALSE
