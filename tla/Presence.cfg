SPECIFICATION FairSpec
CONSTANTS
  Members = {"a", "b"}
  Settings <- MCSettings
  TTL = 0
  ChangesMax = 2
  MaxOpens = 3
  MaxLink = 1
  MaxFaults = 2
INVARIANTS
  ChangesTellMembers
PROPERTIES
  GoneForgotten
  LateJoinerLearns
CHECK_DEADLOCK FALSE
