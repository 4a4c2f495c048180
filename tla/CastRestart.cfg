SPECIFICATION FairSpec
CONSTANTS
  Peers = {"w"}
  Self = "w"
  Subs = {"a"}
  Policies <- MCPolicies
  QueueDepth = 1
  ReplayLast = 1
  MaxMsgs = 2
  MaxUpsets = 1
PROPERTIES
  RestartEndsIterator
CHECK_DEADLOCK FALSE
