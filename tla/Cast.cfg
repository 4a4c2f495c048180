SPECIFICATION FairSpec
CONSTANTS
  Peers = {"w"}
  Self = "w"
  Subs = {"a", "b"}
  Policies <- MCPolicies
  QueueDepth = 1
  ReplayLast = 1
  MaxMsgs = 2
  MaxUpsets = 1
INVARIANTS
  InOrderOnce
  SlowCountExact
  DrainedAtStop
PROPERTIES
  NeverStranded
  Converges
CHECK_DEADLOCK FALSE
