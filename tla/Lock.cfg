SPECIFICATION Spec
CONSTANTS
  t1 = t1
  t2 = t2
  t3 = t3
  Threads <- AllThreads
  Process <- TwoProcesses
  MaxInodes = 5
INVARIANTS
  OnePublisherPerRing
  InProcessExact
