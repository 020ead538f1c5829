SPECIFICATION MCSpec
CONSTANTS
  pa = pa
  pb = pb
  r = r
  d1 = d1
  f1 = f1
  f2 = f2
  c1 = c1
  None = None
  Plugin <- MCPlugin
  runGuardTimeout = 1
  MaxRequests = 3
  MaxConns = 2
  maxQueueSize = 2
  MaxEvents = 3
  MaxLosses = 2
  Root <- MCRoot
  Sub <- MCSub
  File <- MCFile
  dirOf <- MCdirOf
  Content <- MCContent
  maxDirsPerRoot = 1
  MaxFaults = 2
  Part = {"runs", "events", "dirs"}
INVARIANTS
  Types
  OverlapIsExcused
  
PROPERTIES
  ImplementsLease
  QueueIsFaithful
  EveryEventSettles
  ChangesAreNoticed
\* With the network gone for good nothing is left to do.
CHECK_DEADLOCK FALSE
