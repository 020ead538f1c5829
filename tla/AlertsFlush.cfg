SPECIFICATION MCSpec
CONSTANTS
  w1 = w1
  k1 = k1
  g1 = g1
  t1 = t1
  t2 = t2
  Main = Main
  None = None
  Part = {"notify"}
  Metric <- MCMetric
  Config <- MCConfig
  MaxAge = 5
  Alert <- MCAlert
  Critical <- MCCritical
  Caller <- MCCaller
  Timer <- MCTimer
  Channels = 1
  MaxSends = 2
INVARIANTS
  FlushDelivers
\* main returns: the process ends.
CHECK_DEADLOCK FALSE
