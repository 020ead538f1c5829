SPECIFICATION MCFairSpec
CONSTANTS
  w1 = w1
  k1 = k1
  g1 = g1
  t1 = t1
  t2 = t2
  Main = Main
  None = None
  Part = {"metric", "notify"}
  Metric <- MCMetric
  Config <- MCConfig
  MaxAge = 5
  Alert <- MCAlert
  Critical <- MCCritical
  Caller <- MCCaller
  Timer <- MCTimer
  Channels = 2
  MaxSends = 1
INVARIANTS
  NoStrandedBatch
PROPERTIES
  AlertsAreHonest
  KeepsReminding
  SendsAreOrderly
  EverySettles
\* main returns: the process ends.
CHECK_DEADLOCK FALSE
