SPECIFICATION MCSpec
CONSTANTS
  s1 = s1
  s2 = s2
  u1 = u1
  u2 = u2
  p1 = p1
  c1 = c1
  c2 = c2
  None = None
  Unread = Unread
  Source <- MCSource
  User <- MCUser
  Path <- MCPath
  Content <- MCContent
  FailedBurst = 2
  BurstWindow = 1
  SustainedBurst = 3
  SustainedWindow = 2
  EnumUsers = 2
  EnumWindow = 2
  BlockDuration = 1
  maxFailTrackers = 1
  maxBlockedIPs = 1
  MaxTime = 3
  Forged = {2, 3, 4}
  maxLinesPerScan = 2
  spoofMaxEntries = 2
  spoofTTL = 1
  MaxLines = 4
  MaxFiles = 2
  MaxClock = 2
  MaxFaults = 2
  N = 3
  Deep = {3}
  maxFiles = 1
  fimDirEventCap = 1
  MaxLogged = 4
  MaxOpens = 3
  MaxAccidents = 2
  Part = {"logins", "watch", "baseline", "scan", "chain"}
INVARIANTS
  Types
  
  
  
  
  
PROPERTIES
  LinesAreReadOnce
  
\* The clocks and the other bounds run out.
CHECK_DEADLOCK FALSE
