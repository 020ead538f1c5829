SPECIFICATION MCSpec
CONSTANTS
  u1 = u1
  u2 = u2
  r1 = r1
  r2 = r2
  s1 = s1
  a1 = a1
  a2 = a2
  a3 = a3
  t1 = t1
  t2 = t2
  None = None
  Damaged = Damaged
  User <- MCUser
  Req <- MCReq
  Sid <- MCSid
  Address <- MCAddress
  Attempt <- MCAttempt
  max = 2
  window = 2
  lockout = 2
  maxLimiterEntries = 2
SYMMETRY Symmetry
INVARIANTS
  StaleIsExplained
  LockoutIsKept
PROPERTIES
  
  SetupIsFirst
  
