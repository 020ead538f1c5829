SPECIFICATION MCSpec
CONSTANTS
  k1 = k1
  k2 = k2
  k3 = k3
  alice = alice
  guest = guest
  p1 = p1
  p2 = p2
  c1 = c1
  c2 = c2
  None = None
  Key <- MCKey
  User <- MCUser
  Guest <- guest
  Proc <- MCProc
  MaxSessions = 2
  UserTTL = 1
  GuestTTL = 1
  Idle = 0
  MaxClock = 1
  Part = {"sessions", "presence", "history"}
  Conn <- MCConn
  Cooldown = 2
  AgentTimeout = 2
  NotifyRecovery = TRUE
  Kind <- MCKind
  Setup <- AllSetups
  MaxLines = 4
SYMMETRY Symmetry
INVARIANTS
  RevokedIsFinal
  FileIsCurrent
  
  SlotHasOwner
  FileIsFaithful
PROPERTIES
  NoticesAreInStep
  EvictionIsFair
\* The history ends with its last alert.
CHECK_DEADLOCK FALSE
