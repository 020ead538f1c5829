SPECIFICATION Spec
CONSTANTS
  c1 = c1
  c2 = c2
  None = None
  Conn <- MCConn
  Cooldown = 2
  AgentTimeout = 2
  NotifyRecovery = TRUE
PROPERTIES
  AnnouncedOutageRecovers
