SPECIFICATION FairSpec
CONSTANTS
  c1 = c1
  c2 = c2
  None = None
  Conn <- MCConn
  Cooldown = 1
  AgentTimeout = 1
  NotifyRecovery = FALSE
PROPERTIES
  SlotIsFreed
  ReturnsOnline
  OutageIsTold
