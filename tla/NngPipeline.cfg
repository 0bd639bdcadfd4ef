SPECIFICATION FairSpec
CONSTANTS
  s1 = s1
  s2 = s2
  r1 = r1
  None = None
  Msg <- MCMsg
  Senders <- MCSenders
  Receivers <- MCReceivers
  Pipes <- MCPipes
  RecvCap = 1
  WireCap = 1
INVARIANTS
  NobodyWaitsInVain
  LostOnlyWithConnection
PROPERTIES
  IsLossyChannel
  Delivered
CHECK_DEADLOCK FALSE
