SPECIFICATION FairSpec
CONSTANTS
  p1 = p1
  p2 = p2
  p3 = p3
  NoPipe = NoPipe
  Dialer = Dialer
  Ep = Ep
  Pipes <- MCPipes
INVARIANTS
  OneAttempt
  HeldIsListed
  GoneIsUnused
  StopsOnlyCutOff
PROPERTIES
  CloseReturns
  Reconnects
CHECK_DEADLOCK FALSE
