SPECIFICATION Spec
CONSTANTS
  p1 = p1
  p2 = p2
  p3 = p3
  NoPipe = NoPipe
  Dialer = Dialer
  Ep = Ep
  Pipes <- MCPipes
INVARIANT
  KeepsTrying
CHECK_DEADLOCK FALSE
