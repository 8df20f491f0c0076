SPECIFICATION MCSpec
CONSTANTS
  VGbx = 12
  VTokens = 10
  CurveTokens = 6
  LpTokens = 2
  CurveFeeBps = 2500
  PoolFeeBps = 2500
  GradDepth = 2
  GradMin = 6
  GradWindow = 2
  MaxAge = 1
  Dust = 1
  Widths = {1, 2}
  Window = 2
  Me = me
  Others = {other}
  Flights = {p1, p2}
  Gross = {4, 16}
  DevBuy = 4
  Creator = me
  Tries = 1
  MaxTip = 5
  MaxSends = 5
  MaxPresses = 3
  MaxLost = 1
  None = None
CHECK_DEADLOCK FALSE
INVARIANTS TokensBacked PageAndNodeAgree ViewsTellTheTrades
PROPERTY PressEnds
