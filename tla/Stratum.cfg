SPECIFICATION FairSpec
CONSTANTS
  m1 = m1
  m2 = m2
  a1 = a1
  a2 = a2
  Miners <- TwoMiners
  Addresses <- OneAddressEach
  None = None
  Idle = Idle
  Asked = Asked
  Window = 2
  Calls = {c1, c2}
  Polls = {p1}
  MaxTip = 2
  Leavers = {m2}
  MaxFaults = 1
CHECK_DEADLOCK FALSE
INVARIANTS NobodyOnOldWork BlocksAccounted
PROPERTY JobsFollowTheTip
