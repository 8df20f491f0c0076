SPECIFICATION MCSpec
CONSTANTS
  TickerMax = 1
  NameMax = 2
  DescMax = 2
  LinksMax = 1
  ChunkMax = 1
  TotalMax = 2
  PushMax = 8
  Fields = {0, 1, 2}
  Texts <- SmallTexts
  o1 = o1
  o2 = o2
  b1 = b1
  b2 = b2
  Offers = {o1, o2}
  Buyers = {b1, b2}
  Nobody = Nobody
  TUsdc = 4
  Margin = 2
  MinWindow = 1
  Radius = 0
  Legacy = 2
  Old = 14
  LookBack = 4
  MaxTime = 5
  MaxSlow = 1
  MaxFaults = 1
  n1 = n1
  n2 = n2
  Nodes = {n1, n2}
  Purses <- FourPurses
  Forms <- TwoForms
  FirstBuy = 5
  DustSat = 1
  CreateFee = 3
  MetaFee = 2
  MaxInputs = 2
  Rounds = 2
  Outrun = 0
  PowMaxAge = 1
  MaxHeight = 4
  MaxForges = 1
  MaxUnheard = 1
CHECK_DEADLOCK FALSE
INVARIANTS LaunchIsSound PayloadsAgree OneOnOne SecretKept
PROPERTIES SellerKeepsTheMargin FlowsEnd
