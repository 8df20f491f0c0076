SPECIFICATION WalletSpec
CONSTANTS
  n1 = n1
  n2 = n2
  n3 = n3
  c1 = c1
  c2 = c2
  p1 = p1
  p2 = p2
  Nodes <- ThreeNodes
  Liars = {n3}
  Coins <- TwoCoins
  Payments = {p1, p2}
  Amount <- OneAndTwo
  Width = 2
  MaxTip = 1
  MaxSends = 2
  MaxLosses = 2
  MaxEvents = 1
  NoPayment = NoPayment
  Elsewhere = Elsewhere
CHECK_DEADLOCK FALSE
INVARIANTS ReadsAreConfirmed CoinsPayOnce
