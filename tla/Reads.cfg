SPECIFICATION MCSpec
CONSTANTS
  g = g
  q = q
  a2 = a2
  b2 = b2
  b3 = b3
  x = x
  h1 = h1
  h2 = h2
  k1 = k1
  k2 = k2
  l1 = l1
  l2 = l2
  Blocks <- Chains
  Parent <- ParentOf
  Adds <- Created
  Uses <- Spent
  None = None
  Htlcs <- TwoHtlcs
  Claims <- Revealed
  HashlockOf <- OfHashlock
  Locks = {l1, l2}
  Histories <- OldEvents
  Limit = 1
  MaxEvm = 3
  MaxFaults = 1
  c1 = c1
  m1 = m1
  r1 = r1
  r2 = r2
  Owned = {c1, m1}
  Rewards = {m1}
  Reqs = {r1, r2}
  Asks <- Pairs
  Maturity = 2
  MaxLag = 1
  MaxTip = 3
  MaxCalls = 2
  MaxFailures = 1
CHECK_DEADLOCK FALSE
INVARIANTS IndexIsABranch CursorsHideNothing AnswersSpendable OneMessagePerWindow
PROPERTY ReadsEnd
