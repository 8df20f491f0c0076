SPECIFICATION Spec
CONSTANTS
  Buys = {b1}
  Sells = {s1}
  T2MinBlocks = 5
  T2MaxBlocks = 6
  Requested = {12}
  BuyT1 = {10}
  SellT1 = {6}
  SellT2 = 2
  RefundGrace = 0
  Reserve = 2
  BreakerMinGbx = 0
  GasMayRunOut = TRUE
  MaxLag = 1
  MaxSlow = 1
  LastStart = 0
  LastIntent = 1
  MaxSwaps = 1
  MaxTime = 10
  MaxFaults = 1
  MaxCrashes = 1
CHECK_DEADLOCK FALSE
INVARIANTS T2BeforeT1 TakesOnlyForGiven StateFileTrue DuplicatesExplained
 
