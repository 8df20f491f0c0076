SPECIFICATION FairSpec
CONSTANTS
  Buys = {b1}
  Sells = {s1}
  T2MinBlocks = 5
  T2MaxBlocks = 6
  Requested = {2, 12}
  BuyT1 = {10}
  SellT1 = {7}
  SellT2 = 2
  RefundGrace = 0
  Reserve = 2
  BreakerMinGbx = 0
  GasMayRunOut = FALSE
  MaxLag = 1
  MaxSlow = 1
  LastStart = 0
  LastIntent = 3
  MaxSwaps = 2
  MaxTime = 12
  MaxFaults = 0
  MaxCrashes = 0
CHECK_DEADLOCK FALSE
PROPERTIES LocksSettle 
