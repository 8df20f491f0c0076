SPECIFICATION TokenSpec
CONSTANTS
  Tx <- AllTx
  NewBlocks <- AllBlocks
  Bases <- TwoBases
  MaxNew = 3
  GradWindow = 1
  Nil = Nil
  Start = 2
  Keep = 1
  LogoTotal = 2
  MaxSwitches = 1
  MaxShrinks = 1
  MaxCrashes = 1
INVARIANTS OutputsFromChain CoinsFromChain
PROPERTY EventuallyCurrent
