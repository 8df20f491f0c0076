\* One swap of each kind and three mishaps, or two sells on Solana and none.
SPECIFICATION MCSpec
CONSTANTS
  Swaps = {s1, s2}
  s1 = s1
  s2 = s2
  None = none
  MaxMishaps = 3
CHECK_DEADLOCK FALSE
INVARIANTS RecordsHonest RevealsForALock
PROPERTY SellEnds
