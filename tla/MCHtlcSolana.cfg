SPECIFICATION FairSpec
CONSTANTS
  NoSwap = NoSwap
  user = user
  lp = lp
  h1 = h1
  h2 = h2
  p1 = p1
  SwapIds = {i1, i2, i3}
  Keys = {user, lp}
  Preimages = {p1}
  Hashes = {h1, h2}
  Sha256 <- MCSha256
  Offers <- MCOffers
  MaxAmount = 2
  MaxTime = 3
  Supply = 3
CHECK_DEADLOCK FALSE
INVARIANT Sound
PROPERTIES NothingStuck ImplementsEscrow
