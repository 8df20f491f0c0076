SPECIFICATION FairSpec
CONSTANTS
  NoDeal = NoDeal
  alice = alice
  bob = bob
  h1 = h1
  h2 = h2
  p1 = p1
  Self = self
  Users = {alice, bob}
  Preimages = {p1}
  Hashes = {h1, h2}
  Sha256 <- MCSha256
  Offers <- MCOffers
  Deadlines = {1}
  MaxAmount = 2
  MaxTime = 3
  MaxLocks = 2
  MaxSigned = 2
  Supply = 2
CHECK_DEADLOCK FALSE
INVARIANTS Sound SpentSignatures
PROPERTIES NothingStuck ImplementsEscrow
