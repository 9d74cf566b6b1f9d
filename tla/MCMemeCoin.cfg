SPECIFICATION Spec
CONSTANTS
  Users = {alice, bob}
  PoolKey = "pool"
  NoPool = NoPool
  PoolMint = "meme"
  OtherMints = {"lp"}
  Authority <- MCAuthority
  WordSize = 16
  FeeBps = 1
  FeeDenominator = 4
  MinimumLiquidity = 1
  Amounts = {0, 4, 5}
  Wealth = 7
  MaxInstructions = 5
SYMMETRY Symmetry
INVARIANTS
  Solvent OverstatedByDiversions
PROPERTIES
  ProductNeverFalls ShareNeverFalls
CHECK_DEADLOCK FALSE
