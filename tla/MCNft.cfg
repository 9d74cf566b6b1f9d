SPECIFICATION Spec
CONSTANTS
  Users = {"ann", "ben"}
  ProgramOwned = {"ben"}
  NoCollection = NoCollection
  NoNft = NoNft
  NoListing = NoListing
  WordBits = 24
  Side = 2
  ROYALTY_BPS = 3
  BpsDenominator = 4
  Prices = {0, 1000, 9000000}
  Wealth = 1500
  MaxMints = 2
  MaxTime = 2
  MaxInstructions = 7
INVARIANTS
  ListedAtTheListing NoDoubleSale RoyaltyWithinPrice
CHECK_DEADLOCK FALSE
