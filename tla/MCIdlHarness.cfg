SPECIFICATION HarnessSpec
CONSTANTS
  FirstIdls <- MCFirstIdls
  Rebuilt <- MCRebuilt
  NoIdl = NoIdl
  Characters <- MCCharacters
  FirstLower <- MCLower
  Reserved <- MCReserved
  NoDiscriminator = NoDiscriminator
  NoFile = NoFile
  Partial = Partial
  MaxInits = 2
INVARIANTS
  FilesAgree WellNamedCompiles
CHECK_DEADLOCK FALSE
