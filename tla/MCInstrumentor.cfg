SPECIFICATION Spec
CHECK_DEADLOCK FALSE
CONSTANTS
  Texts <- MCTexts
  text_base = 4
  AddressSpace = 64
  bitmap_size = 2
  MaxHits = 2
INVARIANTS
  Restorable OrderDoesNotMatter PanicsDependOnBuild CoverageIsHits
