SPECIFICATION Spec
CONSTANTS
  Users = {ann, ben}
  DefaultKey = DefaultKey
  NoConfig = NoConfig
  NoVelocity = NoVelocity
  NoSnapshot = NoSnapshot
  NoClaim = NoClaim
  Slots = {1}
  WordSize = 16
  BaseTax = 1
  MaxTax = 6
  VELOCITY_SCALING_BPS = 2
  VELOCITY_WINDOW_SECS = 1
  MinRatio = 2
  MaxRatio = 4
  UserBalance = 3
  Amounts = {0, 3}
  PoolBalances = {0, 9}
  Ratios = {1, 3, 5}
  Statuses = {0, 1, 3}
  MaxTime = 4
  MaxHooks = 3
SYMMETRY Symmetry
INVARIANTS
  CountsTheWindow
PROPERTIES
  TaxFallsOnlyAfterWindow
CHECK_DEADLOCK FALSE
