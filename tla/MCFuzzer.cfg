SPECIFICATION Spec
CONSTANTS
  Keys = {"k1", "k2", "k3"}
  Owners = {"prog", "sys"}
  SystemProgram = "sys"
  BadStr = BadStr
  Lamports = {0, 100, 200}
  Data = {NoData, "odd"}
  NoData = NoData
  PausedData = {"odd"}
  N = 2
  Maybe = {"replace_owner", "zero_lamports", "swap_signer"}
  Shapes = {"plain", "readonly", "duplicate", "signer", "badkey"}
  Config <- MCConfig
  NoAccount = NoAccount
  Refused <- MCRefused
  ReapsEmpty = TRUE
  ProgramIds = {"prog"}
  ClientSlices = {}
  ClientActions = {}
  MaxClientLen = 0
  Pools <- MCPools
  ProgramId = "prog"
  SequenceLengths = {0, 2}
  MaxPicked = 2
  Binaries = {"good", "bad"}
  GoodBinaries = {"good"}
  NoBytes = NoBytes
  MaxRounds = 2
INVARIANTS
  RollbackRestoresRuntime ReadOnlyUntouched SliceMirrorsRuntime
  ErrBeforeAnyTransaction SupplyAlarmBlamesMutator PanicNeedsSignerInPool
CHECK_DEADLOCK FALSE
