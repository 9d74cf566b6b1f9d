SPECIFICATION CSpec
CONSTANTS
  Keys = {"k1", "k2", "k3"}
  Owners = {"prog", "sys"}
  SystemProgram = "sys"
  BadStr = BadStr
  Lamports = {0, 100, 200}
  Data = {NoData, "odd"}
  NoData = NoData
  PausedData = {"odd"}
  N = 2
  Maybe = {"flip_data", "clear_data", "replace_owner", "mutate_seeds"}
  Shapes = {"readonly", "signer", "badkey"}
  Config <- MCConfig
  NoAccount = NoAccount
  Refused <- MCRefused
  ReapsEmpty = FALSE
  ProgramIds = {"prog"}
  ClientSlices = {}
  ClientActions = {}
  MaxClientLen = 0
  Pools <- MCPools
  ProgramId = "prog"
  SequenceLengths = {2}
  MaxPicked = 2
  Binaries = {"good", "bad"}
  GoodBinaries = {"good"}
  NoBytes = NoBytes
  MaxRounds = 3
INVARIANT
  AllOrNothingLoad
PROPERTY
  RoundsAreAtomic
CHECK_DEADLOCK FALSE
