SPECIFICATION ExecSpec
CONSTANTS
  Keys = {"k1", "k2", "k3"}
  Owners = {"sys"}
  SystemProgram = "sys"
  BadStr = BadStr
  Lamports = {0, 1, 2}
  Data = {NoData}
  NoData = NoData
  PausedData = {}
  N = 2
  Config <- MCConfig
  NoAccount = NoAccount
  Refused <- MCRefused
  ReapsEmpty = TRUE
  ProgramIds = {"prog"}
  ClientSlices <- MCSlices
  ClientActions <- MCActions
  MaxClientLen = 2
INVARIANTS
  SyncedRollback OutOfReach
CHECK_DEADLOCK FALSE
