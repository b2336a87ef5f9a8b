CONSTANTS
  c1 = c1
  c2 = c2
  Clients = {c1, c2}
  Name <- Names
  NameField <- NameFields
  Blocks <- TwoBlocks
  Chars = {"a", "b", "c", "d"}
  DataText <- LateText
  WordMod = 4
  ByteMod = 2
  TimeoutArg = 1
  ResendArg = 1
  SocketSize = 2
  ClientRetries = 1
  FaultModes <- LiveModes
  Nobody = Nobody
SPECIFICATION Spec
PROPERTY NoDataInTimeoutWindow
CHECK_DEADLOCK FALSE
