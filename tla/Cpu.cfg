SPECIFICATION CpuSpec
CONSTANTS
  NumPc = 8
  PageLen = 4
  Insns <- MCInsns
  Programs <- MCPrograms
  Maps <- MCMaps
  Handler = 5
  MaxBlockSize = 3
  MaxChainDepth = 2
  BlockCacheSize = 3
  HotCount = 1
  PollPeriod = 2
  GuestKeepsCode = TRUE
  MaxWrites = 1
  GuestPcs = {1}
  Exceptions = {"user", "machine"}
  Medeleg = {"user"}
  Wired = {"SSI", "MTI"}
  SstatusWrites <- MCSstatusWrites
  MstatusWrites <- MCMstatusWrites
  Poll256 = 2
  Sstc = FALSE
  Harts = {1, 2}
  Asids = {0, 1}
  Vpns = {0, 2}
  SuperLen = 2
  TlbSize = 1
  Tables <- MCTables
  Edits <- MCEdits
  Requests <- MCRequests
  RemoteReaches = FALSE
  MaxEdits = 1
  XBits = 8
  Operands = {0, 1, 5, 8, 37, 127, 128, 255}
INVARIANTS TranslationJustified ExecutesAsDefined
PROPERTIES  ReturnsToPoll ReturnsToInterrupted WaitingIsServed
