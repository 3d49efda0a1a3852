SPECIFICATION BenchSpec
CONSTANTS
  Fids = {1, 2}
  NameLists <- MCNameLists
  MaxChunks = 2
  MaxWrites = 2
  ConsoleHarts = {1, 2}
  IerValues <- MCIerValues
  MaxKeys = 2
  MaxOutput = 1
  UartCapacity = 3
  Writers = {1}
  MaxSlice = 2
  MaxBytes = 6
  SmpWorkers = {1}
  BatchLen = 2
  HaltEvery = 2
  InterruptEvery = 1
  HaltCodes <- MCHaltCodes
  MaxIpis = 1
  BusDramBase = 536870912
  BusDramSize = 4100
  VirtioCounts = {0, 3, 7}
  Strides <- MCStrides
  MemHarts = {1, 2}
  WordLen = 4
  BitAnd <- MCAnd
  BitOr <- MCOr
  BitXor <- MCXor
  MemRequests <- MCBothRequests
  MaxRequests = 2
  HsmHarts = {1, 2, 3}
INVARIANTS StoredAsWritten  NoLostWakeup HaltCodeComplete  StartHolds
PROPERTIES RingIsFifo MemoryIsAtomic
CHECK_DEADLOCK FALSE
