SPECIFICATION NetSpec
CONSTANTS
  QueueNum = 2
  IdxMod = 4
  TxKinds = {"packet", "fault"}
  RxKinds = {"buffer", "unfit", "fault"}
  MaxPosts <- MCPostsFew
  MaxPackets = 2
  MaxResets = 1
  Kinds = {"browser", "node"}
  TxSlots = 2
  RxSlots = 2
  MaxSubmitted = 3
  MaxInjected = 2
  ChunkIds = 4
  Sizes = {1, 2}
  MaxFrames = 2
  MaxSends = 1
  MaxFaults = 1
INVARIANTS TxExact RxExact NoSilentCompletion RingsExact FramesWhole
PROPERTIES PollDrains 
CHECK_DEADLOCK FALSE
