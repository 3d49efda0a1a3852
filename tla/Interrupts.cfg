SPECIFICATION IrqSpec
CONSTANTS
  Harts = {h0, h1}
  Modes <- MCModesS
  LastSource = 1
  Irq <- MCIrq1
  Priorities = {0, 1}
  Thresholds = {0}
  EnableSets <- MCSets1
  PollEvery = 1
  Free = Free
  QueueDevices = {"block", "rng", "p9", "input"}
  QueueNum = 2
  QueueSize = 2
  IdxMod = 4
  Kinds = {"good", "unfit", "fault", "lateFault"}
  Groups = {2, 3}
  MaxPosts = 4
  MaxEvents = 4
  MaxResets = 1
INVARIANTS RequestsExact EventsExact NoSilentReturn
PROPERTIES LinesSettle ExternalDelivered WorkServed
