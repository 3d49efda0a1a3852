SPECIFICATION FastSpec
CONSTANTS
  Harts = {h0, h1}
  Modes <- MCModesS
  LastSource = 2
  Irq <- MCIrq2
  Priorities = {1}
  Thresholds = {0}
  EnableSets <- MCSetsBoth
  PollEvery = 1
  Free = Free
SYMMETRY MCSymmetry
INVARIANTS CacheCoherent
PROPERTIES NoMissedSource ClaimTakesBest
