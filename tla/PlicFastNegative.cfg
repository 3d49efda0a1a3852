SPECIFICATION FSpec
CONSTANTS
  Harts = {h0, h1}
  Modes <- MCModesS
  LastSource = 2
  Irq <- MCIrq2
  Priorities = {0, 1}
  Thresholds = {0}
  EnableSets <- MCSetsAll
  PollEvery = 1
  Free = Free
SYMMETRY MCSymmetry
PROPERTIES NoFalseNegative
