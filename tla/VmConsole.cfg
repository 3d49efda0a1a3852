SPECIFICATION FairSpec
CONSTANTS
  Workers = {}
  BatchSize = 2
  ConsoleInterval = 4
  VirtioInterval = 8
  BootSteps = 5
  Codes = {c1, c2}
  Fatal = dead
  NoCode = zero
  GuestWfi = TRUE
  HasGui = FALSE
  MaxTyped = 0
PROPERTIES ConsolePolled
