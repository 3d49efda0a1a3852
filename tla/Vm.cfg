SPECIFICATION FairSpec
CONSTANTS
  Workers = {w1}
  BatchSize = 2
  ConsoleInterval = 4
  VirtioInterval = 8
  BootSteps = 5
  Codes = {c1, c2}
  Fatal = dead
  NoCode = zero
  GuestWfi = FALSE
  HasGui = TRUE
  MaxTyped = 3
INVARIANTS WorkersHeldBack CodeBeforeHalted InputExact
PROPERTIES FinalCode HaltStops ExitKeyEndsVm
