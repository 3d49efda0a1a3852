SPECIFICATION ClintSpec
CONSTANTS
  Harts <- MCHarts
  BatchSize = 4
  TicksPerMs = 2
  MaxSleepMs = 2
  MaxElapsed = 4
  Never = 99
  Deadlines <- MCDeadlines
  MmioStores <- MCMmio
  MaskBits = 1
  ExtLevels <- MCBoth
INVARIANTS NoLostIpi TimerBitJustified
PROPERTIES IpiDelivered TimerDelivered
