SPECIFICATION GateSpec
CONSTANTS
  Readers = {r1, r2, r3}
  Cleaner = cleaner_thread
INVARIANTS
  CountIsExact
  Exclusion
  NoLostWakeup
PROPERTIES
  CleanupHappens
  ReaderGetsIn
