SPECIFICATION SkipSpec
CONSTANTS
  Readers = {r1, r2}
  Cleaner = cleaner
  MaxTs = 6
  m_max_ts_diff = 2
  PopLimit = 2
INVARIANTS
  LoopStaysInside
  PointersAreLive
