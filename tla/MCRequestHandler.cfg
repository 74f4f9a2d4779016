SPECIFICATION RHSpec
CONSTANTS
  p1 = p1
  p2 = p2
  r1 = r1
  r2 = r2
  Requests = {r1, r2}
  Readers = {p1, p2}
  Cleaner = cleaner_thread
  WindowBegin <- MCBegin
  WindowEnd <- MCEnd
  SendPartial = FALSE
  Capacity = 4
  PopLimit = 2
  PopNum = 1
  PopDen = 2
  MaxTs = 5
  MaxRuns = 1
INVARIANTS
  PiecesAreLive
  EachRequestOnce
  CleanFragmentIsComplete
  QuietWhenFlushed
SYMMETRY PoolSymmetry
