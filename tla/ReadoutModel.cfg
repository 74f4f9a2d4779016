SPECIFICATION ReadoutSpec
CONSTANTS
  Tasks = {p1}
  QueueSize = 3
  Capacity = 3
  PopLimit = 2
  PopNum = 4
  PopDen = 5
  m_fake_trigger = TRUE
  MaxTs = 4
  MaxRuns = 2
INVARIANTS
  FreshPointersAreLive
  NothingLeftOver
PROPERTIES
  TimeSyncsAdvance
  RunProgresses
