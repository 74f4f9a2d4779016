SPECIFICATION SourceSpec
CONSTANTS
  ElemSize = 2
  FileSizes = {1, 5}
  PopulationSize = 2
  NumFrames = 1
  FramesPerTick = 2
  Step = 3
  TsRange = 16
  FirstTs = {9}
  m_period = 2
  m_max_overshoot = 1
  m_size = 1
  MaxDuration = 1
  MaxSlots = 6
  MaxTime = 6
  MaxRuns = 2
  MaxConfs = 2
INVARIANTS
  ElementsRight
  RateKept
PROPERTIES
  ProductionStops
