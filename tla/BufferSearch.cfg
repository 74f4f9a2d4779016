SPECIFICATION BSSpec
CONSTANTS
  Size = 4
  NumFrames = 2
  Tick = 2
  Searches = {"binary", "fixed_rate"}
  Overflowing = {"binary"}
  FirstTs = 4
  LastTs = 24
  FirstWindow = 4
  MaxGap = 1
  TsModulus = 256
INVARIANTS
  LowerBoundRight
PROPERTIES
  CollectsTheWindow
