SPECIFICATION RHSpec
CONSTANTS
  p1 = p1
  p2 = p2
  r1 = r1
  r2 = r2
  Requests = {r1}
  Readers = {p1}
  Cleaner = cleaner_thread
  WindowBegin <- MCBegin
  WindowEnd <- MCEnd
  SendPartial = FALSE
  Capacity = 4
  PopLimit = 3
  PopNum = 1
  PopDen = 2
  MaxTs = 5
  MaxRuns = 2
PROPERTIES
  StopCompletes
  RequestResolved
