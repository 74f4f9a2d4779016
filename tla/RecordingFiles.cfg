SPECIFICATION FilesSpec
CONSTANTS
  ElemSize = 3
  BufferSize = 4
  Align = 2
  MaxElems = 6
  MaxConfs = 3
INVARIANTS
  FileIsPrefix
  FailsOnlyAsKnown
