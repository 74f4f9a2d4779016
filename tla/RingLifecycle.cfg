SPECIFICATION LifeSpec
CONSTANTS
  Elements = {a, b}
  Empty = empty
  Size = 4
INVARIANTS
  IQTypeOK
  SlotsOwned
  PopsAreCovered
  MemoryIsOwned
PROPERTIES
  ImplementsBuffer
  PrefillCompletes
