SPECIFICATION Spec
CONSTANTS
  Size = 4
  Byte = {a, b}
  Data <- ShortData
INVARIANTS
  TypeOK
PROPERTIES
  IsFifo
