SPECIFICATION Spec
CONSTANTS
  Keys = {k1, k2, k3}
  Values = {v1, v2}
  NULL = NULL
  Capacity = 3
  IntBits = 4
  HashValues <- FourBitHashes
INVARIANTS
  TypeOK
  IndexInRange
  OneEntryPerKey
PROPERTY
  ImplementsMap
CHECK_DEADLOCK FALSE
