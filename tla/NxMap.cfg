SPECIFICATION Spec
CONSTANTS
  k1 = k1
  k2 = k2
  k3 = k3
  NULL = NULL
  Keys <- MCKeys
  Vals = {v1}
  Hash <- MCHash
  InitSize = 2
  MaxSize = 8
PROPERTIES
  ImplementsStreamMap
