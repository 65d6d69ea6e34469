CONSTANTS
  k1 = k1
  k2 = k2
  k3 = k3
  k4 = k4
  v1 = v1
  v2 = v2
  Absent = Absent
  Keys <- FourKeys
  Values <- TwoValues
  MaxSize = 3
  MaxCount = 3
SPECIFICATION Spec
INVARIANT PolicyAgrees
PROPERTY ImplementsLFU
