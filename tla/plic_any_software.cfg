SPECIFICATION Spec
CONSTANTS
  c1 = c1
  c2 = c2
  Contexts = {c1, c2}
  Interrupts <- Two
  Values = {0, 1, 2, 5}
  MaxPriority = 3
  MaxThreshold <- OneBit
  EnableSet <- Fixed
  EnableClr <- Blocked
  Hasty = {c1, c2}
  Intruders = {c2}
INVARIANTS
  LineExact
  NoneLost
