SPECIFICATION FairSpec
CONSTANTS
  c1 = c1
  c2 = c2
  Contexts = {c1, c2}
  Interrupts <- Two
  Values = {1, 2}
  MaxPriority = 3
  MaxThreshold <- OneBit
  EnableSet <- NoBits
  EnableClr <- NoBits
  Hasty = {}
  Intruders = {}
INVARIANTS
  OneServer
PROPERTIES
  ServedAgain
