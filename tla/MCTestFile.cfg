SPECIFICATION Spec
CONSTANTS
  PageSpace = 15
  SlotSize = 1
  IntSize = 1
  Num = 20
  Lo = 3
  Hi = 6
  FixedLen = 4
  Lengths <- Repeating
INVARIANT ChecksHold
INVARIANT ClosedUnpinned
PROPERTY TestEnds
\* the program ends
CHECK_DEADLOCK FALSE
