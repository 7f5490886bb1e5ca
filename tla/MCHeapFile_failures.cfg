SPECIFICATION Spec
CONSTANTS
  Plain = {h}
  Scans = {s}
  Inserters = {i}
  Marked = {s}
  MaxPages = 3
  PageSpace = 3
  RecSize = 1
  SlotSize = 1
  Values = {a}
  Filters <- Everything
  Departures <- AllButAlloc
INVARIANT HeaderHeld
