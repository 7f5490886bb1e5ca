SPECIFICATION Spec
CONSTANTS
  Plain = {}
  Scans = {s}
  Inserters = {i}
  Marked = {s}
  MaxPages = 3
  PageSpace = 5
  RecSize = 1
  SlotSize = 1
  Values = {a, b}
  Filters <- EachValue
  Departures <- Unlucky
INVARIANT WritesDeclared
INVARIANT ChainSound
INVARIANT CountSound
INVARIANT PinsAreObjects
PROPERTY FileSpec
PROPERTY ScanComplete
SYMMETRY SameValues
