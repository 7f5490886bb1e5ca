SPECIFICATION Spec
CONSTANTS
  Plain = {}
  Scans = {s, t}
  Inserters = {i}
  Marked = {}
  MaxPages = 3
  PageSpace = 5
  RecSize = 1
  SlotSize = 1
  Values = {a}
  Filters <- Everything
  Departures <- None
PROPERTY ScanComplete
PROPERTY ScanOnce
SYMMETRY SameScans
