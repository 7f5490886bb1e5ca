SPECIFICATION Spec
CONSTANTS
  obj1 = obj1
  obj2 = obj2
  obj3 = obj3
  obj4 = obj4
  obj5 = obj5
  obj6 = obj6
  Files <- Objects
  Address <- Addresses
  MaxInt = 100
  Placements <- Places
  num = 9
  NumBufs = 9
  MaxPages = 11
  HTSIZE = 3
  Blank = blank
INVARIANT HashRight
PROPERTY PassesAllTests
\* the program ends
CHECK_DEADLOCK FALSE
