SPECIFICATION Spec
CONSTANTS
  WordSize = 2
  Full = {2}
  Queries <- Some
  MaxItems = 2
  Creates = {TRUE, FALSE}
  MaxTroubles = 1
CHECK_DEADLOCK FALSE
INVARIANT NothingInvented
INVARIANT JoinComplete
PROPERTY JoinEnds
