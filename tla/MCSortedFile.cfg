SPECIFICATION Spec
CONSTANTS
  WordSize = 2
  Full = {2}
  SourceKeys <- Keys
  MaxRecs = 4
  MaxItems = {1, 2}
  Creates = {TRUE, FALSE}
  MaxTroubles = 1
CHECK_DEADLOCK FALSE
PROPERTY SequenceSpec
