SPECIFICATION Spec
CONSTANTS
  DataSize = 8
  SlotSize = 1
  Bytes = {0, 1}
  Zero = 0
  Lengths = {1, 2}
INVARIANT SpaceAddsUp
INVARIANT Compact
INVARIANT WalkComplete
PROPERTY RecordsSpec
