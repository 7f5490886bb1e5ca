SPECIFICATION Spec
CONSTANTS
  Files = {f}
  NumBufs = 2
  MaxPages = 3
  MaxPins = 2
  Values = {blank, v}
  Blank = blank
  NoPage = NoPage
  Departures <- NoDepartures
INVARIANT TypeOK
INVARIANT FramesHashed
INVARIANT PinSound
INVARIANT CleanOnDisk
PROPERTY StoreSpec
