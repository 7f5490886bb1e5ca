SPECIFICATION Spec
CONSTANTS
  Files = {f}
  NumBufs = 2
  MaxPages = 3
  MaxPins = 2
  Values = {blank}
  Blank = blank
  NoPage = NoPage
  Departures <- AllDepartures
INVARIANT HashSound
INVARIANT EndsAtVictim
PROPERTY ExceededOnlyWhenPinned
