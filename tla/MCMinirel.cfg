SPECIFICATION Spec
CONSTANTS
  r = r
  s = s
  c = c
  d = d
  e = e
  f = f
  l = l
  Rels = {r}
  Others = {s}
  Starts <- Bases
  Tmp = Tmp
  Attrs = {c, d, e, f, l}
  Width <- Widths
  Overlong = {l}
  Lists <- RelLists
  Queries <- Selected
  MaxNode = 16
  MaxAttrs = 5
  NoName = NoName
  PageSize = 1024
  PageSpace = 1004
  Many = 1
  Phases = {5, 6}
  Troubles = {"io", "crash"}
  MaxTroubles = 1
  MaxCommands = 4
CHECK_DEADLOCK FALSE
INVARIANT DamageConfined
INVARIANT TempGone
INVARIANT OkMeansDone
 
PROPERTY EndsUnlessIntoSource
