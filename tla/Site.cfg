SPECIFICATION SiteSpec
CONSTANTS
  Email = {owner, visitor}
  Owner = owner
  Handler = {h1, h2}
  SessionId = {s1, s2}
  Threshold = 3
  LockFor = 2
  TTL = 2
  CountCap = 4
  A = user
  B = system
  Cells = 2
  MinWin = 2
  MaxBytes = 5
  MarkerLen = 2
  Lines <- SomeLines
  Blocks <- SomeBlocks
SYMMETRY SiteSymmetry
CHECK_DEADLOCK FALSE
INVARIANTS
  SiteTypeOK
  Throttled
  PagesAgree
PROPERTIES
  SessionsSurvive
