SPECIFICATION Spec
CONSTANTS
  p = p
  q = q
  r = r
  s = s
  t = t
  x = x
  F = F
  G = G
  H = H
  None = None
  Trades = {p, q, r, s}
  Buys = {p, q, r, s}
  Day <- DayOf
  Filer <- FilerOf
  Cik <- CikOf
  Thresholds <- AllSettings
  MaxRows = 2
  MaxAborts = 1
CHECK_DEADLOCK FALSE
INVARIANTS
  TypeOK
  GroupsAreWindows
  EveryClusterHasItsRow
  ClusterRemailNeedsCrash
PROPERTY SentStaysSent
