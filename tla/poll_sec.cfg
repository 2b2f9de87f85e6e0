SPECIFICATION FairSpec
CONSTANTS
  f = f
  g = g
  h = h
  k = k
  t = t
  u = u
  w = w
  n = n
  None = None
  Notes = {n}
  Form4Filings = {f, g, h}
  BuybackFilings = {k}
  Trades = {}
  Content <- MCContent
  Insider <- MCInsider
  Twins <- MCTwins
  Window = 2
  PageRows = 1
  Requests <- MCRequests
  MaxAttempts = 2
INVARIANTS
  StoredWhole
  FailuresAreCounted
PROPERTY FeedsAreCaughtUpWith
