SPECIFICATION Spec
CONSTANTS
  f = f
  g = g
  h = h
  k = k
  t = t
  u = u
  w = w
  n = n
  None = None
  Notes = {n}
  Form4Filings = {f}
  BuybackFilings = {k}
  Trades = {t, u, w}
  Content <- MCContent
  Insider <- MCInsider
  Twins <- MCTwins
  Window = 2
  PageRows = 2
  Requests <- MCRequests
  MaxAttempts = 2
INVARIANTS
  TypeOK
  OutageContained
  PageIsStored
PROPERTY OnlyNewerTradesTakeRows
