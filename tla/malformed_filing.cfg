SPECIFICATION Spec
CONSTANTS
  f = f
  g = g
  h = h
  k = k
  t = t
  u = u
  w = w
  n = n
  None = None
  Notes = {n}
  Form4Filings = {}
  BuybackFilings = {k}
  Trades = {}
  Content <- CommaContent
  Insider <- MCInsider
  Twins <- MCTwins
  Window = 1
  PageRows = 1
  Requests <- MCRequests
  MaxAttempts = 3
PROPERTY MalformedFilingContained
