SPECIFICATION FairSpec
CONSTANTS
  a = a
  b = b
  c = c
  d = d
  o = o
  k = k
  l = l
  scheduler = scheduler
  cli = cli
  officer = officer
  other = other
  None = None
  Form4 = {a}
  OpenInsider = {}
  Buybacks = {k, l}
  Keys <- MCKeys
  Trades <- MCTrades
  Reports <- MCReports
  LastDay = 2
  AccessionOf <- MCAccessionOf
  Roles = {officer, other}
  Configs <- OnlyLow
  Procs = {scheduler}
  Cli = {}
  CommandsOf <- SchedulerOnly
  MaxRuns = 0
  MaxAborts = 1
INVARIANT SupersessionEnds
PROPERTIES
  PendingIsResolved
  CurrentIsClassified
