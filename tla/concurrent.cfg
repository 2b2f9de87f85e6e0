SPECIFICATION Spec
CONSTANTS
  a = a
  b = b
  c = c
  d = d
  o = o
  k = k
  l = l
  scheduler = scheduler
  cli = cli
  officer = officer
  other = other
  None = None
  Form4 = {a, d}
  OpenInsider = {}
  Buybacks = {}
  Keys <- MCKeys
  Trades <- MCTrades
  Reports <- MCReports
  LastDay = 1
  AccessionOf <- MCAccessionOf
  Roles = {officer, other}
  Configs <- LowOrHigh
  Procs = {scheduler, cli}
  Cli = {cli}
  CommandsOf <- SchedulerAndCli
  MaxRuns = 1
  MaxAborts = 1
INVARIANTS
  SentWasMailed
  RoutineNeverMailed
  DuplicatesAreBounded
