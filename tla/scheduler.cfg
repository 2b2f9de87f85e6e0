SPECIFICATION Spec
CONSTANTS
  a = a
  b = b
  c = c
  d = d
  o = o
  k = k
  l = l
  scheduler = scheduler
  cli = cli
  officer = officer
  other = other
  None = None
  Form4 = {a, b}
  OpenInsider = {o}
  Buybacks = {}
  Keys <- MCKeys
  Trades <- MCTrades
  Reports <- MCReports
  LastDay = 1
  AccessionOf <- MCAccessionOf
  Roles = {officer, other}
  Configs <- LowOrHigh
  Procs = {scheduler}
  Cli = {}
  CommandsOf <- SchedulerOnly
  MaxRuns = 0
  MaxAborts = 2
INVARIANTS
  TypeOK
  OneSignalPerRecord
  EventNeverHidden
  HiddenSignalWasReplaced
  DuplicatesNeedCrashes
PROPERTIES
  SecFirstNeverDuplicated
  ImplementsLifecycle
