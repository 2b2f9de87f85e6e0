------------------------------ MODULE Pipeline ------------------------------
(***************************************************************************)
(* The whole pipeline: processes that run ingest, classify and notify over *)
(* one database.  The scheduler thread runs the three in sequence          *)
(* (scheduler/scheduler.py); a user runs each of them, and classify        *)
(* --reclassify, from the command line of the same container; thresholds   *)
(* may change at any time; a process may die between any two steps.        *)
(***************************************************************************)
EXTENDS Ingest, Classify, Notify

\* Where each command starts.
FirstPhase ==
  [c \in Commands |->
     CASE c \in {"cycle", "ingest"} -> "ingest"
       [] c \in {"classify", "reclassify"} -> "thresholds"
       [] c = "notify" -> "listPending"]

\* A job fires or a user types a command.  What its sources will yield is
\* chosen here: any subset of the filings.
StartCommand(p, c) ==
  /\ pc[p] = "idle"
  /\ c \in CommandsOf[p]
  /\ p \in Cli => runs < MaxRuns
  /\ runs' = IF p \in Cli THEN runs + 1 ELSE runs
  /\ cmd' = [cmd EXCEPT ![p] = c]
  /\ Goto(p, FirstPhase[c])
  /\ \E feed \in IF FirstPhase[c] = "ingest" THEN SUBSET Filings ELSE {{}} :
       Remember(p, [mem[p] EXCEPT !.todo = feed])
  /\ UNCHANGED <<tables, mails, today, aborts>>

\* The user sets new thresholds (CLI or web; module Thresholds has the detail).
SetThresholds(c) ==
  /\ config' = c
  /\ UNCHANGED <<rows, signals, outside, pc, cmd, mem>>

\* The container stops, or an exception that no handler of the phase names
\* ends the command: what was committed stays, what was in memory is lost.
Abort(p) ==
  /\ pc[p] # "idle"
  /\ aborts < MaxAborts
  /\ aborts' = aborts + 1
  /\ Exit(p)
  /\ UNCHANGED <<tables, mails, today, runs>>

\* Midnight.
NextDay ==
  /\ today < LastDay
  /\ today' = today + 1
  /\ UNCHANGED <<tables, mails, pc, cmd, mem, runs, aborts>>

ProcNext(p) == IngestNext(p) \/ ClassifyNext(p) \/ NotifyNext(p) \/ SelectSignal(p)

Next ==
  \/ \E p \in Procs : ProcNext(p)
  \/ \E p \in Procs, c \in Commands : StartCommand(p, c)
  \/ \E p \in Procs : Abort(p)
  \/ \E c \in Configs : SetThresholds(c)
  \/ NextDay

Spec == Init /\ [][Next]_vars

\* A running command goes on (its network and SMTP calls have time-outs) and
\* the scheduler starts the next cycle after the interval.
StartCycle(p) == StartCommand(p, "cycle")
FairSpec == Spec /\ \A p \in Procs : WF_vars(ProcNext(p)) /\ WF_vars(StartCycle(p))

----------------------------------------------------------------------------
TypeOK ==
  /\ rows \in [Filings -> FilingRow \cup {None}]
  /\ signals \in [Filings -> Seq(SignalRow)]
  /\ config \in Configs
  /\ mails \in [Filings -> Nat]
  /\ today \in Days
  /\ pc \in [Procs -> Phases]
  /\ cmd \in [Procs -> Commands \cup {None}]
  /\ mem \in [Procs -> Locals]
  /\ runs \in 0..MaxRuns
  /\ aborts \in 0..MaxAborts

SignalsOf(f) == {signals[f][i] : i \in DOMAIN signals[f]}
Visible(f) == \E s \in SignalsOf(f) : s.notable /\ ~s.superseded

\* A signal is marked sent only if an e-mail about its record was delivered,
\* whatever stale copies the processes save over each other (FR-011).
SentWasMailed ==
  \A f \in Filings : \A s \in SignalsOf(f) : s.status = "sent" => mails[f] > 0

\* A trade that no report of it calls a buy, or a choice of the filer, or gives a
\* price: no threshold makes it notable (FR-006).
Routine(f) ==
  /\ f \in Transactions
  /\ \/ \A r \in ReportsOf(f) : ~r.buy
     \/ \A r \in ReportsOf(f) : ~r.discretionary
     \/ \A r \in ReportsOf(f) : r.value = None

\* Nothing is ever e-mailed about a routine trade, whatever the thresholds were,
\* are, or become between its classification and the e-mail, and whatever columns
\* of its reports the ingest runs leave together in its row.  (A row that some
\* report calls a buy may be a sell by the time its e-mail is sent.)
RoutineNeverMailed == \A f \in Filings : Routine(f) => mails[f] = 0

\* Stale copies and lost updates cost a signal row at most one e-mail for every
\* command a user starts beside the scheduler, and for every crash, over the one
\* it is for (FR-012).  Overlapping classify runs may double the row; its doubles
\* count alike.
DuplicatesAreBounded ==
  \A f \in Filings : mails[f] <= SignalCount(f) * (1 + runs + aborts)

\* One signal per underlying record (data-model.md), so that one_or_none()
\* in signal_repo.py never raises.
OneSignalPerRecord == \A f \in Filings : Len(signals[f]) <= 1

\* Following superseded_by_id from any row ends at a row that is current: of any
\* rows one is superseded by none of them.  So no amendment, re-fetch or crash,
\* on any day, leaves rows that hide each other (dedup.py).
SupersessionEnds ==
  \A S \in SUBSET Stored : S # {} => \E f \in S : rows[f].supersededBy \notin S

\* Every trade that a Form 4 line ever told of keeps a row that is not
\* superseded: a chain of amendments, re-fetches and crashes never hides it.
\* (The key of a buyback moves with the day of its last fetch, so a buyback may
\* be superseded by one that later has another key.)
EventNeverHidden ==
  \A f \in Form4 \cap Stored : \E g \in Form4 : Current(g) /\ rows[g].key = rows[f].key

\* The signal of a Form 4 line is hidden only once another row of its event is
\* current, so the dashboard never loses the trade (FR-016).
HiddenSignalWasReplaced ==
  \A f \in Form4 : \A s \in SignalsOf(f) :
    s.superseded =>
      f \in Stored /\ \E g \in Form4 \ {f} : Current(g) /\ rows[g].key = rows[f].key

\* Each crash costs at most one duplicate e-mail over all signals: without a
\* crash between send_email and save no signal is mailed twice (FR-012).
DuplicateMails == UNION {{f} \X (2..mails[f]) : f \in Filings}
DuplicatesNeedCrashes == Cardinality(DuplicateMails) <= aborts

\* An OpenInsider row never comes to tell of a trade that a stored Form 4 line
\* tells of: the match made by TakeOpenInsiderCandidate still holds when the row
\* is inserted, or its place on the page overwritten (FR-007).
SecFirstNeverDuplicated ==
  [][\A o \in OpenInsider : rows'[o] # rows[o] => ~Matched(rows'[o].trade)]_vars

\* The pipeline implements the lifecycle a record's signal is promised.
Lifecycle ==
  INSTANCE SignalLifecycle WITH
    Records <- Filings,
    status <- [f \in Filings |-> IF signals[f] = <<>> THEN "none" ELSE signals[f][1].status],
    hidden <- {f \in Filings : signals[f] # <<>> /\ signals[f][1].superseded},
    delivered <- {f \in Filings : mails[f] > 0}
ImplementsLifecycle == Lifecycle!LSpec

\* A pending signal is e-mailed, or tried and marked failed, by a later cycle.
PendingIsResolved ==
  \A f \in Filings :
    (\E s \in SignalsOf(f) : s.status = "pending") ~> (\A s \in SignalsOf(f) : s.status # "pending")

\* A row that is stored gets a signal unless it is superseded first.
CurrentIsClassified ==
  \A f \in Filings : Current(f) ~> (SignalsOf(f) # {} \/ ~Current(f))

\* FR-012: never more than one notification for one signal.
AtMostOneMail == \A f \in Filings : mails[f] <= 1

\* research.md 6: Form 4 lines are told apart by accession number and line index,
\* so no line of a filing ever replaces another line of the same filing.
SiblingLinesCoexist ==
  \A f, g \in Form4 \cap Stored :
    f # g /\ AccessionOf[f] = AccessionOf[g] => rows[f].supersededBy # g

\* FR-016: an amended filing never shows as two conflicting entries.
OneVisiblePerEvent ==
  \A f, g \in Form4 \cap Stored :
    f # g /\ rows[f].key = rows[g].key => ~(Visible(f) /\ Visible(g))
=============================================================================
