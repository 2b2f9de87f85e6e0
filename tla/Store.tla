------------------------------- MODULE Store -------------------------------
(***************************************************************************)
(* The SQLite tables that every command of insideoutside shares, the       *)
(* repository calls that read and write them, and the memory of a running  *)
(* command between two such calls.                                         *)
(*                                                                         *)
(* Each repository method opens a session of its own (storage/db.py), so   *)
(* whatever another process does can fall between two calls.  A method     *)
(* that writes is two steps: it SELECTs the row and then sends an INSERT,  *)
(* or an UPDATE of the columns that differ from what it selected.  SQLite  *)
(* is reached through pysqlite, which opens a transaction at that last     *)
(* statement only: another process may commit between the two.             *)
(*                                                                         *)
(* The modules Ingest, Classify and Notify extend this one with the steps  *)
(* of the three phases; Pipeline composes them.                            *)
(***************************************************************************)
EXTENDS Naturals, Sequences, FiniteSets

CONSTANTS
  Form4,        \* SEC Form 4 transaction lines, named by source_ref
  OpenInsider,  \* rows of the OpenInsider page, named by source_ref
  Buybacks,     \* buyback disclosures, named by source_ref
  Keys,         \* natural keys: what find_by_natural_key compares
  Trades,       \* what find_by_fuzzy_match compares
  Reports,      \* Reports[f][d]: what a fetch of f on day d may report
  LastDay,      \* bound on the number of days
  AccessionOf,  \* the accession number of each Form 4 line's filing
  Roles,        \* filer roles
  Configs,      \* the threshold configurations a user may set
  Procs,        \* the processes: the scheduler thread, CLI commands
  CommandsOf,   \* the commands each process may run
  Cli,          \* the processes whose commands are counted in runs
  MaxRuns,      \* bound on the number of commands Cli processes start
  MaxAborts,    \* bound on the number of crashes
  None          \* no value (Python's None)

Filings == Form4 \cup OpenInsider \cup Buybacks
Transactions == Form4 \cup OpenInsider

Commands == {"cycle", "ingest", "classify", "reclassify", "notify"}

\* ThresholdConfiguration, without the two cluster settings (module Clusters).
ThresholdConfig ==
  [minBuy : Nat, minRoleBuy : Nat, roles : SUBSET Roles, minBuyback : Nat]

\* A row of insider_transactions or buyback_events: the columns that steps of
\* the pipeline compare or change.  The natural key of a buyback holds the day
\* of its last fetch; the other columns are what the source said that day.
FilingRow ==
  [key : Keys, trade : Trades \cup {None}, buy : BOOLEAN, discretionary : BOOLEAN,
   value : Nat \cup {None}, role : Roles, supersededBy : Filings \cup {None}]

Days == 1..LastDay
ReportsOf(f) == UNION {Reports[f][d] : d \in Days}

\* Every filing reports something on every day (which of them a run gets to see
\* is the choice of StartCommand).
\* A fetched filing is not superseded; every buyback has an amount.  The tables
\* are distinct, and OpenInsider rows carry cik = "", so none has the natural
\* key of a Form 4 line.  A filing on EDGAR never changes, so neither does the
\* key of its lines; the source_ref of an OpenInsider row is a place on the
\* page, where any trade may be found.
ASSUME FilingsAssumption ==
  /\ None \notin Filings \cup FilingRow
  /\ Transactions \cap Buybacks = {}
  /\ Form4 \cap OpenInsider = {}
  /\ LastDay \in Nat \ {0}
  /\ Reports \in [Filings -> [Days -> SUBSET FilingRow]]
  /\ \A f \in Filings, d \in Days : Reports[f][d] # {}
  /\ \A f \in Filings : \A r \in ReportsOf(f) :
        r.supersededBy = None /\ (f \in Buybacks => r.value # None)
  /\ \A f, g \in Filings : \A r \in ReportsOf(f), s \in ReportsOf(g) :
        r.key = s.key => \E T \in {Form4, OpenInsider, Buybacks} : {f, g} \subseteq T
  /\ \A f \in Form4 : \A r, s \in ReportsOf(f) : r.key = s.key
  /\ Configs \subseteq ThresholdConfig
  /\ None \notin Configs
  /\ None \notin Nat

ASSUME ProcsAssumption ==
  /\ CommandsOf \in [Procs -> SUBSET Commands]
  /\ Cli \subseteq Procs
  /\ MaxRuns \in Nat
  /\ MaxAborts \in Nat

VARIABLES
  rows,         \* rows[f]: f's row in its table, None before it is ingested
  signals,      \* signals[f]: the signal rows linked to f, oldest first
  config,       \* the threshold_configurations row
  mails,        \* mails[f]: e-mails about f that reached the mailbox
  today,        \* the date
  pc,           \* where each process is
  cmd,          \* the command each process runs
  mem,          \* the local variables of that command
  runs,         \* commands started by Cli processes
  aborts        \* crashes so far

tables == <<rows, signals, config>>
outside == <<mails, today, runs, aborts>>
vars == <<rows, signals, config, mails, today, pc, cmd, mem, runs, aborts>>

Statuses == {"not_applicable", "pending", "sent", "failed"}

\* A signal row: the columns that steps of the pipeline read or change.
SignalRow == [notable : BOOLEAN, superseded : BOOLEAN, status : Statuses]

\* A Signal object in memory: its record, its place among that record's signal
\* rows (0: not saved yet, a fresh uuid) and its columns.
Held == [rec : Filings, k : Nat, row : SignalRow]

\* A filing as txn_repo.list() or event_repo.list() returned it.
Listed == [rec : Filings, data : FilingRow]

Phases ==
  {"idle", "ingest", "priors", "upsert", "write", "mark", "supersede", "hide", "saveHidden",
   "thresholds", "listTxns", "txns", "buybacks", "saveSignal", "listPending", "send", "resolve"}

Locals ==
  [todo   : SUBSET Filings,                \* candidates still to come
   cur    : Filings \cup {None},           \* the candidate being ingested
   data   : FilingRow \cup {None},         \* what was fetched of it
   priors : SUBSET Filings,                \* the rows it supersedes, still to mark
   prior  : Filings \cup {None},           \* the one being marked
   conf   : Configs \cup {None},           \* thresholds as read at the start
   list   : SUBSET Listed,                 \* rest of the list being classified
   held   : Held \cup {None},              \* the signal in hand
   batch  : SUBSET Held,                   \* rest of the pending list
   seen   : FilingRow \cup SignalRow \cup {None}]  \* the row a write has selected

NoLocals ==
  [todo |-> {}, cur |-> None, data |-> None, priors |-> {}, prior |-> None, conf |-> None,
   list |-> {}, held |-> None, batch |-> {}, seen |-> None]

----------------------------------------------------------------------------
\* The filings that have a row, and those among them that are not superseded.
Stored == {f \in Filings : rows[f] # None}
Current(f) == f \in Stored /\ rows[f].supersededBy = None

\* find_by_natural_key, filtered on superseded_by_id is None by its caller.
CurrentRows(key) == {g \in Filings : Current(g) /\ rows[g].key = key}

\* find_by_fuzzy_match: a Form 4 line, superseded or not, tells of the trade.
Matched(trade) == \E g \in Form4 \cap Stored : rows[g].trade = trade

\* An UPDATE of a row: it sets the columns in which the object in memory differs
\* from the row as selected, and leaves the others as they are by now.
Updated(row, seen, new) ==
  [column \in DOMAIN row |-> IF new[column] = seen[column] THEN row[column] ELSE new[column]]

\* get_for_insider_transaction and get_for_buyback_event end in one_or_none():
\* None, the row, or MultipleResultsFound.
SignalCount(f) == Len(signals[f])
TheSignal(f) == [rec |-> f, k |-> 1, row |-> signals[f][1]]

\* Fault: save always inserts, as if session.get had found nothing.
SaveSignalInserts(h, seen) == signals' = [signals EXCEPT ![h.rec] = Append(@, h.row)]

\* SignalRepository.save, once its session.get has seen the row: a signal without
\* one is inserted, any other updates it.
SaveSignal(h, seen) ==
  LET linked == signals[h.rec] IN
    signals' = [signals EXCEPT ![h.rec] =
                  IF h.k = 0 THEN Append(linked, h.row)
                  ELSE [linked EXCEPT ![h.k] = Updated(linked[h.k], seen, h.row)]]

\* list_pending_notifications: every row whose status is pending.
PendingSignals ==
  {h \in UNION {{[rec |-> f, k |-> k, row |-> signals[f][k]] : k \in 1..Len(signals[f])}
                  : f \in Filings} : h.row.status = "pending"}

----------------------------------------------------------------------------
\* Control of a process.

Goto(p, phase) == pc' = [pc EXCEPT ![p] = phase]

Remember(p, m) == mem' = [mem EXCEPT ![p] = m]

\* The command ends, normally or with an exception nothing catches.
Exit(p) ==
  /\ Goto(p, "idle")
  /\ cmd' = [cmd EXCEPT ![p] = None]
  /\ Remember(p, NoLocals)

\* A phase ends: the scheduler's cycle goes on to the next one, a CLI command
\* is done.
EndPhase(p, next) ==
  IF cmd[p] = "cycle" /\ next # "idle"
  THEN Goto(p, next) /\ Remember(p, NoLocals) /\ UNCHANGED cmd
  ELSE Exit(p)

\* session.get of SignalRepository.save: there is a row, unless the signal in
\* hand has a fresh uuid.
SelectSignal(p) ==
  /\ pc[p] \in {"saveHidden", "saveSignal", "resolve"}
  /\ mem[p].seen = None
  /\ LET h == mem[p].held IN
       /\ h.k \in DOMAIN signals[h.rec]
       /\ Remember(p, [mem[p] EXCEPT !.seen = signals[h.rec][h.k]])
  /\ UNCHANGED <<tables, outside, pc, cmd>>

\* save can go on to its INSERT or UPDATE.
Selected(m) == m.held.k = 0 \/ m.seen # None

Init ==
  /\ rows = [f \in Filings |-> None]
  /\ signals = [f \in Filings |-> <<>>]
  /\ config \in Configs
  /\ mails = [f \in Filings |-> 0]
  /\ today = 1
  /\ pc = [p \in Procs |-> "idle"]
  /\ cmd = [p \in Procs |-> None]
  /\ mem = [p \in Procs |-> NoLocals]
  /\ runs = 0
  /\ aborts = 0
=============================================================================
