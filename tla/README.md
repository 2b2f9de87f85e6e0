# insideoutside in TLA+

`insideoutside` watches public filings (SEC Form 4, SEC buyback disclosures,
the OpenInsider page), decides which are notable under the user's thresholds,
shows the notable ones on a dashboard and e-mails each. This directory holds
TLA+ modules of its core, TLC configurations that check them on small
instances, and TLAPS proofs of what holds for every instance.

Paths below are relative to `src/insideoutside/`.

## 1. The system

| component | state it keeps | operations | code |
|---|---|---|---|
| tables and repositories | SQLite tables of transactions, buybacks, clusters, signals, thresholds | one method = one session, committed before it returns | `storage/` |
| ingestion | none of its own; `superseded_by_id` of rows, `is_superseded` of signals | look up by `source_ref`, find priors by natural key, fuzzy match, upsert, supersede | `ingestion/dedup.py`, `ingestion/orchestrator.py` |
| classification | signal rows of records | read thresholds once, list once, create or rewrite signals | `classification/rules.py`, `cli/commands/classify.py` |
| cluster detection | cluster rows, their signals | group, match rows by shared transactions, create or rewrite signals | `classification/cluster_buying.py`, `storage/repositories/cluster_buy_repo.py` |
| notification | `notification_status` | list pending, e-mail, save the outcome | `notifications/` |
| scheduler, CLI | none | poll cycle (ingest, classify, notify); each phase as a command | `scheduler/`, `cli/` |
| thresholds | one row | get (inserts defaults), set | `storage/repositories/threshold_repo.py`, `web/routes/thresholds.py`, `cli/commands/thresholds.py` |
| polling: feed readers, HTTP client | none; the locals of one run: attempts, the list being read, counts | discover, fetch with retries, parse, count failures | `ingestion/sec_*.py`, `ingestion/openinsider_feed.py`, `ingestion/http_client.py` |
| dashboard, API | none | read-only queries | `web/` |

All components interact through the database only. `insideoutside serve` runs
the scheduler in a thread of its own beside the web server's thread pool; a
user runs `ingest`, `classify [--reclassify]`, `notify` and `thresholds` as
further processes on the same file. No lock, version column or transaction
spans two repository calls. What makes this hard to get right:

* *interleaving and stale copies*: every command reads a signal, computes, and
  later SELECTs the row again and writes the columns in which its copy differs;
* *names that move*: an OpenInsider row is named by its place on the page, and the
  key of a buyback holds the day it was last fetched, so that what a row tells of,
  and what it is a version of, changes from one poll to the next;
* *crashes between two calls*: between the insert of an amendment and the
  supersession of what it amends, between an e-mail and the save of its outcome;
* *ordering*: feeds list newest first, list the same filing again in later
  polls, and one source may report a trade before the other;
* *protocol sequences*: thresholds move back and forth and signals are
  classified again; clusters grow, split, merge and dissolve;
* *failures of the network and of documents*: a poll makes a request per filing,
  each of which may fail, answer something else or be cut short by a crash, and
  each of which has a handler of its own;
* *lists that shift*: the feeds show the newest entries only, OpenInsider's rows
  are named by their place, the API is paged by offset while rows come and go;
* *liveness*: pending signals must be resolved by some later cycle, and the tables
  must catch up with the feeds after any failure.

`PROJECT.json` lists each such hazard at its line with the properties that
would catch it.

What makes each component correct, in short: **ingestion** never hides a Form 4
trade altogether, hides its signal only if it was replaced, and never makes rows
hide each other; **classification** keeps one signal per record; **notification**
marks `sent` only what was delivered and repeats only after a crash, or after a
command that overlaps it;
**clusters** are exactly the windows of their definition, each with its own row
and never e-mailed twice; **thresholds** are always valid and change by updates
only; **polling** stores a filing whole or not at all, counts what it failed on,
and lets no outage of a source (`FetchError`, which is all that the handlers of a
source catch) block the other; **the dashboard** leaves out nothing but what
is too old for it; **the pipeline** resolves whatever is pending.

## 2. Modules

| module | models |
|---|---|
| `Store` | the tables and repository calls; the locals and program counter of a running command |
| `Ingest` | `run_ingest` over the candidates of its sources, one statement of a repository call per step |
| `Classify` | `run_classify` over transactions and buybacks |
| `Notify` | `run_notify` |
| `Pipeline` | their composition: scheduler, CLI processes, threshold changes, crashes; the properties |
| `SignalLifecycle` | abstract specification: what is promised of one record's signal |
| `Clusters` | the cluster pass of `run_classify`, its rows, signals and e-mails |
| `Thresholds` | overlapping requests on the thresholds row |
| `Documents` | what each parser makes of a document: its records, or the exception it raises |
| `Poll` | `run_ingest` over the network: requests, retries, loops, handlers, counters, `--fixture`, crashes |
| `Dashboard` | the dashboard and a client that pages through `/api/signals`, over a table that changes |
| `MCPipeline`, `MCClusters`, `MCThresholds`, `MCPoll`, `MCDashboard` | instances for TLC |
| `PipelineProofs`, `SingleWorkerProofs`, `LifecycleProofs`, `DetectionProofs`, `ClustersProofs`, `ThresholdsProofs`, `PollProofs`, `DashboardProofs` | theorems |

**Atomicity.** Every repository method opens a session of its own and commits
before it returns. A method that reads is one step; anything another process does
may fall between two calls. A method that writes is two: it SELECTs the row, and
then sends an INSERT, or an UPDATE of the columns in which the object in memory
differs from the row selected. pysqlite opens a transaction at that last statement
only, so another process may commit between the two. `SelectSignal` and
`SaveSignal(h, seen)` are the two halves of `SignalRepository.save`,
`SelectCandidate` and `InsertCandidate` or `UpdateCandidate` those of an upsert,
`MarkPrior` and `SupersedePrior` those of `mark_superseded`, and `Updated` is the
UPDATE: columns that the writer did not change stay as they are by then. So a
saved row may mix what two processes computed. The SELECT of a signal that has no row
yet (a fresh uuid) finds nothing whenever it comes, and is left out. The
statements of the methods of `Clusters` and `Dashboard` are not split: in the former one
worker is alone, and in the latter a rewrite is any change of one row.
`TakeSecCandidate` and `TakeOpenInsiderCandidate` include the candidate's first
look-up.

**State.** `rows`, `signals`, `config` are the tables: `rows[f]` is the row named by
`source_ref` f (`FilingRow`: natural key, trade, the facts the rules read,
`superseded_by_id`), `signals[f]` the sequence of signal rows linked to it (a
sequence, because nothing in the schema keeps a second row out). What a fetch of f
says on a given day is any member of `Reports[f][today]`, and every upsert writes all
of it. `FilingsAssumption` says what stays: a filing on EDGAR never changes, so
neither does the key of a Form 4 line; and the tables are distinct, as are the keys of
the sources (`cik` = "" of OpenInsider). An OpenInsider row, named by a place on
the page, may report any trade each time, and a buyback's key holds the day of the
fetch (`orchestrator.py:181`), which `NextDay` moves on. `mails` counts what reached
the mailbox and exists only in the model. `pc`, `cmd`, `mem` are the phase, the
command and the local variables of each process.

**Errors.** `one_or_none()` on two signal rows raises, and the command exits
(`ReadPriorSignal`, `ReadRecordSignal`); any other exception that no handler of
the phase names, and any crash, is `Abort`. `send_email` fails before or after
the server took the message (the reply to QUIT), hence the free `accepted` in
`SendMailFails`. A filing that could not be fetched or parsed is simply not
among the candidates of a run: `StartCommand` picks any subset, and `Poll` says
which subsets, in which order and with which errors.

**Order.** Within a run Form 4 lines come before buybacks and both before
OpenInsider rows (`NextCandidates`); within a source any order is possible.
Records are classified and signals e-mailed in any order.

**Clusters.** `detect_clusters` is a recursive function (`AfterVisiting`) from the
trades visited so far to the loop's variables: `LastVisited` says which trade the
loops reach last, company by company and by date, `Visit` is the body of the loop
and `Finalized` is `_finalize_group`, also applied after each company. A row is matched by company and shared trade, oldest first,
since the query has no ORDER BY and SQLite scans by rowid. One worker, which
may crash: which trades are current is a free choice of each cycle, and so are
the settings, because `Pipeline` and `Thresholds` can produce any of these
histories. Filers are what `_filer_identity` returns on a stored row (in
practice the name: `filer_id` is never written, see the hazards).

**Thresholds.** `get` that finds no row inserts the defaults; two clients may
both find none, and the loser's insert breaks the primary key. A PUT or `set`
is get, merge, validate, and set, which is a SELECT (`SelectRow`) and an UPDATE of
the columns that differ (`WriteRow`). After an insert `get` reads the row once more
(`RefreshRow`) and returns it as it is by then. In `Pipeline` the same change is one step
(`SetThresholds`), because a command reads the row exactly once.

**Documents and polling.** A document is described by its *flaws*, each of which
makes one expression of its parser raise, and by the facts it reports. A parser
raises what its first flawed expression raises (`HeaderChecks`, `LineChecks`,
`RowChecks` are in the order of the code) and yields records only when there is
none, because `parse_form4_xml`, `parse_buyback_disclosure_html` and
`parse_openinsider_page` finish before anything is ingested. `Poll` takes one
step per HTTP attempt (`AttemptFails`, `GarbledAnswer`, `EmptyAnswer`, or the
answer), per loop head and per record. `Caught` lists what the handler around
each stage catches, and `Raise` does what that handler does: count the filing
and go on, count the source and end it, or end the run with nothing returned.
`Publish` may happen between any two steps, so a feed is read at the moment of
its answer. Ingesting a record is one step, which adds or overwrites its row:
the calls inside it are `Ingest`'s. A crash there is `Crash`. `--fixture` reads
a saved copy of a filing that was published, or of the OpenInsider page as it
looked at any time (`SavedPages`); a file is taken to be named by its accession
number, as `path.stem` is used for one. (An 8-K from a file has `cik` "UNKNOWN":
`Poll` keeps no `cik`, and in `Pipeline` such a fetch is one more report with a key of
its own.) One process polls.

**Dashboard.** `SignalRepository.list` runs two SELECTs (`CountRows`, `ReadPage`)
which are not one snapshot, and a client asks for page after page. `created_at`
is taken when the `Signal` object is made, before its row is inserted, so rows
may be inserted out of its order (`MakeSignal`, `InsertSignal`). Since
readers write nothing, one reader stands for any number. Writers are abstract
here: a rewrite may set `is_notable` and `is_superseded` to anything, which
includes whatever `Pipeline` and `Clusters` do. Two signals made in the same
microsecond are not modelled.

The operators commented *Fault:* are plausible bugs (a dropped guard, a missing
reset, swapped arguments). They are used by no action: each replaces the
operator after it to show that a property notices.

## 3. Runs

Runs that hold:

| run | instance | properties | distinct states |
|---|---|---|---|
| `scheduler` | one scheduler, 2 versions of a Form 4 line, a row of the OpenInsider page that shows their trade or another, 2 configurations, 2 crashes | `OneSignalPerRecord`, `EventNeverHidden`, `HiddenSignalWasReplaced`, `DuplicatesNeedCrashes`, `SecFirstNeverDuplicated`, `ImplementsLifecycle` | about 1 466 000 |
| `scheduler_live` | one scheduler with fairness, a Form 4 line, 2 buybacks of one company, 2 days, 1 crash | `SupersessionEnds`, `PendingIsResolved`, `CurrentIsClassified` | about 105 000 |
| `concurrent` | scheduler and one CLI command of any kind, 2 versions (one a 10b5-1 purchase), 2 configurations, 1 crash | `SentWasMailed`, `RoutineNeverMailed`, `DuplicatesAreBounded` | about 3 100 000 |
| `clusters` | 4 trades, 3 filers, any subset per cycle, 3 settings, 2 rows, 1 crash | `GroupsAreWindows`, `EveryClusterHasItsRow`, `ClusterRemailNeedsCrash`, `SentStaysSent` | about 758 000 |
| `thresholds` | 3 clients, 2 fields, valid and invalid values | `StoredIsValid`, `OnlyUpdatesChange`, `OnlyOvertakenFieldsRevert` | about 790 000 |
| `poll_sec` | 3 Form 4 filings (2 lines; no issuer; no XML link), a buyback, a feed window of 2, with fairness | `StoredWhole`, `FailuresAreCounted`, `FeedsAreCaughtUpWith` | about 55 000 |
| `poll_openinsider` | a Form 4 filing, a buyback, 2 trades of one insider (one the twin of a line) and a short row, a page of 2 rows and every earlier state of it as a fixture | `OutageContained`, `PageIsStored`, `OnlyNewerTradesTakeRows` | about 215 000 |
| `dashboard` | 2 transactions, an older cluster, a dashboard of 2 rows, pages of 1, 3 rewrites | `MissedOnlyIfOthersLeft`, `RepeatedOnlyIfOthersCame`, `OnlyOldSignalsAreCutOff`, `HeadingCountsRows` | about 398 000 |

`scheduler`, `clusters`, `thresholds`, `poll_openinsider` and `dashboard` also
check their `TypeOK`.

Runs where TLC finds the code doing what a document or a comment says it does
not (the findings in `PROJECT.json` quote the lines):

| run | the document | the code |
|---|---|---|
| `reclassify_mails` | at most one notification per signal (FR-012) | a sent signal reclassified down and up is pending again |
| `amended_filing` | only the current version is shown (FR-016) | a re-fetch clears `superseded_by_id` of the amended row |
| `sibling_lines` | Form 4 lines are told apart by accession number and line (research.md 6) | priors are found by company, filer and date: lines of one filing supersede each other |
| `malformed_filing` | a malformed filing does not abort the run (`orchestrator.py:134`) | `decimal.InvalidOperation` and `AttributeError` of a parser pass every handler |

**Known divergences without a run.** The models show these too, by the action
named; no property claims the contrary:

* notability and status of a signal go together (`_upsert_signal` resets the status
  of a signal that is not notable): `SaveOutcome` selects a pending signal, a
  `classify --reclassify` in another process makes it not notable and
  `not_applicable`, and the UPDATE that follows writes `sent` only. The row is
  then not notable and sent;
* one event, one key: de-duplication of buybacks by "(CIK, accession number, item type)"
  (`specs/001-insider-buyback-tracker/research.md:118`). `find_by_natural_key` compares
  company, type and `disclosure_date`, which is the day of the last fetch
  (`orchestrator.py:181`, `buyback_repo.py:22`) and not a date of the filing. A new
  8-K supersedes every other one of the company and type that was fetched the same day,
  whatever it announces, and hides its signal, though nothing replaces it; fetched on
  another day, the winner no longer has the loser's key. Hence
  `EventNeverHidden` and `HiddenSignalWasReplaced` speak of Form 4 lines, and of
  buybacks only `SupersessionEnds` is claimed;
* an OpenInsider row may come to tell of another trade: its `source_ref` is a place on
  the page (`openinsider_feed.py:89`), and the upsert rewrites type, price and
  role under the signal it has. A pending signal of a purchase may thus be
  e-mailed about a sell of the same insider and day (FR-006), and an older page read by
  `--fixture` gives rows back to older trades. `RoutineNeverMailed` is therefore
  about trades that no report calls a buy, or discretionary, or gives a price, and
  `OnlyNewerTradesTakeRows` about polls;
* one signal per record (`specs/001-insider-buyback-tracker/data-model.md:70`): the
  look-up and the insert of a signal are two sessions (`ReadRecordSignal`,
  `SaveRecordSignal`), so two overlapping `classify` runs insert two rows, and
  every later `one_or_none()` for the record raises;
* an amendment is a filing of another `source_ref` (docstring at `ingestion/dedup.py:31`):
  when two ingests overlap, one may insert a filing between the other's
  `TakeSecCandidate` and `FindPriors`, which then finds the filing itself, and
  `MarkPrior` makes it superseded by itself; nothing shows it until a later
  poll lists it again. So `EventNeverHidden` needs a single worker;
* SC-004, no duplicate across sources: only the OpenInsider side looks for its
  twin (`TakeSecCandidate` looks at natural keys only), so an OpenInsider row
  ingested before its Form 4 line stays beside it;
* a cluster reflects current trades only (`specs/002-cluster-buying-detection/spec.md:110`):
  `SaveCluster` visits the rows of detected groups, so the row and the notable
  signal of a group that dissolved stay;
* the row of a split cluster follows its majority piece (research.md 5 of the
  same feature): `Matches` gives it to the first piece saved;
* an omitted threshold keeps its current value (`web/routes/thresholds.py:15`):
  an update writes back what its `get` returned (`Merged`) over what another client
  changed between that and the SELECT of its `set`, a lost update;
  `OnlyOvertakenFieldsRevert` says that nothing else is undone;
* one bad source does not block the others (`orchestrator.py:133`): only `FetchError` is
  caught around a source. Any other exception (JSON that does not decode, a page or a
  filing that makes its parser raise what no handler names) ends the poll
  before the sources and phases that follow, in every cycle while it lasts.

**Bounds.** `MaxAborts` (crashes) and `MaxRuns` (commands a CLI process starts)
cap counters; the scheduler's cycles are not bounded. Two versions of an event (or
two lines of one filing and day, which the code does not tell from versions)
show supersession in both directions and re-fetch; two days and two buybacks of one
company show a key that moves, before and after the other is fetched; two crashes reach a crash
during the recovery from one; one CLI command overlaps any window of a cycle,
and cycles before and after it are unlimited (what two CLI
commands do to each other is outside the run: a second one has many times the states). In `clusters` the days of the four
trades make them one group of three filers under `WideOfThree` or `Wide` and two
of two filers under `Narrow`, so that a change of settings splits, merges and
crosses the minimum; `MaxRows = 2` leaves room for both pieces. A worker that
needs a third row stops there: that is the bound, not the code, and why the
configuration says `CHECK_DEADLOCK FALSE`. Everywhere else deadlock is
checked.

In the polls, `MaxAttempts = 2` shows a retry and an exhausted retry (the
violation run has the code's 3), `Window = 2` of three Form 4 filings lets one be
pushed out of the feed, and `PageRows = 2` of three rows lets every row shift
and one fall off. Runs, crashes and failures are not bounded there: the counters
are forgotten with each run. In `dashboard`, `MaxRewrites = 3` hides or
reclassifies a row, restores it and changes another during one crawl of
pages of one row. That run uses symmetry: the two transactions differ in nothing,
and it checks invariants only. So does `thresholds`, whose clients differ in nothing; it
checks invariants and properties of single steps, and no liveness.

**Fairness** (`FairSpec`, only `scheduler_live` and `poll_sec`). A running command goes on,
because its blocking calls have time-outs (`httpx.Client(timeout=30.0)` with
three attempts, SMTP `timeout=10`) and nothing else waits; and the scheduler
starts the next cycle, because the job is an interval trigger with
`max_instances=1` and `coalesce=True`, and `_run_poll_cycle` catches every
exception. Nothing is assumed of the user's commands, of the feeds, of the
mail server or of crashes, which are only bounded in number.

In `poll_sec` a run goes on (`WF_vars(RunNext)`: every attempt ends, at the latest
by its time-out), and the scheduler's poll of both sources starts again and again
(`SF_vars(StartPoll(Sources))`: strong, because commands in between make the process
of the model busy, which does not keep the scheduler's thread from its interval).
`FeedsAreCaughtUpWith` has two premises instead of fairness towards the network. From
some time on every step is one of a run whose requests are answered as they should
be, or of the world (`FaultlessNext`): no attempt fails, no answer is garbled or
empty, and nothing crashes. And from some time on the feeds list no filing that
`Escapes`, whose parser raises what no handler around it catches: `malformed_filing`
shows that such a filing keeps those after it from being stored for as long as
it is listed (without this premise TLC refutes the property). The instance has such a
filing, g: it may be listed, end polls half way, and be pushed out of the
feed's window, after which everything it kept back is stored.

**Refinement.** `ImplementsLifecycle` maps a record's first signal row to
`SignalLifecycle`: recorded once, resolved only from pending, sent only if
delivered, hidden for good. It holds of the scheduler alone (no `--reclassify`,
no overlap), by TLC on the instance and by proof for every one; `reclassify_mails`
and overlapping `classify` runs break it otherwise.

## 4. Proofs

`PipelineProofs`: any filings, reports, days, configurations, processes, commands and
bounds. `IInv` says of every version of a signal, in the table, in hand or in a
batch, that it is a `GoodRow`, which is monotone in the number of
e-mails delivered; and of every version of a filing's row, in the table, fetched or
listed, that each column is what some report says (`Reported`). The invariants of
interest speak of the table only and are not inductive: a process may write a copy
it read long ago. Since an UPDATE takes each column from the copy or from the row
(`UpdatedSignal` and its like for filings), what is claimed of a row must hold column
by column: that is why `status` alone is tied to `mails` and to `Routine`, and not
to `notable`, which may disagree with it. It gives `TypeCorrect`,
`SentSignalsWereMailed` and `RoutineIsNeverMailed`.

`SingleWorkerProofs`: one process runs all commands (`Procs = {w}`), any filings,
reports, days and number of crashes. `WorkerAt` says what the worker's locals know of
the tables in each phase: the priors are not the candidate and, if Form 4 lines, are
lines of its key; the candidate's row is current while priors are marked; a copy in hand is
of the only row; what a save has selected is the row still, so that an UPDATE
leaves the copy (`SavedAsSeen`). With it `OneSignalPerRecord`, `EventNeverHidden`,
`SupersessionEnds` and `HiddenSignalWasReplaced` are inductive together.
`SupersessionEnds` is stated for sets of rows (of any rows one is superseded by none
of them), so no induction over a chain is needed: when a prior is superseded by the candidate, a
set that holds the candidate has it as the row superseded by none. `SecFirstNeverDuplicated`
follows from the state before each step. The assumption is needed: see the known
divergences.

`LifecycleProofs`: one process that never runs `--reclassify`. `CInv` says what the
copies in its memory are of the rows they were read from: the row hidden, the
row resolved, the pending row itself. With it every step of `Pipeline` is a step
of `SignalLifecycle` for one record or leaves status, visibility and deliveries
alone, action by action; the initial states map to the initial state. The same
invariant gives `AloneDuplicatesNeedCrashes`, by counting: a record is
*settled* once its e-mail was tried, as the table or the worker's hand shows.
`Answered` has one element for each delivery of a settled record but the first,
and one for each delivery of any other record. Only a crash between the e-mail
and the save unsettles a record, and it adds at most one element, and one crash; a
record is e-mailed only while it is not settled, and is settled by that, which
adds none. So `MailsCounted`, that `Answered` is finite and has at most `aborts`
elements, is inductive; the property, which speaks of deliveries only, is not.

`ThresholdsProofs`: any fields, validators, updates and clients. `Inv` adds
that whoever is about to set holds an update and a configuration, that what it is
about to write is valid, and that what it read, what it selected and the row differ only
in the fields in which others have overtaken it. A write leaves a field it omits as it
is unless what was read and what was selected differ, which gives
`OvertakenFieldsOnly`; and it takes each field from a valid configuration or from the
valid row, which gives `StoredAlwaysValid`.

`DetectionProofs`: any finite set of trades and any window. The installed provers
cannot use an induction theorem that takes an operator as a parameter, so
induction is stated over sets (`InductionOverNat`, `InductionOverSubsets`: a set
of subsets that has {} and, with all v \ {t}, v, has every subset of a finite set),
from the theorem `WFMin` that a well-founded relation has minimal elements. With it
`LoopEquation` shows that the recursion of `AfterVisiting` defines a
function, built up by the number of trades visited, and `LoopDivides` its
invariant: the windows closed so far and the open group divide the
trades visited (`Divided`), the open group is the last window of the company at
hand (`IsOpen`), and the candidates are the closed windows of two filers or more
(`AreCandidates`). The latest trade either lies in the open window (`JoinKeeps`)
or closes it (`StartKeeps`), and no closed window changes (`WindowStays`).
Hence `DetectClustersFindsWindows`, which says more than `GroupsAreWindows`: none
is left out.

`ClustersProofs`: any trades, settings and numbers of rows and crashes. `Inv` says
that what is listed for e-mail or in hand is pending, so that the save of an
outcome never touches a sent row, and `UpsertedSignal` keeps `sent`; this gives
`SentClustersStaySent`. `Known` says what the worker's locals are, `GroupsAreWindows` among
it: `DetectClustersFindsWindows` shows it when the candidates are made, and
taking them one by one keeps it. It gives `CandidatesAreWindows`, and with the
types (`TypesStay`) `ClustersTyped`. `RowsSaved` says that each group detected is
still in the queue, or has a row with its very members and its signal, or is the
row in hand: groups share no trade, so a later one cannot match that row by a
shared trade (`OthersDoNotMatch`), whatever older rows it does match. This gives
`ClustersHaveTheirRows`. `MailsCounted` counts
duplicates as in `LifecycleProofs` and gives `ClusterRemailsNeedCrashes`.

`PollProofs`: any filings, documents, trades, windows, page lengths and numbers of
attempts. `RunInv` ties the stage to the locals (which filing is in hand, what is
asked for, which sources have reported). On it rest: `WholeInv`, the records before
the next one are stored; `PageInv`, of the page in hand the candidates already
taken have a row or a twin; `AgeInv`, for the number k of trades reported since the
page was read (`Lag`): the row of place i holds a trade that is now at place i + k or
later, and the candidate that takes it over is at i + k exactly, so it is not older.
It holds whatever saved pages came before, because what a page of any time shows at
place i is now at place i or later of the trades reported (`SavedPageType`,
`LatestShows`); and `FailInv`, by counting: each
step of a loop adds at most one filing to `Missing`, and counts it.

`DashboardProofs`: any signals, filters, limits and rewrites. The rows that match
have ranks without a gap, so the pages partition them at each moment. `MissedInv`:
a steady row not yet shown is either still at the offset or below it, or was moved
up by a newer row that left. `RepeatedInv`: a row shown is above the offset unless a newer
one came. `CutInv` says that the dashboard reads one page from the top and has shown nothing
before, and `HeadInv` that while nothing changes it has counted what matches.

The proofs use the constants' assumptions `FilingsAssumption`,
`ProcsAssumption`, `ThresholdsAssumption`, `ClustersAssumption`, `NoneAssumption`,
`DocumentsAssumption`, `BoundsAssumption` and `SignalsAssumption`: tables and
sources are disjoint, natural keys of two sources differ, reports of a Form 4 line agree
on its key, every filing reports something every day, every buyback has an amount,
`None` is no value, defaults are valid. TLC
evaluates them in every run.

The trades are a finite set in `ClustersAssumption`, as the rows of a table are:
`LatestExists` and the recursion need it. Filings, processes and rows may be any
sets in the other proofs, but for the signals of `DashboardProofs`, which are counted.

Checked by TLC only: liveness (`PendingIsResolved`, `CurrentIsClassified`,
`FeedsAreCaughtUpWith`), since fairness and ENABLED are beyond the provers, and
`DuplicatesAreBounded`, for one CLI command beside the scheduler. Every other
invariant and every action property of the runs that hold is also proved, those
of `SingleWorkerProofs` and `LifecycleProofs` under the assumption that one process
runs the commands (never with `--reclassify` in the latter), as run `scheduler`
has it.

## 5. Not modelled

* What OpenInsider says of a trade's type, code and role, and how names, dates and
  numbers are spelled: `Reports` of `Pipeline` leaves what the rules read free, and
  in `Poll` an OpenInsider row is known by its trade.
* The split of stored records into new and updated, printed only.
* Delays between attempts, time-outs: an attempt ends, in whatever time.
* `composer.py`, templates, logging: text.
* The script in `dashboard.html` that sorts, searches and pages rows inside the
  browser, and `GET /api/signals/{id}`, which reads one row and its record: neither
  has an effect on the program's state, and nothing is ever deleted.
* Migrations and configuration: run before the service starts.
* Two polls that overlap (the scheduler's and an `ingest` command): `Pipeline` lets
  commands overlap with the scheduler in run `concurrent`, for the properties that
  hold then; `Poll` has one process.

## 6. Plan

Done: `Store`, `Ingest`, `Classify`, `Notify`, `Pipeline` (the core, first),
`SignalLifecycle`, `Clusters`, `Thresholds`, then `Documents`, `Poll` and
`Dashboard`, their runs and the theorems above.

All runs that hold are proved but for liveness and `DuplicatesAreBounded`. Next, in
this order:

1. Two overlapping polls over one database, with the supersession of `Ingest`
   inside: what two versions of a filing end up as when both are new.
2. `Clusters` with the filer and `cik` as columns: `filer_id` lost on write, one
   empty `cik` for several companies.
3. The composition of `Clusters` with `Pipeline`: a cluster whose trade is
   superseded between the list and the save.
4. A proof of `DuplicatesAreBounded` for any number of commands, by counting what
   each of them may still write, as `MailsCounted` does for crashes.
