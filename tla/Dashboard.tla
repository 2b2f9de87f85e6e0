----------------------------- MODULE Dashboard -----------------------------
(***************************************************************************)
(* Readers of the signals table: the dashboard and a client that goes      *)
(* through /api/signals page by page (web/routes, SignalRepository.list),  *)
(* while the pipeline inserts, hides and reclassifies signals.             *)
(*                                                                         *)
(* A request runs two SELECTs, one that counts and one that reads a page,  *)
(* and writes may come between them and between the requests of a client.  *)
(***************************************************************************)
EXTENDS Naturals, FiniteSets

CONSTANTS
  Signals,     \* signals
  TypeOf,      \* signal_type of each
  EventDate,   \* the date of its record
  None,        \* a filter that is not given
  Filters,     \* the filters that clients ask for
  Limits,      \* their page sizes
  RowLimit,    \* _DASHBOARD_ROW_LIMIT
  MaxRewrites  \* bound: how often rows are rewritten

ASSUME SignalsAssumption ==
  /\ IsFiniteSet(Signals)
  /\ None \notin Nat
  /\ EventDate \in [Signals -> Nat]
  /\ \A f \in Filters : f.notable_only \in BOOLEAN /\ f.since \in Nat \cup {None}
  /\ Limits \subseteq Nat \ {0}
  /\ RowLimit \in Nat \ {0}
  /\ MaxRewrites \in Nat

VARIABLES
  created,   \* created_at: place in the order in which the objects were made, 0 before
  stored,    \* signals that have a row
  notable,   \* is_notable of each row
  hidden,    \* is_superseded of each row
  rewrites,  \* rewrites so far
  pc,        \* where the request under way is
  query,     \* what the client asks for: filter, limit, and whether it goes on
  offset,    \* of the request
  total,     \* as counted by the request
  shown,     \* shown[s]: in how many pages since the client began s was
  steady,    \* auxiliary: signals that matched the filter ever since it began
  came,      \* auxiliary: those that began to match since then
  left       \* auxiliary: those that ceased to match since then

table == <<created, stored, notable, hidden, rewrites>>
client == <<query, offset, total, shown>>
vars == <<table, pc, client, steady, came, left>>

DashboardQuery ==
  [filter |-> [notable_only |-> TRUE, signal_type |-> None, since |-> None],
   limit |-> RowLimit, crawl |-> FALSE]

Queries == {DashboardQuery} \cup [filter : Filters, limit : Limits, crawl : {TRUE}]

Init ==
  /\ created = [s \in Signals |-> 0]
  /\ stored = {}
  /\ notable = [s \in Signals |-> FALSE]
  /\ hidden = [s \in Signals |-> FALSE]
  /\ rewrites = 0
  /\ pc = "idle" /\ query = DashboardQuery /\ offset = 0 /\ total = 0
  /\ shown = [s \in Signals |-> 0]
  /\ steady = {} /\ came = {} /\ left = {}

----------------------------------------------------------------------------
\* SignalRepository.list

\* The rows that list filters out whatever the filter, and those of the filter.
Matching(f) ==
  {s \in stored :
     /\ ~hidden[s]
     /\ f.notable_only => notable[s]
     /\ f.signal_type # None => TypeOf[s] = f.signal_type
     /\ f.since # None => EventDate[s] >= f.since}

\* Fault: oldest first.
RankOldestFirst(s, f) == Cardinality({t \in Matching(f) : created[t] < created[s]})

\* The row's place in order_by(created_at.desc()), from 0.
Rank(s, f) == Cardinality({t \in Matching(f) : created[t] > created[s]})

\* offset(offset).limit(limit)
Page(f, from, limit) == {s \in Matching(f) : from <= Rank(s, f) /\ Rank(s, f) < from + limit}

\* Fault: what classification has hidden is counted.
CountedHidden(f) == {s \in stored : f.notable_only => notable[s]}

\* query.count()
Counted(f) == Matching(f)

----------------------------------------------------------------------------
\* Writers: the pipeline.

\* What a write adds to and takes from the rows that match the client's filter.
Observe ==
  LET f == query.filter
  IN  IF pc \notin {"count", "page"} THEN UNCHANGED <<steady, came, left>>
      ELSE /\ steady' = steady \cap Matching(f)'
           /\ came' = came \cup (Matching(f)' \ Matching(f))
           /\ left' = left \cup (Matching(f) \ Matching(f)')

\* Fault: the object takes its time from its record.
MakeSignalDated(s) ==
  /\ created[s] = 0
  /\ created' = [created EXCEPT ![s] = EventDate[s]]
  /\ UNCHANGED <<stored, notable, hidden, rewrites, pc, client, steady, came, left>>

\* A worker makes a Signal object, which takes the time.
MakeSignal(s) ==
  /\ created[s] = 0
  /\ created' = [created EXCEPT ![s] = 1 + Cardinality({t \in Signals : created[t] # 0})]
  /\ UNCHANGED <<stored, notable, hidden, rewrites, pc, client, steady, came, left>>

\* It saves the object, perhaps after another worker saved a later one.
InsertSignal(s) ==
  /\ created[s] # 0 /\ s \notin stored
  /\ stored' = stored \cup {s}
  /\ \E b \in BOOLEAN : notable' = [notable EXCEPT ![s] = b]
  /\ UNCHANGED <<created, hidden, rewrites, pc, client>>
  /\ Observe

\* A supersession hides it, --reclassify changes its verdict, a stale copy undoes
\* either: save writes both columns.
RewriteSignal(s) ==
  /\ s \in stored /\ rewrites < MaxRewrites
  /\ rewrites' = rewrites + 1
  /\ \E b, h \in BOOLEAN :
       notable' = [notable EXCEPT ![s] = b] /\ hidden' = [hidden EXCEPT ![s] = h]
  /\ UNCHANGED <<created, stored, pc, client>>
  /\ Observe

----------------------------------------------------------------------------
\* Readers.

\* GET / or the first GET /api/signals of a client.
Ask(q) ==
  /\ pc \in {"idle", "done"}
  /\ query' = q /\ offset' = 0 /\ total' = 0
  /\ shown' = [s \in Signals |-> 0]
  /\ steady' = Matching(q.filter) /\ came' = {} /\ left' = {}
  /\ pc' = "count"
  /\ UNCHANGED table

CountRows ==
  /\ pc = "count"
  /\ total' = Cardinality(Counted(query.filter))
  /\ pc' = "page"
  /\ UNCHANGED <<table, query, offset, shown, steady, came, left>>

\* Fault: one row too far.
NextOffsetTooFar == offset + query.limit + 1

NextOffset == offset + query.limit

\* The client goes on until a page is empty.  The records that the items show are
\* read one by one afterwards; none is ever deleted.
ReadPage ==
  LET page == Page(query.filter, offset, query.limit)
  IN  /\ pc = "page"
      /\ shown' = [s \in Signals |-> IF s \in page THEN shown[s] + 1 ELSE shown[s]]
      /\ IF query.crawl /\ page # {}
         THEN pc' = "count" /\ offset' = NextOffset
         ELSE pc' = "done" /\ UNCHANGED offset
      /\ UNCHANGED <<table, query, total, steady, came, left>>

Next ==
  \/ \E s \in Signals : MakeSignal(s) \/ InsertSignal(s) \/ RewriteSignal(s)
  \/ \E q \in Queries : Ask(q)
  \/ CountRows
  \/ ReadPage

Spec == Init /\ [][Next]_vars

----------------------------------------------------------------------------
\* Properties.

\* Types of the variables.
TypeOK ==
  /\ created \in [Signals -> Nat]
  /\ stored \subseteq {s \in Signals : created[s] # 0}
  /\ notable \in [Signals -> BOOLEAN] /\ hidden \in [Signals -> BOOLEAN] /\ rewrites \in Nat
  /\ \A s, t \in Signals : created[s] = created[t] => s = t \/ created[s] = 0
  /\ pc \in {"idle", "count", "page", "done"}
  /\ query \in Queries /\ offset \in Nat /\ total \in Nat
  /\ shown \in [Signals -> Nat]
  /\ steady \subseteq Signals /\ came \subseteq Signals /\ left \subseteq Signals

Rows == {s \in Signals : shown[s] > 0}

\* A client that goes through the pages misses a signal that matched all along
\* only if a newer one ceased to match meanwhile and moved it to a page already read.
MissedOnlyIfOthersLeft ==
  pc = "done" /\ query.crawl =>
    \A s \in steady : shown[s] > 0 \/ \E t \in left : created[t] > created[s]

\* It sees a signal twice only if a newer one came to match meanwhile.
RepeatedOnlyIfOthersCame ==
  \A s \in Signals : shown[s] > 1 => \E t \in came : created[t] > created[s]

\* The dashboard leaves out a signal that is notable all along only when it is
\* full of newer ones ("every currently-notable signal in one response").
OnlyOldSignalsAreCutOff ==
  pc = "done" /\ ~query.crawl =>
    \A s \in steady \ Rows :
      Cardinality(Rows) = RowLimit /\ \A t \in Rows : created[t] > created[s]

\* When nothing changed since the request began, the number in the heading is that
\* of the rows below it, or more than the dashboard holds.
HeadingCountsRows ==
  pc = "done" /\ ~query.crawl /\ came = {} /\ left = {} =>
    Cardinality(Rows) = IF total < RowLimit THEN total ELSE RowLimit
=============================================================================
