------------------------------ MODULE Clusters ------------------------------
(***************************************************************************)
(* Cluster buying: the last pass of run_classify groups the current        *)
(* discretionary buys into clusters (classification/cluster_buying.py),    *)
(* matches each group to a cluster_buy_events row                          *)
(* (storage/repositories/cluster_buy_repo.py), gives that row a signal     *)
(* (_classify_clusters in cli/commands/classify.py), and run_notify        *)
(* e-mails the pending ones.                                               *)
(*                                                                         *)
(* One worker runs cycles and may crash between any two steps.  Nothing    *)
(* else writes cluster rows and their signals, so a read followed by a     *)
(* write of the same row is one step.  Each cycle reads the thresholds     *)
(* once and the trades once; between two cycles trades are stored,         *)
(* superseded and re-fetched, and thresholds change (Pipeline,             *)
(* Thresholds), so here each of the two reads returns any value it may.    *)
(***************************************************************************)
EXTENDS Naturals, Sequences, FiniteSets, FiniteSetsExt

CONSTANTS
  Trades,     \* insider transactions, named by source_ref
  Buys,       \* those of type "buy" that are discretionary
  Cik,        \* the cik column of each: "" for every OpenInsider row
  Filer,      \* the filer of each as detect_clusters sees it (_filer_identity)
  Day,        \* its transaction date
  Thresholds, \* the cluster settings the user may choose
  MaxRows,    \* bound on the number of cluster rows
  MaxAborts,  \* bound on the number of crashes
  None        \* no value (Python's None)

ClusterSettings == [window : Nat \ {0}, minimum : Nat \ {0, 1}]

ASSUME ClustersAssumption ==
  /\ IsFiniteSet(Trades)
  /\ Buys \subseteq Trades
  /\ Day \in [Trades -> Nat]
  /\ Cik \in [Trades -> STRING]
  /\ DOMAIN Filer = Trades
  /\ Thresholds \subseteq ClusterSettings
  /\ MaxRows \in Nat
  /\ MaxAborts \in Nat

VARIABLES
  events,   \* the cluster rows, oldest first: [cik, members, count]
  signals,  \* signals[i]: the signal of row i, or None
  mails,    \* mails[i]: e-mails about row i that reached the mailbox
  pc,       \* where the worker is
  conf,     \* the settings it read when it began to classify
  listed,   \* the trades it listed: the rows not superseded then
  queue,    \* the candidates still to save
  row,      \* the cluster row in hand
  outcome,  \* what became of the e-mail about that row
  batch,    \* the pending rows still to e-mail
  aborts    \* crashes so far

tables == <<events, signals>>
locals == <<conf, listed, queue, row, outcome, batch>>
vars == <<tables, mails, pc, locals, aborts>>

----------------------------------------------------------------------------
\* classification/cluster_buying.py

Filers(g) == {Filer[t] : t \in g}
FirstDay(g) == Min({Day[t] : t \in g})

\* The loop's variables: the candidates found and the group being filled.
NothingYet == [candidates |-> <<>>, group |-> {}]

\* _finalize_group: a candidate needs two distinct filers.
IsCluster(g) == Cardinality(Filers(g)) >= 2
Finalized(s) == IF IsCluster(s.group) THEN Append(s.candidates, s.group) ELSE s.candidates

\* Fault: each trade is measured from the previous one, not from the first.
VisitRolling(s, t, window) ==
  IF /\ s.group # {}
     /\ \A u \in s.group : Cik[u] = Cik[t]
     /\ Day[t] <= Max({Day[u] : u \in s.group}) + window
  THEN [s EXCEPT !.group = @ \cup {t}]
  ELSE [candidates |-> Finalized(s), group |-> {t}]

\* The body of the loop: a trade joins the group if it lies in the window
\* anchored at the group's first day; if not, or if it is the first of the next
\* company, the group is finalized and the trade starts another.
Visit(s, t, window) ==
  IF /\ s.group # {}
     /\ \A u \in s.group : Cik[u] = Cik[t]
     /\ Day[t] <= FirstDay(s.group) + window
  THEN [s EXCEPT !.group = @ \cup {t}]
  ELSE [candidates |-> Finalized(s), group |-> {t}]

\* The trade the loops visit after all others of v: they take the companies one
\* by one and the trades of each by date.  The order of the companies and that
\* of the trades of one day do not matter: rows of two companies never match.
LastVisited(v) ==
  LET cik == CHOOSE c \in {Cik[t] : t \in v} : TRUE
      company == {t \in v : Cik[t] = cik}
  IN  CHOOSE t \in company : \A u \in company : Day[u] <= Day[t]

\* The loop's variables once the trades of v, a subset of q, were visited.
AfterVisiting(q, window) ==
  LET after[v \in SUBSET q] ==
        IF v = {} THEN NothingYet
        ELSE LET last == LastVisited(v) IN Visit(after[v \ {last}], last, window)
  IN  after

DetectClusters(trades, window) ==
  LET qualifying == trades \cap Buys
  IN  Finalized(AfterVisiting(qualifying, window)[qualifying])

----------------------------------------------------------------------------
ClusterRow == [cik : STRING, members : SUBSET Trades, count : Nat]
ClusterSignal ==
  [notable : BOOLEAN, status : {"not_applicable", "pending", "sent", "failed"}]

ASSUME NoneAssumption == None \notin ClusterSignal

NewRow(g) ==
  [cik |-> Cik[CHOOSE t \in g : TRUE], members |-> g, count |-> Cardinality(Filers(g))]

\* Fault: a row matches by company alone.
MatchesByCompany(g) == {i \in DOMAIN events : events[i].cik = NewRow(g).cik}

\* The rows of the group's company that share a transaction with it.
Matches(g) ==
  {i \in DOMAIN events : events[i].cik = NewRow(g).cik /\ events[i].members \cap g # {}}

\* Fault: a cluster signal is downgraded like the signals of single records.
UpsertedSignalDowngraded(existing, notable) ==
  IF existing = None
  THEN [notable |-> notable, status |-> IF notable THEN "pending" ELSE "not_applicable"]
  ELSE [notable |-> notable,
        status |-> IF ~notable THEN "not_applicable"
                   ELSE IF existing.status = "not_applicable" THEN "pending"
                   ELSE existing.status]

\* Fault: a new signal keeps the column's NULL for a status.
UpsertedSignalUnset(existing, notable) ==
  IF existing = None
  THEN [notable |-> notable, status |-> None]
  ELSE [notable |-> notable, status |-> existing.status]

\* _upsert_signal with downgrade_on_not_notable=False.
UpsertedSignal(existing, notable) ==
  IF existing = None
  THEN [notable |-> notable, status |-> IF notable THEN "pending" ELSE "not_applicable"]
  ELSE [notable |-> notable,
        status |-> IF notable /\ existing.status = "not_applicable"
                   THEN "pending" ELSE existing.status]

----------------------------------------------------------------------------
Init ==
  /\ events = <<>> /\ signals = <<>> /\ mails = <<>>
  /\ pc = "idle"
  /\ conf = None /\ listed = {} /\ queue = <<>>
  /\ row = 0 /\ outcome = None /\ batch = {}
  /\ aborts = 0

\* run_classify reads the thresholds first.
ReadThresholds ==
  /\ pc = "idle"
  /\ conf' \in Thresholds
  /\ pc' = "list"
  /\ UNCHANGED <<tables, mails, listed, queue, row, outcome, batch, aborts>>

\* txn_repo.list() without the superseded ones, and detect_clusters.
ListTrades ==
  /\ pc = "list"
  /\ listed' \in SUBSET Trades
  /\ queue' = DetectClusters(listed', conf.window)
  /\ pc' = "save"
  /\ UNCHANGED <<tables, mails, conf, row, outcome, batch, aborts>>

\* upsert_by_overlapping_transactions: the oldest row that matches is replaced
\* in place; without a match a row is created.
SaveCluster ==
  /\ pc = "save"
  /\ queue # <<>>
  /\ LET g == Head(queue) IN
       \/ /\ Matches(g) # {}
          /\ row' = Min(Matches(g))
          /\ events' = [events EXCEPT ![row'] = NewRow(g)]
          /\ UNCHANGED <<signals, mails>>
       \/ /\ Matches(g) = {}
          /\ Len(events) < MaxRows
          /\ row' = Len(events) + 1
          /\ events' = Append(events, NewRow(g))
          /\ signals' = Append(signals, None)
          /\ mails' = Append(mails, 0)
  /\ queue' = Tail(queue)
  /\ pc' = "sign"
  /\ UNCHANGED <<conf, listed, outcome, batch, aborts>>

\* get_for_cluster_buy_event and _upsert_signal; classify_cluster compares the
\* candidate's filer count with the minimum.
SaveClusterSignal ==
  /\ pc = "sign"
  /\ signals' = [signals EXCEPT ![row] = UpsertedSignal(@, events[row].count >= conf.minimum)]
  /\ pc' = "save"
  /\ UNCHANGED <<events, mails, locals, aborts>>

EndClassify ==
  /\ pc = "save"
  /\ queue = <<>>
  /\ pc' = "listPending"
  /\ UNCHANGED <<tables, mails, locals, aborts>>

----------------------------------------------------------------------------
\* run_notify, on the cluster signals.

ListPending ==
  /\ pc = "listPending"
  /\ batch' = {i \in DOMAIN signals : signals[i] # None /\ signals[i].status = "pending"}
  /\ pc' = "send"
  /\ UNCHANGED <<tables, mails, conf, listed, queue, row, outcome, aborts>>

\* send_email returns, or raises before or after the server took the message.
SendMail(i) ==
  /\ pc = "send"
  /\ i \in batch
  /\ \E result \in {"sent", "failed"}, taken \in {0, 1} :
       /\ result = "sent" => taken = 1
       /\ outcome' = result
       /\ mails' = [mails EXCEPT ![i] = @ + taken]
  /\ row' = i
  /\ batch' = batch \ {i}
  /\ pc' = "resolve"
  /\ UNCHANGED <<tables, conf, listed, queue, aborts>>

SaveOutcome ==
  /\ pc = "resolve"
  /\ signals' = [signals EXCEPT ![row].status = outcome]
  /\ pc' = "send"
  /\ UNCHANGED <<events, mails, locals, aborts>>

Forget ==
  /\ pc' = "idle"
  /\ conf' = None /\ listed' = {} /\ queue' = <<>>
  /\ row' = 0 /\ outcome' = None /\ batch' = {}

EndNotify ==
  /\ pc = "send"
  /\ batch = {}
  /\ Forget
  /\ UNCHANGED <<tables, mails, aborts>>

Abort ==
  /\ pc # "idle"
  /\ aborts < MaxAborts
  /\ aborts' = aborts + 1
  /\ Forget
  /\ UNCHANGED <<tables, mails>>

Next ==
  \/ ReadThresholds
  \/ ListTrades
  \/ SaveCluster
  \/ SaveClusterSignal
  \/ EndClassify
  \/ ListPending
  \/ \E i \in batch : SendMail(i)
  \/ SaveOutcome
  \/ EndNotify
  \/ Abort

Spec == Init /\ [][Next]_vars

----------------------------------------------------------------------------
Rows == 0..MaxRows

TypeOK ==
  /\ events \in Seq(ClusterRow)
  /\ signals \in Seq(ClusterSignal \cup {None})
  /\ mails \in Seq(Nat)
  /\ Len(events) \in Rows /\ Len(signals) = Len(events) /\ Len(mails) = Len(events)
  /\ pc \in {"idle", "list", "save", "sign", "listPending", "send", "resolve"}
  /\ conf \in Thresholds \cup {None}
  /\ listed \subseteq Trades
  /\ queue \in Seq(SUBSET Trades)
  /\ row \in Rows
  /\ outcome \in {"sent", "failed", None}
  /\ batch \subseteq DOMAIN events
  /\ aborts \in 0..MaxAborts

\* Each candidate is what its window says: all the qualifying trades of one
\* company from its first day to that day plus the window, by two filers or
\* more; and no trade is in two candidates (research.md 1).
GroupsAreWindows ==
  /\ \A i \in DOMAIN queue :
       /\ IsCluster(queue[i])
       /\ \A t \in queue[i] :
            queue[i] = {u \in listed \cap Buys :
                          /\ Cik[u] = Cik[t]
                          /\ Day[u] \in FirstDay(queue[i])..FirstDay(queue[i]) + conf.window}
  /\ \A i, j \in DOMAIN queue : i # j => queue[i] \cap queue[j] = {}

\* Once classified, every cluster of the listed trades has a row of its own
\* that holds exactly its trades, and a signal notable iff it has enough
\* filers: no split or merge makes two clusters share a row.
EveryClusterHasItsRow ==
  pc = "listPending" =>
    \A g \in Range(DetectClusters(listed, conf.window)) :
      \E i \in DOMAIN events :
        /\ events[i].members = g
        /\ signals[i] # None
        /\ signals[i].notable <=> Cardinality(Filers(g)) >= conf.minimum

\* Without a crash between send_email and save no cluster is e-mailed twice,
\* however it grows, splits, or crosses the minimum back and forth (FR-007).
DuplicateMails == UNION {{i} \X (2..mails[i]) : i \in DOMAIN mails}
ClusterRemailNeedsCrash == Cardinality(DuplicateMails) <= aborts

\* That a cluster was e-mailed is never forgotten, whatever becomes of its
\* members and of the settings (research.md 5).
SentStaysSent ==
  [][\A i \in DOMAIN signals :
       signals[i] # None /\ signals[i].status = "sent" => signals'[i].status = "sent"]_vars
=============================================================================
