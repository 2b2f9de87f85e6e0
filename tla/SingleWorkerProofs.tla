------------------------- MODULE SingleWorkerProofs -------------------------
(***************************************************************************)
(* What holds of Pipeline when commands never overlap: one process runs    *)
(* every command, as in a deployment where only the scheduler works on the *)
(* database.  It may crash anywhere and run cycles, reclassifications and  *)
(* CLI commands in any order, on any days, over any filings and reports.   *)
(* (Each of these fails when two classify or two ingest runs overlap.)     *)
(***************************************************************************)
EXTENDS PipelineProofs

\* The natural key of a Form 4 line, which all reports of it agree on.
Key(f) == (CHOOSE r \in ReportsOf(f) : TRUE).key

\* g is a row that the candidate c supersedes: of the same event, if of a Form 4.
VersionOf(g, c) ==
  g # c /\ g \notin OpenInsider /\ (g \in Form4 => c \in Form4 /\ Key(g) = Key(c))

\* The priors still to be marked.
Amends(m) == \A g \in m.priors : VersionOf(g, m.cur)

\* The copy in memory is of the only row of its record, as hidden as that row.
UpToDate(h) ==
  h.k = 1 /\ Len(signals[h.rec]) = 1 /\ h.row.superseded = signals[h.rec][1].superseded

\* A signal to insert, for a record that has none.
FirstOfRecord(h) == h.k = 0 /\ signals[h.rec] = <<>> /\ ~h.row.superseded

\* The row that a save has selected, if it has, is the record's row still.
Fresh(m) == m.seen = None \/ m.seen = signals[m.held.rec][1]

Saves == {"saveHidden", "saveSignal", "resolve"}

\* What the worker knows of the tables at phase ph, from its locals m.
WorkerAt(ph, m) ==
  /\ ph \notin Saves \cup {"write", "supersede"} => m.seen = None
  /\ ph \in {"idle", "ingest", "priors"} => m.priors = {}
  /\ ph \in {"priors", "upsert", "write"} => m.data.supersededBy = None
  /\ ph = "priors" => m.cur \notin Stored \cup OpenInsider
  /\ ph \in {"upsert", "write"} =>
       /\ Amends(m)
       /\ m.priors # {} => m.cur \notin Stored
       /\ m.cur \in OpenInsider => ~Matched(m.data.trade)
  /\ ph = "write" => m.seen = rows[m.cur]
  /\ ph \in {"mark", "supersede", "hide", "saveHidden"} =>
       Current(m.cur) /\ signals[m.cur] = <<>> /\ Amends(m)
  /\ ph \in {"supersede", "hide"} => VersionOf(m.prior, m.cur)
  /\ ph = "supersede" => m.seen = rows[m.prior]
  /\ ph = "saveHidden" =>
       VersionOf(m.held.rec, m.cur) /\ m.held.k = 1 /\ Len(signals[m.held.rec]) = 1
  /\ ph \in Saves => Fresh(m)
  /\ ph \in {"txns", "buybacks", "saveSignal"} => \A x \in m.list : x.rec \in Stored
  /\ ph = "saveSignal" => m.held.rec \in Stored /\ (UpToDate(m.held) \/ FirstOfRecord(m.held))
  /\ ph \in {"send", "resolve"} => \A h \in m.batch : UpToDate(h)
  /\ ph = "resolve" => UpToDate(m.held)

\* f is current once the step is taken.
StaysCurrent(f) == f \in Filings /\ rows'[f] # None /\ rows'[f].supersededBy = None

ClassifiedAreStored == \A f \in Filings : signals[f] # <<>> => f \in Stored

\* What is asked of the filings' tables, and of the signals beside them.
RowsInv == EventNeverHidden /\ SupersessionEnds
SignalsInv == ClassifiedAreStored /\ OneSignalPerRecord /\ HiddenSignalWasReplaced

SInv == (\A p \in Procs : WorkerAt(pc[p], mem[p])) /\ RowsInv /\ SignalsInv

----------------------------------------------------------------------------
\* Lemmas about rows.

\* Every report of a Form 4 line has its key.
LEMMA ReportedKey ==
  ASSUME NEW f \in Form4, NEW row, Reported(f, row) PROVE row.key = Key(f)
<1>1. PICK r \in ReportsOf(f) : row.key = r.key BY DEF Reported
<1> DEFINE s == CHOOSE x \in ReportsOf(f) : TRUE
<1>2. s \in ReportsOf(f) BY <1>1
<1>3. r.key = s.key BY <1>2, FilingsAssumption
<1> QED BY <1>1, <1>3 DEF Key

\* So does its row.
LEMMA StoredKey ==
  ASSUME IInv, NEW f \in Form4 \cap Stored PROVE rows[f].key = Key(f)
BY ReportedKey DEF IInv, RowsReported

\* What an amendment finds are versions of it.
LEMMA PriorsAreVersions ==
  ASSUME IInv, NEW c \in Filings, c \notin Stored \cup OpenInsider, NEW data, Reported(c, data),
         NEW g \in CurrentRows(data.key)
  PROVE  VersionOf(g, c)
<1>1. g \in Filings /\ g \in Stored /\ rows[g].key = data.key BY DEF CurrentRows, Current
<1>2. PICK r \in ReportsOf(g) : rows[g].key = r.key
  BY <1>1 DEF IInv, RowsReported, Reported
<1>3. PICK s \in ReportsOf(c) : data.key = s.key BY DEF Reported
<1>k. r.key = s.key BY <1>1, <1>2, <1>3
<1>a. \A x, y \in Filings : \A q \in ReportsOf(x), z \in ReportsOf(y) :
        q.key = z.key => \E T \in {Form4, OpenInsider, Buybacks} : {x, y} \subseteq T
  BY FilingsAssumption
<1>4. PICK T \in {Form4, OpenInsider, Buybacks} : {g, c} \subseteq T
  BY <1>1, <1>2, <1>3, <1>k, <1>a
<1>5. g \notin OpenInsider /\ (g \in Form4 => c \in Form4)
  BY <1>4, FilingsAssumption DEF Transactions
<1>6. g \in Form4 => Key(g) = Key(c) BY <1>1, <1>5, ReportedKey, StoredKey
<1> QED BY <1>1, <1>5, <1>6 DEF VersionOf

\* An UPDATE of the row as it was selected writes what is in memory.
LEMMA UpdatedAsSeen ==
  ASSUME NEW row \in FilingRow, NEW new \in FilingRow
  PROVE  Updated(row, row, new) = new
BY DEF Updated, FilingRow

\* The same of a signal's row.
LEMMA SavedAsSeen ==
  ASSUME NEW row \in SignalRow, NEW new \in SignalRow
  PROVE  Updated(row, row, new) = new
BY DEF Updated, SignalRow

\* A row that is inserted, or rewritten and with that current again, keeps the
\* tables in order, and every hidden signal replaced.
LEMMA FetchedRow ==
  ASSUME IInv, IInv', RowsInv, SignalsInv, NEW c \in Filings, NEW row \in FilingRow,
         row.supersededBy = None, rows' = [rows EXCEPT ![c] = row], signals' = signals
  PROVE  RowsInv' /\ SignalsInv' /\ StaysCurrent(c) /\ Stored' = Stored \cup {c}
<1>1. rows \in [Filings -> FilingRow \cup {None}] BY DEF IInv, TypeOK
<1>2. row # None BY FilingsAssumption
<1>3. Stored' = Stored \cup {c} /\ rows'[c] = row /\ (\A f \in Filings : f # c => rows'[f] = rows[f])
  BY <1>1, <1>2 DEF Stored
<1>4. Current(c)' /\ \A f : Current(f) => Current(f)'
  BY <1>3 DEF Current, Stored
<1>5. ASSUME NEW f \in Form4 \cap Stored' PROVE rows'[f].key = Key(f)
  BY <1>5, ReportedKey DEF IInv, RowsReported
<1>6. \A f \in Form4 \cap Stored : rows'[f].key = rows[f].key BY <1>3, <1>5, StoredKey
<1>7. EventNeverHidden'
  <2> SUFFICES ASSUME NEW f \in Form4 \cap Stored'
               PROVE \E g \in Form4 : Current(g)' /\ rows'[g].key = rows'[f].key
    BY DEF EventNeverHidden
  <2>1. CASE f = c BY <1>4, <2>1
  <2>2. CASE f # c
    <3>1. f \in Stored BY <1>3, <2>2
    <3>2. PICK g \in Form4 : Current(g) /\ rows[g].key = rows[f].key
      BY <3>1 DEF RowsInv, EventNeverHidden
    <3> QED BY <1>4, <1>6, <3>1, <3>2 DEF Current
  <2> QED BY <2>1, <2>2
<1>8. SupersessionEnds'
  <2> SUFFICES ASSUME NEW S \in SUBSET Stored', S # {}
               PROVE \E f \in S : rows'[f].supersededBy \notin S
    BY DEF SupersessionEnds
  <2>1. None \notin S BY FilingsAssumption DEF Stored
  <2>2. CASE c \in S BY <1>3, <2>1, <2>2
  <2>3. CASE c \notin S
    <3>1. S \subseteq Stored BY <1>3, <2>3
    <3>2. PICK f \in S : rows[f].supersededBy \notin S BY <3>1 DEF RowsInv, SupersessionEnds
    <3> QED BY <1>3, <2>3, <3>1, <3>2 DEF Stored
  <2> QED BY <2>2, <2>3
<1>9. ClassifiedAreStored' /\ OneSignalPerRecord'
  BY <1>3 DEF SignalsInv, ClassifiedAreStored, OneSignalPerRecord
<1>10. HiddenSignalWasReplaced'
  <2> SUFFICES ASSUME NEW f \in Form4, NEW s \in SignalsOf(f), s.superseded
               PROVE /\ f \in Stored'
                     /\ \E g \in Form4 \ {f} : Current(g)' /\ rows'[g].key = rows'[f].key
    BY DEF HiddenSignalWasReplaced, SignalsOf
  <2>1. f \in Stored BY DEF SignalsInv, HiddenSignalWasReplaced
  <2>2. PICK g \in Form4 \ {f} : Current(g) /\ rows[g].key = rows[f].key
    BY DEF SignalsInv, HiddenSignalWasReplaced
  <2> QED BY <1>3, <1>4, <1>6, <2>1, <2>2 DEF Current
<1> QED BY <1>3, <1>4, <1>7, <1>8, <1>9, <1>10 DEF RowsInv, SignalsInv, StaysCurrent, Current, Stored

\* So does superseding a version of a row that is current and not classified yet.
LEMMA SupersededRow ==
  ASSUME IInv, IInv', RowsInv, SignalsInv, NEW c \in Filings, Current(c), signals[c] = <<>>,
         NEW g \in Stored, VersionOf(g, c),
         rows' = [rows EXCEPT ![g] = [rows[g] EXCEPT !.supersededBy = c]], signals' = signals
  PROVE  RowsInv' /\ SignalsInv' /\ StaysCurrent(c) /\ Stored' = Stored
<1>1. /\ rows \in [Filings -> FilingRow \cup {None}] /\ g \in Filings /\ rows[g] \in FilingRow
      /\ rows[g] # None
  BY DEF IInv, TypeOK, Stored
<1>2. [rows[g] EXCEPT !.supersededBy = c] \in FilingRow BY <1>1 DEF FilingRow
<1>3. /\ \A f \in Filings : f # g => rows'[f] = rows[f]
      /\ rows'[g].supersededBy = c /\ rows'[g] # None
  BY <1>1, <1>2, FilingsAssumption DEF FilingRow
<1>4. Stored' = Stored BY <1>1, <1>3 DEF Stored
<1>5. g # c /\ \A f : f # g /\ Current(f) => Current(f)'
  BY <1>3, <1>4 DEF Current, Stored, VersionOf
<1>6. ASSUME NEW f \in Form4 \cap Stored' PROVE rows'[f].key = Key(f)
  BY <1>6, ReportedKey DEF IInv, RowsReported
<1>7. \A f \in Form4 \cap Stored : rows'[f].key = rows[f].key BY <1>4, <1>6, StoredKey
<1>8. ASSUME NEW f \in Form4 \cap Stored, NEW x \in Form4, Current(x), rows[x].key = rows[f].key
      PROVE  \E y \in {x, c} \cap Form4 : Current(y)' /\ rows'[y].key = rows'[f].key
  <2>1. CASE x # g BY <1>5, <1>7, <1>8, <2>1 DEF Current
  <2>2. CASE x = g
    <3>1. c \in Form4 /\ Key(g) = Key(c) BY <1>8, <2>2 DEF VersionOf
    <3>2. rows'[c].key = Key(c) /\ rows[x].key = Key(g) /\ rows'[f].key = rows[f].key
      BY <1>4, <1>6, <1>7, <1>8, <2>2, <3>1, StoredKey DEF Current
    <3> QED BY <1>5, <1>8, <3>1, <3>2
  <2> QED BY <2>1, <2>2
<1>9. EventNeverHidden'
  <2> SUFFICES ASSUME NEW f \in Form4 \cap Stored
               PROVE \E y \in Form4 : Current(y)' /\ rows'[y].key = rows'[f].key
    BY <1>4 DEF EventNeverHidden
  <2>1. PICK x \in Form4 : Current(x) /\ rows[x].key = rows[f].key
    BY DEF RowsInv, EventNeverHidden
  <2> QED BY <1>8, <2>1
<1>10. SupersessionEnds'
  <2> SUFFICES ASSUME NEW S \in SUBSET Stored, S # {}
               PROVE \E f \in S : rows'[f].supersededBy \notin S
    BY <1>4 DEF SupersessionEnds
  <2>1. None \notin S BY FilingsAssumption DEF Stored
  <2>2. CASE c \in S BY <1>3, <1>5, <2>1, <2>2 DEF Current, Stored
  <2>3. CASE c \notin S
    <3>1. CASE g \in S BY <1>3, <2>3, <3>1
    <3>2. CASE g \notin S
      <4>1. PICK f \in S : rows[f].supersededBy \notin S BY DEF RowsInv, SupersessionEnds
      <4> QED BY <1>3, <3>2, <4>1 DEF Stored
    <3> QED BY <3>1, <3>2
  <2> QED BY <2>2, <2>3
<1>11. ClassifiedAreStored' /\ OneSignalPerRecord'
  BY <1>4 DEF SignalsInv, ClassifiedAreStored, OneSignalPerRecord
<1>12. HiddenSignalWasReplaced'
  <2> SUFFICES ASSUME NEW f \in Form4, NEW s \in SignalsOf(f), s.superseded
               PROVE /\ f \in Stored
                     /\ \E y \in Form4 \ {f} : Current(y)' /\ rows'[y].key = rows'[f].key
    BY <1>4 DEF HiddenSignalWasReplaced, SignalsOf
  <2>1. f \in Stored BY DEF SignalsInv, HiddenSignalWasReplaced
  <2>2. PICK x \in Form4 \ {f} : Current(x) /\ rows[x].key = rows[f].key
    BY DEF SignalsInv, HiddenSignalWasReplaced
  <2>3. f # c BY DEF SignalsOf
  <2> QED BY <1>8, <2>1, <2>2, <2>3
<1> QED BY <1>4, <1>5, <1>9, <1>10, <1>11, <1>12 DEF RowsInv, SignalsInv, StaysCurrent, Current, Stored

----------------------------------------------------------------------------
\* Lemmas about single steps of the only process w.

\* A step that leaves the tables alone keeps SInv if it leaves w as WorkerAt says.
LEMMA QuietWorker ==
  ASSUME NEW w, Procs = {w}, IInv, SInv, NEW ph, NEW m, WorkerAt(ph, m),
         pc' = [pc EXCEPT ![w] = ph], mem' = [mem EXCEPT ![w] = m],
         UNCHANGED <<rows, signals>>
  PROVE  SInv'
<1>1. pc'[w] = ph /\ mem'[w] = m BY DEF IInv, TypeOK
<1>2. WorkerAt(pc[w], mem[w])'
  BY <1>1 DEF WorkerAt, Amends, UpToDate, FirstOfRecord, Fresh, Current, Stored, Matched
<1>3. RowsInv' BY DEF SInv, RowsInv, EventNeverHidden, SupersessionEnds, Current, Stored
<1>4. SignalsInv'
  BY DEF SInv, SignalsInv, ClassifiedAreStored, OneSignalPerRecord, HiddenSignalWasReplaced,
         SignalsOf, Current, Stored
<1> QED BY <1>2, <1>3, <1>4 DEF SInv

\* The command ends: the worker knows nothing of the tables, and they stay.
LEMMA ExitWorker ==
  ASSUME NEW w, Procs = {w}, IInv, SInv, Exit(w), UNCHANGED <<rows, signals>>
  PROVE  SInv'
<1>1. WorkerAt("idle", NoLocals) BY DEF WorkerAt, NoLocals, Saves
<1> QED BY <1>1, QuietWorker DEF Exit, Goto, Remember

\* A phase ends: the worker starts the next one with fresh locals.
LEMMA EndPhaseWorker ==
  ASSUME NEW w, Procs = {w}, IInv, SInv, NEW next \in {"thresholds", "listPending", "idle"},
         EndPhase(w, next), UNCHANGED <<rows, signals>>
  PROVE  SInv'
<1>1. CASE cmd[w] = "cycle" /\ next # "idle"
  <2>1. WorkerAt(next, NoLocals) BY <1>1 DEF WorkerAt, NoLocals, Saves
  <2> QED BY <1>1, <2>1, QuietWorker DEF EndPhase, Goto, Remember
<1>2. CASE ~(cmd[w] = "cycle" /\ next # "idle")
  BY <1>2, ExitWorker DEF EndPhase
<1> QED BY <1>1, <1>2

\* The loop over priors goes on, or ends: of a candidate that is current, and new
\* if it has priors.
LEMMA NextPriorWorker ==
  ASSUME NEW w, Procs = {w}, IInv, NEW m \in Locals, NextPrior(w, m), m.seen = None,
         m.priors # {} => StaysCurrent(m.cur) /\ signals'[m.cur] = <<>> /\ Amends(m)
  PROVE  WorkerAt(pc[w], mem[w])'
<1> DEFINE done == [m EXCEPT !.cur = None]
<1>1. done.priors = m.priors /\ done.seen = m.seen BY DEF Locals
<1> HIDE DEF done
<1>2. CASE m.priors # {}
  <2>1. pc'[w] = "mark" /\ mem'[w] = m BY <1>2 DEF NextPrior, Goto, Remember, IInv, TypeOK
  <2> QED BY <1>2, <2>1 DEF WorkerAt, Saves, Amends, StaysCurrent, Current, Stored
<1>3. CASE m.priors = {}
  <2>1. pc'[w] = "ingest" /\ mem'[w] = done
    BY <1>3 DEF NextPrior, Goto, Remember, IInv, TypeOK, done
  <2> QED BY <1>1, <1>3, <2>1 DEF WorkerAt, Saves
<1> QED BY <1>2, <1>3

\* Saving the only copy of a record's signal, or its first one, leaves one row.
LEMMA SaveLeavesOne ==
  ASSUME IInv, NEW h, NEW seen, GoodHeld(h, mails), SaveSignal(h, seen),
         \/ h.k = 1 /\ Len(signals[h.rec]) = 1 /\ seen = signals[h.rec][1]
         \/ h.k = 0 /\ signals[h.rec] = <<>>
  PROVE  /\ h.rec \in Filings
         /\ signals'[h.rec] # <<>> /\ Len(signals'[h.rec]) = 1 /\ signals'[h.rec][1] = h.row
         /\ DOMAIN signals'[h.rec] = {1}
         /\ \A f \in Filings : f # h.rec => signals'[f] = signals[f]
<1> DEFINE s == signals[h.rec]
           u == Updated(s[h.k], seen, h.row)
           t == IF h.k = 0 THEN Append(s, h.row) ELSE [s EXCEPT ![h.k] = u]
<1>0. signals' = [signals EXCEPT ![h.rec] = t] BY DEF SaveSignal
<1>1. h.rec \in Filings /\ h.row \in SignalRow /\ s \in Seq(SignalRow)
  BY DEF GoodHeld, Held, IInv, TypeOK
<1>2. ASSUME h.k # 0 PROVE u = h.row
  <2>1. h.k = 1 /\ seen = s[1] /\ Len(s) = 1 BY <1>2
  <2>2. s[1] \in SignalRow BY <1>1, <2>1
  <2>3. u = Updated(s[1], s[1], h.row) BY <2>1
  <2> QED BY <1>1, <2>2, <2>3, SavedAsSeen
<1> HIDE DEF u
<1>3. t # <<>> /\ Len(t) = 1 /\ t[1] = h.row /\ DOMAIN t = {1}
  <2>1. CASE h.k = 0
    <3>1. s = <<>> /\ t = Append(s, h.row) BY <2>1
    <3>2. t = <<h.row>> BY <1>1, <3>1
    <3> QED BY <3>2
  <2>2. CASE h.k # 0
    <3>1. t = [s EXCEPT ![1] = h.row] /\ Len(s) = 1 BY <1>2, <2>2
    <3>2. DOMAIN s = 1..1 BY <1>1, <3>1
    <3>3. t = <<h.row>> BY <3>1, <3>2
    <3> QED BY <3>3
  <2> QED BY <2>1, <2>2
<1> HIDE DEF t
<1> QED BY <1>0, <1>1, <1>3 DEF IInv, TypeOK

----------------------------------------------------------------------------
\* What the only process w finds when it takes a step.
LEMMA WorkerAtWork ==
  ASSUME NEW w, Procs = {w}, IInv, SInv
  PROVE  /\ w \in Procs /\ mem[w] \in Locals /\ WorkerAt(pc[w], mem[w])
         /\ PhaseAt(pc[w], cmd[w], mem[w], mails)
         /\ pc' = pc => pc' = [pc EXCEPT ![w] = pc[w]]
         /\ RowsInv /\ SignalsInv
         /\ rows \in [Filings -> FilingRow \cup {None}]
         /\ signals \in [Filings -> Seq(SignalRow)]
BY DEF IInv, TypeOK, ProcsOK, SInv

\* A step of w that reads the tables only.
LEMMA ReadWorker ==
  ASSUME NEW w, Procs = {w}, IInv, SInv, NEW ph, NEW m, WorkerAt(ph, m),
         Goto(w, ph), Remember(w, m), UNCHANGED tables
  PROVE  SInv'
BY QuietWorker DEF Goto, Remember, tables

\* Every step of run_ingest keeps SInv.
LEMMA IngestWorker ==
  ASSUME NEW w, Procs = {w}, IInv, IInv', SInv, IngestNext(w)
  PROVE  SInv'
<1> DEFINE m0 == mem[w]
           c == m0.cur
<1>0. /\ w \in Procs /\ m0 \in Locals /\ WorkerAt(pc[w], m0) /\ PhaseAt(pc[w], cmd[w], m0, mails)
      /\ RowsInv /\ SignalsInv
      /\ rows \in [Filings -> FilingRow \cup {None}]
      /\ signals \in [Filings -> Seq(SignalRow)]
      /\ pc' = pc => pc' = [pc EXCEPT ![w] = pc[w]]
  BY WorkerAtWork
<1>t. ASSUME NEW f \in Filings, NEW r \in Reports[f][today]
      PROVE  /\ Taken(m0, f, r).cur = f /\ Taken(m0, f, r).data = r /\ r.supersededBy = None
             /\ Taken(m0, f, r).priors = m0.priors /\ Taken(m0, f, r).seen = m0.seen
  <2>1. today \in Days BY DEF IInv, TypeOK
  <2> QED BY <1>0, <2>1, FetchedIsReported DEF Locals, Taken
<1>1. ASSUME NEW f \in Filings, TakeSecCandidate(w, f) PROVE SInv'
  <2>1. PICK r \in Reports[f][today] : Remember(w, Taken(m0, f, r))
    BY <1>1 DEF TakeSecCandidate
  <2> DEFINE m == Taken(m0, f, r)
             ph == IF f \in Stored THEN "upsert" ELSE "priors"
  <2>2. m.cur = f /\ m.data = r /\ r.supersededBy = None /\ m.priors = m0.priors /\ m.seen = m0.seen
    BY <1>t
  <2>3. m0.priors = {} /\ m0.seen = None /\ f \notin OpenInsider
    BY <1>0, <1>1 DEF WorkerAt, Saves, TakeSecCandidate, NextCandidates
  <2> HIDE DEF m
  <2>4. WorkerAt(ph, m) BY <2>2, <2>3 DEF WorkerAt, Saves, Amends
  <2> QED BY <1>1, <2>1, <2>4, ReadWorker DEF TakeSecCandidate, m, tables
<1>2. ASSUME NEW f \in Filings, TakeOpenInsiderCandidate(w, f) PROVE SInv'
  <2>0. m0.priors = {} /\ m0.seen = None /\ pc[w] = "ingest"
    BY <1>0, <1>2 DEF WorkerAt, Saves, TakeOpenInsiderCandidate
  <2>1. CASE Remember(w, Dropped(m0, f)) /\ UNCHANGED pc
    <3> DEFINE m == Dropped(m0, f)
    <3>1. m.priors = m0.priors /\ m.seen = m0.seen BY <1>0 DEF Locals, Dropped
    <3> HIDE DEF m
    <3>2. WorkerAt("ingest", m) BY <2>0, <3>1 DEF WorkerAt, Saves
    <3>3. Goto(w, "ingest") BY <1>0, <2>0, <2>1 DEF Goto
    <3> QED BY <1>2, <2>1, <3>2, <3>3, ReadWorker DEF TakeOpenInsiderCandidate, m, tables
  <2>2. ASSUME NEW r \in Reports[f][today], ~Matched(r.trade), Remember(w, Taken(m0, f, r)), Goto(w, "upsert")
        PROVE  SInv'
    <3> DEFINE m == Taken(m0, f, r)
    <3>1. m.cur = f /\ m.data = r /\ r.supersededBy = None /\ m.priors = m0.priors /\ m.seen = m0.seen
      BY <1>t
    <3> HIDE DEF m
    <3>2. WorkerAt("upsert", m) BY <2>0, <2>2, <3>1 DEF WorkerAt, Saves, Amends
    <3> QED BY <1>2, <2>2, <3>2, ReadWorker DEF TakeOpenInsiderCandidate, m, tables
  <2> QED BY <1>2, <2>1, <2>2 DEF TakeOpenInsiderCandidate
<1>3. CASE FindPriors(w)
  <2> DEFINE m == [m0 EXCEPT !.priors = CurrentRows(m0.data.key)]
  <2>1. m.cur = c /\ m.data = m0.data /\ m.seen = m0.seen /\ m.priors = CurrentRows(m0.data.key)
    BY <1>0 DEF Locals
  <2>2. /\ c \in Filings /\ c \notin Stored \cup OpenInsider /\ Reported(c, m0.data)
        /\ m0.seen = None /\ m0.data.supersededBy = None
    BY <1>0, <1>3 DEF WorkerAt, Saves, PhaseAt, FindPriors
  <2> HIDE DEF m
  <2>3. Amends(m) BY <2>1, <2>2, PriorsAreVersions DEF Amends
  <2>4. WorkerAt("upsert", m) BY <2>1, <2>2, <2>3 DEF WorkerAt, Saves
  <2> QED BY <1>3, <2>4, ReadWorker DEF FindPriors, m, tables
<1>4. CASE SelectCandidate(w)
  <2> DEFINE m == [m0 EXCEPT !.seen = rows[c]]
  <2>1. m.cur = c /\ m.data = m0.data /\ m.priors = m0.priors /\ m.seen = rows[c]
    BY <1>0 DEF Locals
  <2> HIDE DEF m
  <2>2. WorkerAt("write", m)
    BY <1>0, <1>4, <2>1 DEF WorkerAt, Saves, Amends, SelectCandidate
  <2> QED BY <1>4, <2>2, ReadWorker DEF SelectCandidate, m, tables
<1>w. ASSUME pc[w] = "write", rows' = [rows EXCEPT ![c] = m0.data], UNCHANGED signals,
             NEW m \in Locals, m.cur = c, m.priors = m0.priors, m.seen = None, NextPrior(w, m)
      PROVE  SInv'
  <2>1. c \in Filings /\ Reported(c, m0.data) /\ Amends(m0) /\ (m0.priors # {} => c \notin Stored)
    BY <1>0, <1>w DEF PhaseAt, WorkerAt
  <2>2. m0.data \in FilingRow /\ m0.data.supersededBy = None
    BY <1>0, <2>1, <1>w DEF Reported, WorkerAt
  <2>3. RowsInv' /\ SignalsInv' /\ StaysCurrent(c) BY <1>0, <1>w, <2>1, <2>2, FetchedRow
  <2>4. ASSUME m.priors # {} PROVE StaysCurrent(m.cur) /\ signals'[m.cur] = <<>> /\ Amends(m)
    <3>1. signals[c] = <<>> BY <1>0, <1>w, <2>1, <2>4 DEF SignalsInv, ClassifiedAreStored
    <3> QED BY <1>w, <2>1, <2>3, <3>1 DEF Amends
  <2>5. WorkerAt(pc[w], mem[w])' BY <1>w, <2>4, NextPriorWorker
  <2> QED BY <2>3, <2>5 DEF SInv
<1>5. CASE InsertCandidate(w)
  <2>0. pc[w] = "write" /\ m0.seen = None BY <1>5 DEF InsertCandidate
  <2>1. CASE rows' = [rows EXCEPT ![c] = m0.data] /\ NextPrior(w, [m0 EXCEPT !.data = None])
    <3> DEFINE m == [m0 EXCEPT !.data = None]
    <3>1. m \in Locals /\ m.cur = c /\ m.priors = m0.priors /\ m.seen = None
      BY <1>0, <2>0 DEF Locals
    <3> HIDE DEF m
    <3>2. NextPrior(w, m) BY <2>1 DEF m
    <3> QED BY <1>5, <1>w, <2>0, <2>1, <3>1, <3>2 DEF InsertCandidate
  <2>2. CASE Exit(w) /\ UNCHANGED rows BY <1>5, <2>2, ExitWorker DEF InsertCandidate
  <2> QED BY <1>5, <2>1, <2>2 DEF InsertCandidate
<1>6. CASE UpdateCandidate(w)
  <2> DEFINE m == [m0 EXCEPT !.data = None, !.seen = None]
  <2>1. /\ pc[w] = "write" /\ c \in Stored /\ m0.seen = rows[c] /\ Reported(c, m0.data)
        /\ c \in Filings
    BY <1>0, <1>6 DEF PhaseAt, WorkerAt, UpdateCandidate
  <2>2. rows[c] \in FilingRow /\ m0.data \in FilingRow BY <1>0, <2>1 DEF Stored, Reported
  <2>3. Updated(rows[c], rows[c], m0.data) = m0.data BY <2>2, UpdatedAsSeen
  <2>4. m \in Locals /\ m.cur = c /\ m.priors = m0.priors /\ m.seen = None
    BY <1>0 DEF Locals
  <2> HIDE DEF m
  <2>5. NextPrior(w, m) /\ rows' = [rows EXCEPT ![c] = m0.data] /\ UNCHANGED signals
    BY <1>6, <2>1, <2>3 DEF UpdateCandidate, m
  <2> QED BY <1>w, <2>1, <2>4, <2>5
<1>7. ASSUME NEW g \in Filings, MarkPrior(w, g) PROVE SInv'
  <2> DEFINE m == [m0 EXCEPT !.priors = @ \ {g}, !.prior = g, !.seen = rows[g]]
  <2>1. m.cur = c /\ m.priors = m0.priors \ {g} /\ m.prior = g /\ m.seen = rows[g]
    BY <1>0 DEF Locals
  <2> HIDE DEF m
  <2>2. WorkerAt("supersede", m)
    BY <1>0, <1>7, <2>1 DEF WorkerAt, Saves, Amends, MarkPrior
  <2> QED BY <1>7, <2>2, ReadWorker DEF MarkPrior, m, tables
<1>8. CASE SupersedePrior(w)
  <2> DEFINE g == m0.prior
             new == [rows[g] EXCEPT !.supersededBy = c]
             m == [m0 EXCEPT !.seen = None]
  <2>1. /\ Current(c) /\ signals[c] = <<>> /\ Amends(m0) /\ VersionOf(g, c)
        /\ g \in Stored /\ m0.seen = rows[g] /\ c \in Filings
    BY <1>0, <1>8 DEF WorkerAt, PhaseAt, SupersedePrior
  <2>2. rows[g] \in FilingRow /\ new \in FilingRow BY <1>0, <2>1 DEF FilingRow, Stored
  <2>3. Updated(rows[g], rows[g], new) = new BY <2>2, UpdatedAsSeen
  <2>4. rows' = [rows EXCEPT ![g] = new] /\ signals' = signals
    BY <1>8, <2>1, <2>3 DEF SupersedePrior
  <2>5. RowsInv' /\ SignalsInv' /\ StaysCurrent(c) BY <1>0, <2>1, <2>4, SupersededRow
  <2>6. m.cur = c /\ m.priors = m0.priors /\ m.prior = g /\ m.seen = None BY <1>0 DEF Locals
  <2> HIDE DEF m
  <2>7. pc'[w] = "hide" /\ mem'[w] = m
    BY <1>8 DEF SupersedePrior, Goto, Remember, IInv, TypeOK, m
  <2>8. WorkerAt(pc[w], mem[w])'
    BY <2>1, <2>4, <2>5, <2>6, <2>7 DEF WorkerAt, Saves, Amends, StaysCurrent, Current, Stored
  <2> QED BY <2>5, <2>8 DEF SInv
<1>9. CASE ReadPriorSignal(w)
  <2> DEFINE g == m0.prior
  <2>0. /\ Current(c) /\ signals[c] = <<>> /\ Amends(m0) /\ VersionOf(g, c) /\ m0.seen = None
        /\ UNCHANGED tables /\ UNCHANGED <<rows, signals>>
    BY <1>0, <1>9 DEF WorkerAt, Saves, ReadPriorSignal, tables
  <2>1. CASE Exit(w) BY <2>0, <2>1, ExitWorker
  <2>2. CASE NextPrior(w, [m0 EXCEPT !.prior = None])
    <3> DEFINE m == [m0 EXCEPT !.prior = None]
    <3>1. m \in Locals /\ m.cur = c /\ m.priors = m0.priors /\ m.seen = None BY <1>0, <2>0 DEF Locals
    <3> HIDE DEF m
    <3>2. NextPrior(w, m) BY <2>2 DEF m
    <3>3. StaysCurrent(c) /\ signals'[c] = <<>> /\ Amends(m)
      BY <2>0, <3>1 DEF StaysCurrent, Current, Stored, Amends
    <3>4. WorkerAt(pc[w], mem[w])' BY <3>1, <3>2, <3>3, NextPriorWorker
    <3>5. RowsInv' BY <1>0, <2>0 DEF RowsInv, EventNeverHidden, SupersessionEnds, Current, Stored
    <3>6. SignalsInv'
      BY <1>0, <2>0 DEF SignalsInv, ClassifiedAreStored, OneSignalPerRecord,
         HiddenSignalWasReplaced, SignalsOf, Current, Stored
    <3> QED BY <3>4, <3>5, <3>6 DEF SInv
  <2>3. CASE /\ SignalCount(g) = 1
             /\ Remember(w, [m0 EXCEPT !.prior = None,
                                       !.held = [TheSignal(g) EXCEPT !.row.superseded = TRUE]])
             /\ Goto(w, "saveHidden")
    <3> DEFINE h == [TheSignal(g) EXCEPT !.row.superseded = TRUE]
               m == [m0 EXCEPT !.prior = None, !.held = h]
    <3>1. h.rec = g /\ h.k = 1 BY DEF TheSignal
    <3>2. m.cur = c /\ m.priors = m0.priors /\ m.held = h /\ m.seen = None BY <1>0, <2>0 DEF Locals
    <3> HIDE DEF m, h
    <3>3. WorkerAt("saveHidden", m)
      BY <2>0, <2>3, <3>1, <3>2 DEF WorkerAt, Saves, Fresh, Amends, SignalCount
    <3> QED BY <2>0, <2>3, <3>3, ReadWorker DEF m, h
  <2> QED BY <1>9, <2>1, <2>2, <2>3 DEF ReadPriorSignal
<1>10. CASE HidePriorSignal(w)
  <2> DEFINE m == [m0 EXCEPT !.held = None, !.seen = None]
             h == m0.held
  <2>1. /\ Current(c) /\ signals[c] = <<>> /\ Amends(m0)
        /\ VersionOf(h.rec, c) /\ h.k = 1 /\ Len(signals[h.rec]) = 1 /\ m0.seen = signals[h.rec][1]
    BY <1>0, <1>10 DEF WorkerAt, Saves, Fresh, Selected, HidePriorSignal
  <2>2. GoodHeld(h, mails) /\ SaveSignal(h, m0.seen) /\ c \in Filings /\ rows' = rows
    BY <1>0, <1>10 DEF PhaseAt, HidePriorSignal
  <2>3. /\ h.rec \in Filings
        /\ signals'[h.rec] # <<>> /\ Len(signals'[h.rec]) = 1 /\ signals'[h.rec][1] = h.row
        /\ DOMAIN signals'[h.rec] = {1}
        /\ \A f \in Filings : f # h.rec => signals'[f] = signals[f]
    BY <2>1, <2>2, SaveLeavesOne
  <2>4. h.rec \in Stored
    <3>1. Len(<<>>) = 0 /\ 0 # 1 OBVIOUS
    <3>2. signals[h.rec] # <<>> BY <2>1, <3>1, Zenon
    <3> QED BY <1>0, <2>3, <3>2 DEF SignalsInv, ClassifiedAreStored
  <2>5. m \in Locals /\ m.cur = c /\ m.priors = m0.priors /\ m.seen = None BY <1>0 DEF Locals
  <2> HIDE DEF m, h
  <2>6. NextPrior(w, m) BY <1>10 DEF HidePriorSignal, m
  <2>7. Stored' = Stored /\ \A f : Current(f)' <=> Current(f) BY <2>2 DEF Stored, Current
  <2>8. StaysCurrent(c) /\ signals'[c] = <<>> /\ Amends(m)
    BY <2>1, <2>2, <2>3, <2>5 DEF VersionOf, Amends, StaysCurrent, Current, Stored
  <2>9. WorkerAt(pc[w], mem[w])' BY <2>5, <2>6, <2>8, NextPriorWorker
  <2>10. RowsInv'
    BY <1>0, <2>2, <2>7 DEF RowsInv, EventNeverHidden, SupersessionEnds
  <2>11. ClassifiedAreStored' BY <1>0, <2>3, <2>4, <2>7 DEF SignalsInv, ClassifiedAreStored
  <2>12. OneSignalPerRecord'
    <3> SUFFICES ASSUME NEW f \in Filings PROVE Len(signals'[f]) <= 1
      BY DEF OneSignalPerRecord
    <3>1. CASE f = h.rec
      <4>1. Len(signals'[f]) = 1 BY <2>3, <3>1
      <4> QED BY <4>1
    <3>2. CASE f # h.rec
      <4>1. signals'[f] = signals[f] BY <2>3, <3>2
      <4>2. Len(signals[f]) <= 1 BY <1>0 DEF SignalsInv, OneSignalPerRecord
      <4> QED BY <4>1, <4>2
    <3> QED BY <3>1, <3>2
  <2>13. HiddenSignalWasReplaced'
    <3> SUFFICES ASSUME NEW f \in Form4, NEW s \in SignalsOf(f)', s.superseded
                 PROVE  /\ f \in Stored
                        /\ \E x \in Form4 \ {f} : Current(x) /\ rows[x].key = rows[f].key
      BY <2>2, <2>7 DEF HiddenSignalWasReplaced
    <3>1. CASE f = h.rec
      <4>1. c \in Form4 /\ Key(f) = Key(c) /\ c # f BY <2>1, <3>1 DEF VersionOf
      <4>2. rows[f].key = Key(f) /\ rows[c].key = Key(c)
        BY <2>1, <2>4, <3>1, <4>1, StoredKey DEF Current
      <4> QED BY <2>1, <2>4, <3>1, <4>1, <4>2
    <3>2. CASE f # h.rec
      <4>1. f \in Filings BY DEF Filings
      <4>2. s \in SignalsOf(f) BY <2>3, <3>2, <4>1 DEF SignalsOf
      <4> QED BY <1>0, <4>2 DEF SignalsInv, HiddenSignalWasReplaced
    <3> QED BY <3>1, <3>2
  <2> QED BY <2>9, <2>10, <2>11, <2>12, <2>13 DEF SInv, SignalsInv
<1>11. CASE EndIngest(w)
  BY <1>11, EndPhaseWorker DEF EndIngest, tables
<1> QED BY <1>1, <1>2, <1>3, <1>4, <1>5, <1>6, <1>7, <1>8, <1>9, <1>10, <1>11 DEF IngestNext

----------------------------------------------------------------------------
\* A save that leaves the row as hidden as it was, or inserts a visible one.
LEMMA PlainSave ==
  ASSUME NEW w, Procs = {w}, IInv, SInv, NEW h, NEW seen, GoodHeld(h, mails), SaveSignal(h, seen),
         h.rec \in Stored, (UpToDate(h) /\ seen = signals[h.rec][1]) \/ FirstOfRecord(h),
         UNCHANGED rows
  PROVE  /\ RowsInv' /\ SignalsInv'
         /\ \A x \in Held : UpToDate(x) => UpToDate(x)'
<1>0. RowsInv /\ SignalsInv BY DEF SInv
<1>1. /\ h.rec \in Filings
      /\ signals'[h.rec] # <<>> /\ Len(signals'[h.rec]) = 1 /\ signals'[h.rec][1] = h.row
      /\ DOMAIN signals'[h.rec] = {1}
      /\ \A f \in Filings : f # h.rec => signals'[f] = signals[f]
  BY SaveLeavesOne DEF UpToDate, FirstOfRecord
<1>2. Stored' = Stored /\ \A f : Current(f)' <=> Current(f) BY DEF Stored, Current
<1>3. RowsInv' BY <1>0, <1>2 DEF RowsInv, EventNeverHidden, SupersessionEnds
<1>4. ClassifiedAreStored' BY <1>0, <1>1, <1>2 DEF SignalsInv, ClassifiedAreStored
<1>5. OneSignalPerRecord'
  <2> SUFFICES ASSUME NEW f \in Filings PROVE Len(signals'[f]) <= 1
    BY DEF OneSignalPerRecord
  <2>1. CASE f = h.rec
    <3>1. Len(signals'[f]) = 1 BY <1>1, <2>1
    <3> QED BY <3>1
  <2>2. CASE f # h.rec
    <3>1. signals'[f] = signals[f] BY <1>1, <2>2
    <3>2. Len(signals[f]) <= 1 BY <1>0 DEF SignalsInv, OneSignalPerRecord
    <3> QED BY <3>1, <3>2
  <2> QED BY <2>1, <2>2
<1>6. HiddenSignalWasReplaced'
  <2> SUFFICES ASSUME NEW f \in Form4, NEW s \in SignalsOf(f)', s.superseded
               PROVE  /\ f \in Stored
                      /\ \E g \in Form4 \ {f} : Current(g) /\ rows[g].key = rows[f].key
    BY <1>2 DEF HiddenSignalWasReplaced
  <2>0. f \in Filings BY DEF Filings
  <2>1. CASE f = h.rec
    <3>1. s = h.row BY <1>1, <2>1 DEF SignalsOf
    <3>2. Len(signals[f]) = 1 /\ signals[f][1].superseded
      BY <2>1, <3>1 DEF UpToDate, FirstOfRecord
    <3>3. signals[f] \in Seq(SignalRow) BY <2>0 DEF IInv, TypeOK
    <3>4. 1 \in DOMAIN signals[f] BY <3>2, <3>3
    <3> QED BY <1>0, <3>2, <3>4 DEF SignalsInv, HiddenSignalWasReplaced, SignalsOf
  <2>2. CASE f # h.rec
    <3>1. s \in SignalsOf(f) BY <1>1, <2>0, <2>2 DEF SignalsOf
    <3> QED BY <1>0, <3>1 DEF SignalsInv, HiddenSignalWasReplaced
  <2> QED BY <2>1, <2>2
<1>7. ASSUME NEW x \in Held, UpToDate(x) PROVE UpToDate(x)'
  <2>1. x.rec \in Filings BY DEF Held
  <2>2. CASE x.rec = h.rec
    <3>1. signals[h.rec] # <<>> BY <1>7, <2>2 DEF UpToDate
    <3> QED BY <1>1, <1>7, <2>2, <3>1 DEF UpToDate, FirstOfRecord
  <2>3. CASE x.rec # h.rec
    BY <1>1, <1>7, <2>1, <2>3 DEF UpToDate
  <2> QED BY <2>2, <2>3
<1> QED BY <1>3, <1>4, <1>5, <1>6, <1>7 DEF SignalsInv

----------------------------------------------------------------------------
\* Every step of run_classify keeps SInv.
LEMMA ClassifyWorker ==
  ASSUME NEW w, Procs = {w}, IInv, SInv, ClassifyNext(w)
  PROVE  SInv'
<1> DEFINE m0 == mem[w]
<1>0. /\ m0 \in Locals /\ WorkerAt(pc[w], m0) /\ PhaseAt(pc[w], cmd[w], m0, mails)
      /\ pc' = pc => pc' = [pc EXCEPT ![w] = pc[w]]
  BY WorkerAtWork
<1>1. CASE ReadThresholds(w)
  <2> DEFINE m == [m0 EXCEPT !.conf = config]
  <2>1. m.seen = None BY <1>0, <1>1 DEF Locals, WorkerAt, Saves, ReadThresholds
  <2> HIDE DEF m
  <2>2. WorkerAt("listTxns", m) BY <2>1 DEF WorkerAt, Saves
  <2> QED BY <1>1, <2>2, ReadWorker DEF ReadThresholds, m, tables
<1>l. ASSUME NEW S, S \subseteq Stored, pc[w] \in {"listTxns", "txns"}, NEW ph \in {"txns", "buybacks"},
             Remember(w, [m0 EXCEPT !.list = Copies(S)]), Goto(w, ph), UNCHANGED tables
      PROVE  SInv'
  <2> DEFINE m == [m0 EXCEPT !.list = Copies(S)]
  <2>1. m.list = Copies(S) /\ m.seen = None BY <1>0, <1>l DEF Locals, WorkerAt, Saves
  <2>2. \A x \in Copies(S) : x.rec \in Stored BY <1>l DEF Copies
  <2> HIDE DEF m
  <2>3. WorkerAt(ph, m) BY <2>1, <2>2 DEF WorkerAt, Saves
  <2> QED BY <1>l, <2>3, ReadWorker DEF m
<1>2. CASE ListTransactions(w)
  <2>1. {t \in Transactions : Current(t)} \subseteq Stored BY DEF Current
  <2> QED BY <1>2, <1>l, <2>1 DEF ListTransactions, tables
<1>3. CASE ListBuybacks(w)
  <2>1. {b \in Buybacks : Current(b)} \subseteq Stored BY DEF Current
  <2> QED BY <1>3, <1>l, <2>1 DEF ListBuybacks, tables
<1>4. ASSUME NEW x \in m0.list, ReadRecordSignal(w, x) PROVE SInv'
  <2> DEFINE f == x.rec
             notable == IsNotable(f, x.data, m0.conf)
  <2>0. /\ pc[w] \in {"txns", "buybacks"} /\ f \in Stored /\ \A y \in m0.list : y.rec \in Stored
        /\ m0.seen = None /\ UNCHANGED tables /\ UNCHANGED <<rows, signals>> /\ f \in Filings
    BY <1>0, <1>4 DEF ReadRecordSignal, WorkerAt, Saves, tables, Stored
  <2> HIDE DEF notable
  <2>1. CASE Exit(w) BY <2>0, <2>1, ExitWorker
  <2>2. CASE Remember(w, [m0 EXCEPT !.list = @ \ {x}]) /\ UNCHANGED pc
    <3> DEFINE m == [m0 EXCEPT !.list = @ \ {x}]
    <3>1. m.list = m0.list \ {x} /\ m.seen = None BY <1>0, <2>0 DEF Locals
    <3> HIDE DEF m
    <3>2. WorkerAt(pc[w], m) BY <2>0, <3>1 DEF WorkerAt, Saves
    <3>3. Goto(w, pc[w]) BY <1>0, <2>2 DEF Goto
    <3> QED BY <2>0, <2>2, <3>2, <3>3, ReadWorker DEF m
  <2>3. ASSUME NEW h, h.rec = f, UpToDate(h) \/ FirstOfRecord(h),
               Remember(w, [m0 EXCEPT !.list = @ \ {x}, !.held = h]), Goto(w, "saveSignal")
        PROVE  SInv'
    <3> DEFINE m == [m0 EXCEPT !.list = @ \ {x}, !.held = h]
    <3>1. m.list = m0.list \ {x} /\ m.held = h /\ m.seen = None BY <1>0, <2>0 DEF Locals
    <3> HIDE DEF m
    <3>2. WorkerAt("saveSignal", m) BY <2>0, <2>3, <3>1 DEF WorkerAt, Saves, Fresh
    <3> QED BY <2>0, <2>3, <3>2, ReadWorker DEF m
  <2>4. CASE /\ SignalCount(f) = 1
             /\ Remember(w, [m0 EXCEPT !.list = @ \ {x},
                               !.held = [TheSignal(f) EXCEPT !.row = ReclassifiedSignal(@, notable)]])
             /\ Goto(w, "saveSignal")
    <3> DEFINE row == signals[f][1]
               new == ReclassifiedSignal(row, notable)
               h == [TheSignal(f) EXCEPT !.row = ReclassifiedSignal(@, notable)]
    <3>1. signals[f] \in Seq(SignalRow) /\ 1 \in DOMAIN signals[f]
      BY <2>0, <2>4 DEF SignalCount, IInv, TypeOK
    <3>2. row \in SignalRow BY <3>1
    <3>3. new.superseded = row.superseded BY <3>2 DEF ReclassifiedSignal, SignalRow
    <3>4. h = [rec |-> f, k |-> 1, row |-> new] BY DEF TheSignal
    <3> HIDE DEF h, new
    <3>5. h.rec = f /\ UpToDate(h) BY <2>4, <3>3, <3>4 DEF UpToDate, SignalCount
    <3> QED BY <2>3, <2>4, <3>5 DEF h
  <2>5. CASE /\ SignalCount(f) = 0
             /\ Remember(w, [m0 EXCEPT !.list = @ \ {x},
                               !.held = [rec |-> f, k |-> 0, row |-> NewSignal(notable)]])
             /\ Goto(w, "saveSignal")
    <3> DEFINE h == [rec |-> f, k |-> 0, row |-> NewSignal(notable)]
    <3>1. signals[f] = <<>>
      <4>1. signals[f] \in Seq(SignalRow) BY <2>0 DEF IInv, TypeOK
      <4> QED BY <2>5, <4>1 DEF SignalCount
    <3>2. ~NewSignal(notable).superseded BY DEF NewSignal
    <3>3. h.rec = f /\ FirstOfRecord(h) BY <3>1, <3>2 DEF FirstOfRecord
    <3> QED BY <2>3, <2>5, <3>3
  <2> QED BY <1>4, <2>1, <2>2, <2>4, <2>5 DEF ReadRecordSignal, notable
<1>5. CASE SaveRecordSignal(w)
  <2> DEFINE m == [m0 EXCEPT !.held = None, !.seen = None]
             h == m0.held
             ph == IF h.rec \in Transactions THEN "txns" ELSE "buybacks"
  <2>1. /\ GoodHeld(h, mails) /\ SaveSignal(h, m0.seen) /\ h.rec \in Stored
        /\ \A x \in m0.list : x.rec \in Stored
        /\ (UpToDate(h) /\ m0.seen = signals[h.rec][1]) \/ FirstOfRecord(h)
        /\ UNCHANGED rows
    BY <1>0, <1>5 DEF PhaseAt, WorkerAt, Saves, Fresh, Selected, UpToDate, SaveRecordSignal
  <2>2. RowsInv' /\ SignalsInv' BY <2>1, PlainSave
  <2>3. m.list = m0.list /\ m.seen = None BY <1>0 DEF Locals
  <2> HIDE DEF m
  <2>4. pc'[w] = ph /\ mem'[w] = m
    BY <1>5 DEF SaveRecordSignal, Goto, Remember, IInv, TypeOK, m
  <2>5. WorkerAt(pc[w], mem[w])' BY <2>1, <2>3, <2>4 DEF WorkerAt, Saves, Stored
  <2> QED BY <2>2, <2>5 DEF SInv
<1>6. CASE EndClassify(w)
  BY <1>6, EndPhaseWorker DEF EndClassify, tables
<1> QED BY <1>1, <1>2, <1>3, <1>4, <1>5, <1>6 DEF ClassifyNext

\* Every step of run_notify keeps SInv.
LEMMA NotifyWorker ==
  ASSUME NEW w, Procs = {w}, IInv, SInv, NotifyNext(w)
  PROVE  SInv'
<1> DEFINE m0 == mem[w]
<1>0. /\ m0 \in Locals /\ WorkerAt(pc[w], m0) /\ PhaseAt(pc[w], cmd[w], m0, mails) /\ SignalsInv
  BY WorkerAtWork
<1>1. CASE ListPending(w)
  <2> DEFINE m == [m0 EXCEPT !.batch = PendingSignals]
  <2>1. ASSUME NEW h \in PendingSignals PROVE UpToDate(h)
    <3>1. PICK f \in Filings :
             \E i \in 1..Len(signals[f]) : h = [rec |-> f, k |-> i, row |-> signals[f][i]]
      BY DEF PendingSignals
    <3>2. PICK i \in 1..Len(signals[f]) : h = [rec |-> f, k |-> i, row |-> signals[f][i]]
      BY <3>1
    <3>3. Len(signals[f]) <= 1 /\ signals[f] \in Seq(SignalRow)
      BY <1>0 DEF SignalsInv, OneSignalPerRecord, IInv, TypeOK
    <3> DEFINE n == Len(signals[f])
    <3>4. n \in Nat /\ n <= 1 /\ i \in 1..n BY <3>2, <3>3
    <3> HIDE DEF n
    <3>5. i = 1 /\ n = 1 BY <3>4
    <3>6. i = 1 /\ Len(signals[f]) = 1 BY <3>5 DEF n
    <3> QED BY <3>2, <3>6 DEF UpToDate
  <2>2. m.batch = PendingSignals /\ m.seen = None
    BY <1>0, <1>1 DEF Locals, WorkerAt, Saves, ListPending
  <2> HIDE DEF m
  <2>3. WorkerAt("send", m) BY <2>1, <2>2 DEF WorkerAt, Saves
  <2> QED BY <1>1, <2>3, ReadWorker DEF ListPending, tables, m
<1>2. ASSUME NEW h \in m0.batch, NEW s, pc[w] = "send",
             Remember(w, [m0 EXCEPT !.batch = @ \ {h}, !.held = Transition(h, s)]),
             Goto(w, "resolve"), UNCHANGED tables
      PROVE  SInv'
  <2> DEFINE t == Transition(h, s)
             m == [m0 EXCEPT !.batch = @ \ {h}, !.held = t]
  <2>1. h \in Held /\ m0.seen = None /\ \A x \in m0.batch : UpToDate(x)
    BY <1>0, <1>2 DEF WorkerAt, Saves, PhaseAt, GoodHeld
  <2>2. t.rec = h.rec /\ t.k = h.k /\ t.row.superseded = h.row.superseded
    BY <2>1 DEF Transition, Held, SignalRow
  <2>3. m.batch = m0.batch \ {h} /\ m.held = t /\ m.seen = None BY <1>0, <2>1 DEF Locals
  <2> HIDE DEF m, t
  <2>4. UpToDate(t) BY <2>1, <2>2 DEF UpToDate
  <2>5. WorkerAt("resolve", m) BY <2>1, <2>3, <2>4 DEF WorkerAt, Saves, Fresh
  <2> QED BY <1>2, <2>5, ReadWorker DEF m, t
<1>3. ASSUME NEW h \in m0.batch, SendMail(w, h) PROVE SInv'
  BY <1>2, <1>3 DEF SendMail, tables
<1>4. ASSUME NEW h \in m0.batch, SendMailFails(w, h) PROVE SInv'
  BY <1>2, <1>4 DEF SendMailFails, tables
<1>5. CASE SaveOutcome(w)
  <2> DEFINE m == [m0 EXCEPT !.held = None, !.seen = None]
             h == m0.held
  <2>1. /\ GoodHeld(h, mails) /\ SaveSignal(h, m0.seen) /\ UpToDate(h)
        /\ m0.seen = signals[h.rec][1]
        /\ \A x \in m0.batch : UpToDate(x) /\ x \in Held
        /\ UNCHANGED rows
    BY <1>0, <1>5 DEF PhaseAt, WorkerAt, Saves, Fresh, Selected, UpToDate, SaveOutcome, GoodHeld
  <2>2. h.rec \in Stored
    <3>1. Len(<<>>) = 0 OBVIOUS
    <3>2. signals[h.rec] # <<>> /\ h.rec \in Filings BY <2>1, <3>1 DEF UpToDate, GoodHeld, Held
    <3> QED BY <1>0, <3>2 DEF SignalsInv, ClassifiedAreStored
  <2>3. /\ RowsInv' /\ SignalsInv'
        /\ \A x \in Held : UpToDate(x) => UpToDate(x)'
    BY <2>1, <2>2, PlainSave
  <2>4. m.batch = m0.batch /\ m.seen = None BY <1>0 DEF Locals
  <2> HIDE DEF m
  <2>5. pc'[w] = "send" /\ mem'[w] = m
    BY <1>5 DEF SaveOutcome, Goto, Remember, IInv, TypeOK, m
  <2>6. \A x \in m.batch : UpToDate(x)' BY <2>1, <2>3, <2>4
  <2>7. WorkerAt(pc[w], mem[w])' BY <2>4, <2>5, <2>6 DEF WorkerAt, Saves
  <2> QED BY <2>3, <2>7 DEF SInv
<1>6. CASE EndNotify(w)
  BY <1>6, EndPhaseWorker DEF EndNotify, tables
<1> QED BY <1>1, <1>3, <1>4, <1>5, <1>6 DEF NotifyNext

\* The SELECT of a save keeps SInv: the row it finds is the record's only one.
LEMMA SelectWorker ==
  ASSUME NEW w, Procs = {w}, IInv, SInv, SelectSignal(w)
  PROVE  SInv'
<1> DEFINE m0 == mem[w]
           h == m0.held
           row == signals[h.rec][h.k]
           m == [m0 EXCEPT !.seen = row]
<1>0. /\ m0 \in Locals /\ WorkerAt(pc[w], m0)
      /\ pc' = pc => pc' = [pc EXCEPT ![w] = pc[w]]
  BY WorkerAtWork
<1>1. /\ pc[w] \in Saves /\ h.k \in DOMAIN signals[h.rec] /\ Remember(w, m)
      /\ UNCHANGED tables /\ pc' = pc
  BY DEF SelectSignal, Saves, tables
<1>2. h.k = 1
  <2>1. h.k = 1 \/ FirstOfRecord(h)
    <3>1. CASE pc[w] = "saveHidden" BY <1>0, <3>1 DEF WorkerAt
    <3>2. CASE pc[w] = "saveSignal" BY <1>0, <3>2 DEF WorkerAt, UpToDate
    <3>3. CASE pc[w] = "resolve" BY <1>0, <3>3 DEF WorkerAt, UpToDate
    <3> QED BY <1>1, <3>1, <3>2, <3>3 DEF Saves
  <2>2. DOMAIN <<>> = {} OBVIOUS
  <2> QED BY <1>1, <2>1, <2>2 DEF FirstOfRecord
<1>3. /\ m.cur = m0.cur /\ m.priors = m0.priors /\ m.list = m0.list /\ m.batch = m0.batch
      /\ m.held = h /\ m.seen = signals[h.rec][1]
  BY <1>0, <1>2 DEF Locals
<1> HIDE DEF m
<1>4. Goto(w, pc[w]) BY <1>0, <1>1 DEF Goto
<1>5. WorkerAt(pc[w], m)
  <2>1. CASE pc[w] = "saveHidden" BY <1>0, <1>3, <2>1 DEF WorkerAt, Saves, Fresh, Amends
  <2>2. CASE pc[w] = "saveSignal" BY <1>0, <1>3, <2>2 DEF WorkerAt, Saves, Fresh
  <2>3. CASE pc[w] = "resolve" BY <1>0, <1>3, <2>3 DEF WorkerAt, Saves, Fresh
  <2> QED BY <1>1, <2>1, <2>2, <2>3 DEF Saves
<1> QED BY <1>1, <1>4, <1>5, ReadWorker

----------------------------------------------------------------------------
\* The initial states satisfy SInv.
LEMMA WorkerInit ==
  ASSUME NEW w, Procs = {w}, Init PROVE SInv
<1>1. pc[w] = "idle" /\ mem[w] = NoLocals BY DEF Init
<1>2. WorkerAt(pc[w], mem[w]) BY <1>1 DEF WorkerAt, NoLocals, Saves
<1>3. \A f \in Filings : signals[f] = <<>> BY DEF Init
<1>4. \A f \in Filings : Len(signals[f]) = 0 BY <1>3
<1>5. Stored = {} BY DEF Init, Stored
<1>6. RowsInv BY <1>5 DEF RowsInv, EventNeverHidden, SupersessionEnds
<1>7. SignalsInv
  BY <1>3, <1>4
     DEF SignalsInv, ClassifiedAreStored, OneSignalPerRecord, HiddenSignalWasReplaced, SignalsOf, Filings
<1> QED BY <1>2, <1>6, <1>7 DEF SInv

\* With IInv, SInv is inductive for a single worker.
LEMMA WorkerNext ==
  ASSUME NEW w, Procs = {w}, IInv, IInv', SInv, [Next]_vars PROVE SInv'
<1>1. CASE ProcNext(w)
  BY <1>1, IngestWorker, ClassifyWorker, NotifyWorker, SelectWorker DEF ProcNext
<1>2. ASSUME NEW c \in Commands, StartCommand(w, c) PROVE SInv'
  <2>1. PICK feed : mem' = [mem EXCEPT ![w] = [mem[w] EXCEPT !.todo = feed]]
    BY <1>2 DEF StartCommand, Remember
  <2> DEFINE m == [mem[w] EXCEPT !.todo = feed]
             ph == FirstPhase[c]
  <2>2. mem[w] \in Locals /\ WorkerAt("idle", mem[w]) BY <1>2 DEF IInv, TypeOK, SInv, StartCommand
  <2>3. m.priors = {} /\ m.seen = None BY <2>2 DEF Locals, WorkerAt, Saves
  <2>4. ph \in {"ingest", "thresholds", "listPending"} BY DEF FirstPhase, Commands
  <2> HIDE DEF m, ph
  <2>5. WorkerAt(ph, m) BY <2>3, <2>4 DEF WorkerAt, Saves
  <2> QED BY <1>2, <2>1, <2>5, QuietWorker DEF StartCommand, Goto, tables, m, ph
<1>3. CASE Abort(w) BY <1>3, ExitWorker DEF Abort, tables
<1>4. ASSUME UNCHANGED <<rows, signals, pc, mem>> PROVE SInv'
  <2>1. pc' = [pc EXCEPT ![w] = pc[w]] /\ mem' = [mem EXCEPT ![w] = mem[w]] /\ WorkerAt(pc[w], mem[w])
    BY <1>4 DEF IInv, TypeOK, SInv
  <2> QED BY <1>4, <2>1, QuietWorker
<1>5. CASE \E c \in Configs : SetThresholds(c) BY <1>4, <1>5 DEF SetThresholds
<1>6. CASE NextDay BY <1>4, <1>6 DEF NextDay, tables
<1>7. CASE UNCHANGED vars BY <1>4, <1>7 DEF vars
<1> QED BY <1>1, <1>2, <1>3, <1>5, <1>6, <1>7 DEF Next

\* Hence SInv holds in every state a single worker reaches.
LEMMA WorkerInvariant ==
  ASSUME NEW w, Procs = {w} PROVE Spec => []SInv
<1>1. Init => SInv BY WorkerInit
<1>2. IInv /\ IInv' /\ SInv /\ [Next]_vars => SInv' BY WorkerNext
<1> QED BY <1>1, <1>2, IInvHolds, PTL DEF Spec

\* When commands never overlap, no chain of amendments, re-fetches and crashes
\* leaves an ingested trade of a Form 4 without a current row.
THEOREM AloneEventNeverHidden ==
  ASSUME NEW w, Procs = {w} PROVE Spec => []EventNeverHidden
<1>1. SInv => EventNeverHidden BY DEF SInv, RowsInv
<1> QED BY <1>1, WorkerInvariant, PTL

\* When commands never overlap, no rows ever supersede each other in a circle, on
\* whatever days they were fetched and whatever keys that gave the buybacks.
THEOREM AloneSupersessionEnds ==
  ASSUME NEW w, Procs = {w} PROVE Spec => []SupersessionEnds
<1>1. SInv => SupersessionEnds BY DEF SInv, RowsInv
<1> QED BY <1>1, WorkerInvariant, PTL

\* When commands never overlap, classification never creates a second signal
\* row for a record, however often it runs or crashes.
THEOREM AloneOneSignalPerRecord ==
  ASSUME NEW w, Procs = {w} PROVE Spec => []OneSignalPerRecord
<1>1. SInv => OneSignalPerRecord BY DEF SInv, SignalsInv
<1> QED BY <1>1, WorkerInvariant, PTL

\* When commands never overlap, the signal of a Form 4 line is hidden only while
\* another row of its trade is current.
THEOREM AloneHiddenSignalWasReplaced ==
  ASSUME NEW w, Procs = {w} PROVE Spec => []HiddenSignalWasReplaced
<1>1. SInv => HiddenSignalWasReplaced BY DEF SInv, SignalsInv
<1> QED BY <1>1, WorkerInvariant, PTL

\* When commands never overlap, an OpenInsider row never comes to tell of a trade
\* that a stored Form 4 line tells of.
THEOREM AloneSecFirstNeverDuplicated ==
  ASSUME NEW w, Procs = {w} PROVE Spec => SecFirstNeverDuplicated
<1> DEFINE Unmatched == \A o \in OpenInsider : rows'[o] # rows[o] => ~Matched(rows'[o].trade)
<1>1. IInv /\ SInv /\ [Next]_vars => [Unmatched]_vars
  <2> SUFFICES ASSUME IInv, SInv, Next, NEW o \in OpenInsider, rows'[o] # rows[o]
               PROVE  ~Matched(rows'[o].trade)
    BY DEF vars
  <2> DEFINE m == mem[w]
  <2>0. /\ WorkerAt(pc[w], m) /\ PhaseAt(pc[w], cmd[w], m, mails)
        /\ rows \in [Filings -> FilingRow \cup {None}] /\ o \in Filings
    BY WorkerAtWork DEF Filings
  <2>1. InsertCandidate(w) \/ UpdateCandidate(w) \/ SupersedePrior(w)
    BY DEF Next, ProcNext, IngestNext, ClassifyNext, NotifyNext, SelectSignal, StartCommand,
    Abort, SetThresholds, NextDay, TakeSecCandidate, TakeOpenInsiderCandidate, FindPriors,
    SelectCandidate, MarkPrior, ReadPriorSignal, HidePriorSignal, EndIngest, ReadThresholds,
    ListTransactions, ListBuybacks, ReadRecordSignal, SaveRecordSignal, EndClassify, ListPending,
    SendMail, SendMailFails, SaveOutcome, EndNotify, tables
  <2>2. CASE InsertCandidate(w)
    <3>1. pc[w] = "write" /\ rows' = [rows EXCEPT ![m.cur] = m.data]
      BY <2>2 DEF InsertCandidate
    <3>2. o = m.cur /\ rows'[o] = m.data BY <2>0, <3>1
    <3> QED BY <2>0, <3>1, <3>2 DEF WorkerAt
  <2>3. CASE UpdateCandidate(w)
    <3>1. /\ pc[w] = "write" /\ m.seen = rows[m.cur] /\ m.cur \in Stored /\ Reported(m.cur, m.data)
          /\ rows' = [rows EXCEPT ![m.cur] = Updated(rows[m.cur], m.seen, m.data)]
      BY <2>0, <2>3 DEF UpdateCandidate, WorkerAt, PhaseAt
    <3>2. rows[m.cur] \in FilingRow /\ m.data \in FilingRow BY <2>0, <3>1 DEF Stored, Reported
    <3>3. Updated(rows[m.cur], rows[m.cur], m.data) = m.data BY <3>2, UpdatedAsSeen
    <3>4. o = m.cur /\ rows'[o] = m.data BY <2>0, <3>1, <3>3
    <3> QED BY <2>0, <3>1, <3>4 DEF WorkerAt
  <2>4. CASE SupersedePrior(w)
    <3>1. pc[w] = "supersede" /\ o = m.prior BY <2>0, <2>4 DEF SupersedePrior
    <3> QED BY <2>0, <3>1 DEF WorkerAt, VersionOf
  <2> QED BY <2>1, <2>2, <2>3, <2>4
<1> QED BY <1>1, IInvHolds, WorkerInvariant, PTL DEF Spec, SecFirstNeverDuplicated
=============================================================================
