-------------------------- MODULE LifecycleProofs --------------------------
(***************************************************************************)
(* The pipeline implements SignalLifecycle when commands never overlap and *)
(* none of them is `classify --reclassify`: for any filings, thresholds    *)
(* and number of crashes.  (Both assumptions are needed: overlapping       *)
(* classify runs double a signal, and see the run reclassify_mails.)       *)
(***************************************************************************)
EXTENDS SingleWorkerProofs, FiniteSetTheorems

----------------------------------------------------------------------------
\* The copies in the worker's memory.

\* The signal row of h's record.
RowOf(h) == signals[h.rec][1]

\* What the copies are of the rows they were read from: the row hidden, the row
\* resolved, the row itself while it waits for its e-mail, or a first row.
CopiesAt(ph, c, m) ==
  /\ ph # "idle" => c # "reclassify"
  /\ ph = "saveHidden" =>
       m.held.row.superseded /\ m.held.row.status = RowOf(m.held).status
  /\ ph = "saveSignal" => m.held.k = 0 /\ m.held.row.status \in {"pending", "not_applicable"}
  /\ ph \in {"send", "resolve"} =>
       \A h \in m.batch : h.k = 1 /\ h.row = RowOf(h) /\ h.row.status = "pending"
  /\ ph = "resolve" =>
       /\ RowOf(m.held).status = "pending" /\ m.held.row.status \in {"sent", "failed"}
       /\ m.held.row.superseded = RowOf(m.held).superseded
       /\ \A h \in m.batch : h.rec # m.held.rec

CInv == \A p \in Procs : CopiesAt(pc[p], cmd[p], mem[p])

CopyPhases == {"saveHidden", "saveSignal", "send", "resolve"}

\* A step that leaves the signals alone keeps CInv if it leaves w as CopiesAt says.
LEMMA QuietCopies ==
  ASSUME NEW w, Procs = {w}, IInv, NEW ph, NEW m, CopiesAt(ph, cmd[w], m),
         pc' = [pc EXCEPT ![w] = ph], mem' = [mem EXCEPT ![w] = m], cmd' = cmd, signals' = signals
  PROVE  CInv'
<1>1. pc'[w] = ph /\ mem'[w] = m /\ cmd'[w] = cmd[w] BY DEF IInv, TypeOK
<1>2. CopiesAt(pc[w], cmd[w], mem[w])' BY <1>1 DEF CopiesAt, RowOf
<1> QED BY <1>2 DEF CInv

\* A step to a phase that holds no copy.
LEMMA EasyStep ==
  ASSUME NEW w, Procs = {w}, IInv, CInv, pc[w] # "idle", cmd' = cmd, NEW ph,
         ph \notin CopyPhases, pc' = [pc EXCEPT ![w] = ph]
  PROVE  CInv'
<1>1. pc'[w] = ph /\ cmd'[w] = cmd[w] /\ cmd[w] # "reclassify" BY DEF IInv, TypeOK, CInv, CopiesAt
<1>2. CopiesAt(pc[w], cmd[w], mem[w])' BY <1>1 DEF CopiesAt, CopyPhases
<1> QED BY <1>2 DEF CInv

\* A command that ends holds none.
LEMMA ExitCopies ==
  ASSUME NEW w, Procs = {w}, IInv, Exit(w)
  PROVE  CInv'
<1>1. pc'[w] = "idle" BY DEF Exit, Goto, IInv, TypeOK
<1>2. CopiesAt(pc[w], cmd[w], mem[w])' BY <1>1 DEF CopiesAt
<1> QED BY <1>2 DEF CInv

\* Nor does one that goes on to its next phase.
LEMMA EndPhaseCopies ==
  ASSUME NEW w, Procs = {w}, IInv, CInv, pc[w] # "idle",
         NEW next \in {"thresholds", "listPending", "idle"}, EndPhase(w, next)
  PROVE  CInv'
<1>1. CASE cmd[w] = "cycle" /\ next # "idle"
  BY <1>1, EasyStep DEF EndPhase, Goto, CopyPhases
<1>2. CASE ~(cmd[w] = "cycle" /\ next # "idle")
  BY <1>2, ExitCopies DEF EndPhase
<1> QED BY <1>1, <1>2

\* Nor does the loop over priors.
LEMMA NextPriorCopies ==
  ASSUME NEW w, Procs = {w}, IInv, CInv, pc[w] # "idle", cmd' = cmd, NEW m, NextPrior(w, m)
  PROVE  CInv'
<1>1. CASE Goto(w, "mark") BY <1>1, EasyStep DEF Goto, CopyPhases
<1>2. CASE Goto(w, "ingest") BY <1>2, EasyStep DEF Goto, CopyPhases
<1> QED BY <1>1, <1>2 DEF NextPrior

----------------------------------------------------------------------------
\* The refinement mapping.

StatusOf == [f \in Filings |-> IF signals[f] = <<>> THEN "none" ELSE signals[f][1].status]
HiddenOf == {f \in Filings : signals[f] # <<>> /\ signals[f][1].superseded}
DeliveredOf == {f \in Filings : mails[f] > 0}

\* What the abstract specification sees is unchanged.
Unseen == UNCHANGED <<StatusOf, HiddenOf, DeliveredOf>>

\* Steps that write no signal and deliver no e-mail are not seen.
LEMMA QuietIsUnseen ==
  ASSUME UNCHANGED signals, UNCHANGED mails PROVE Unseen
BY DEF Unseen, StatusOf, HiddenOf, DeliveredOf

\* What is seen of a save: the record's status and whether it is hidden.
LEMMA SavedRow ==
  ASSUME IInv, NEW h, NEW seen, GoodHeld(h, mails), SaveSignal(h, seen),
         \/ h.k = 1 /\ Len(signals[h.rec]) = 1 /\ seen = signals[h.rec][1]
         \/ h.k = 0 /\ signals[h.rec] = <<>>
  PROVE  /\ h.rec \in Filings
         /\ StatusOf' = [StatusOf EXCEPT ![h.rec] = h.row.status]
         /\ HiddenOf' = IF h.row.superseded THEN HiddenOf \cup {h.rec} ELSE HiddenOf \ {h.rec}
<1>1. /\ h.rec \in Filings
      /\ signals'[h.rec] # <<>> /\ signals'[h.rec][1] = h.row
      /\ \A f \in Filings : f # h.rec => signals'[f] = signals[f]
  BY SaveLeavesOne
<1>2. \A f \in Filings : StatusOf'[f] = IF f = h.rec THEN h.row.status ELSE StatusOf[f]
  BY <1>1 DEF StatusOf
<1>3. StatusOf' = [StatusOf EXCEPT ![h.rec] = h.row.status]
  BY <1>1, <1>2 DEF StatusOf
<1>4. \A f \in Filings : f \in HiddenOf' <=> IF f = h.rec THEN h.row.superseded ELSE f \in HiddenOf
  BY <1>1 DEF HiddenOf
<1>5. HiddenOf \subseteq Filings /\ HiddenOf' \subseteq Filings BY DEF HiddenOf
<1>6. CASE h.row.superseded BY <1>1, <1>4, <1>5, <1>6
<1>7. CASE ~h.row.superseded BY <1>1, <1>4, <1>5, <1>7
<1> QED BY <1>1, <1>3, <1>6, <1>7

\* A record with one row has its status.
LEMMA SingleRow ==
  ASSUME IInv, NEW f \in Filings, Len(signals[f]) = 1
  PROVE  /\ signals[f] # <<>> /\ signals[f][1] \in SignalRow
         /\ StatusOf[f] = signals[f][1].status
         /\ f \in HiddenOf <=> signals[f][1].superseded
<1>1. signals[f] \in Seq(SignalRow) /\ 1 \in DOMAIN signals[f] BY DEF IInv, TypeOK
<1>2. signals[f] # <<>>
  <2>1. Len(<<>>) = 0 /\ 0 # 1 OBVIOUS
  <2> QED BY <2>1, Zenon
<1> QED BY <1>1, <1>2 DEF StatusOf, HiddenOf

\* The abstract steps, of what is seen.
Seen ==
  \/ Unseen
  \/ \E r \in Filings :
       \/ \E s \in {"pending", "not_applicable"} :
            /\ StatusOf[r] = "none" /\ StatusOf' = [StatusOf EXCEPT ![r] = s]
            /\ UNCHANGED <<HiddenOf, DeliveredOf>>
       \/ /\ StatusOf[r] = "pending" /\ DeliveredOf' = DeliveredOf \cup {r}
          /\ UNCHANGED <<StatusOf, HiddenOf>>
       \/ \E s \in {"sent", "failed"} :
            /\ StatusOf[r] = "pending" /\ (s = "sent" => r \in DeliveredOf)
            /\ StatusOf' = [StatusOf EXCEPT ![r] = s]
            /\ UNCHANGED <<HiddenOf, DeliveredOf>>
       \/ /\ StatusOf[r] # "none" /\ HiddenOf' = HiddenOf \cup {r}
          /\ UNCHANGED <<StatusOf, DeliveredOf>>

\* They are those of SignalLifecycle.
LEMMA SeenIsAbstract == Seen => [Lifecycle!LNext]_(Lifecycle!lvars)
<1>1. Unseen => UNCHANGED Lifecycle!lvars
  BY DEF Unseen, Lifecycle!lvars, StatusOf, HiddenOf, DeliveredOf
<1>2. Seen => Unseen \/ Lifecycle!LNext
  BY DEF Seen, Lifecycle!LNext, Lifecycle!Record, Lifecycle!Deliver, Lifecycle!Resolve,
         Lifecycle!Hide, StatusOf, HiddenOf, DeliveredOf
<1> QED BY <1>1, <1>2

----------------------------------------------------------------------------
\* Every step keeps CInv and is an abstract one.

\* Those of run_ingest: a prior's signal is hidden.
LEMMA IngestSeen ==
  ASSUME NEW w, Procs = {w}, IInv, SInv, CInv, IngestNext(w)
  PROVE  CInv' /\ Seen
<1> DEFINE m0 == mem[w]
<1>0. /\ m0 \in Locals /\ WorkerAt(pc[w], m0) /\ PhaseAt(pc[w], cmd[w], m0, mails)
      /\ CopiesAt(pc[w], cmd[w], m0)
      /\ pc' = pc => pc' = [pc EXCEPT ![w] = pc[w]]
  BY DEF IInv, TypeOK, ProcsOK, SInv, CInv
<1>1. ASSUME NEW f \in Filings, TakeSecCandidate(w, f) PROVE CInv' /\ Seen
  <2>1. (IF f \in Stored THEN "upsert" ELSE "priors") \notin CopyPhases BY DEF CopyPhases
  <2>2. CInv' BY <1>1, <2>1, EasyStep DEF TakeSecCandidate, Goto
  <2>3. Unseen BY <1>1, QuietIsUnseen DEF TakeSecCandidate, tables, outside
  <2> QED BY <2>2, <2>3 DEF Seen
<1>2. ASSUME NEW f \in Filings, TakeOpenInsiderCandidate(w, f) PROVE CInv' /\ Seen
  <2>1. /\ pc[w] = "ingest" /\ cmd' = cmd
        /\ Goto(w, "upsert") \/ pc' = pc
    BY <1>2 DEF TakeOpenInsiderCandidate
  <2>2. PICK ph \in {"upsert", "ingest"} : pc' = [pc EXCEPT ![w] = ph]
    BY <1>0, <2>1 DEF Goto
  <2>3. CInv' BY <2>1, <2>2, EasyStep DEF CopyPhases
  <2>4. Unseen BY <1>2, QuietIsUnseen DEF TakeOpenInsiderCandidate, tables, outside
  <2> QED BY <2>3, <2>4 DEF Seen
<1>3. CASE FindPriors(w)
  <2>1. CInv' BY <1>3, EasyStep DEF FindPriors, Goto, CopyPhases
  <2>2. Unseen BY <1>3, QuietIsUnseen DEF FindPriors, tables, outside
  <2> QED BY <2>1, <2>2 DEF Seen
<1>4. CASE SelectCandidate(w)
  <2>1. CInv' BY <1>4, EasyStep DEF SelectCandidate, Goto, CopyPhases
  <2>2. Unseen BY <1>4, QuietIsUnseen DEF SelectCandidate, tables, outside
  <2> QED BY <2>1, <2>2 DEF Seen
<1>9. CASE InsertCandidate(w)
  <2>1. \/ cmd' = cmd /\ NextPrior(w, [m0 EXCEPT !.data = None])
        \/ Exit(w)
    BY <1>9 DEF InsertCandidate
  <2>2. pc[w] # "idle" BY <1>9 DEF InsertCandidate
  <2>3. CInv' BY <2>1, <2>2, NextPriorCopies, ExitCopies
  <2>4. Unseen BY <1>9, QuietIsUnseen DEF InsertCandidate, outside
  <2> QED BY <2>3, <2>4 DEF Seen
<1>10. CASE UpdateCandidate(w)
  <2>1. CInv' BY <1>10, NextPriorCopies DEF UpdateCandidate
  <2>2. Unseen BY <1>10, QuietIsUnseen DEF UpdateCandidate, outside
  <2> QED BY <2>1, <2>2 DEF Seen
<1>5. ASSUME NEW g \in Filings, MarkPrior(w, g) PROVE CInv' /\ Seen
  <2>1. CInv' BY <1>5, EasyStep DEF MarkPrior, Goto, CopyPhases
  <2>2. Unseen BY <1>5, QuietIsUnseen DEF MarkPrior, tables, outside
  <2> QED BY <2>1, <2>2 DEF Seen
<1>11. CASE SupersedePrior(w)
  <2>1. CInv' BY <1>11, EasyStep DEF SupersedePrior, Goto, CopyPhases
  <2>2. Unseen BY <1>11, QuietIsUnseen DEF SupersedePrior, outside
  <2> QED BY <2>1, <2>2 DEF Seen
<1>6. CASE ReadPriorSignal(w)
  <2> DEFINE g == m0.prior
  <2>1. Unseen BY <1>6, QuietIsUnseen DEF ReadPriorSignal, tables, outside
  <2>2. pc[w] = "hide" /\ signals' = signals BY <1>6 DEF ReadPriorSignal, tables
  <2>3. CASE Exit(w) BY <2>1, <2>3, ExitCopies DEF Seen
  <2>4. CASE NextPrior(w, [m0 EXCEPT !.prior = None]) /\ UNCHANGED cmd
    <3>1. CInv' BY <2>2, <2>4, NextPriorCopies
    <3> QED BY <2>1, <3>1 DEF Seen
  <2>5. CASE /\ SignalCount(g) = 1
             /\ Remember(w, [m0 EXCEPT !.prior = None,
                                       !.held = [TheSignal(g) EXCEPT !.row.superseded = TRUE]])
             /\ Goto(w, "saveHidden") /\ UNCHANGED cmd
    <3> DEFINE h == [TheSignal(g) EXCEPT !.row.superseded = TRUE]
               m == [m0 EXCEPT !.prior = None, !.held = h]
    <3>1. g \in Filings BY <1>0, <2>2 DEF PhaseAt
    <3>2. signals[g][1] \in SignalRow BY <2>5, <3>1, SingleRow DEF SignalCount
    <3>3. h.rec = g /\ h.row.superseded /\ h.row.status = signals[g][1].status
      BY <3>2 DEF TheSignal, SignalRow
    <3>4. m.held = h BY <1>0 DEF Locals
    <3>5. cmd[w] # "reclassify" BY <1>0, <2>2 DEF CopiesAt
    <3> HIDE DEF m, h
    <3>6. CopiesAt("saveHidden", cmd[w], m) BY <3>3, <3>4, <3>5 DEF CopiesAt, RowOf
    <3>7. CInv' BY <2>2, <2>5, <3>6, QuietCopies DEF Goto, Remember, m, h
    <3> QED BY <2>1, <3>7 DEF Seen
  <2> QED BY <1>6, <2>3, <2>4, <2>5 DEF ReadPriorSignal
<1>7. CASE HidePriorSignal(w)
  <2> DEFINE h == m0.held
  <2>1. /\ h.k = 1 /\ Len(signals[h.rec]) = 1 /\ GoodHeld(h, mails) /\ SaveSignal(h, m0.seen)
        /\ m0.seen = signals[h.rec][1]
        /\ h.row.superseded /\ h.row.status = RowOf(h).status /\ mails' = mails
    BY <1>0, <1>7 DEF WorkerAt, Saves, Fresh, Selected, PhaseAt, CopiesAt, HidePriorSignal, outside
  <2>2. /\ h.rec \in Filings /\ HiddenOf' = HiddenOf \cup {h.rec}
        /\ StatusOf' = [StatusOf EXCEPT ![h.rec] = h.row.status]
    BY <2>1, SavedRow
  <2>3. StatusOf[h.rec] = h.row.status /\ h.row.status \in Statuses
    BY <2>1, <2>2, SingleRow DEF RowOf, SignalRow
  <2>4. StatusOf' = StatusOf /\ StatusOf[h.rec] # "none"
    BY <2>2, <2>3 DEF StatusOf, Statuses
  <2>5. DeliveredOf' = DeliveredOf BY <2>1 DEF DeliveredOf
  <2>6. Seen BY <2>2, <2>4, <2>5 DEF Seen
  <2>7. CInv' BY <1>7, NextPriorCopies DEF HidePriorSignal
  <2> QED BY <2>6, <2>7
<1>8. CASE EndIngest(w)
  <2>1. CInv' BY <1>8, EndPhaseCopies DEF EndIngest
  <2>2. Unseen BY <1>8, QuietIsUnseen DEF EndIngest, tables, outside
  <2> QED BY <2>1, <2>2 DEF Seen
<1> QED BY <1>1, <1>2, <1>3, <1>4, <1>5, <1>6, <1>7, <1>8, <1>9, <1>10, <1>11 DEF IngestNext

\* Those of run_classify: a record is recorded.
LEMMA ClassifySeen ==
  ASSUME NEW w, Procs = {w}, IInv, SInv, CInv, ClassifyNext(w)
  PROVE  CInv' /\ Seen
<1> DEFINE m0 == mem[w]
<1>0. /\ m0 \in Locals /\ WorkerAt(pc[w], m0) /\ PhaseAt(pc[w], cmd[w], m0, mails)
      /\ CopiesAt(pc[w], cmd[w], m0)
      /\ pc' = pc => pc' = [pc EXCEPT ![w] = pc[w]]
  BY DEF IInv, TypeOK, ProcsOK, SInv, CInv
<1>1. CASE ReadThresholds(w)
  <2>1. CInv' BY <1>1, EasyStep DEF ReadThresholds, Goto, CopyPhases
  <2>2. Unseen BY <1>1, QuietIsUnseen DEF ReadThresholds, tables, outside
  <2> QED BY <2>1, <2>2 DEF Seen
<1>2. CASE ListTransactions(w)
  <2>1. CInv' BY <1>2, EasyStep DEF ListTransactions, Goto, CopyPhases
  <2>2. Unseen BY <1>2, QuietIsUnseen DEF ListTransactions, tables, outside
  <2> QED BY <2>1, <2>2 DEF Seen
<1>3. CASE ListBuybacks(w)
  <2>1. CInv' BY <1>3, EasyStep DEF ListBuybacks, Goto, CopyPhases
  <2>2. Unseen BY <1>3, QuietIsUnseen DEF ListBuybacks, tables, outside
  <2> QED BY <2>1, <2>2 DEF Seen
<1>4. ASSUME NEW x \in m0.list, ReadRecordSignal(w, x) PROVE CInv' /\ Seen
  <2> DEFINE f == x.rec
             notable == IsNotable(f, x.data, m0.conf)
  <2>1. Unseen BY <1>4, QuietIsUnseen DEF ReadRecordSignal, tables, outside
  <2>2. pc[w] \in {"txns", "buybacks"} /\ signals' = signals /\ cmd[w] # "reclassify"
    BY <1>0, <1>4 DEF ReadRecordSignal, tables, CopiesAt
  <2>3. CASE Exit(w) BY <2>1, <2>3, ExitCopies DEF Seen
  <2>4. CASE UNCHANGED <<pc, cmd>>
    <3>1. pc[w] \notin CopyPhases BY <2>2 DEF CopyPhases
    <3>2. CInv' BY <1>0, <2>2, <2>4, <3>1, EasyStep
    <3> QED BY <2>1, <3>2 DEF Seen
  <2>5. CASE /\ Remember(w, [m0 EXCEPT !.list = @ \ {x},
                               !.held = [rec |-> f, k |-> 0, row |-> NewSignal(notable)]])
             /\ Goto(w, "saveSignal") /\ UNCHANGED cmd
    <3> DEFINE h == [rec |-> f, k |-> 0, row |-> NewSignal(notable)]
               m == [m0 EXCEPT !.list = @ \ {x}, !.held = h]
    <3>1. m.held = h BY <1>0 DEF Locals
    <3>2. h.k = 0 /\ h.row.status \in {"pending", "not_applicable"} BY DEF NewSignal
    <3> HIDE DEF m, h
    <3>3. CopiesAt("saveSignal", cmd[w], m) BY <2>2, <3>1, <3>2 DEF CopiesAt
    <3>4. CInv' BY <2>2, <2>5, <3>3, QuietCopies DEF Goto, Remember, m, h
    <3> QED BY <2>1, <3>4 DEF Seen
  <2> QED BY <1>4, <2>2, <2>3, <2>4, <2>5 DEF ReadRecordSignal
<1>5. CASE SaveRecordSignal(w)
  <2> DEFINE h == m0.held
  <2>1. /\ GoodHeld(h, mails) /\ SaveSignal(h, m0.seen) /\ h.k = 0 /\ FirstOfRecord(h)
        /\ mails' = mails /\ h.row.status \in {"pending", "not_applicable"}
    BY <1>0, <1>5 DEF PhaseAt, WorkerAt, CopiesAt, UpToDate, SaveRecordSignal, outside
  <2>2. /\ h.rec \in Filings /\ HiddenOf' = HiddenOf \ {h.rec}
        /\ StatusOf' = [StatusOf EXCEPT ![h.rec] = h.row.status]
    BY <2>1, SavedRow DEF FirstOfRecord
  <2>3. StatusOf[h.rec] = "none" /\ h.rec \notin HiddenOf
    BY <2>1, <2>2 DEF FirstOfRecord, StatusOf, HiddenOf
  <2>4. HiddenOf' = HiddenOf /\ DeliveredOf' = DeliveredOf BY <2>1, <2>2, <2>3 DEF DeliveredOf
  <2>5. Seen BY <2>1, <2>2, <2>3, <2>4 DEF Seen
  <2>6. (IF h.rec \in Transactions THEN "txns" ELSE "buybacks") \notin CopyPhases
    BY DEF CopyPhases
  <2>7. CInv' BY <1>5, <2>6, EasyStep DEF SaveRecordSignal, Goto
  <2> QED BY <2>5, <2>7
<1>6. CASE EndClassify(w)
  <2>1. CInv' BY <1>6, EndPhaseCopies DEF EndClassify
  <2>2. Unseen BY <1>6, QuietIsUnseen DEF EndClassify, tables, outside
  <2> QED BY <2>1, <2>2 DEF Seen
<1> QED BY <1>1, <1>2, <1>3, <1>4, <1>5, <1>6 DEF ClassifyNext

\* Those of run_notify: an e-mail is delivered, a signal resolved.
LEMMA NotifySeen ==
  ASSUME NEW w, Procs = {w}, IInv, SInv, CInv, NotifyNext(w)
  PROVE  CInv' /\ Seen
<1> DEFINE m0 == mem[w]
<1>0. /\ m0 \in Locals /\ WorkerAt(pc[w], m0) /\ PhaseAt(pc[w], cmd[w], m0, mails)
      /\ CopiesAt(pc[w], cmd[w], m0)
  BY DEF IInv, TypeOK, ProcsOK, SInv, CInv
<1>1. CASE ListPending(w)
  <2> DEFINE m == [m0 EXCEPT !.batch = PendingSignals]
  <2>1. ASSUME NEW h \in PendingSignals
        PROVE  h.k = 1 /\ h.row = RowOf(h) /\ h.row.status = "pending"
    <3>1. PICK f \in Filings :
             \E i \in 1..Len(signals[f]) : h = [rec |-> f, k |-> i, row |-> signals[f][i]]
      BY DEF PendingSignals
    <3>2. PICK i \in 1..Len(signals[f]) : h = [rec |-> f, k |-> i, row |-> signals[f][i]]
      BY <3>1
    <3>3. Len(signals[f]) <= 1 /\ signals[f] \in Seq(SignalRow)
      BY DEF SInv, SignalsInv, OneSignalPerRecord, IInv, TypeOK
    <3> DEFINE n == Len(signals[f])
    <3>4. n \in Nat /\ n <= 1 /\ i \in 1..n BY <3>2, <3>3
    <3> HIDE DEF n
    <3>5. i = 1 BY <3>4
    <3> QED BY <3>2, <3>5 DEF RowOf, PendingSignals
  <2>2. m.batch = PendingSignals BY <1>0 DEF Locals
  <2>3. pc[w] = "listPending" /\ cmd[w] # "reclassify" BY <1>0, <1>1 DEF ListPending, CopiesAt
  <2> HIDE DEF m
  <2>4. CopiesAt("send", cmd[w], m) BY <2>1, <2>2, <2>3 DEF CopiesAt
  <2>5. CInv' BY <1>1, <2>4, QuietCopies DEF ListPending, Goto, Remember, tables, m
  <2>6. Unseen BY <1>1, QuietIsUnseen DEF ListPending, tables, outside
  <2> QED BY <2>5, <2>6 DEF Seen
<1>2. ASSUME NEW h \in m0.batch, NEW s \in {"sent", "failed"}, pc[w] = "send",
             Remember(w, [m0 EXCEPT !.batch = @ \ {h}, !.held = Transition(h, s)]),
             Goto(w, "resolve"), UNCHANGED <<signals, cmd>>,
             \E n \in {0, 1} : mails' = [mails EXCEPT ![h.rec] = @ + n]
      PROVE  CInv' /\ Seen
  <2> DEFINE t == Transition(h, s)
             m == [m0 EXCEPT !.batch = @ \ {h}, !.held = t]
  <2>1. /\ \A x \in m0.batch : x \in Held /\ UpToDate(x) /\ x.k = 1 /\ x.row = RowOf(x)
                                /\ x.row.status = "pending"
        /\ h \in Held /\ cmd[w] # "reclassify"
    BY <1>0, <1>2 DEF WorkerAt, PhaseAt, GoodHeld, CopiesAt
  <2>2. t.rec = h.rec /\ t.row.superseded = h.row.superseded /\ t.row.status = s
    BY <2>1 DEF Transition, Held, SignalRow
  <2>3. m.batch = m0.batch \ {h} /\ m.held = t BY <1>0 DEF Locals
  <2>4. ASSUME NEW x \in m0.batch \ {h} PROVE x.rec # t.rec
    <3>1. SUFFICES ASSUME x.rec = h.rec PROVE FALSE BY <2>2
    <3>2. x.k = h.k /\ x.row = h.row BY <2>1, <3>1 DEF RowOf
    <3>3. x = h BY <2>1, <3>1, <3>2 DEF Held
    <3> QED BY <3>3
  <2> HIDE DEF m, t
  <2>5. RowOf(t) = RowOf(h) BY <2>2 DEF RowOf
  <2>6. CopiesAt("resolve", cmd[w], m)
    BY <1>2, <2>1, <2>2, <2>3, <2>4, <2>5 DEF CopiesAt
  <2>7. CInv' BY <1>2, <2>6, QuietCopies DEF Goto, Remember, m, t
  <2>8. h.rec \in Filings /\ Len(signals[h.rec]) = 1 BY <2>1 DEF Held, UpToDate
  <2>9. StatusOf[h.rec] = "pending" BY <2>1, <2>8, SingleRow DEF RowOf
  <2>10. StatusOf' = StatusOf /\ HiddenOf' = HiddenOf BY <1>2 DEF StatusOf, HiddenOf
  <2>11. DeliveredOf' = DeliveredOf \/ DeliveredOf' = DeliveredOf \cup {h.rec}
    <3>0. mails \in [Filings -> Nat] BY DEF IInv, TypeOK
    <3>1. CASE mails' = [mails EXCEPT ![h.rec] = @ + 0]
      <4>1. \A f \in Filings : mails'[f] = mails[f] BY <2>8, <3>0, <3>1
      <4> QED BY <4>1 DEF DeliveredOf
    <3>2. CASE mails' = [mails EXCEPT ![h.rec] = @ + 1]
      <4>1. \A f \in Filings : mails'[f] = IF f = h.rec THEN mails[f] + 1 ELSE mails[f]
        BY <2>8, <3>0, <3>2
      <4>2. \A f \in Filings : f \in DeliveredOf' <=> f = h.rec \/ f \in DeliveredOf
        BY <3>0, <4>1 DEF DeliveredOf
      <4>3. DeliveredOf \subseteq Filings /\ DeliveredOf' \subseteq Filings BY DEF DeliveredOf
      <4> QED BY <2>8, <4>2, <4>3
    <3> QED BY <1>2, <3>1, <3>2
  <2>12. Seen BY <2>8, <2>9, <2>10, <2>11 DEF Seen, Unseen
  <2> QED BY <2>7, <2>12
<1>3. ASSUME NEW h \in m0.batch, SendMail(w, h) PROVE CInv' /\ Seen
  <2>1. mails' = [mails EXCEPT ![h.rec] = @ + 1] BY <1>3 DEF SendMail
  <2>2. \E n \in {0, 1} : mails' = [mails EXCEPT ![h.rec] = @ + n] BY <2>1
  <2> QED BY <1>2, <1>3, <2>2 DEF SendMail, tables
<1>4. ASSUME NEW h \in m0.batch, SendMailFails(w, h) PROVE CInv' /\ Seen
  <2>1. \E n \in {0, 1} : mails' = [mails EXCEPT ![h.rec] = @ + n] BY <1>4 DEF SendMailFails
  <2> QED BY <1>2, <1>4, <2>1 DEF SendMailFails, tables
<1>5. CASE SaveOutcome(w)
  <2> DEFINE h == m0.held
             m == [m0 EXCEPT !.held = None, !.seen = None]
  <2>1. /\ GoodHeld(h, mails) /\ SaveSignal(h, m0.seen) /\ UpToDate(h)
        /\ m0.seen = signals[h.rec][1] /\ mails' = mails /\ cmd' = cmd
        /\ RowOf(h).status = "pending" /\ h.row.status \in {"sent", "failed"}
        /\ h.row.superseded = RowOf(h).superseded /\ cmd[w] # "reclassify"
        /\ \A x \in m0.batch : x \in Held /\ x.k = 1 /\ x.row = RowOf(x)
                                /\ x.row.status = "pending" /\ x.rec # h.rec
    BY <1>0, <1>5
       DEF PhaseAt, WorkerAt, Saves, Fresh, Selected, UpToDate, CopiesAt, SaveOutcome, GoodHeld, outside
  <2>2. h.k = 1 /\ Len(signals[h.rec]) = 1 BY <2>1 DEF UpToDate
  <2>3. /\ h.rec \in Filings
        /\ StatusOf' = [StatusOf EXCEPT ![h.rec] = h.row.status]
        /\ HiddenOf' = IF h.row.superseded THEN HiddenOf \cup {h.rec} ELSE HiddenOf \ {h.rec}
    BY <2>1, <2>2, SavedRow
  <2>4. StatusOf[h.rec] = "pending" /\ (h.rec \in HiddenOf <=> h.row.superseded)
    BY <2>1, <2>2, <2>3, SingleRow DEF RowOf
  <2>5. HiddenOf' = HiddenOf /\ DeliveredOf' = DeliveredOf
    BY <2>1, <2>3, <2>4 DEF DeliveredOf
  <2>6. h.row.status = "sent" => h.rec \in DeliveredOf
    BY <2>1, <2>3 DEF GoodHeld, GoodRow, DeliveredOf
  <2>7. Seen BY <2>1, <2>3, <2>4, <2>5, <2>6 DEF Seen
  <2>8. m.batch = m0.batch BY <1>0 DEF Locals
  <2> HIDE DEF m
  <2>9. pc'[w] = "send" /\ mem'[w] = m /\ cmd'[w] = cmd[w]
    BY <1>5, <2>1 DEF SaveOutcome, Goto, Remember, IInv, TypeOK, m
  <2>10. \A f \in Filings : f # h.rec => signals'[f] = signals[f]
    BY <2>1, <2>2, SaveLeavesOne
  <2>11. \A x \in m.batch : x.k = 1 /\ x.row = signals'[x.rec][1] /\ x.row.status = "pending"
    BY <2>1, <2>8, <2>10 DEF Held, RowOf
  <2>12. CopiesAt(pc[w], cmd[w], mem[w])' BY <2>1, <2>9, <2>11 DEF CopiesAt, RowOf
  <2>13. CInv' BY <2>12 DEF CInv
  <2> QED BY <2>7, <2>13
<1>6. CASE EndNotify(w)
  <2>1. CInv' BY <1>6, EndPhaseCopies DEF EndNotify
  <2>2. Unseen BY <1>6, QuietIsUnseen DEF EndNotify, tables, outside
  <2> QED BY <2>1, <2>2 DEF Seen
<1> QED BY <1>1, <1>3, <1>4, <1>5, <1>6 DEF NotifyNext

\* The SELECT of a save is not seen.
LEMMA SelectSeen ==
  ASSUME NEW w, Procs = {w}, IInv, SInv, CInv, SelectSignal(w)
  PROVE  CInv' /\ Seen
<1> DEFINE m0 == mem[w]
           h == m0.held
           m == [m0 EXCEPT !.seen = signals[h.rec][h.k]]
<1>1. /\ m0 \in Locals /\ CopiesAt(pc[w], cmd[w], m0)
      /\ pc' = pc => pc' = [pc EXCEPT ![w] = pc[w]]
  BY DEF IInv, TypeOK, CInv
<1>2. /\ Remember(w, m) /\ pc' = pc /\ cmd' = cmd /\ signals' = signals /\ mails' = mails
  BY DEF SelectSignal, tables, outside
<1>3. m.held = m0.held /\ m.batch = m0.batch BY <1>1 DEF Locals
<1> HIDE DEF m
<1>4. CopiesAt(pc[w], cmd[w], m) BY <1>1, <1>3 DEF CopiesAt
<1>5. CInv' BY <1>1, <1>2, <1>4, QuietCopies DEF Remember
<1> QED BY <1>2, <1>5, QuietIsUnseen DEF Seen

\* Nothing else writes a signal or sends an e-mail.
LEMMA NextSeen ==
  ASSUME NEW w, Procs = {w}, "reclassify" \notin CommandsOf[w], IInv, SInv, CInv, [Next]_vars
  PROVE  CInv' /\ Seen
<1>1. CASE ProcNext(w)
  BY <1>1, IngestSeen, ClassifySeen, NotifySeen, SelectSeen DEF ProcNext
<1>2. ASSUME NEW c \in Commands, StartCommand(w, c) PROVE CInv' /\ Seen
  <2>1. c # "reclassify" /\ pc' = [pc EXCEPT ![w] = FirstPhase[c]] /\ cmd' = [cmd EXCEPT ![w] = c]
    BY <1>2 DEF StartCommand, Goto
  <2>2. FirstPhase[c] \in {"ingest", "thresholds", "listPending"} BY DEF FirstPhase, Commands
  <2>3. pc'[w] = FirstPhase[c] /\ cmd'[w] = c BY <2>1 DEF IInv, TypeOK
  <2>4. CopiesAt(pc[w], cmd[w], mem[w])' BY <2>1, <2>2, <2>3 DEF CopiesAt
  <2>5. CInv' BY <2>4 DEF CInv
  <2>6. Unseen BY <1>2, QuietIsUnseen DEF StartCommand, tables
  <2> QED BY <2>5, <2>6 DEF Seen
<1>3. CASE Abort(w)
  <2>1. CInv' BY <1>3, ExitCopies DEF Abort
  <2>2. Unseen BY <1>3, QuietIsUnseen DEF Abort, tables, outside
  <2> QED BY <2>1, <2>2 DEF Seen
<1>4. CASE UNCHANGED <<signals, mails, pc, cmd, mem>>
  <2>1. CInv' BY <1>4 DEF CInv, CopiesAt, RowOf
  <2>2. Unseen BY <1>4, QuietIsUnseen
  <2> QED BY <2>1, <2>2 DEF Seen
<1>5. CASE \E c \in Configs : SetThresholds(c) BY <1>4, <1>5 DEF SetThresholds, outside
<1>6. CASE NextDay BY <1>4, <1>6 DEF NextDay, tables
<1>7. CASE UNCHANGED vars BY <1>4, <1>7 DEF vars
<1> QED BY <1>1, <1>2, <1>3, <1>5, <1>6, <1>7 DEF Next

\* The first state is the abstract one, and no copy is held.
LEMMA InitSeen ==
  ASSUME NEW w, Procs = {w}, Init
  PROVE  CInv /\ Lifecycle!LInit
<1>1. pc[w] = "idle" BY DEF Init
<1>2. CopiesAt(pc[w], cmd[w], mem[w]) BY <1>1 DEF CopiesAt
<1>3. Lifecycle!LInit BY DEF Init, Lifecycle!LInit
<1> QED BY <1>2, <1>3 DEF CInv

\* A single worker that does not reclassify implements the lifecycle: a record's
\* signal is recorded once, resolved once, sent only if its e-mail was delivered,
\* and hidden for good (domain/signal.py, data-model.md).
THEOREM AloneImplementsLifecycle ==
  ASSUME NEW w, Procs = {w}, "reclassify" \notin CommandsOf[w]
  PROVE  Spec => ImplementsLifecycle
<1>1. Init => CInv /\ Lifecycle!LInit BY InitSeen
<1>2. IInv /\ SInv /\ CInv /\ [Next]_vars => CInv' /\ [Lifecycle!LNext]_(Lifecycle!lvars)
  BY NextSeen, SeenIsAbstract
<1> QED BY <1>1, <1>2, IInvHolds, WorkerInvariant, PTL DEF Spec, ImplementsLifecycle, Lifecycle!LSpec

----------------------------------------------------------------------------
\* What each e-mail about a record cost.

\* The record's signal is resolved, or its e-mail was tried and is to be.
Settled(w, f) ==
  StatusOf[f] \in {"sent", "failed"} \/ (pc[w] = "resolve" /\ mem[w].held.rec = f)

\* The e-mails that crashes answer for: the second one about f, the third and so
\* on and, while f's signal waits for another, that one too.
Answered(w) == UNION {{f} \X (2..(mails[f] + IF Settled(w, f) THEN 0 ELSE 1)) : f \in Filings}

MailsCounted(w) == IsFiniteSet(Answered(w)) /\ Cardinality(Answered(w)) <= aborts

\* A set that gains at most one element stays finite and grows by at most one.
LEMMA OneMore ==
  ASSUME NEW S, IsFiniteSet(S), NEW x, NEW T, T \subseteq S \cup {x}
  PROVE  IsFiniteSet(T) /\ Cardinality(T) \in Nat /\ Cardinality(T) <= Cardinality(S) + 1
<1>0. Cardinality(S) \in Nat BY FS_CardinalityType
<1>1. /\ IsFiniteSet(S \cup {x})
      /\ Cardinality(S \cup {x}) = IF x \in S THEN Cardinality(S) ELSE Cardinality(S) + 1
  BY FS_AddElement
<1>2. Cardinality(S \cup {x}) <= Cardinality(S) + 1 BY <1>0, <1>1
<1>3. /\ IsFiniteSet(T) /\ Cardinality(T) <= Cardinality(S \cup {x})
      /\ Cardinality(T) \in Nat /\ Cardinality(S \cup {x}) \in Nat
  BY <1>1, FS_Subset, FS_CardinalityType
<1> QED BY <1>0, <1>2, <1>3 

\* No step but a crash unsettles a record.
LEMMA SettledStays ==
  ASSUME NEW w, Procs = {w}, "reclassify" \notin CommandsOf[w], IInv, SInv, CInv, [Next]_vars,
         ~Abort(w), NEW f \in Filings, Settled(w, f)
  PROVE  Settled(w, f)'
<1>1. CASE StatusOf[f] \in {"sent", "failed"}
  <2>1. Seen BY NextSeen
  <2>2. StatusOf'[f] = StatusOf[f]
    <3>1. \A r : r # f => [StatusOf EXCEPT ![r] = "pending"][f] = StatusOf[f]
      BY DEF StatusOf
    <3>2. CASE \E r \in Filings, s \in {"pending", "not_applicable", "sent", "failed"} :
                 /\ StatusOf[r] \in {"none", "pending"}
                 /\ StatusOf' = [StatusOf EXCEPT ![r] = s]
      BY <1>1, <3>2 DEF StatusOf
    <3>3. CASE UNCHANGED StatusOf BY <3>3
    <3> QED BY <2>1, <3>2, <3>3 DEF Seen, Unseen
  <2> QED BY <1>1, <2>2 DEF Settled
<1>2. CASE pc[w] = "resolve" /\ mem[w].held.rec = f
  <2>1. SaveOutcome(w) \/ (UNCHANGED <<pc, StatusOf>> /\ mem'[w].held = mem[w].held)
    <3>1. CASE SelectSignal(w)
      <4> DEFINE m == [mem[w] EXCEPT !.seen = signals[mem[w].held.rec][mem[w].held.k]]
      <4>1. mem' = [mem EXCEPT ![w] = m] /\ pc' = pc /\ signals' = signals
        BY <3>1 DEF SelectSignal, Remember, tables
      <4>2. m.held = mem[w].held BY DEF IInv, TypeOK, Locals
      <4> HIDE DEF m
      <4>3. mem'[w] = m BY <4>1 DEF IInv, TypeOK
      <4> QED BY <4>1, <4>2, <4>3 DEF StatusOf
    <3>2. CASE ProcNext(w) /\ ~SelectSignal(w)
      BY <1>2, <3>2 DEF ProcNext, IngestNext, ClassifyNext, NotifyNext, TakeSecCandidate,
         TakeOpenInsiderCandidate, FindPriors, SelectCandidate, InsertCandidate, UpdateCandidate,
         MarkPrior, SupersedePrior, ReadPriorSignal, HidePriorSignal, EndIngest, ReadThresholds,
         ListTransactions, ListBuybacks, ReadRecordSignal, SaveRecordSignal, EndClassify,
         ListPending, SendMail, SendMailFails, EndNotify
    <3>3. CASE \E c \in Commands : StartCommand(w, c) BY <1>2, <3>3 DEF StartCommand
    <3>4. CASE \E c \in Configs : SetThresholds(c) BY <3>4 DEF SetThresholds, StatusOf
    <3>5. CASE NextDay BY <3>5 DEF NextDay, tables, StatusOf
    <3>6. CASE UNCHANGED vars BY <3>6 DEF vars, StatusOf
    <3> QED BY <3>1, <3>2, <3>3, <3>4, <3>5, <3>6 DEF Next
  <2>2. CASE SaveOutcome(w)
    <3> DEFINE h == mem[w].held
    <3>1. /\ GoodHeld(h, mails) /\ UpToDate(h) /\ SaveSignal(h, mem[w].seen)
          /\ mem[w].seen = signals[h.rec][1] /\ h.row.status \in {"sent", "failed"}
      BY <1>2, <2>2 DEF SaveOutcome, IInv, ProcsOK, PhaseAt, SInv, WorkerAt, Saves, Fresh, Selected,
                        UpToDate, CInv, CopiesAt
    <3>2. StatusOf' = [StatusOf EXCEPT ![f] = h.row.status]
      BY <1>2, <3>1, SavedRow DEF UpToDate
    <3>3. StatusOf'[f] = h.row.status BY <3>2 DEF StatusOf
    <3> QED BY <3>1, <3>3 DEF Settled
  <2>3. CASE UNCHANGED <<pc, StatusOf>> /\ mem'[w].held = mem[w].held BY <1>2, <2>3 DEF Settled
  <2> QED BY <2>1, <2>2, <2>3
<1> QED BY <1>1, <1>2 DEF Settled

\* An e-mail leaves only while its signal is pending, and settles it.
LEMMA SendSettles ==
  ASSUME NEW w, Procs = {w}, IInv, SInv, CInv, NEW h \in mem[w].batch,
         SendMail(w, h) \/ SendMailFails(w, h)
  PROVE  /\ h.rec \in Filings /\ ~Settled(w, h.rec) /\ Settled(w, h.rec)' /\ aborts' = aborts
         /\ mails'[h.rec] <= mails[h.rec] + 1
         /\ \A f \in Filings : f # h.rec => mails'[f] = mails[f]
<1>1. pc[w] = "send" /\ aborts' = aborts BY DEF SendMail, SendMailFails
<1>2. /\ h \in Held /\ UpToDate(h) /\ h.row = RowOf(h) /\ h.row.status = "pending"
      /\ mem[w] \in Locals
  BY <1>1 DEF IInv, TypeOK, ProcsOK, PhaseAt, GoodHeld, SInv, WorkerAt, CInv, CopiesAt
<1>3. h.rec \in Filings /\ Len(signals[h.rec]) = 1 BY <1>2 DEF Held, UpToDate
<1>4. StatusOf[h.rec] = "pending" BY <1>2, <1>3, SingleRow DEF RowOf
<1>5. PICK s \in {"sent", "failed"} :
         /\ mem' = [mem EXCEPT ![w] = [mem[w] EXCEPT !.batch = @ \ {h}, !.held = Transition(h, s)]]
         /\ pc' = [pc EXCEPT ![w] = "resolve"]
  BY DEF SendMail, SendMailFails, Goto, Remember
<1>6. Transition(h, s).rec = h.rec BY <1>2 DEF Transition, Held
<1>7. [mem[w] EXCEPT !.batch = @ \ {h}, !.held = Transition(h, s)].held = Transition(h, s)
  BY <1>2 DEF Locals
<1>8. pc'[w] = "resolve" /\ mem'[w].held.rec = h.rec BY <1>5, <1>6, <1>7 DEF IInv, TypeOK
<1>9. PICK n \in {0, 1} : mails' = [mails EXCEPT ![h.rec] = @ + n] BY DEF SendMail, SendMailFails
<1>10. mails'[h.rec] <= mails[h.rec] + 1 /\ \A f \in Filings : f # h.rec => mails'[f] = mails[f]
  BY <1>3, <1>9 DEF IInv, TypeOK
<1> QED BY <1>1, <1>3, <1>4, <1>8, <1>10 DEF Settled

\* MailsCounted is inductive.
LEMMA CountStays ==
  ASSUME NEW w, Procs = {w}, "reclassify" \notin CommandsOf[w], IInv, IInv', SInv, CInv,
         MailsCounted(w), [Next]_vars
  PROVE  MailsCounted(w)'
<1> DEFINE last(f) == mails[f] + IF Settled(w, f) THEN 0 ELSE 1
<1>0. /\ mails \in [Filings -> Nat] /\ mails' \in [Filings -> Nat]
      /\ aborts \in Nat /\ aborts' \in Nat
  BY ProcsAssumption DEF IInv, TypeOK
<1>a. /\ \A x : x \in Answered(w) <=> \E f \in Filings : \E n \in 2..last(f) : x = <<f, n>>
      /\ \A x : x \in Answered(w)' <=> \E f \in Filings : \E n \in 2..last(f)' : x = <<f, n>>
  BY DEF Answered
<1>b. \A f \in Filings : last(f) \in Nat /\ last(f)' \in Nat BY <1>0
<1>1. CASE Abort(w)
  <2>0. PICK g : g = mem[w].held.rec OBVIOUS
  <2> DEFINE extra == <<g, mails[g] + 1>>
  <2>1. aborts' = aborts + 1 /\ mails' = mails /\ StatusOf' = StatusOf
    BY <1>1 DEF Abort, tables, StatusOf
  <2>2. \A f \in Filings : f # g => (Settled(w, f) => Settled(w, f)') BY <2>0, <2>1 DEF Settled
  <2>3. \A f \in Filings : f # g => last(f)' <= last(f) BY <1>0, <2>1, <2>2
  <2>4. g \in Filings => last(g)' <= mails[g] + 1 /\ mails[g] <= last(g) BY <1>0, <2>1
  <2> HIDE DEF last
  <2>5. Answered(w)' \subseteq Answered(w) \cup {extra}
    <3> SUFFICES ASSUME NEW f \in Filings, NEW n \in 2..last(f)', <<f, n>> # extra
                 PROVE  n \in 2..last(f)
      BY <1>a
    <3>1. CASE f # g BY <1>b, <2>3, <3>1
    <3>2. CASE f = g
      <4>1. n # mails[g] + 1 BY <3>2
      <4> QED BY <1>0, <1>b, <2>4, <3>2, <4>1
    <3> QED BY <3>1, <3>2
  <2>6. /\ IsFiniteSet(Answered(w)) /\ Cardinality(Answered(w)) \in Nat
        /\ Cardinality(Answered(w)) <= aborts
    BY FS_CardinalityType DEF MailsCounted
  <2>7. /\ IsFiniteSet(Answered(w)') /\ Cardinality(Answered(w)') \in Nat
        /\ Cardinality(Answered(w)') <= Cardinality(Answered(w)) + 1
    BY <2>5, <2>6, OneMore
  <2>8. Cardinality(Answered(w)') <= aborts' BY <1>0, <2>1, <2>6, <2>7
  <2> QED BY <2>7, <2>8 DEF MailsCounted
<1>2. CASE ~Abort(w)
  <2>1. \A f \in Filings : Settled(w, f) => Settled(w, f)' BY <1>2, SettledStays
  <2>2. ASSUME NEW h \in mem[w].batch, SendMail(w, h) \/ SendMailFails(w, h)
        PROVE  aborts' = aborts /\ \A f \in Filings : last(f)' <= last(f)
    <3>1. /\ h.rec \in Filings /\ ~Settled(w, h.rec) /\ Settled(w, h.rec)' /\ aborts' = aborts
          /\ mails'[h.rec] <= mails[h.rec] + 1
          /\ \A f \in Filings : f # h.rec => mails'[f] = mails[f]
      BY <2>2, SendSettles
    <3> QED BY <1>0, <2>1, <3>1
  <2>3. ASSUME UNCHANGED <<mails, aborts>>
        PROVE  aborts' = aborts /\ \A f \in Filings : last(f)' <= last(f)
    <3>1. \A f \in Filings : mails'[f] = mails[f] BY <2>3
    <3> QED BY <1>0, <2>1, <2>3, <3>1
  <2>4. \/ UNCHANGED <<mails, aborts>>
        \/ \E h \in mem[w].batch : SendMail(w, h) \/ SendMailFails(w, h)
    <3>1. CASE ProcNext(w)
      BY <3>1 DEF ProcNext, IngestNext, ClassifyNext, NotifyNext, SelectSignal, TakeSecCandidate,
         TakeOpenInsiderCandidate, FindPriors, SelectCandidate, InsertCandidate, UpdateCandidate,
         MarkPrior, SupersedePrior, ReadPriorSignal, HidePriorSignal, EndIngest, ReadThresholds,
         ListTransactions, ListBuybacks, ReadRecordSignal, SaveRecordSignal, EndClassify,
         ListPending, SaveOutcome, EndNotify, outside
    <3>2. CASE \E c \in Commands : StartCommand(w, c) BY <3>2 DEF StartCommand
    <3>3. CASE \E c \in Configs : SetThresholds(c) BY <3>3 DEF SetThresholds, outside
    <3>4. CASE NextDay BY <3>4 DEF NextDay
    <3>5. CASE UNCHANGED vars BY <3>5 DEF vars
    <3> QED BY <1>2, <3>1, <3>2, <3>3, <3>4, <3>5 DEF Next
  <2>5. aborts' = aborts /\ \A f \in Filings : last(f)' <= last(f) BY <2>2, <2>3, <2>4
  <2> HIDE DEF last
  <2>6. Answered(w)' \subseteq Answered(w)
    <3> SUFFICES ASSUME NEW f \in Filings, NEW n \in 2..last(f)' PROVE n \in 2..last(f)
      BY <1>a
    <3> QED BY <1>b, <2>5
  <2> QED BY <1>0, <2>5, <2>6, FS_Subset, FS_CardinalityType DEF MailsCounted
<1> QED BY <1>1, <1>2

\* Hence MailsCounted holds in every state such a worker reaches.
LEMMA CountInvariant ==
  ASSUME NEW w, Procs = {w}, "reclassify" \notin CommandsOf[w]
  PROVE  Spec => []MailsCounted(w)
<1>1. Init => CInv /\ MailsCounted(w)
  <2>1. Init => MailsCounted(w)
    <3> SUFFICES ASSUME Init PROVE MailsCounted(w) OBVIOUS
    <3>1. Answered(w) = {} /\ aborts = 0 BY DEF Init, Answered
    <3> QED BY <3>1, FS_EmptySet DEF MailsCounted
  <2> QED BY <2>1, InitSeen
<1>2. IInv /\ IInv' /\ SInv /\ CInv /\ MailsCounted(w) /\ [Next]_vars => CInv' /\ MailsCounted(w)'
  BY NextSeen, CountStays
<1> QED BY <1>1, <1>2, IInvHolds, WorkerInvariant, PTL DEF Spec

\* A single worker that does not reclassify sends, over all records together, at
\* most as many duplicate e-mails as it crashed, for any filings (FR-012).
THEOREM AloneDuplicatesNeedCrashes ==
  ASSUME NEW w, Procs = {w}, "reclassify" \notin CommandsOf[w]
  PROVE  Spec => []DuplicatesNeedCrashes
<1>1. IInv /\ MailsCounted(w) => DuplicatesNeedCrashes
  <2> SUFFICES ASSUME IInv, MailsCounted(w) PROVE Cardinality(DuplicateMails) <= aborts
    BY DEF DuplicatesNeedCrashes
  <2>1. mails \in [Filings -> Nat] /\ aborts \in Nat BY ProcsAssumption DEF IInv, TypeOK
  <2>2. DuplicateMails \subseteq Answered(w) BY <2>1 DEF DuplicateMails, Answered
  <2> QED BY <2>1, <2>2, FS_Subset, FS_CardinalityType DEF MailsCounted
<1> QED BY <1>1, IInvHolds, CountInvariant, PTL

\* Hence it e-mails about one record at most once more than it crashed.
THEOREM AloneMailsNeedCrashes ==
  ASSUME NEW w, Procs = {w}, "reclassify" \notin CommandsOf[w]
  PROVE  Spec => [](\A f \in Filings : mails[f] <= aborts + 1)
<1>1. IInv /\ MailsCounted(w) => \A f \in Filings : mails[f] <= aborts + 1
  <2> SUFFICES ASSUME IInv, MailsCounted(w), NEW f \in Filings PROVE mails[f] <= aborts + 1
    OBVIOUS
  <2> DEFINE number == [n \in 2..mails[f] |-> <<f, n>>]
  <2>1. mails[f] \in Nat /\ aborts \in Nat BY ProcsAssumption DEF IInv, TypeOK
  <2>2. number \in Injection(2..mails[f], Answered(w))
    BY <2>1 DEF Answered, Injection, IsInjective
  <2> HIDE DEF number
  <2>3. Cardinality(2..mails[f]) <= aborts /\ Cardinality(2..mails[f]) \in Nat
    BY <2>1, <2>2, FS_Injection, FS_CardinalityType DEF MailsCounted
  <2>4. Cardinality(2..mails[f]) = IF 2 > mails[f] THEN 0 ELSE mails[f] - 2 + 1
    BY <2>1, FS_Interval
  <2> QED BY <2>1, <2>3, <2>4
<1> QED BY <1>1, IInvHolds, CountInvariant, PTL
=============================================================================
