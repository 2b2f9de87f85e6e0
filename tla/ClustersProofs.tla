--------------------------- MODULE ClustersProofs ---------------------------
(***************************************************************************)
(* Theorems about Clusters, for any trades, settings and numbers of rows   *)
(* and crashes.  What they need of detect_clusters, DetectionProofs shows. *)
(***************************************************************************)
EXTENDS DetectionProofs

Pending(i) == i \in DOMAIN signals /\ signals[i] # None /\ signals[i].status = "pending"

\* What is listed for e-mail, or in hand, is pending until its outcome is saved.
Inv ==
  /\ signals \in Seq(ClusterSignal \cup {None})
  /\ pc \in {"send", "resolve"} => \A i \in batch : Pending(i)
  /\ pc = "resolve" => Pending(row) /\ row \notin batch /\ outcome \in {"sent", "failed"}

Sent(i) == i \in DOMAIN signals /\ signals[i] # None /\ signals[i].status = "sent"

\* Replacing an element of a sequence gives a sequence of the same length.
LEMMA ExceptIsSeq ==
  ASSUME NEW S, NEW s \in Seq(S), NEW i, NEW v, i \in DOMAIN s => v \in S
  PROVE  /\ [s EXCEPT ![i] = v] \in Seq(S)
         /\ DOMAIN [s EXCEPT ![i] = v] = DOMAIN s
<1> DEFINE t == [s EXCEPT ![i] = v]
<1>1. s \in [1..Len(s) -> S] /\ Len(s) \in Nat OBVIOUS
<1>2. t \in [1..Len(s) -> S] BY <1>1
<1> QED BY <1>1, <1>2

\* Upserting a signal gives a signal, and keeps one that is sent.
LEMMA UpsertedIsSignal ==
  ASSUME NEW existing \in ClusterSignal \cup {None}, NEW notable \in BOOLEAN
  PROVE  /\ UpsertedSignal(existing, notable) \in ClusterSignal
         /\ existing # None /\ existing.status = "sent" =>
              UpsertedSignal(existing, notable).status = "sent"
  BY DEF UpsertedSignal, ClusterSignal

\* The rest of the steps: a signal is neither changed nor forgotten.
LEMMA StepsKeepSent ==
  ASSUME Inv, [Next]_vars
  PROVE  Inv' /\ \A i : Sent(i) => signals'[i].status = "sent"
<1>1. CASE UNCHANGED signals /\ pc' \notin {"send", "resolve"}
  BY <1>1 DEF Inv, Sent
<1>2. CASE SaveCluster
  <2>1. CASE UNCHANGED signals
    BY <1>2, <2>1, <1>1 DEF SaveCluster
  <2>2. CASE signals' = Append(signals, None)
    <3>1. signals' \in Seq(ClusterSignal \cup {None}) BY <2>2 DEF Inv
    <3>2. \A i \in DOMAIN signals : i \in DOMAIN signals' /\ signals'[i] = signals[i]
      BY <2>2 DEF Inv
    <3>3. pc' = "sign" BY <1>2 DEF SaveCluster
    <3> QED BY <3>1, <3>2, <3>3 DEF Inv, Sent
  <2> QED BY <1>2, <2>1, <2>2 DEF SaveCluster
<1>3. CASE SaveClusterSignal
  <2> DEFINE notable == events[row].count >= conf.minimum
             new == UpsertedSignal(signals[row], notable)
  <2>1. signals' = [signals EXCEPT ![row] = new] /\ pc' = "save" BY <1>3 DEF SaveClusterSignal
  <2>2. ASSUME row \in DOMAIN signals
        PROVE  new \in ClusterSignal /\ (Sent(row) => new.status = "sent")
    <3>1. signals[row] \in ClusterSignal \cup {None} BY <2>2 DEF Inv
    <3>2. notable \in BOOLEAN OBVIOUS
    <3> HIDE DEF notable
    <3> QED BY <3>1, <3>2, UpsertedIsSignal DEF Sent
  <2> HIDE DEF new
  <2>3. signals' \in Seq(ClusterSignal \cup {None})
    BY <2>1, <2>2, ExceptIsSeq DEF Inv
  <2>4. ASSUME NEW i, Sent(i) PROVE signals'[i].status = "sent"
    BY <2>1, <2>2, <2>4 DEF Sent
  <2> QED BY <2>1, <2>3, <2>4 DEF Inv
<1>4. CASE ListPending
  <2>1. signals' = signals /\ pc' = "send" BY <1>4 DEF ListPending, tables
  <2>2. \A i \in batch' : Pending(i) BY <1>4 DEF ListPending, Pending
  <2> QED BY <2>1, <2>2 DEF Inv, Sent, Pending
<1>5. ASSUME NEW i \in batch, SendMail(i) PROVE Inv' /\ \A j : Sent(j) => signals'[j].status = "sent"
  BY <1>5 DEF SendMail, tables, Inv, Sent, Pending
<1>6. CASE SaveOutcome
  <2>1. /\ signals' = [signals EXCEPT ![row].status = outcome]
        /\ pc' = "send" /\ batch' = batch
    BY <1>6 DEF SaveOutcome, locals
  <2>2. /\ Pending(row) /\ row \notin batch /\ outcome \in {"sent", "failed"}
        /\ \A i \in batch : Pending(i)
    BY <1>6 DEF SaveOutcome, Inv
  <2> DEFINE new == [signals[row] EXCEPT !.status = outcome]
  <2>3. signals' = [signals EXCEPT ![row] = new] BY <2>1
  <2>4. new \in ClusterSignal BY <2>2 DEF Pending, Inv, ClusterSignal
  <2> HIDE DEF new
  <2>5. signals' \in Seq(ClusterSignal \cup {None}) /\ DOMAIN signals' = DOMAIN signals
    BY <2>3, <2>4, ExceptIsSeq DEF Inv
  <2>6. \A i \in DOMAIN signals : i # row => signals'[i] = signals[i] BY <2>3
  <2>7. \A i \in batch' : Pending(i)' BY <2>1, <2>2, <2>5, <2>6 DEF Pending
  <2>8. \A i : Sent(i) => signals'[i].status = "sent" BY <2>2, <2>6 DEF Sent, Pending
  <2> QED BY <2>1, <2>5, <2>7, <2>8 DEF Inv
<1>7. CASE EndNotify
  BY <1>1, <1>7 DEF EndNotify, Forget, tables
<1>8. CASE Abort
  BY <1>1, <1>8 DEF Abort, Forget, tables
<1>9. CASE ReadThresholds \/ ListTrades \/ EndClassify
  BY <1>1, <1>9 DEF ReadThresholds, ListTrades, EndClassify, tables
<1>10. CASE UNCHANGED vars
  BY <1>10 DEF vars, tables, locals, Inv, Sent, Pending
<1> QED BY <1>2, <1>3, <1>4, <1>5, <1>6, <1>7, <1>8, <1>9, <1>10 DEF Next

\* That a cluster was e-mailed is never forgotten: no re-grouping, change of
\* settings, failed send or crash takes its signal out of `sent`.
THEOREM SentClustersStaySent == Spec => SentStaysSent
<1> DEFINE Kept == \A i \in DOMAIN signals :
              signals[i] # None /\ signals[i].status = "sent" => signals'[i].status = "sent"
<1>1. Init => Inv BY DEF Init, Inv
<1>2. Inv /\ [Next]_vars => Inv' BY StepsKeepSent
<1>3. Inv /\ [Next]_vars => [Kept]_vars BY StepsKeepSent DEF Sent
<1> QED BY <1>1, <1>2, <1>3, PTL DEF Spec, SentStaysSent

----------------------------------------------------------------------------
\* Types, and the candidates of a cycle.

\* What the worker knows between its steps: the settings it read, the candidates
\* it still has to save and, between a row and its signal, the row it saved.
Known ==
  /\ pc # "idle" => conf \in Thresholds
  /\ pc \notin {"save", "sign"} => queue = <<>>
  /\ pc = "sign" => /\ row \in DOMAIN events
                    /\ events[row].count = Cardinality(Filers(events[row].members))
  /\ GroupsAreWindows

\* The settings' window and minimum are numbers.
LEMMA SettingsAreNumbers ==
  ASSUME NEW c \in Thresholds PROVE c.window \in Nat /\ c.minimum \in Nat
  BY ClustersAssumption DEF ClusterSettings

\* A group has as many filers as a row can count, and makes a row.
LEMMA NewRowIsRow ==
  ASSUME NEW g \in SUBSET Trades, g # {}
  PROVE  NewRow(g) \in ClusterRow /\ NewRow(g).members = g
         /\ NewRow(g).count = Cardinality(Filers(g))
<1> DEFINE filer == [t \in g |-> Filer[t]]
<1>1. filer \in Surjection(g, Filers(g)) BY DEF Filers, Surjection
<1>2. IsFiniteSet(g) BY FS_Subset, ClustersAssumption
<1> HIDE DEF filer
<1>3. Cardinality(Filers(g)) \in Nat BY <1>1, <1>2, FS_Surjection, FS_CardinalityType
<1>4. Cik[CHOOSE t \in g : TRUE] \in STRING BY ClustersAssumption
<1> QED BY <1>3, <1>4 DEF NewRow, ClusterRow

\* A cluster has trades, so it is not empty.
LEMMA ClusterNotEmpty == \A g : IsCluster(g) => g # {}
  BY EmptyIsNoCluster

\* The candidates that detect_clusters returns.
LEMMA DetectedGroups ==
  ASSUME NEW trades \in SUBSET Trades, NEW window \in Nat,
         NEW d, d = DetectClusters(trades, window)
  PROVE  /\ d \in Seq(SUBSET Trades)
         /\ \A i \in DOMAIN d : IsCluster(d[i]) /\ IsWindow(d[i], trades \cap Buys, window)
         /\ \A i, j \in DOMAIN d : i # j => d[i] \cap d[j] = {}
<1>1. /\ d \in Seq(SUBSET Trades)
      /\ \E P : DividesIntoWindows(P, trades \cap Buys, window) /\ AreCandidates(d, P)
  BY DetectClustersFindsWindows
<1>2. PICK P : DividesIntoWindows(P, trades \cap Buys, window) /\ AreCandidates(d, P) BY <1>1
<1>3. /\ \A i \in DOMAIN d : d[i] \in P /\ IsCluster(d[i])
      /\ \A i, j \in DOMAIN d : i # j => d[i] # d[j]
  BY <1>2 DEF AreCandidates
<1>4. ASSUME NEW i \in DOMAIN d, NEW j \in DOMAIN d, i # j PROVE d[i] \cap d[j] = {}
  <2>1. d[i] \in P /\ d[j] \in P /\ d[i] # d[j] BY <1>3, <1>4
  <2> QED BY <1>2, <2>1 DEF DividesIntoWindows
<1>5. \A i \in DOMAIN d : IsWindow(d[i], trades \cap Buys, window)
  BY <1>2, <1>3 DEF DividesIntoWindows
<1> QED BY <1>1, <1>3, <1>4, <1>5

\* The rest of the queue when its first candidate is taken.
LEMMA TailOfQueue ==
  ASSUME NEW s \in Seq(SUBSET Trades), s # <<>>
  PROVE  /\ Head(s) = s[1] /\ 1 \in DOMAIN s /\ s[1] \in SUBSET Trades
         /\ Tail(s) \in Seq(SUBSET Trades)
         /\ \A i \in DOMAIN Tail(s) : i + 1 \in DOMAIN s /\ Tail(s)[i] = s[i + 1] /\ i \in Nat
         /\ \A i \in DOMAIN s : i # 1 => i - 1 \in DOMAIN Tail(s) /\ Tail(s)[i - 1] = s[i]
  OBVIOUS

\* The oldest row that matches is a row, that of the group's own company.
LEMMA OldestMatch ==
  ASSUME TypeOK, NEW g, Matches(g) # {}
  PROVE  Min(Matches(g)) \in Matches(g) /\ Min(Matches(g)) \in DOMAIN events
<1>1. Matches(g) \in SUBSET Nat /\ Matches(g) \subseteq DOMAIN events BY DEF Matches, TypeOK
<1>2. \E n \in Matches(g) : \A m \in Matches(g) : n <= m BY <1>1, LeastNumber
<1> QED BY <1>1, <1>2 DEF Min

\* TypeOK and Known are inductive, with Inv.
LEMMA TypesStay ==
  ASSUME TypeOK, Inv, Known, [Next]_vars PROVE TypeOK' /\ Known'
<1>0. MaxRows \in Nat /\ MaxAborts \in Nat /\ Len(events) \in Nat /\ aborts \in Nat
  BY ClustersAssumption DEF TypeOK, Rows
<1>1. CASE ReadThresholds
  <2>1. GroupsAreWindows' BY <1>1 DEF ReadThresholds, Known, GroupsAreWindows
  <2> QED BY <1>1, <2>1 DEF ReadThresholds, TypeOK, Known, tables
<1>2. CASE ListTrades
  <2>1. conf \in Thresholds /\ conf.window \in Nat /\ conf' = conf
    BY <1>2, SettingsAreNumbers DEF ListTrades, Known
  <2>2. listed' \in SUBSET Trades /\ queue' = DetectClusters(listed', conf.window)
    BY <1>2 DEF ListTrades
  <2>3. /\ queue' \in Seq(SUBSET Trades)
        /\ \A i \in DOMAIN queue' :
             IsCluster(queue'[i]) /\ IsWindow(queue'[i], listed' \cap Buys, conf.window)
        /\ \A i, j \in DOMAIN queue' : i # j => queue'[i] \cap queue'[j] = {}
    BY <2>1, <2>2, DetectedGroups
  <2>4. GroupsAreWindows' BY <2>1, <2>3 DEF GroupsAreWindows, IsWindow
  <2> QED BY <1>2, <2>1, <2>2, <2>3, <2>4 DEF ListTrades, TypeOK, Known, tables
<1>3. CASE SaveCluster
  <2> DEFINE g == Head(queue)
  <2>1. /\ queue' = Tail(queue) /\ queue # <<>> /\ queue \in Seq(SUBSET Trades)
        /\ conf' = conf /\ listed' = listed /\ pc = "save" /\ pc' = "sign"
        /\ UNCHANGED <<outcome, batch, aborts>>
    BY <1>3 DEF SaveCluster, TypeOK
  <2>2. g \in SUBSET Trades /\ IsCluster(g) /\ g # {}
    BY <2>1, TailOfQueue, ClusterNotEmpty DEF Known, GroupsAreWindows
  <2>3. /\ NewRow(g) \in ClusterRow /\ NewRow(g).count = Cardinality(Filers(g))
        /\ NewRow(g).members = g
    BY <2>2, NewRowIsRow
  <2>4. queue' \in Seq(SUBSET Trades) /\ GroupsAreWindows'
    <3>1. queue' \in Seq(SUBSET Trades)
          /\ \A i \in DOMAIN queue' : i + 1 \in DOMAIN queue /\ queue'[i] = queue[i + 1] /\ i \in Nat
      BY <2>1, TailOfQueue
    <3>2. \A i, j \in DOMAIN queue' : i # j => i + 1 # j + 1 BY <3>1
    <3>3. GroupsAreWindows BY DEF Known
    <3> QED BY <2>1, <3>1, <3>2, <3>3 DEF GroupsAreWindows
  <2>5. CASE /\ Matches(g) # {}
             /\ row' = Min(Matches(g))
             /\ events' = [events EXCEPT ![row'] = NewRow(g)]
             /\ UNCHANGED <<signals, mails>>
    <3>1. row' \in DOMAIN events BY <2>5, OldestMatch
    <3>2. events' \in Seq(ClusterRow) /\ DOMAIN events' = DOMAIN events /\ Len(events') = Len(events)
      BY <2>3, <2>5, <3>1, ExceptIsSeq DEF TypeOK
    <3>3. events'[row'] = NewRow(g) BY <2>5, <3>1
    <3>4. row' \in Rows BY <1>0, <3>1 DEF TypeOK, Rows
    <3> QED BY <2>1, <2>3, <2>4, <2>5, <3>1, <3>2, <3>3, <3>4 DEF TypeOK, Known
  <2>6. CASE /\ Len(events) < MaxRows
             /\ row' = Len(events) + 1
             /\ events' = Append(events, NewRow(g))
             /\ signals' = Append(signals, None)
             /\ mails' = Append(mails, 0)
    <3>1. /\ events' \in Seq(ClusterRow) /\ Len(events') = Len(events) + 1
          /\ signals' \in Seq(ClusterSignal \cup {None}) /\ Len(signals') = Len(signals) + 1
          /\ mails' \in Seq(Nat) /\ Len(mails') = Len(mails) + 1
      BY <2>3, <2>6 DEF TypeOK
    <3>2. events'[row'] = NewRow(g) /\ row' \in DOMAIN events' /\ DOMAIN events \subseteq DOMAIN events'
      BY <2>3, <2>6, <3>1 DEF TypeOK
    <3>3. row' \in Rows /\ Len(events') \in Rows BY <1>0, <2>6, <3>1 DEF Rows
    <3> QED BY <2>1, <2>3, <2>4, <3>1, <3>2, <3>3 DEF TypeOK, Known
  <2> QED BY <1>3, <2>5, <2>6 DEF SaveCluster
<1>4. CASE SaveClusterSignal
  <2>1. signals' \in Seq(ClusterSignal \cup {None}) BY StepsKeepSent DEF Inv
  <2>2. Len(signals') = Len(signals) BY <1>4, <2>1 DEF SaveClusterSignal, TypeOK
  <2>3. GroupsAreWindows' BY <1>4 DEF SaveClusterSignal, Known, GroupsAreWindows, locals
  <2> QED BY <1>4, <2>1, <2>2, <2>3 DEF SaveClusterSignal, TypeOK, Known, locals
<1>5. CASE EndClassify
  <2>1. GroupsAreWindows' BY <1>5 DEF EndClassify, Known, GroupsAreWindows, locals
  <2> QED BY <1>5, <2>1 DEF EndClassify, TypeOK, Known, locals, tables
<1>6. CASE ListPending
  <2>1. GroupsAreWindows' BY <1>6 DEF ListPending, Known, GroupsAreWindows
  <2>2. batch' \subseteq DOMAIN events' BY <1>6 DEF ListPending, TypeOK, tables
  <2> QED BY <1>6, <2>1, <2>2 DEF ListPending, TypeOK, Known, tables
<1>7. ASSUME NEW i \in batch, SendMail(i) PROVE TypeOK' /\ Known'
  <2>1. GroupsAreWindows' BY <1>7 DEF SendMail, Known, GroupsAreWindows
  <2>2. PICK taken \in {0, 1} : mails' = [mails EXCEPT ![i] = @ + taken] BY <1>7 DEF SendMail
  <2>3. i \in DOMAIN events /\ i \in DOMAIN mails /\ i \in Rows BY <1>0 DEF TypeOK, Rows
  <2>4. mails[i] + taken \in Nat BY <2>3 DEF TypeOK
  <2>5. mails' \in Seq(Nat) /\ Len(mails') = Len(mails)
    BY <2>2, <2>3, <2>4 DEF TypeOK
  <2> QED BY <1>7, <2>1, <2>3, <2>5 DEF SendMail, TypeOK, Known, tables
<1>8. CASE SaveOutcome
  <2>1. signals' \in Seq(ClusterSignal \cup {None}) BY StepsKeepSent DEF Inv
  <2>2. Len(signals') = Len(signals) BY <1>8, <2>1 DEF SaveOutcome, TypeOK
  <2>3. GroupsAreWindows' BY <1>8 DEF SaveOutcome, Known, GroupsAreWindows, locals
  <2> QED BY <1>8, <2>1, <2>2, <2>3 DEF SaveOutcome, TypeOK, Known, locals
<1>9. CASE EndNotify \/ Abort
  <2>1. Forget /\ UNCHANGED <<tables, mails>> /\ aborts' \in 0..MaxAborts
    BY <1>0, <1>9 DEF EndNotify, Abort, TypeOK
  <2>2. GroupsAreWindows' BY <2>1 DEF Forget, GroupsAreWindows
  <2> QED BY <1>0, <2>1, <2>2 DEF Forget, TypeOK, Known, tables, Rows
<1>10. CASE UNCHANGED vars
  <2>1. GroupsAreWindows' BY <1>10 DEF vars, tables, locals, Known, GroupsAreWindows
  <2> QED BY <1>10, <2>1 DEF vars, tables, locals, TypeOK, Known
<1> QED BY <1>1, <1>2, <1>3, <1>4, <1>5, <1>6, <1>7, <1>8, <1>9, <1>10 DEF Next

----------------------------------------------------------------------------
\* Every candidate of a cycle gets a row and a signal of its own.

Detected == DetectClusters(listed, conf.window)

HasRow(g) ==
  \E i \in DOMAIN events :
    /\ events[i].members = g
    /\ signals[i] # None
    /\ signals[i].notable <=> Cardinality(Filers(g)) >= conf.minimum

\* While a cycle saves its candidates each is in the queue, or has its row and
\* signal, or its row was saved in the last step.
RowsSaved ==
  pc \in {"save", "sign", "listPending"} =>
    /\ \A j \in DOMAIN queue : queue[j] \in Range(Detected)
    /\ \A g \in Range(Detected) :
         \/ \E j \in DOMAIN queue : queue[j] = g
         \/ HasRow(g)
         \/ pc = "sign" /\ events[row].members = g

\* A row that holds one candidate matches no other.
LEMMA OthersDoNotMatch ==
  ASSUME TypeOK, Known, pc = "save", NEW g \in Range(Detected), NEW h \in Range(Detected), g # h,
         NEW i \in DOMAIN events, events[i].members = h
  PROVE  i \notin Matches(g)
<1>1. conf.window \in Nat /\ listed \in SUBSET Trades BY SettingsAreNumbers DEF Known, TypeOK
<1>2. \A j, k \in DOMAIN Detected : j # k => Detected[j] \cap Detected[k] = {}
  BY <1>1, DetectedGroups DEF Detected
<1>3. h \cap g = {} BY <1>2 DEF Range
<1> QED BY <1>3 DEF Matches

\* RowsSaved is inductive, with the invariants before it.
LEMMA RowsStay ==
  ASSUME TypeOK, Inv, Known, RowsSaved, [Next]_vars PROVE RowsSaved'
<1>1. CASE ListTrades
  <2>1. conf' = conf /\ queue' = Detected' BY <1>1 DEF ListTrades, Detected
  <2> QED BY <2>1 DEF RowsSaved, Range
<1>2. CASE SaveCluster
  <2> DEFINE g == Head(queue)
  <2>1. /\ queue' = Tail(queue) /\ queue # <<>> /\ queue \in Seq(SUBSET Trades)
        /\ Detected' = Detected /\ conf' = conf /\ pc = "save" /\ pc' = "sign"
    BY <1>2 DEF SaveCluster, TypeOK, Detected
  <2>2. /\ g = queue[1] /\ 1 \in DOMAIN queue /\ g \in SUBSET Trades
        /\ \A i \in DOMAIN queue' : i + 1 \in DOMAIN queue /\ queue'[i] = queue[i + 1]
        /\ \A i \in DOMAIN queue : i # 1 => i - 1 \in DOMAIN queue' /\ queue'[i - 1] = queue[i]
    BY <2>1, TailOfQueue
  <2>3. g \in Range(Detected) BY <2>1, <2>2 DEF RowsSaved
  <2>4. \A j \in DOMAIN queue' : queue'[j] \in Range(Detected) BY <2>1, <2>2 DEF RowsSaved
  <2>5. NewRow(g).members = g BY DEF NewRow
  <2>6. events'[row'].members = g
    <3>1. CASE Matches(g) # {} /\ row' = Min(Matches(g)) /\ events' = [events EXCEPT ![row'] = NewRow(g)]
      BY <2>5, <3>1, OldestMatch
    <3>2. CASE row' = Len(events) + 1 /\ events' = Append(events, NewRow(g))
      BY <2>5, <3>2 DEF TypeOK
    <3> QED BY <1>2, <3>1, <3>2 DEF SaveCluster
  <2>7. ASSUME NEW h \in Range(Detected), h # g, HasRow(h) PROVE HasRow(h)'
    <3>1. PICK i \in DOMAIN events :
            /\ events[i].members = h
            /\ signals[i] # None
            /\ signals[i].notable <=> Cardinality(Filers(h)) >= conf.minimum
      BY <2>7 DEF HasRow
    <3>2. i \notin Matches(g) BY <2>1, <2>3, <2>7, <3>1, OthersDoNotMatch
    <3>3. i \in DOMAIN events' /\ events'[i] = events[i] /\ signals'[i] = signals[i]
      <4>1. CASE /\ Matches(g) # {} /\ row' = Min(Matches(g))
                 /\ events' = [events EXCEPT ![row'] = NewRow(g)] /\ signals' = signals
        BY <3>2, <4>1, OldestMatch
      <4>2. CASE /\ events' = Append(events, NewRow(g)) /\ signals' = Append(signals, None)
        BY <4>2 DEF TypeOK
      <4> QED BY <1>2, <4>1, <4>2 DEF SaveCluster
    <3> QED BY <2>1, <3>1, <3>3 DEF HasRow
  <2>8. ASSUME NEW h \in Range(Detected)
        PROVE  (\E j \in DOMAIN queue' : queue'[j] = h) \/ HasRow(h)' \/ events'[row'].members = h
    <3>1. CASE h = g BY <2>6, <3>1
    <3>2. CASE h # g /\ HasRow(h) BY <2>7, <3>2
    <3>3. CASE h # g /\ \E j \in DOMAIN queue : queue[j] = h BY <2>2, <3>3
    <3> QED BY <2>1, <3>1, <3>2, <3>3 DEF RowsSaved
  <2> HIDE DEF g
  <2> QED BY <2>1, <2>4, <2>8 DEF RowsSaved
<1>3. CASE SaveClusterSignal
  <2> DEFINE notable == events[row].count >= conf.minimum
             new == UpsertedSignal(signals[row], notable)
  <2>1. /\ UNCHANGED <<events, queue, conf, Detected>> /\ pc = "sign" /\ pc' = "save"
        /\ signals' = [signals EXCEPT ![row] = new]
    BY <1>3 DEF SaveClusterSignal, locals, Detected
  <2>2. /\ row \in DOMAIN events /\ row \in DOMAIN signals
        /\ events[row].count = Cardinality(Filers(events[row].members))
    BY <2>1 DEF Known, TypeOK
  <2>3. new # None /\ (new.notable <=> notable)
    <3>1. signals[row] \in ClusterSignal \cup {None} BY <2>2 DEF TypeOK
    <3>2. notable \in BOOLEAN OBVIOUS
    <3> HIDE DEF notable
    <3>3. new \in ClusterSignal BY <3>1, <3>2, UpsertedIsSignal
    <3>4. new.notable = notable BY <3>2 DEF UpsertedSignal
    <3> QED BY <3>3, <3>4, NoneAssumption
  <2> HIDE DEF new
  <2>4. signals'[row] = new /\ \A i \in DOMAIN events : i # row => signals'[i] = signals[i]
    BY <2>1, <2>2 DEF TypeOK
  <2>5. ASSUME NEW h, events[row].members = h PROVE HasRow(h)'
    BY <2>1, <2>2, <2>3, <2>4, <2>5 DEF HasRow
  <2>6. ASSUME NEW h, HasRow(h) PROVE HasRow(h)'
    <3>1. PICK i \in DOMAIN events :
            /\ events[i].members = h
            /\ signals[i] # None
            /\ signals[i].notable <=> Cardinality(Filers(h)) >= conf.minimum
      BY <2>6 DEF HasRow
    <3>2. CASE i = row BY <2>5, <3>1, <3>2
    <3>3. CASE i # row BY <2>1, <2>4, <3>1, <3>3 DEF HasRow
    <3> QED BY <3>2, <3>3
  <2> HIDE DEF notable
  <2> QED BY <2>1, <2>5, <2>6 DEF RowsSaved
<1>4. CASE EndClassify
  <2>1. UNCHANGED <<events, signals, queue, conf, Detected>> /\ pc = "save" /\ pc' = "listPending"
    BY <1>4 DEF EndClassify, tables, locals, Detected
  <2>2. \A g : HasRow(g) => HasRow(g)' BY <2>1 DEF HasRow
  <2> QED BY <2>1, <2>2 DEF RowsSaved
<1>5. CASE ReadThresholds \/ ListPending \/ (\E i \in batch : SendMail(i)) \/ EndNotify \/ Abort
  <2>1. pc' \notin {"save", "sign", "listPending"}
    BY <1>5 DEF ReadThresholds, ListPending, SendMail, EndNotify, Abort, Forget
  <2> QED BY <2>1 DEF RowsSaved
<1>6. CASE SaveOutcome
  <2>1. pc' = "send" BY <1>6 DEF SaveOutcome
  <2> QED BY <2>1 DEF RowsSaved
<1>7. CASE UNCHANGED vars
  <2>1. UNCHANGED <<events, signals, queue, conf, Detected, pc, row>>
    BY <1>7 DEF vars, tables, locals, Detected
  <2>2. \A g : HasRow(g) => HasRow(g)' BY <2>1 DEF HasRow
  <2> QED BY <2>1, <2>2 DEF RowsSaved
<1> QED BY <1>1, <1>2, <1>3, <1>4, <1>5, <1>6, <1>7 DEF Next

\* All of it holds in every reachable state.
LEMMA ClustersInvariant == Spec => [](TypeOK /\ Inv /\ Known /\ RowsSaved)
<1>1. Init => TypeOK /\ Inv /\ Known /\ RowsSaved
  <2> SUFFICES ASSUME Init PROVE TypeOK /\ Inv /\ Known /\ RowsSaved OBVIOUS
  <2>1. Inv BY DEF Init, Inv
  <2>2. GroupsAreWindows BY DEF Init, GroupsAreWindows
  <2>3. TypeOK BY ClustersAssumption DEF Init, TypeOK, Rows
  <2> QED BY <2>1, <2>2, <2>3 DEF Init, Known, RowsSaved
<1>2. TypeOK /\ Inv /\ Known /\ RowsSaved /\ [Next]_vars => (TypeOK /\ Inv /\ Known /\ RowsSaved)'
  BY StepsKeepSent, TypesStay, RowsStay
<1> QED BY <1>1, <1>2, PTL DEF Spec

\* Every variable of the clusters' pipeline keeps its type, and the three
\* sequences of the rows, of their signals and of their e-mails one length.
THEOREM ClustersTyped == Spec => []TypeOK
  BY ClustersInvariant, PTL

\* For any trades, filers, days and windows each candidate is a whole window of
\* one company with two filers or more, and no trade is in two of them.
THEOREM CandidatesAreWindows == Spec => []GroupsAreWindows
<1>1. Known => GroupsAreWindows BY DEF Known
<1> QED BY <1>1, ClustersInvariant, PTL

\* Whatever rows earlier cycles left and however clusters split, merge or shrink,
\* a cycle that ends has given every cluster a row of its own and a right signal.
THEOREM ClustersHaveTheirRows == Spec => []EveryClusterHasItsRow
<1>1. Known /\ RowsSaved => EveryClusterHasItsRow
  <2> SUFFICES ASSUME Known, RowsSaved, pc = "listPending",
                      NEW g \in Range(DetectClusters(listed, conf.window))
               PROVE  HasRow(g)
    BY DEF EveryClusterHasItsRow, HasRow
  <2> QED BY DEF Known, RowsSaved, Detected
<1> QED BY <1>1, ClustersInvariant, PTL

----------------------------------------------------------------------------
\* What each e-mail about a cluster cost.

Resolved(s) == s # None /\ s.status \in {"sent", "failed"}

\* The signal of row i is resolved, or its e-mail was tried and is to be.
Settled(i) == (i \in DOMAIN signals /\ Resolved(signals[i])) \/ (pc = "resolve" /\ row = i)

\* The e-mails that crashes answer for: the second one about row i, the third and
\* so on and, while i's signal waits for another, that one too.
LastAnswered(i) == mails[i] + IF Settled(i) THEN 0 ELSE 1
Answered == UNION {{i} \X (2..LastAnswered(i)) : i \in DOMAIN mails}

MailsCounted == IsFiniteSet(Answered) /\ Cardinality(Answered) <= aborts

\* A set that gains at most one element stays finite and grows by at most one.
LEMMA OneMore ==
  ASSUME NEW S, IsFiniteSet(S), NEW x, NEW T, T \subseteq S \cup {x}
  PROVE  IsFiniteSet(T) /\ Cardinality(T) \in Nat /\ Cardinality(T) <= Cardinality(S) + 1
<1>1. Cardinality(S) \in Nat BY FS_CardinalityType
<1>2. /\ IsFiniteSet(S \cup {x})
      /\ Cardinality(S \cup {x}) = IF x \in S THEN Cardinality(S) ELSE Cardinality(S) + 1
  BY FS_AddElement
<1>3. Cardinality(S \cup {x}) <= Cardinality(S) + 1 BY <1>1, <1>2
<1>4. /\ IsFiniteSet(T) /\ Cardinality(T) <= Cardinality(S \cup {x})
      /\ Cardinality(T) \in Nat /\ Cardinality(S \cup {x}) \in Nat
  BY <1>2, FS_Subset, FS_CardinalityType
<1> QED BY <1>1, <1>3, <1>4

\* A step but a crash answers for no e-mail that was not answered for.
LEMMA NothingNewAnswered ==
  ASSUME TypeOK, TypeOK', MailsCounted, aborts' = aborts,
         \A i \in DOMAIN mails' :
           \/ i \in DOMAIN mails /\ LastAnswered(i)' <= LastAnswered(i)
           \/ LastAnswered(i)' <= 1
  PROVE  MailsCounted'
<1>1. \A i \in DOMAIN mails' : LastAnswered(i)' \in Nat BY DEF TypeOK, LastAnswered
<1>2. \A i \in DOMAIN mails : LastAnswered(i) \in Nat BY DEF TypeOK, LastAnswered
<1>3. Answered' \subseteq Answered
  <2> SUFFICES ASSUME NEW i \in DOMAIN mails', NEW n \in 2..LastAnswered(i)'
               PROVE  i \in DOMAIN mails /\ n \in 2..LastAnswered(i)
    BY DEF Answered
  <2> QED BY <1>1, <1>2
<1>4. aborts \in Nat BY ClustersAssumption DEF TypeOK
<1> QED BY <1>3, <1>4, FS_Subset, FS_CardinalityType DEF MailsCounted

\* A step that sends nothing and unsettles nothing keeps MailsCounted.
LEMMA QuietCount ==
  ASSUME TypeOK, TypeOK', MailsCounted, mails' = mails, aborts' = aborts,
         \A i \in DOMAIN mails : Settled(i) => Settled(i)'
  PROVE  MailsCounted'
<1>1. \A i \in DOMAIN mails' : i \in DOMAIN mails /\ LastAnswered(i)' <= LastAnswered(i)
  BY DEF LastAnswered, TypeOK
<1> QED BY <1>1, NothingNewAnswered

\* MailsCounted is inductive.
LEMMA CountStays ==
  ASSUME TypeOK, TypeOK', Inv, MailsCounted, [Next]_vars PROVE MailsCounted'
<1>0. /\ mails \in Seq(Nat) /\ Len(mails) = Len(signals) /\ aborts \in Nat /\ aborts' \in Nat
      /\ signals \in Seq(ClusterSignal \cup {None}) /\ DOMAIN mails = DOMAIN signals
  BY ClustersAssumption DEF TypeOK
<1>1. CASE UNCHANGED <<signals, mails, aborts>> /\ pc # "resolve"
  BY <1>1, QuietCount DEF Settled
<1>2. CASE SaveCluster
  <2>1. pc = "save" BY <1>2 DEF SaveCluster
  <2>2. CASE UNCHANGED <<signals, mails>>
    BY <1>1, <1>2, <2>1, <2>2 DEF SaveCluster
  <2>3. CASE signals' = Append(signals, None) /\ mails' = Append(mails, 0)
    <3>1. ASSUME NEW i \in DOMAIN mails'
          PROVE  \/ i \in DOMAIN mails /\ LastAnswered(i)' <= LastAnswered(i)
                 \/ LastAnswered(i)' <= 1
      <4>1. CASE i = Len(mails) + 1
        <5>1. mails'[i] = 0 BY <1>0, <2>3, <4>1
        <5> QED BY <1>0, <5>1 DEF LastAnswered
      <4>2. CASE i # Len(mails) + 1
        <5>1. i \in DOMAIN mails /\ i \in DOMAIN signals /\ mails'[i] = mails[i] /\ mails[i] \in Nat
          BY <1>0, <2>3, <4>2
        <5>2. i \in DOMAIN signals' /\ signals'[i] = signals[i] BY <1>0, <2>3, <5>1
        <5>3. Settled(i) => Settled(i)' BY <2>1, <5>1, <5>2 DEF Settled
        <5> QED BY <1>0, <5>1, <5>3 DEF LastAnswered
      <4> QED BY <4>1, <4>2
    <3>2. aborts' = aborts BY <1>2 DEF SaveCluster
    <3> QED BY <3>1, <3>2, NothingNewAnswered
  <2> QED BY <1>2, <2>2, <2>3 DEF SaveCluster
<1>3. CASE SaveClusterSignal
  <2> DEFINE notable == events[row].count >= conf.minimum
             new == UpsertedSignal(signals[row], notable)
  <2>1. /\ signals' = [signals EXCEPT ![row] = new] /\ pc = "sign"
        /\ mails' = mails /\ aborts' = aborts
    BY <1>3 DEF SaveClusterSignal
  <2>2. DOMAIN signals' = DOMAIN signals BY <1>0, <2>1
  <2>3. Resolved(signals[row]) => new = [notable |-> notable, status |-> signals[row].status]
    BY DEF Resolved, UpsertedSignal
  <2>4. Resolved(signals[row]) /\ row \in DOMAIN signals => Resolved(new)
    <3>1. Resolved(signals[row]) => new.status = signals[row].status BY <2>3
    <3>2. row \in DOMAIN signals => new \in ClusterSignal
      <4>1. row \in DOMAIN signals => signals[row] \in ClusterSignal \cup {None} BY <1>0
      <4>2. notable \in BOOLEAN OBVIOUS
      <4> HIDE DEF notable
      <4> QED BY <4>1, <4>2, UpsertedIsSignal
    <3> QED BY <3>1, <3>2, NoneAssumption DEF Resolved
  <2> HIDE DEF new
  <2>5. \A i \in DOMAIN mails : Settled(i) => Settled(i)'
    BY <1>0, <2>1, <2>2, <2>4 DEF Settled
  <2> QED BY <2>1, <2>5, QuietCount
<1>4. ASSUME NEW i \in batch, SendMail(i) PROVE MailsCounted'
  <2>1. pc = "send" /\ Pending(i) /\ ~Settled(i) /\ i \in DOMAIN mails
    BY <1>0, <1>4 DEF SendMail, Inv, Pending, Settled, Resolved
  <2>2. PICK taken \in {0, 1} : mails' = [mails EXCEPT ![i] = @ + taken] BY <1>4 DEF SendMail
  <2>3. signals' = signals /\ aborts' = aborts /\ pc' = "resolve" /\ row' = i
    BY <1>4 DEF SendMail, tables
  <2>4. mails[i] \in Nat /\ mails'[i] = mails[i] + taken /\ DOMAIN mails' = DOMAIN mails
    BY <1>0, <2>1, <2>2
  <2>5. ASSUME NEW j \in DOMAIN mails PROVE LastAnswered(j)' <= LastAnswered(j)
    <3>1. CASE j = i
      <4>1. Settled(j)' BY <2>3, <3>1 DEF Settled
      <4> QED BY <2>1, <2>4, <3>1, <4>1 DEF LastAnswered
    <3>2. CASE j # i
      <4>1. mails'[j] = mails[j] /\ mails[j] \in Nat BY <1>0, <2>2, <3>2
      <4>2. Settled(j) => Settled(j)' BY <2>1, <2>3 DEF Settled
      <4> QED BY <4>1, <4>2 DEF LastAnswered
    <3> QED BY <3>1, <3>2
  <2> QED BY <2>3, <2>4, <2>5, NothingNewAnswered
<1>5. CASE SaveOutcome
  <2>1. /\ signals' = [signals EXCEPT ![row].status = outcome] /\ mails' = mails /\ aborts' = aborts
        /\ Pending(row) /\ outcome \in {"sent", "failed"}
    BY <1>5 DEF SaveOutcome, Inv
  <2> DEFINE new == [signals[row] EXCEPT !.status = outcome]
  <2>2. signals' = [signals EXCEPT ![row] = new] BY <2>1
  <2>3. new \in ClusterSignal /\ new.status = outcome
    BY <1>0, <2>1 DEF Pending, ClusterSignal
  <2>4. new # None BY <2>3, NoneAssumption
  <2> HIDE DEF new
  <2>5. DOMAIN signals' = DOMAIN signals BY <1>0, <2>2
  <2>6. \A i \in DOMAIN mails : Settled(i) => Settled(i)'
    BY <1>0, <2>1, <2>2, <2>3, <2>4, <2>5 DEF Settled, Resolved, Pending
  <2> QED BY <2>1, <2>6, QuietCount
<1>6. CASE Abort
  <2>0. PICK r : r = row OBVIOUS
  <2>1. aborts' = aborts + 1 /\ UNCHANGED <<signals, mails>> BY <1>6 DEF Abort, tables
  <2>2. \A i \in DOMAIN mails : mails[i] \in Nat /\ LastAnswered(i) \in Nat /\ LastAnswered(i)' \in Nat
    BY <1>0, <2>1 DEF LastAnswered
  <2>3. \A i \in DOMAIN mails : i # r => LastAnswered(i)' <= LastAnswered(i)
    <3>1. \A i \in DOMAIN mails : i # r => (Settled(i) => Settled(i)') BY <2>0, <2>1 DEF Settled
    <3> QED BY <1>0, <2>1, <3>1 DEF LastAnswered
  <2>4. r \in DOMAIN mails => LastAnswered(r)' <= mails[r] + 1 /\ mails[r] <= LastAnswered(r)
    BY <1>0, <2>1 DEF LastAnswered
  <2>5. Answered' \subseteq Answered \cup {<<r, mails[r] + 1>>}
    <3> SUFFICES ASSUME NEW i \in DOMAIN mails, NEW n \in 2..LastAnswered(i)',
                        <<i, n>> # <<r, mails[r] + 1>>
                 PROVE  n \in 2..LastAnswered(i)
      BY <2>1 DEF Answered
    <3>1. CASE i # r BY <2>2, <2>3, <3>1
    <3>2. CASE i = r
      <4>1. n # mails[r] + 1 BY <3>2
      <4> QED BY <2>2, <2>4, <3>2, <4>1
    <3> QED BY <3>1, <3>2
  <2>6. /\ IsFiniteSet(Answered) /\ Cardinality(Answered) \in Nat /\ Cardinality(Answered) <= aborts
    BY FS_CardinalityType DEF MailsCounted
  <2>7. /\ IsFiniteSet(Answered') /\ Cardinality(Answered') \in Nat
        /\ Cardinality(Answered') <= Cardinality(Answered) + 1
    BY <2>5, <2>6, OneMore
  <2> QED BY <1>0, <2>1, <2>6, <2>7 DEF MailsCounted
<1>7. CASE ReadThresholds \/ ListTrades \/ EndClassify \/ ListPending \/ EndNotify
  BY <1>1, <1>7 DEF ReadThresholds, ListTrades, EndClassify, ListPending, EndNotify, tables
<1>8. CASE UNCHANGED vars
  <2>1. UNCHANGED <<signals, mails, aborts, pc, row>> BY <1>8 DEF vars, tables, locals
  <2>2. \A i \in DOMAIN mails : Settled(i) => Settled(i)' BY <2>1 DEF Settled
  <2> QED BY <2>1, <2>2, QuietCount
<1> QED BY <1>2, <1>3, <1>4, <1>5, <1>6, <1>7, <1>8 DEF Next

\* Hence MailsCounted holds in every reachable state.
LEMMA CountInvariant == Spec => []MailsCounted
<1>1. Init => MailsCounted
  <2> SUFFICES ASSUME Init PROVE MailsCounted OBVIOUS
  <2>1. Answered = {} /\ aborts = 0 BY DEF Init, Answered
  <2> QED BY <2>1, FS_EmptySet DEF MailsCounted
<1>2. TypeOK /\ TypeOK' /\ Inv /\ MailsCounted /\ [Next]_vars => MailsCounted' BY CountStays
<1> QED BY <1>1, <1>2, ClustersInvariant, PTL DEF Spec

\* Over all clusters together the worker sends at most as many duplicate e-mails
\* as it crashed, however clusters grow, split or cross the minimum (FR-007).
THEOREM ClusterRemailsNeedCrashes == Spec => []ClusterRemailNeedsCrash
<1>1. TypeOK /\ MailsCounted => ClusterRemailNeedsCrash
  <2> SUFFICES ASSUME TypeOK, MailsCounted PROVE Cardinality(DuplicateMails) <= aborts
    BY DEF ClusterRemailNeedsCrash
  <2>1. mails \in Seq(Nat) /\ aborts \in Nat BY ClustersAssumption DEF TypeOK
  <2>2. DuplicateMails \subseteq Answered
    <3> SUFFICES ASSUME NEW i \in DOMAIN mails, NEW n \in 2..mails[i]
                 PROVE  n \in 2..LastAnswered(i)
      BY DEF DuplicateMails, Answered
    <3> QED BY <2>1 DEF LastAnswered
  <2> QED BY <2>1, <2>2, FS_Subset, FS_CardinalityType DEF MailsCounted
<1> QED BY <1>1, ClustersInvariant, CountInvariant, PTL

\* Hence it e-mails about one cluster at most once more than it crashed.
THEOREM ClusterMailsNeedCrashes == Spec => [](\A i \in DOMAIN mails : mails[i] <= aborts + 1)
<1>1. TypeOK /\ MailsCounted => \A i \in DOMAIN mails : mails[i] <= aborts + 1
  <2> SUFFICES ASSUME TypeOK, MailsCounted, NEW i \in DOMAIN mails PROVE mails[i] <= aborts + 1
    OBVIOUS
  <2> DEFINE number == [n \in 2..mails[i] |-> <<i, n>>]
  <2>1. mails[i] \in Nat /\ aborts \in Nat BY ClustersAssumption DEF TypeOK
  <2>2. number \in Injection(2..mails[i], Answered)
    BY <2>1 DEF Answered, LastAnswered, Injection, IsInjective
  <2> HIDE DEF number
  <2>3. Cardinality(2..mails[i]) <= aborts /\ Cardinality(2..mails[i]) \in Nat
    BY <2>1, <2>2, FS_Injection, FS_CardinalityType DEF MailsCounted
  <2>4. Cardinality(2..mails[i]) = IF 2 > mails[i] THEN 0 ELSE mails[i] - 2 + 1
    BY <2>1, FS_Interval
  <2> QED BY <2>1, <2>3, <2>4
<1> QED BY <1>1, ClustersInvariant, CountInvariant, PTL
=============================================================================
