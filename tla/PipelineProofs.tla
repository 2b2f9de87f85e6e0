--------------------------- MODULE PipelineProofs ---------------------------
(***************************************************************************)
(* What holds of Pipeline whatever the processes, commands, crashes and    *)
(* interleavings: its types, that a signal marked sent was e-mailed, and   *)
(* that nothing is e-mailed about a routine trade.                         *)
(***************************************************************************)
EXTENDS Pipeline, TLAPS

----------------------------------------------------------------------------
\* The inductive invariant.

\* Every column of the row is what some report of f says of it.
Reported(f, row) ==
  /\ row \in FilingRow
  /\ \E r \in ReportsOf(f) : row.key = r.key
  /\ row.buy => \E r \in ReportsOf(f) : r.buy
  /\ row.discretionary => \E r \in ReportsOf(f) : r.discretionary
  /\ row.value # None => \E r \in ReportsOf(f) : r.value # None
  /\ f \in Buybacks => row.value # None

\* What every version of f's signal satisfies, in the table or in the memory
\* of a process, when `sofar` counts the e-mails delivered.
GoodRow(f, row, sofar) ==
  /\ row.status = "sent" => sofar[f] > 0
  /\ row.status # "not_applicable" => ~Routine(f)

GoodHeld(h, sofar) == h \in Held /\ GoodRow(h.rec, h.row, sofar)

\* What a process at phase ph of command c holds in its locals m.
PhaseAt(ph, c, m, sofar) ==
  /\ ph # "idle" => c \in Commands
  /\ ph \in {"priors", "upsert", "write"} => m.cur \in Filings /\ Reported(m.cur, m.data)
  /\ ph \in {"mark", "supersede", "hide", "saveHidden"} => m.cur \in Filings
  /\ ph \in {"supersede", "hide"} => m.prior \in Filings
  /\ ph = "supersede" => m.seen \in FilingRow
  /\ ph \in {"saveHidden", "saveSignal", "resolve"} => GoodHeld(m.held, sofar)
  /\ ph \in {"listTxns", "txns", "buybacks", "saveSignal"} => m.conf \in Configs
  /\ \A x \in m.list : Reported(x.rec, x.data)
  /\ \A h \in m.batch : GoodHeld(h, sofar)

ProcsOK == \A p \in Procs : PhaseAt(pc[p], cmd[p], mem[p], mails)

RowsReported == \A f \in Stored : Reported(f, rows[f])

RowsGood == \A f \in Filings : \A i \in DOMAIN signals[f] : GoodRow(f, signals[f][i], mails)

MailsGood == \A f \in Filings : mails[f] > 0 => ~Routine(f)

IInv == TypeOK /\ ProcsOK /\ RowsReported /\ RowsGood /\ MailsGood

----------------------------------------------------------------------------
\* Lemmas about the operators of the model.

\* Fresh locals are well typed and suit the start of a command or phase.
LEMMA NoLocalsType ==
  ASSUME NEW ph \in {"idle", "thresholds", "listPending"}, NEW c, NEW sofar,
         ph # "idle" => c \in Commands
  PROVE  NoLocals \in Locals /\ PhaseAt(ph, c, NoLocals, sofar)
<1>1. NoLocals \in Locals BY DEF NoLocals, Locals
<1>2. NoLocals.batch = {} /\ NoLocals.list = {} BY DEF NoLocals
<1> QED BY <1>1, <1>2 DEF PhaseAt

\* What a fetch reports of f is reported of it.
LEMMA FetchedIsReported ==
  ASSUME NEW f \in Filings, NEW d \in Days, NEW r \in Reports[f][d]
  PROVE  r \in ReportsOf(f) /\ r \in FilingRow /\ r.supersededBy = None /\ Reported(f, r)
<1>1. r \in ReportsOf(f) BY DEF ReportsOf
<1>2. r \in FilingRow BY FilingsAssumption
<1>3. r.supersededBy = None /\ (f \in Buybacks => r.value # None) BY <1>1, FilingsAssumption
<1> QED BY <1>1, <1>2, <1>3 DEF Reported

\* An UPDATE leaves in each column what was there or what it brings.
LEMMA UpdatedFiling ==
  ASSUME NEW row \in FilingRow, NEW seen, NEW new \in FilingRow
  PROVE  /\ Updated(row, seen, new) \in FilingRow
         /\ Updated(row, seen, new).key \in {row.key, new.key}
         /\ Updated(row, seen, new).trade \in {row.trade, new.trade}
         /\ Updated(row, seen, new).buy \in {row.buy, new.buy}
         /\ Updated(row, seen, new).discretionary \in {row.discretionary, new.discretionary}
         /\ Updated(row, seen, new).value \in {row.value, new.value}
         /\ Updated(row, seen, new).supersededBy =
              IF new.supersededBy = seen.supersededBy THEN row.supersededBy ELSE new.supersededBy
BY DEF Updated, FilingRow

\* The same of a signal's row.
LEMMA UpdatedSignal ==
  ASSUME NEW row \in SignalRow, NEW seen, NEW new \in SignalRow
  PROVE  /\ Updated(row, seen, new) \in SignalRow
         /\ Updated(row, seen, new).status \in {row.status, new.status}
BY DEF Updated, SignalRow

\* An UPDATE that only the row and its reports feed leaves it reported.
LEMMA UpdatedIsReported ==
  ASSUME NEW f \in Filings, NEW row, Reported(f, row), NEW seen, NEW new, Reported(f, new)
  PROVE  Reported(f, Updated(row, seen, new))
<1>1. row \in FilingRow /\ new \in FilingRow BY DEF Reported
<1> DEFINE u == Updated(row, seen, new)
<1>2. /\ u \in FilingRow /\ u.key \in {row.key, new.key} /\ u.buy \in {row.buy, new.buy}
      /\ u.discretionary \in {row.discretionary, new.discretionary}
      /\ u.value \in {row.value, new.value}
  BY <1>1, UpdatedFiling
<1> HIDE DEF u
<1>3. Reported(f, u) BY <1>2 DEF Reported
<1> QED BY <1>3 DEF u

\* What is notable by some columns that were reported is not routine; and the
\* classification rules answer yes or no.
LEMMA NotableIsNotRoutine ==
  ASSUME NEW f \in Filings, NEW row, Reported(f, row), NEW c \in Configs
  PROVE  IsNotable(f, row, c) \in BOOLEAN /\ (IsNotable(f, row, c) => ~Routine(f))
<1>0. row \in FilingRow BY DEF Reported
<1>1. CASE f \in Transactions
  <2>1. IsNotable(f, row, c) = ClassifyInsiderTransaction(row, c) BY <1>1 DEF IsNotable
  <2>2. ClassifyInsiderTransaction(row, c) \in BOOLEAN BY DEF ClassifyInsiderTransaction
  <2>3. ClassifyInsiderTransaction(row, c) => row.buy /\ row.discretionary /\ row.value # None
    BY DEF ClassifyInsiderTransaction
  <2>4. row.buy /\ row.discretionary /\ row.value # None => ~Routine(f)
    BY DEF Reported, Routine
  <2> QED BY <2>1, <2>2, <2>3, <2>4
<1>2. CASE f \notin Transactions
  <2>1. f \in Buybacks /\ row.value # None /\ c \in ThresholdConfig
    BY <1>2, FilingsAssumption DEF Filings, Transactions, Reported
  <2>2. row.value \in Nat /\ c.minBuyback \in Nat BY <1>0, <2>1 DEF FilingRow, ThresholdConfig
  <2>3. ClassifyBuyback(row, c) \in BOOLEAN BY <2>2 DEF ClassifyBuyback
  <2> QED BY <1>2, <2>3 DEF IsNotable, Routine
<1> QED BY <1>1, <1>2

\* Saving a good copy keeps every signal row good, whatever the row holds by now.
LEMMA SaveKeepsRows ==
  ASSUME NEW h, NEW seen, NEW sofar, GoodHeld(h, sofar),
         signals \in [Filings -> Seq(SignalRow)],
         \A f \in Filings : \A i \in DOMAIN signals[f] : GoodRow(f, signals[f][i], sofar),
         SaveSignal(h, seen)
  PROVE  /\ signals' \in [Filings -> Seq(SignalRow)]
         /\ \A f \in Filings : \A i \in DOMAIN signals'[f] : GoodRow(f, signals'[f][i], sofar)
<1> DEFINE s == signals[h.rec]
           u == Updated(s[h.k], seen, h.row)
           t == IF h.k = 0 THEN Append(s, h.row) ELSE [s EXCEPT ![h.k] = u]
<1>0. signals' = [signals EXCEPT ![h.rec] = t]
  BY DEF SaveSignal
<1>1. /\ h.rec \in Filings /\ h.k \in Nat /\ h.row \in SignalRow
      /\ s \in Seq(SignalRow) /\ \A i \in DOMAIN s : GoodRow(h.rec, s[i], sofar)
      /\ GoodRow(h.rec, h.row, sofar)
  BY DEF GoodHeld, Held
<1>2. ASSUME h.k \in DOMAIN s PROVE u \in SignalRow /\ GoodRow(h.rec, u, sofar)
  <2>1. s[h.k] \in SignalRow /\ GoodRow(h.rec, s[h.k], sofar) BY <1>1, <1>2
  <2>2. u \in SignalRow /\ u.status \in {s[h.k].status, h.row.status}
    BY <1>1, <2>1, UpdatedSignal
  <2> HIDE DEF u
  <2> QED BY <1>1, <2>1, <2>2 DEF GoodRow
<1> HIDE DEF u
<1>3. /\ t \in Seq(SignalRow)
      /\ \A i \in DOMAIN t : GoodRow(h.rec, t[i], sofar)
  <2>1. CASE h.k = 0
    <3>1. t = Append(s, h.row) /\ t \in Seq(SignalRow)
      BY <1>1, <2>1
    <3>2. ASSUME NEW i \in DOMAIN t PROVE GoodRow(h.rec, t[i], sofar)
      <4>1. CASE i = Len(s) + 1
        BY <1>1, <3>1, <4>1
      <4>2. CASE i # Len(s) + 1
        <5>1. i \in DOMAIN s /\ t[i] = s[i]
          BY <1>1, <3>1, <4>2
        <5> QED BY <1>1, <5>1
      <4> QED BY <4>1, <4>2
    <3> QED BY <3>1, <3>2
  <2>2. CASE h.k # 0
    <3>1. t = [s EXCEPT ![h.k] = u] /\ DOMAIN t = DOMAIN s
      BY <2>2
    <3>2. \A i \in DOMAIN s : t[i] = s[i] \/ (i = h.k /\ t[i] = u)
      BY <3>1
    <3>3. Len(s) \in Nat /\ s \in [1..Len(s) -> SignalRow] /\ DOMAIN s = 1..Len(s)
      BY <1>1
    <3>4. t \in [1..Len(s) -> SignalRow]
      BY <1>2, <3>1, <3>3
    <3>5. t \in Seq(SignalRow)
      BY <3>3, <3>4
    <3> QED BY <1>1, <1>2, <3>1, <3>2, <3>5
  <2> QED BY <2>1, <2>2
<1> HIDE DEF t
<1> QED BY <1>0, <1>1, <1>3

\* A step of p that forgets no e-mail leaves the other processes as they were.
LEMMA Frame ==
  ASSUME IInv, NEW p \in Procs,
         NEW ph \in Phases, NEW c \in Commands \cup {None}, NEW m \in Locals,
         PhaseAt(ph, c, m, mails'),
         \A f \in Filings : mails[f] > 0 => mails'[f] > 0,
         pc' = [pc EXCEPT ![p] = ph], cmd' = [cmd EXCEPT ![p] = c], mem' = [mem EXCEPT ![p] = m]
  PROVE  /\ pc' \in [Procs -> Phases]
         /\ cmd' \in [Procs -> Commands \cup {None}]
         /\ mem' \in [Procs -> Locals]
         /\ ProcsOK'
<1>1. pc' \in [Procs -> Phases] /\ cmd' \in [Procs -> Commands \cup {None}] /\ mem' \in [Procs -> Locals]
  BY DEF IInv, TypeOK
<1>2. ASSUME NEW h, GoodHeld(h, mails) PROVE GoodHeld(h, mails')
  BY <1>2 DEF GoodHeld, GoodRow, Held
<1>3. ASSUME NEW q \in Procs PROVE PhaseAt(pc'[q], cmd'[q], mem'[q], mails')
  <2>1. CASE q = p
    BY <2>1 DEF IInv, TypeOK
  <2>2. CASE q # p
    <3>1. pc'[q] = pc[q] /\ cmd'[q] = cmd[q] /\ mem'[q] = mem[q]
      BY <2>2 DEF IInv, TypeOK
    <3> QED BY <3>1, <1>2 DEF IInv, ProcsOK, PhaseAt
  <2> QED BY <2>1, <2>2
<1> QED BY <1>1, <1>3 DEF ProcsOK

\* A step that moves one process and leaves the tables and the mailbox alone.
LEMMA QuietStep ==
  ASSUME IInv, NEW p \in Procs,
         NEW ph \in Phases, NEW c \in Commands \cup {None}, NEW m \in Locals,
         PhaseAt(ph, c, m, mails),
         pc' = [pc EXCEPT ![p] = ph], cmd' = [cmd EXCEPT ![p] = c], mem' = [mem EXCEPT ![p] = m],
         UNCHANGED <<rows, signals, mails>>,
         config' \in Configs, today' \in Days, runs' \in 0..MaxRuns, aborts' \in 0..MaxAborts
  PROVE  IInv'
<1>1. /\ pc' \in [Procs -> Phases] /\ cmd' \in [Procs -> Commands \cup {None}]
      /\ mem' \in [Procs -> Locals] /\ ProcsOK'
  BY Frame
<1> QED BY <1>1 DEF IInv, TypeOK, RowsReported, Stored, RowsGood, MailsGood

\* One that changes the filings' tables leaves the signals alone, and the reverse.
LEMMA RowsStep ==
  ASSUME IInv, NEW f \in Filings, NEW row, Reported(f, row), rows' = [rows EXCEPT ![f] = row]
  PROVE  rows' \in [Filings -> FilingRow \cup {None}] /\ RowsReported'
<1>1. row \in FilingRow BY DEF Reported
<1>2. rows \in [Filings -> FilingRow \cup {None}] BY DEF IInv, TypeOK
<1>3. ASSUME NEW g \in Filings, rows'[g] # None PROVE Reported(g, rows'[g])
  BY <1>2, <1>3 DEF IInv, RowsReported, Stored
<1> QED BY <1>1, <1>2, <1>3 DEF RowsReported, Stored

----------------------------------------------------------------------------
\* The initial states satisfy IInv.
LEMMA InitKeeps == Init => IInv
<1> SUFFICES ASSUME Init PROVE IInv OBVIOUS
<1>1. 1 \in Days BY FilingsAssumption DEF Days
<1>2. TypeOK /\ ProcsOK
  BY <1>1, NoLocalsType, ProcsAssumption DEF Init, TypeOK, ProcsOK, Phases
<1>3. RowsReported /\ RowsGood /\ MailsGood
  BY DEF Init, RowsReported, Stored, RowsGood, MailsGood
<1> QED BY <1>2, <1>3 DEF IInv

\* A command that ends, or dies, keeps IInv.
LEMMA ExitKeeps ==
  ASSUME IInv, NEW p \in Procs, Exit(p), UNCHANGED <<tables, mails, today, runs>>,
         aborts' \in 0..MaxAborts
  PROVE  IInv'
<1>1. "idle" \in Phases BY DEF Phases
<1>2. PhaseAt("idle", None, NoLocals, mails) BY NoLocalsType
<1> QED BY <1>1, <1>2, NoLocalsType, QuietStep DEF Exit, Goto, Remember, tables, IInv, TypeOK

\* A phase that ends keeps IInv, whichever phase comes next.
LEMMA EndPhaseKeeps ==
  ASSUME IInv, NEW p \in Procs, NEW next \in {"thresholds", "listPending", "idle"},
         EndPhase(p, next), UNCHANGED <<tables, outside>>
  PROVE  IInv'
<1>0. UNCHANGED <<rows, signals, config, mails, today, runs, aborts>> BY DEF tables, outside
<1>1. CASE cmd[p] = "cycle" /\ next # "idle"
  <2>1. next \in Phases BY DEF Phases
  <2>2. "cycle" \in Commands BY DEF Commands
  <2>3. PhaseAt(next, "cycle", NoLocals, mails) BY <2>2, <1>1, NoLocalsType
  <2>4. cmd' = [cmd EXCEPT ![p] = "cycle"] BY <1>1 DEF EndPhase, IInv, TypeOK
  <2> QED BY <1>0, <1>1, <2>1, <2>2, <2>3, <2>4, NoLocalsType, QuietStep
          DEF EndPhase, Goto, Remember, IInv, TypeOK
<1>2. CASE ~(cmd[p] = "cycle" /\ next # "idle")
  BY <1>0, <1>2, ExitKeeps DEF EndPhase, IInv, TypeOK
<1> QED BY <1>1, <1>2

\* Going on with the priors, or with the next candidate, is a step of p alone.
LEMMA NextPriorFrame ==
  ASSUME IInv, NEW p \in Procs, NEW m \in Locals, NextPrior(p, m), cmd[p] \in Commands,
         m.cur \in Filings, m.list = mem[p].list, m.batch = mem[p].batch, UNCHANGED <<cmd, mails>>
  PROVE  /\ pc' \in [Procs -> Phases]
         /\ cmd' \in [Procs -> Commands \cup {None}]
         /\ mem' \in [Procs -> Locals]
         /\ ProcsOK'
<1> DEFINE done == [m EXCEPT !.cur = None]
<1>1. {"mark", "ingest"} \subseteq Phases BY DEF Phases
<1>2. cmd' = [cmd EXCEPT ![p] = cmd[p]] BY DEF IInv, TypeOK
<1>3. PhaseAt(pc[p], cmd[p], mem[p], mails) BY DEF IInv, ProcsOK
<1>4. done \in Locals /\ done.list = m.list /\ done.batch = m.batch BY DEF Locals
<1> HIDE DEF done
<1>5. PhaseAt("mark", cmd[p], m, mails) BY <1>3 DEF PhaseAt
<1>6. PhaseAt("ingest", cmd[p], done, mails) BY <1>3, <1>4 DEF PhaseAt
<1>7. CASE m.priors # {} BY <1>1, <1>2, <1>5, <1>7, Frame DEF NextPrior, Goto, Remember
<1>8. CASE m.priors = {}
  BY <1>1, <1>2, <1>4, <1>6, <1>8, Frame DEF NextPrior, Goto, Remember, done
<1> QED BY <1>7, <1>8

----------------------------------------------------------------------------
\* What each step of p finds.
LEMMA AtWork ==
  ASSUME IInv, NEW p \in Procs
  PROVE  /\ mem[p] \in Locals /\ pc[p] \in Phases /\ cmd[p] \in Commands \cup {None}
         /\ PhaseAt(pc[p], cmd[p], mem[p], mails)
         /\ cmd' = cmd => cmd' = [cmd EXCEPT ![p] = cmd[p]]
         /\ pc' = pc => pc' = [pc EXCEPT ![p] = pc[p]]
         /\ config \in Configs /\ today \in Days /\ runs \in 0..MaxRuns /\ aborts \in 0..MaxAborts
         /\ rows \in [Filings -> FilingRow \cup {None}]
         /\ signals \in [Filings -> Seq(SignalRow)]
BY DEF IInv, TypeOK, ProcsOK

\* A step of p alone, to phase ph with locals m.
LEMMA MoveKeeps ==
  ASSUME IInv, NEW p \in Procs, NEW ph \in Phases, NEW m \in Locals, PhaseAt(ph, cmd[p], m, mails),
         pc' = [pc EXCEPT ![p] = ph], Remember(p, m), UNCHANGED <<tables, outside, cmd>>
  PROVE  IInv'
BY AtWork, QuietStep DEF Remember, tables, outside

\* Every step of run_ingest keeps IInv.
LEMMA IngestKeeps ==
  ASSUME IInv, NEW p \in Procs, IngestNext(p)
  PROVE  IInv'
<1> DEFINE m0 == mem[p]
<1>0. /\ m0 \in Locals /\ PhaseAt(pc[p], cmd[p], m0, mails) /\ today \in Days
      /\ rows \in [Filings -> FilingRow \cup {None}]
      /\ pc' = pc => pc' = [pc EXCEPT ![p] = pc[p]]
  BY AtWork
<1>ph. {"ingest", "priors", "upsert", "write", "mark", "supersede", "hide", "saveHidden"}
         \subseteq Phases
  BY DEF Phases
<1>t. ASSUME NEW f \in Filings, NEW r \in Reports[f][today]
      PROVE  /\ Taken(m0, f, r) \in Locals /\ Reported(f, r)
             /\ Taken(m0, f, r).cur = f /\ Taken(m0, f, r).data = r
             /\ Taken(m0, f, r).list = m0.list /\ Taken(m0, f, r).batch = m0.batch
  <2>1. r \in FilingRow /\ Reported(f, r) BY <1>0, FetchedIsReported
  <2> QED BY <1>0, <2>1 DEF Locals, Taken
<1>1. ASSUME NEW f \in Filings, TakeSecCandidate(p, f) PROVE IInv'
  <2>1. PICK r \in Reports[f][today] : Remember(p, Taken(m0, f, r))
    BY <1>1 DEF TakeSecCandidate
  <2> DEFINE m == Taken(m0, f, r)
             ph == IF f \in Stored THEN "upsert" ELSE "priors"
  <2>2. m \in Locals /\ Reported(f, r) /\ m.cur = f /\ m.data = r
        /\ m.list = m0.list /\ m.batch = m0.batch
    BY <1>t
  <2> HIDE DEF m
  <2>3. ph \in Phases /\ ph \in {"upsert", "priors"} /\ pc' = [pc EXCEPT ![p] = ph]
    BY <1>1, <1>ph DEF TakeSecCandidate, Goto
  <2> HIDE DEF ph
  <2>4. PhaseAt(ph, cmd[p], m, mails) BY <1>0, <1>1, <2>2, <2>3 DEF PhaseAt, TakeSecCandidate
  <2> QED BY <1>1, <2>1, <2>2, <2>3, <2>4, MoveKeeps DEF TakeSecCandidate, m
<1>2. ASSUME NEW f \in Filings, TakeOpenInsiderCandidate(p, f) PROVE IInv'
  <2>1. CASE Remember(p, Dropped(m0, f)) /\ UNCHANGED pc
    <3> DEFINE m == Dropped(m0, f)
    <3>1. m \in Locals /\ m.list = m0.list /\ m.batch = m0.batch BY <1>0 DEF Locals, Dropped
    <3> HIDE DEF m
    <3>2. PhaseAt("ingest", cmd[p], m, mails) BY <1>0, <1>2, <3>1 DEF PhaseAt, TakeOpenInsiderCandidate
    <3>3. pc' = [pc EXCEPT ![p] = "ingest"] BY <1>0, <1>2, <2>1 DEF TakeOpenInsiderCandidate
    <3> QED BY <1>2, <1>ph, <2>1, <3>1, <3>2, <3>3, MoveKeeps DEF TakeOpenInsiderCandidate, m
  <2>2. ASSUME NEW r \in Reports[f][today], Remember(p, Taken(m0, f, r)), Goto(p, "upsert")
        PROVE  IInv'
    <3> DEFINE m == Taken(m0, f, r)
    <3>1. m \in Locals /\ Reported(f, r) /\ m.cur = f /\ m.data = r
          /\ m.list = m0.list /\ m.batch = m0.batch
      BY <1>t
    <3> HIDE DEF m
    <3>2. PhaseAt("upsert", cmd[p], m, mails)
      BY <1>0, <1>2, <3>1 DEF PhaseAt, TakeOpenInsiderCandidate
    <3> QED BY <1>2, <1>ph, <2>2, <3>1, <3>2, MoveKeeps DEF TakeOpenInsiderCandidate, Goto, m
  <2> QED BY <1>2, <2>1, <2>2 DEF TakeOpenInsiderCandidate
<1>3. CASE FindPriors(p)
  <2> DEFINE m == [m0 EXCEPT !.priors = CurrentRows(m0.data.key)]
  <2>1. CurrentRows(m0.data.key) \subseteq Filings BY DEF CurrentRows
  <2>2. m \in Locals /\ m.list = m0.list /\ m.batch = m0.batch /\ m.cur = m0.cur /\ m.data = m0.data
    BY <1>0, <2>1 DEF Locals
  <2> HIDE DEF m
  <2>3. PhaseAt("upsert", cmd[p], m, mails) BY <1>0, <1>3, <2>2 DEF PhaseAt, FindPriors
  <2> QED BY <1>3, <1>ph, <2>2, <2>3, MoveKeeps DEF FindPriors, Goto, m
<1>4. CASE SelectCandidate(p)
  <2> DEFINE m == [m0 EXCEPT !.seen = rows[m0.cur]]
  <2>1. m0.cur \in Filings BY <1>0, <1>4 DEF PhaseAt, SelectCandidate
  <2>2. m \in Locals /\ m.list = m0.list /\ m.batch = m0.batch /\ m.cur = m0.cur /\ m.data = m0.data
    BY <1>0, <2>1 DEF Locals
  <2> HIDE DEF m
  <2>3. PhaseAt("write", cmd[p], m, mails) BY <1>0, <1>4, <2>2 DEF PhaseAt, SelectCandidate
  <2> QED BY <1>4, <1>ph, <2>2, <2>3, MoveKeeps DEF SelectCandidate, Goto, m
<1>w. ASSUME pc[p] = "write", NEW row, Reported(m0.cur, row),
             rows' = [rows EXCEPT ![m0.cur] = row],
             NEW m \in Locals, m.cur = m0.cur, m.list = m0.list, m.batch = m0.batch,
             NextPrior(p, m), UNCHANGED <<signals, config, outside, cmd>>
      PROVE  IInv'
  <2>1. m0.cur \in Filings /\ cmd[p] \in Commands BY <1>0, <1>w DEF PhaseAt
  <2>2. /\ pc' \in [Procs -> Phases] /\ cmd' \in [Procs -> Commands \cup {None}]
        /\ mem' \in [Procs -> Locals] /\ ProcsOK'
    BY <1>w, <2>1, NextPriorFrame DEF outside
  <2>3. rows' \in [Filings -> FilingRow \cup {None}] /\ RowsReported' BY <1>w, <2>1, RowsStep
  <2> QED BY <1>w, <2>2, <2>3 DEF IInv, TypeOK, RowsGood, MailsGood, outside
<1>5. CASE InsertCandidate(p)
  <2>0. pc[p] = "write" /\ Reported(m0.cur, m0.data) BY <1>0, <1>5 DEF PhaseAt, InsertCandidate
  <2>1. CASE rows' = [rows EXCEPT ![m0.cur] = m0.data] /\ NextPrior(p, [m0 EXCEPT !.data = None])
             /\ UNCHANGED cmd
    <3> DEFINE m == [m0 EXCEPT !.data = None]
    <3>1. m \in Locals /\ m.cur = m0.cur /\ m.list = m0.list /\ m.batch = m0.batch
      BY <1>0 DEF Locals
    <3> HIDE DEF m
    <3>2. NextPrior(p, m) BY <2>1 DEF m
    <3> QED BY <1>5, <1>w, <2>0, <2>1, <3>1, <3>2 DEF InsertCandidate
  <2>2. CASE Exit(p) /\ UNCHANGED rows
    <3>1. UNCHANGED <<tables, mails, today, runs>> /\ aborts' \in 0..MaxAborts
      BY <1>5, <2>2, AtWork DEF InsertCandidate, tables, outside
    <3> QED BY <2>2, <3>1, ExitKeeps
  <2> QED BY <1>5, <2>1, <2>2 DEF InsertCandidate
<1>6. CASE UpdateCandidate(p)
  <2> DEFINE m == [m0 EXCEPT !.data = None, !.seen = None]
             row == Updated(rows[m0.cur], m0.seen, m0.data)
  <2>0. pc[p] = "write" /\ m0.cur \in Stored /\ Reported(m0.cur, m0.data) /\ m0.cur \in Filings
    BY <1>0, <1>6 DEF PhaseAt, UpdateCandidate
  <2>1. m \in Locals /\ m.cur = m0.cur /\ m.list = m0.list /\ m.batch = m0.batch
    BY <1>0 DEF Locals
  <2> HIDE DEF m
  <2>2. Reported(m0.cur, row) BY <2>0, UpdatedIsReported DEF IInv, RowsReported
  <2>3. rows' = [rows EXCEPT ![m0.cur] = row] /\ NextPrior(p, m)
    BY <1>6 DEF UpdateCandidate, m
  <2> HIDE DEF row
  <2> QED BY <1>6, <1>w, <2>0, <2>1, <2>2, <2>3 DEF UpdateCandidate
<1>7. ASSUME NEW g \in Filings, MarkPrior(p, g) PROVE IInv'
  <2> DEFINE m == [m0 EXCEPT !.priors = @ \ {g}, !.prior = g, !.seen = rows[g]]
  <2>1. rows[g] \in FilingRow BY <1>0, <1>7 DEF MarkPrior, Stored
  <2>2. m \in Locals /\ m.list = m0.list /\ m.batch = m0.batch /\ m.cur = m0.cur /\ m.prior = g
        /\ m.seen = rows[g]
    BY <1>0, <2>1 DEF Locals
  <2> HIDE DEF m
  <2>3. PhaseAt("supersede", cmd[p], m, mails)
    BY <1>0, <1>7, <2>1, <2>2 DEF PhaseAt, MarkPrior
  <2> QED BY <1>7, <1>ph, <2>2, <2>3, MoveKeeps DEF MarkPrior, Goto, m
<1>8. CASE SupersedePrior(p)
  <2> DEFINE g == m0.prior
             new == [m0.seen EXCEPT !.supersededBy = m0.cur]
             row == Updated(rows[g], m0.seen, new)
             m == [m0 EXCEPT !.seen = None]
  <2>1. /\ pc[p] = "supersede" /\ g \in Stored /\ g \in Filings /\ m0.cur \in Filings
        /\ m0.seen \in FilingRow /\ cmd[p] \in Commands
    BY <1>0, <1>8 DEF PhaseAt, SupersedePrior
  <2>2. new \in FilingRow /\ rows[g] \in FilingRow /\ Reported(g, rows[g])
    BY <1>0, <2>1 DEF FilingRow, Stored, IInv, RowsReported
  <2>3. /\ row.key = rows[g].key /\ row.buy = rows[g].buy
        /\ row.discretionary = rows[g].discretionary /\ row.value = rows[g].value
    BY <2>1, <2>2 DEF Updated, FilingRow
  <2>4. row \in FilingRow BY <2>2, UpdatedFiling
  <2>5. m \in Locals /\ m.list = m0.list /\ m.batch = m0.batch /\ m.cur = m0.cur /\ m.prior = g
    BY <1>0 DEF Locals
  <2>6. rows' = [rows EXCEPT ![g] = row] BY <1>8 DEF SupersedePrior
  <2> HIDE DEF row, new, m
  <2>7. Reported(g, row) BY <2>2, <2>3, <2>4 DEF Reported
  <2>8. rows' \in [Filings -> FilingRow \cup {None}] /\ RowsReported' BY <2>1, <2>6, <2>7, RowsStep
  <2>9. PhaseAt("hide", cmd[p], m, mails) BY <1>0, <2>1, <2>5 DEF PhaseAt
  <2>10. /\ pc' \in [Procs -> Phases] /\ cmd' \in [Procs -> Commands \cup {None}]
         /\ mem' \in [Procs -> Locals] /\ ProcsOK'
    BY <1>8, <1>ph, <2>5, <2>9, AtWork, Frame DEF SupersedePrior, Goto, Remember, outside, m
  <2> QED BY <1>8, <2>8, <2>10 DEF SupersedePrior, IInv, TypeOK, RowsGood, MailsGood, outside
<1>9. CASE ReadPriorSignal(p)
  <2> DEFINE g == m0.prior
  <2>0. g \in Filings /\ m0.cur \in Filings /\ cmd[p] \in Commands
        /\ UNCHANGED <<tables, outside>> /\ UNCHANGED <<rows, signals, config, mails, today, runs, aborts>>
    BY <1>0, <1>9 DEF PhaseAt, ReadPriorSignal, tables, outside
  <2>1. CASE Exit(p)
    BY <2>0, <2>1, AtWork, ExitKeeps
  <2>2. CASE NextPrior(p, [m0 EXCEPT !.prior = None]) /\ UNCHANGED cmd
    <3> DEFINE m == [m0 EXCEPT !.prior = None]
    <3>1. m \in Locals /\ m.list = m0.list /\ m.batch = m0.batch /\ m.cur = m0.cur BY <1>0 DEF Locals
    <3> HIDE DEF m
    <3>2. NextPrior(p, m) BY <2>2 DEF m
    <3>3. /\ pc' \in [Procs -> Phases] /\ cmd' \in [Procs -> Commands \cup {None}]
          /\ mem' \in [Procs -> Locals] /\ ProcsOK'
      BY <2>0, <2>2, <3>1, <3>2, NextPriorFrame
    <3> QED BY <2>0, <3>3 DEF IInv, TypeOK, RowsReported, Stored, RowsGood, MailsGood
  <2>3. CASE /\ SignalCount(g) = 1
             /\ Remember(p, [m0 EXCEPT !.prior = None,
                                       !.held = [TheSignal(g) EXCEPT !.row.superseded = TRUE]])
             /\ Goto(p, "saveHidden")
             /\ UNCHANGED cmd
    <3> DEFINE h == [TheSignal(g) EXCEPT !.row.superseded = TRUE]
               m == [m0 EXCEPT !.prior = None, !.held = h]
    <3>1. signals[g] \in Seq(SignalRow) /\ 1 \in DOMAIN signals[g]
      BY <2>0, <2>3 DEF SignalCount, IInv, TypeOK
    <3>2. signals[g][1] \in SignalRow /\ GoodRow(g, signals[g][1], mails)
      BY <2>0, <3>1 DEF IInv, RowsGood
    <3>3. GoodHeld(h, mails)
      BY <2>0, <3>2 DEF TheSignal, GoodHeld, GoodRow, Held, SignalRow
    <3>4. m \in Locals /\ m.list = m0.list /\ m.batch = m0.batch /\ m.cur = m0.cur /\ m.held = h
      BY <1>0, <3>3 DEF Locals, GoodHeld
    <3> HIDE DEF h, m
    <3>5. PhaseAt("saveHidden", cmd[p], m, mails)
      BY <1>0, <2>0, <3>3, <3>4, <1>9 DEF PhaseAt, ReadPriorSignal
    <3> QED BY <1>ph, <2>0, <2>3, <3>4, <3>5, MoveKeeps DEF Goto, h, m
  <2> QED BY <1>9, <2>1, <2>2, <2>3 DEF ReadPriorSignal
<1>10. CASE HidePriorSignal(p)
  <2> DEFINE m == [m0 EXCEPT !.held = None, !.seen = None]
  <2>1. m \in Locals /\ m.list = m0.list /\ m.batch = m0.batch /\ m.cur = m0.cur BY <1>0 DEF Locals
  <2> HIDE DEF m
  <2>2. GoodHeld(m0.held, mails) /\ m0.cur \in Filings /\ cmd[p] \in Commands
    BY <1>0, <1>10 DEF PhaseAt, HidePriorSignal
  <2>3. NextPrior(p, m) /\ UNCHANGED <<cmd, rows, config, mails, today, runs, aborts>>
    BY <1>10 DEF HidePriorSignal, outside, m
  <2>4. /\ pc' \in [Procs -> Phases] /\ cmd' \in [Procs -> Commands \cup {None}]
        /\ mem' \in [Procs -> Locals] /\ ProcsOK'
    BY <2>1, <2>2, <2>3, NextPriorFrame
  <2>5. signals' \in [Filings -> Seq(SignalRow)] /\ RowsGood'
    BY <1>10, <2>2, <2>3, SaveKeepsRows DEF HidePriorSignal, IInv, TypeOK, RowsGood
  <2> QED BY <2>3, <2>4, <2>5 DEF IInv, TypeOK, RowsReported, Stored, MailsGood
<1>11. CASE EndIngest(p)
  BY <1>11, EndPhaseKeeps DEF EndIngest
<1> QED BY <1>1, <1>2, <1>3, <1>4, <1>5, <1>6, <1>7, <1>8, <1>9, <1>10, <1>11 DEF IngestNext

----------------------------------------------------------------------------
\* The first signal of a record that is not routine may be pending.
LEMMA NewSignalGood ==
  ASSUME NEW f \in Filings, NEW n \in BOOLEAN, n => ~Routine(f)
  PROVE  GoodHeld([rec |-> f, k |-> 0, row |-> NewSignal(n)], mails)
<1>1. NewSignal(n) \in SignalRow
      /\ NewSignal(n).status = (IF n THEN "pending" ELSE "not_applicable")
  BY DEF NewSignal, SignalRow, Statuses
<1>2. GoodRow(f, NewSignal(n), mails) BY <1>1 DEF GoodRow
<1> QED BY <1>1, <1>2 DEF GoodHeld, Held

\* So may a signal that --reclassify rewrote.
LEMMA ReclassifiedGood ==
  ASSUME NEW f \in Filings, NEW n \in BOOLEAN, n => ~Routine(f),
         NEW row \in SignalRow, GoodRow(f, row, mails)
  PROVE  /\ ReclassifiedSignal(row, n) \in SignalRow
         /\ GoodRow(f, ReclassifiedSignal(row, n), mails)
<1> DEFINE st == CASE n /\ row.status = "not_applicable" -> "pending"
                   [] ~n -> "not_applicable"
                   [] OTHER -> row.status
           new == ReclassifiedSignal(row, n)
<1>1. /\ st \in Statuses /\ (st # "not_applicable" => n)
      /\ (st = "sent" => row.status = "sent")
  BY DEF SignalRow, Statuses
<1>2. new = [row EXCEPT !.notable = n, !.status = st] BY DEF ReclassifiedSignal
<1> HIDE DEF st, new
<1>3. new \in SignalRow /\ new.status = st BY <1>1, <1>2 DEF SignalRow
<1> QED BY <1>1, <1>3 DEF GoodRow, new

\* The copies of a list are of rows as some fetches reported them.
LEMMA CopiesReported ==
  ASSUME IInv, NEW S, S \subseteq Stored
  PROVE  Copies(S) \in SUBSET Listed /\ \A x \in Copies(S) : Reported(x.rec, x.data)
<1> SUFFICES ASSUME NEW f \in S
             PROVE  [rec |-> f, data |-> rows[f]] \in Listed /\ Reported(f, rows[f])
  BY DEF Copies
<1>1. f \in Filings /\ Reported(f, rows[f]) BY DEF Stored, IInv, RowsReported
<1> QED BY <1>1 DEF Listed, Reported

\* Every step of run_classify keeps IInv.
LEMMA ClassifyKeeps ==
  ASSUME IInv, NEW p \in Procs, ClassifyNext(p)
  PROVE  IInv'
<1> DEFINE m0 == mem[p]
<1>0. /\ m0 \in Locals /\ PhaseAt(pc[p], cmd[p], m0, mails) /\ config \in Configs
      /\ pc' = pc => pc' = [pc EXCEPT ![p] = pc[p]]
  BY AtWork
<1>ph. {"thresholds", "listTxns", "txns", "buybacks", "saveSignal"} \subseteq Phases
  BY DEF Phases
<1>1. CASE ReadThresholds(p)
  <2> DEFINE m == [m0 EXCEPT !.conf = config]
  <2>1. m \in Locals /\ m.list = m0.list /\ m.batch = m0.batch /\ m.conf = config BY <1>0 DEF Locals
  <2> HIDE DEF m
  <2>2. PhaseAt("listTxns", cmd[p], m, mails) BY <1>0, <1>1, <2>1 DEF PhaseAt, ReadThresholds
  <2> QED BY <1>1, <1>ph, <2>1, <2>2, MoveKeeps DEF ReadThresholds, Goto, m
<1>l. ASSUME NEW S, S \subseteq Stored, pc[p] \in {"listTxns", "txns"}, NEW ph \in {"txns", "buybacks"},
             Remember(p, [m0 EXCEPT !.list = Copies(S)]), Goto(p, ph),
             UNCHANGED <<tables, outside, cmd>>
      PROVE  IInv'
  <2> DEFINE m == [m0 EXCEPT !.list = Copies(S)]
  <2>1. Copies(S) \in SUBSET Listed /\ \A x \in Copies(S) : Reported(x.rec, x.data)
    BY <1>l, CopiesReported
  <2>2. m \in Locals /\ m.list = Copies(S) /\ m.batch = m0.batch /\ m.conf = m0.conf
    BY <1>0, <2>1 DEF Locals
  <2> HIDE DEF m
  <2>3. PhaseAt(ph, cmd[p], m, mails) BY <1>0, <1>l, <2>1, <2>2 DEF PhaseAt
  <2> QED BY <1>l, <1>ph, <2>2, <2>3, MoveKeeps DEF Goto, m
<1>2. CASE ListTransactions(p)
  <2>1. {t \in Transactions : Current(t)} \subseteq Stored BY DEF Current
  <2> QED BY <1>2, <1>l, <2>1 DEF ListTransactions
<1>3. CASE ListBuybacks(p)
  <2>1. {b \in Buybacks : Current(b)} \subseteq Stored BY DEF Current
  <2> QED BY <1>3, <1>l, <2>1 DEF ListBuybacks
<1>4. ASSUME NEW x \in m0.list, ReadRecordSignal(p, x) PROVE IInv'
  <2> DEFINE f == x.rec
             notable == IsNotable(f, x.data, m0.conf)
  <2>0. /\ m0.conf \in Configs /\ cmd[p] \in Commands /\ pc[p] \in {"txns", "buybacks"}
        /\ f \in Filings /\ Reported(f, x.data)
    BY <1>0, <1>4 DEF PhaseAt, ReadRecordSignal, Locals, Listed
  <2>n. notable \in BOOLEAN /\ (notable => ~Routine(f)) BY <2>0, NotableIsNotRoutine
  <2>u. UNCHANGED <<tables, outside>> BY <1>4 DEF ReadRecordSignal
  <2> HIDE DEF notable
  <2>1. CASE Exit(p)
    <3>1. UNCHANGED <<tables, mails, today, runs>> /\ aborts' \in 0..MaxAborts
      BY <2>u, AtWork DEF outside
    <3> QED BY <2>1, <3>1, ExitKeeps
  <2>2. CASE Remember(p, [m0 EXCEPT !.list = @ \ {x}]) /\ UNCHANGED <<pc, cmd>>
    <3> DEFINE m == [m0 EXCEPT !.list = @ \ {x}]
    <3>1. m \in Locals /\ m.list = m0.list \ {x} /\ m.batch = m0.batch /\ m.conf = m0.conf
      BY <1>0 DEF Locals
    <3> HIDE DEF m
    <3>2. PhaseAt(pc[p], cmd[p], m, mails) BY <1>0, <2>0, <3>1 DEF PhaseAt
    <3> QED BY <1>0, <1>ph, <2>0, <2>2, <2>u, <3>1, <3>2, MoveKeeps DEF m
  <2>3. ASSUME NEW h, GoodHeld(h, mails),
               Remember(p, [m0 EXCEPT !.list = @ \ {x}, !.held = h]),
               Goto(p, "saveSignal"), UNCHANGED cmd
        PROVE  IInv'
    <3> DEFINE m == [m0 EXCEPT !.list = @ \ {x}, !.held = h]
    <3>1. m \in Locals /\ m.list = m0.list \ {x} /\ m.batch = m0.batch /\ m.conf = m0.conf
          /\ m.held = h
      BY <1>0, <2>3 DEF Locals, GoodHeld
    <3> HIDE DEF m
    <3>2. PhaseAt("saveSignal", cmd[p], m, mails) BY <1>0, <2>0, <2>3, <3>1 DEF PhaseAt
    <3> QED BY <1>ph, <2>3, <2>u, <3>1, <3>2, MoveKeeps DEF Goto, m
  <2>4. CASE /\ SignalCount(f) = 1
             /\ Remember(p, [m0 EXCEPT !.list = @ \ {x},
                               !.held = [TheSignal(f) EXCEPT !.row = ReclassifiedSignal(@, notable)]])
             /\ Goto(p, "saveSignal")
             /\ UNCHANGED cmd
    <3> DEFINE row == signals[f][1]
               new == ReclassifiedSignal(row, notable)
               h == [TheSignal(f) EXCEPT !.row = ReclassifiedSignal(@, notable)]
    <3>1. signals[f] \in Seq(SignalRow) /\ 1 \in DOMAIN signals[f]
      BY <2>0, <2>4 DEF SignalCount, IInv, TypeOK
    <3>2. row \in SignalRow /\ GoodRow(f, row, mails) BY <2>0, <3>1 DEF IInv, RowsGood
    <3>3. new \in SignalRow /\ GoodRow(f, new, mails)
      BY <2>0, <2>n, <3>2, ReclassifiedGood
    <3>4. h = [rec |-> f, k |-> 1, row |-> new] BY DEF TheSignal
    <3>5. GoodHeld(h, mails) BY <2>0, <3>3, <3>4 DEF GoodHeld, Held
    <3> QED BY <2>3, <2>4, <3>5
  <2>5. CASE /\ Remember(p, [m0 EXCEPT !.list = @ \ {x},
                               !.held = [rec |-> f, k |-> 0, row |-> NewSignal(notable)]])
             /\ Goto(p, "saveSignal")
             /\ UNCHANGED cmd
    BY <2>0, <2>n, <2>3, <2>5, NewSignalGood
  <2> QED BY <1>4, <2>1, <2>2, <2>4, <2>5 DEF ReadRecordSignal, notable
<1>5. CASE SaveRecordSignal(p)
  <2> DEFINE m == [m0 EXCEPT !.held = None, !.seen = None]
             ph == IF m0.held.rec \in Transactions THEN "txns" ELSE "buybacks"
  <2>1. m \in Locals /\ m.list = m0.list /\ m.batch = m0.batch /\ m.conf = m0.conf BY <1>0 DEF Locals
  <2>2. Remember(p, m) /\ Goto(p, ph) /\ ph \in {"txns", "buybacks"}
    BY <1>5 DEF SaveRecordSignal
  <2> HIDE DEF m, ph
  <2>3. PhaseAt(ph, cmd[p], m, mails) BY <1>0, <1>5, <2>1, <2>2 DEF PhaseAt, SaveRecordSignal
  <2>4. GoodHeld(m0.held, mails) /\ UNCHANGED <<cmd, rows, config, mails, today, runs, aborts>>
    BY <1>0, <1>5 DEF PhaseAt, SaveRecordSignal, outside
  <2>5. ProcsOK' /\ pc' \in [Procs -> Phases] /\ cmd' \in [Procs -> Commands \cup {None}] /\ mem' \in [Procs -> Locals]
    BY <1>ph, <2>1, <2>2, <2>3, <2>4, AtWork, Frame DEF Goto, Remember
  <2>6. signals' \in [Filings -> Seq(SignalRow)] /\ RowsGood'
    BY <1>5, <2>4, SaveKeepsRows DEF SaveRecordSignal, IInv, TypeOK, RowsGood
  <2> QED BY <2>4, <2>5, <2>6 DEF IInv, TypeOK, RowsReported, Stored, MailsGood
<1>6. CASE EndClassify(p)
  BY <1>6, EndPhaseKeeps DEF EndClassify
<1> QED BY <1>1, <1>2, <1>3, <1>4, <1>5, <1>6 DEF ClassifyNext

----------------------------------------------------------------------------
\* A signal that may still be transitioned is pending, hence not of a routine trade.
LEMMA TransitionGood ==
  ASSUME NEW h, GoodHeld(h, mails), NEW s \in {"sent", "failed"}, CanTransition(h, s),
         NEW sofar, sofar[h.rec] >= mails[h.rec], mails \in [Filings -> Nat],
         sofar \in [Filings -> Nat], s = "sent" => sofar[h.rec] > 0
  PROVE  GoodHeld(Transition(h, s), sofar) /\ ~Routine(h.rec)
<1>1. h \in Held /\ h.row \in SignalRow /\ h.row.status \in Statuses
  BY DEF GoodHeld, Held, SignalRow
<1>2. h.row.status = "pending" BY <1>1 DEF CanTransition, Transitions, Statuses
<1>3. ~Routine(h.rec) BY <1>1, <1>2 DEF GoodHeld, GoodRow
<1>4. Transition(h, s) = [rec |-> h.rec, k |-> h.k, row |-> [h.row EXCEPT !.status = s]]
  BY <1>1 DEF Transition, Held
<1>5. [h.row EXCEPT !.status = s] \in SignalRow BY <1>1 DEF SignalRow, Statuses
<1>6. GoodRow(h.rec, [h.row EXCEPT !.status = s], sofar) BY <1>1, <1>3 DEF GoodRow, SignalRow
<1> QED BY <1>1, <1>3, <1>4, <1>5, <1>6 DEF GoodHeld, Held

\* Every step of run_notify keeps IInv.
LEMMA NotifyKeeps ==
  ASSUME IInv, NEW p \in Procs, NotifyNext(p)
  PROVE  IInv'
<1> DEFINE m0 == mem[p]
<1>0. m0 \in Locals /\ PhaseAt(pc[p], cmd[p], m0, mails) BY AtWork
<1>ph. {"listPending", "send", "resolve"} \subseteq Phases
  BY DEF Phases
<1>1. CASE ListPending(p)
  <2> DEFINE m == [m0 EXCEPT !.batch = PendingSignals]
  <2>1. ASSUME NEW h \in PendingSignals PROVE GoodHeld(h, mails)
    <3>0. PICK f \in Filings :
             \E i \in 1..Len(signals[f]) : h = [rec |-> f, k |-> i, row |-> signals[f][i]]
      BY DEF PendingSignals
    <3>1. PICK i \in 1..Len(signals[f]) : h = [rec |-> f, k |-> i, row |-> signals[f][i]]
      BY <3>0
    <3>2. signals[f] \in Seq(SignalRow) BY DEF IInv, TypeOK
    <3>3. i \in DOMAIN signals[f] /\ signals[f][i] \in SignalRow /\ i \in Nat BY <3>2
    <3>4. GoodRow(f, signals[f][i], mails) BY <3>3 DEF IInv, RowsGood
    <3> QED BY <3>1, <3>3, <3>4 DEF GoodHeld, Held
  <2>2. PendingSignals \in SUBSET Held BY <2>1 DEF GoodHeld
  <2> HIDE DEF m
  <2>3. m \in Locals /\ m.list = m0.list /\ m.batch = PendingSignals BY <1>0, <2>2 DEF Locals, m
  <2>4. PhaseAt("send", cmd[p], m, mails) BY <1>0, <1>1, <2>1, <2>3 DEF PhaseAt, ListPending
  <2> QED BY <1>1, <1>ph, <2>3, <2>4, MoveKeeps DEF ListPending, Goto, m
<1>2. ASSUME NEW h \in m0.batch, NEW s \in {"sent", "failed"}, CanTransition(h, s),
             NEW n \in {0, 1}, s = "sent" => n = 1,
             mails' = [mails EXCEPT ![h.rec] = @ + n],
             pc[p] = "send",
             Remember(p, [m0 EXCEPT !.batch = @ \ {h}, !.held = Transition(h, s)]),
             Goto(p, "resolve"), UNCHANGED <<tables, today, cmd, runs, aborts>>
      PROVE  IInv'
  <2> DEFINE t == Transition(h, s)
             m == [m0 EXCEPT !.batch = @ \ {h}, !.held = t]
  <2>1. GoodHeld(h, mails) /\ h.rec \in Filings BY <1>0 DEF PhaseAt, GoodHeld, Held
  <2>2. /\ mails \in [Filings -> Nat] /\ mails' \in [Filings -> Nat]
        /\ mails'[h.rec] >= mails[h.rec] /\ (s = "sent" => mails'[h.rec] > 0)
        /\ \A f \in Filings : mails[f] > 0 => mails'[f] > 0
        /\ \A f \in Filings : f # h.rec => mails'[f] = mails[f]
    BY <1>2, <2>1 DEF IInv, TypeOK
  <2>3. GoodHeld(t, mails') /\ ~Routine(h.rec)
    <3>1. mails \in [Filings -> Nat] /\ mails' \in [Filings -> Nat] BY <2>2
    <3>2. CanTransition(h, s) /\ s \in {"sent", "failed"} BY <1>2
    <3> QED BY <2>1, <2>2, <3>1, <3>2, TransitionGood
  <2> HIDE DEF t
  <2>4. m \in Locals /\ m.list = m0.list /\ m.batch = m0.batch \ {h} /\ m.held = t
    BY <1>0, <2>3 DEF Locals, GoodHeld
  <2>5. \A x \in m.batch : GoodHeld(x, mails')
    BY <1>0, <2>2, <2>4 DEF PhaseAt, GoodHeld, GoodRow, Held
  <2>6. PhaseAt("resolve", cmd[p], m, mails') BY <1>0, <1>2, <2>3, <2>4, <2>5 DEF PhaseAt
  <2>7. ProcsOK' /\ pc' \in [Procs -> Phases] /\ cmd' \in [Procs -> Commands \cup {None}] /\ mem' \in [Procs -> Locals]
    <3>1. /\ pc' = [pc EXCEPT ![p] = "resolve"] /\ mem' = [mem EXCEPT ![p] = m] /\ cmd' = cmd
      BY <1>2 DEF Goto, Remember, t
    <3> HIDE DEF m
    <3> QED BY <1>ph, <2>2, <2>4, <2>6, <3>1, AtWork, Frame
  <2>8. RowsGood' /\ MailsGood' /\ RowsReported'
    BY <1>2, <2>2, <2>3 DEF IInv, TypeOK, RowsReported, Stored, RowsGood, MailsGood, GoodRow, tables
  <2> QED BY <1>2, <2>2, <2>7, <2>8 DEF IInv, TypeOK, tables
<1>3. ASSUME NEW h \in m0.batch, SendMail(p, h) PROVE IInv'
  BY <1>2, <1>3 DEF SendMail
<1>4. ASSUME NEW h \in m0.batch, SendMailFails(p, h) PROVE IInv'
  BY <1>2, <1>4 DEF SendMailFails
<1>5. CASE SaveOutcome(p)
  <2> DEFINE m == [m0 EXCEPT !.held = None, !.seen = None]
  <2>1. m \in Locals /\ m.list = m0.list /\ m.batch = m0.batch BY <1>0 DEF Locals
  <2>2. Remember(p, m) /\ Goto(p, "send") BY <1>5 DEF SaveOutcome
  <2> HIDE DEF m
  <2>3. PhaseAt("send", cmd[p], m, mails) BY <1>0, <1>5, <2>1 DEF PhaseAt, SaveOutcome
  <2>4. GoodHeld(m0.held, mails) /\ UNCHANGED <<cmd, rows, config, mails, today, runs, aborts>>
    BY <1>0, <1>5 DEF PhaseAt, SaveOutcome, outside
  <2>5. ProcsOK' /\ pc' \in [Procs -> Phases] /\ cmd' \in [Procs -> Commands \cup {None}] /\ mem' \in [Procs -> Locals]
    BY <1>ph, <2>1, <2>2, <2>3, <2>4, AtWork, Frame DEF Goto, Remember
  <2>6. signals' \in [Filings -> Seq(SignalRow)] /\ RowsGood'
    BY <1>5, <2>4, SaveKeepsRows DEF SaveOutcome, IInv, TypeOK, RowsGood
  <2> QED BY <2>4, <2>5, <2>6 DEF IInv, TypeOK, RowsReported, Stored, MailsGood
<1>6. CASE EndNotify(p)
  BY <1>6, EndPhaseKeeps DEF EndNotify
<1> QED BY <1>1, <1>3, <1>4, <1>5, <1>6 DEF NotifyNext

----------------------------------------------------------------------------
\* The SELECT of a save keeps IInv.
LEMMA SelectKeeps ==
  ASSUME IInv, NEW p \in Procs, SelectSignal(p)
  PROVE  IInv'
<1> DEFINE m0 == mem[p]
           h == m0.held
           row == signals[h.rec][h.k]
           m == [m0 EXCEPT !.seen = row]
<1>0. m0 \in Locals /\ PhaseAt(pc[p], cmd[p], m0, mails) /\ pc[p] \in Phases
      /\ signals \in [Filings -> Seq(SignalRow)]
  BY AtWork
<1>1. pc[p] \in {"saveHidden", "saveSignal", "resolve"} /\ h.k \in DOMAIN signals[h.rec]
      /\ Remember(p, m) /\ UNCHANGED <<tables, outside, pc, cmd>>
  BY DEF SelectSignal
<1>2. h.rec \in Filings BY <1>0, <1>1 DEF PhaseAt, GoodHeld, Held
<1>3. signals[h.rec] \in Seq(SignalRow) BY <1>0, <1>2
<1>4. row \in SignalRow BY <1>1, <1>3
<1>5. /\ m \in Locals /\ m.list = m0.list /\ m.batch = m0.batch /\ m.cur = m0.cur
      /\ m.held = m0.held /\ m.conf = m0.conf
  BY <1>0, <1>4 DEF Locals
<1> HIDE DEF m
<1>6. PhaseAt(pc[p], cmd[p], m, mails) BY <1>0, <1>1, <1>5 DEF PhaseAt
<1> QED BY <1>0, <1>1, <1>5, <1>6, AtWork, MoveKeeps

\* Starting a command keeps IInv.
LEMMA StartKeeps ==
  ASSUME IInv, NEW p \in Procs, NEW c \in Commands, StartCommand(p, c)
  PROVE  IInv'
<1>1. PICK feed \in SUBSET Filings : mem' = [mem EXCEPT ![p] = [mem[p] EXCEPT !.todo = feed]]
  <2>1. \A feed \in {{}} : feed \in SUBSET Filings OBVIOUS
  <2> QED BY <2>1 DEF StartCommand, Remember
<1> DEFINE m == [mem[p] EXCEPT !.todo = feed]
           ph == FirstPhase[c]
<1>2. mem[p] \in Locals /\ PhaseAt("idle", cmd[p], mem[p], mails)
  BY DEF IInv, TypeOK, ProcsOK, StartCommand
<1>3. m \in Locals /\ m.list = mem[p].list /\ m.batch = mem[p].batch BY <1>2 DEF Locals
<1>4. ph \in {"ingest", "thresholds", "listPending"} BY DEF FirstPhase, Commands
<1>5. ph \in Phases BY <1>4 DEF Phases
<1> HIDE DEF ph
<1>6. PhaseAt(ph, c, m, mails) BY <1>2, <1>3, <1>4 DEF PhaseAt
<1>7. runs' \in 0..MaxRuns BY ProcsAssumption DEF StartCommand, IInv, TypeOK
<1>8. config' \in Configs /\ today' \in Days /\ aborts' \in 0..MaxAborts
      /\ UNCHANGED <<rows, signals, mails>>
  BY DEF StartCommand, tables, IInv, TypeOK
<1> QED BY <1>1, <1>3, <1>5, <1>6, <1>7, <1>8, QuietStep DEF StartCommand, Goto, ph

\* IInv is inductive.
LEMMA NextKeeps == IInv /\ [Next]_vars => IInv'
<1> SUFFICES ASSUME IInv, [Next]_vars PROVE IInv' OBVIOUS
<1>1. ASSUME NEW p \in Procs, ProcNext(p) PROVE IInv'
  BY <1>1, IngestKeeps, ClassifyKeeps, NotifyKeeps, SelectKeeps DEF ProcNext
<1>2. ASSUME NEW p \in Procs, NEW c \in Commands, StartCommand(p, c) PROVE IInv'
  BY <1>2, StartKeeps
<1>3. ASSUME NEW p \in Procs, Abort(p) PROVE IInv'
  <2>1. aborts' \in 0..MaxAborts BY <1>3, ProcsAssumption DEF Abort, IInv, TypeOK
  <2> QED BY <1>3, <2>1, ExitKeeps DEF Abort
<1>4. ASSUME UNCHANGED <<rows, signals, mails, pc, cmd, mem, runs, aborts>>,
             config' \in Configs, today' \in Days
      PROVE  IInv'
  BY <1>4 DEF IInv, TypeOK, ProcsOK, RowsReported, Stored, RowsGood, MailsGood
<1>5. ASSUME NEW c \in Configs, SetThresholds(c) PROVE IInv'
  BY <1>4, <1>5 DEF SetThresholds, outside, IInv, TypeOK
<1>6. CASE NextDay
  <2>1. today' \in Days BY <1>6, FilingsAssumption DEF NextDay, Days, IInv, TypeOK
  <2> QED BY <1>4, <1>6, <2>1 DEF NextDay, tables, IInv, TypeOK
<1>7. CASE UNCHANGED vars
  BY <1>4, <1>7 DEF vars, IInv, TypeOK
<1> QED BY <1>1, <1>2, <1>3, <1>5, <1>6, <1>7 DEF Next

\* Hence IInv holds in every reachable state of the pipeline, for any filings,
\* reports, configurations and processes.
THEOREM IInvHolds == Spec => []IInv
  BY InitKeeps, NextKeeps, PTL DEF Spec

\* Every variable of the pipeline keeps its type, for any number of filings
\* and processes.
THEOREM TypeCorrect == Spec => []TypeOK
<1>1. IInv => TypeOK BY DEF IInv
<1> QED BY <1>1, IInvHolds, PTL

\* However processes interleave, crash, reclassify and overwrite columns of each
\* other's rows, a signal marked sent was e-mailed (FR-011).
THEOREM SentSignalsWereMailed == Spec => []SentWasMailed
<1>1. IInv => SentWasMailed BY DEF IInv, RowsGood, GoodRow, SentWasMailed, SignalsOf
<1> QED BY <1>1, IInvHolds, PTL

\* Nothing is e-mailed about a trade that no report of it calls a buy, or a choice
\* of the filer, or gives a price: whatever thresholds were ever set and whatever
\* the page showed in its place from day to day (FR-006).
THEOREM RoutineIsNeverMailed == Spec => []RoutineNeverMailed
<1>1. IInv => RoutineNeverMailed
  <2> SUFFICES ASSUME IInv, NEW f \in Filings, Routine(f) PROVE mails[f] = 0
    BY DEF RoutineNeverMailed
  <2>1. mails[f] \in Nat BY DEF IInv, TypeOK
  <2>2. ~(mails[f] > 0) BY DEF IInv, MailsGood
  <2> QED BY <2>1, <2>2
<1> QED BY <1>1, IInvHolds, PTL
=============================================================================
