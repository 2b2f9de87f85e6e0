------------------------------ MODULE Classify ------------------------------
(***************************************************************************)
(* run_classify over insider transactions and buybacks                     *)
(* (cli/commands/classify.py): the thresholds are read once, each list     *)
(* once, and every record of the list, as it was when listed, gets its     *)
(* signal read, computed and saved.                                        *)
(* The cluster signals of the same command are module Clusters.            *)
(***************************************************************************)
EXTENDS Store

\* Fault: the discretionary test is missing.
ClassifyInsiderTransactionAnyPlan(t, c) ==
  t.buy /\ t.value # None /\ t.value >= IF t.role \in c.roles THEN c.minRoleBuy ELSE c.minBuy

ThresholdForRole(c, role) == IF role \in c.roles THEN c.minRoleBuy ELSE c.minBuy

ClassifyInsiderTransaction(t, c) ==
  /\ t.buy
  /\ t.discretionary
  /\ t.value # None
  /\ t.value >= ThresholdForRole(c, t.role)

ClassifyBuyback(b, c) == b.value >= c.minBuyback

IsNotable(f, row, c) ==
  IF f \in Transactions THEN ClassifyInsiderTransaction(row, c) ELSE ClassifyBuyback(row, c)

\* Fault: a new signal starts in a status the column does not allow.
NewSignalUnsent(notable) ==
  [notable |-> notable, superseded |-> FALSE, status |-> IF notable THEN "unsent" ELSE "not_applicable"]

NewSignal(notable) ==
  [notable |-> notable, superseded |-> FALSE,
   status |-> IF notable THEN "pending" ELSE "not_applicable"]

\* What _upsert_signal makes of a signal that exists.
ReclassifiedSignal(row, notable) ==
  [row EXCEPT
     !.notable = notable,
     !.status = CASE notable /\ row.status = "not_applicable" -> "pending"
                  [] ~notable -> "not_applicable"
                  [] OTHER -> @]

\* The copies a repository's list() makes of the rows of S.
Copies(S) == {[rec |-> f, data |-> rows[f]] : f \in S}

ReadThresholds(p) ==
  /\ pc[p] = "thresholds"
  /\ Remember(p, [mem[p] EXCEPT !.conf = config])
  /\ Goto(p, "listTxns")
  /\ UNCHANGED <<tables, outside, cmd>>

\* Fault: the test on superseded_by_id is inverted.
ListSupersededTransactions(p) ==
  /\ pc[p] = "listTxns"
  /\ Remember(p, [mem[p] EXCEPT !.list = Copies({t \in Transactions \cap Stored : ~Current(t)})])
  /\ Goto(p, "txns")
  /\ UNCHANGED <<tables, outside, cmd>>

\* txn_repo.list(), of which superseded rows are skipped.
ListTransactions(p) ==
  /\ pc[p] = "listTxns"
  /\ Remember(p, [mem[p] EXCEPT !.list = Copies({t \in Transactions : Current(t)})])
  /\ Goto(p, "txns")
  /\ UNCHANGED <<tables, outside, cmd>>

\* event_repo.list(), after the last transaction.
ListBuybacks(p) ==
  /\ pc[p] = "txns"
  /\ mem[p].list = {}
  /\ Remember(p, [mem[p] EXCEPT !.list = Copies({b \in Buybacks : Current(b)})])
  /\ Goto(p, "buybacks")
  /\ UNCHANGED <<tables, outside, cmd>>

\* Read the signal of the next record.  Two rows raise; an existing one is
\* left alone unless --reclassify; otherwise the signal to save is computed.
ReadRecordSignal(p, x) ==
  /\ pc[p] \in {"txns", "buybacks"}
  /\ LET f == x.rec
         notable == IsNotable(f, x.data, mem[p].conf)
         m == [mem[p] EXCEPT !.list = @ \ {x}]
     IN
       \/ /\ SignalCount(f) > 1
          /\ Exit(p)
       \/ /\ SignalCount(f) = 1
          /\ cmd[p] # "reclassify"
          /\ Remember(p, m)
          /\ UNCHANGED <<pc, cmd>>
       \/ /\ SignalCount(f) = 1
          /\ cmd[p] = "reclassify"
          /\ Remember(p, [m EXCEPT !.held = [TheSignal(f) EXCEPT
                                              !.row = ReclassifiedSignal(@, notable)]])
          /\ Goto(p, "saveSignal")
          /\ UNCHANGED cmd
       \/ /\ SignalCount(f) = 0
          /\ Remember(p, [m EXCEPT !.held = [rec |-> f, k |-> 0, row |-> NewSignal(notable)]])
          /\ Goto(p, "saveSignal")
          /\ UNCHANGED cmd
  /\ UNCHANGED <<tables, outside>>

\* signal_repo.save(signal)
SaveRecordSignal(p) ==
  /\ pc[p] = "saveSignal"
  /\ Selected(mem[p])
  /\ SaveSignal(mem[p].held, mem[p].seen)
  /\ Remember(p, [mem[p] EXCEPT !.held = None, !.seen = None])
  /\ Goto(p, IF mem[p].held.rec \in Transactions THEN "txns" ELSE "buybacks")
  /\ UNCHANGED <<rows, config, outside, cmd>>

EndClassify(p) ==
  /\ pc[p] = "buybacks"
  /\ mem[p].list = {}
  /\ EndPhase(p, "listPending")
  /\ UNCHANGED <<tables, outside>>

ClassifyNext(p) ==
  \/ ReadThresholds(p)
  \/ ListTransactions(p)
  \/ ListBuybacks(p)
  \/ \E x \in mem[p].list : ReadRecordSignal(p, x)
  \/ SaveRecordSignal(p)
  \/ EndClassify(p)
=============================================================================
