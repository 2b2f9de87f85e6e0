------------------------------- MODULE Ingest -------------------------------
(***************************************************************************)
(* run_ingest over the candidates its sources yield, one statement of a    *)
(* repository call per step: de-duplication, amendment detection and       *)
(* supersession (ingestion/dedup.py, called from orchestrator.py).         *)
(*                                                                         *)
(* A filing that could not be fetched or parsed is not a candidate: the    *)
(* set of candidates of a run is any subset of the filings, and those of   *)
(* one source come in any order (the SEC feeds list newest first, so an    *)
(* amendment may come before the filing it amends).                        *)
(***************************************************************************)
EXTENDS Store

\* The candidates that may come next: the Form 4 lines are ingested before the
\* buybacks, both before the rows of the OpenInsider page.
NextCandidates(todo) ==
  {f \in todo : \/ f \in Form4
                \/ f \in Buybacks /\ todo \cap Form4 = {}
                \/ todo \subseteq OpenInsider}

\* What the candidate taken next leaves in memory: f with the columns r, or
\* nothing of a row that is dropped.
Taken(m, f, r) == [m EXCEPT !.todo = @ \ {f}, !.cur = f, !.data = r]
Dropped(m, f) == [m EXCEPT !.todo = @ \ {f}]

\* Fault: no look-up by source_ref, every candidate goes through amendment
\* detection.
TakeSecCandidateUnchecked(p, f) ==
  /\ pc[p] = "ingest"
  /\ f \in NextCandidates(mem[p].todo) \ OpenInsider
  /\ \E r \in Reports[f][today] : Remember(p, Taken(mem[p], f, r))
  /\ Goto(p, "priors")
  /\ UNCHANGED <<tables, outside, cmd>>

\* Take the next candidate.  An SEC candidate is looked up by source_ref: a
\* known one is upserted, an unknown one is checked for amendment first.
TakeSecCandidate(p, f) ==
  /\ pc[p] = "ingest"
  /\ f \in NextCandidates(mem[p].todo) \ OpenInsider
  /\ \E r \in Reports[f][today] : Remember(p, Taken(mem[p], f, r))
  /\ Goto(p, IF f \in Stored THEN "upsert" ELSE "priors")
  /\ UNCHANGED <<tables, outside, cmd>>

\* Fault: the fuzzy match ignores superseded Form 4 lines.
TakeOpenInsiderCandidateCurrentOnly(p, f) ==
  /\ pc[p] = "ingest"
  /\ f \in NextCandidates(mem[p].todo) \cap OpenInsider
  /\ \E r \in Reports[f][today] :
       \/ /\ \E g \in Form4 : Current(g) /\ rows[g].trade = r.trade
          /\ Remember(p, Dropped(mem[p], f)) /\ UNCHANGED pc
       \/ /\ \A g \in Form4 : ~(Current(g) /\ rows[g].trade = r.trade)
          /\ Remember(p, Taken(mem[p], f, r)) /\ Goto(p, "upsert")
  /\ UNCHANGED <<tables, outside, cmd>>

\* An OpenInsider candidate that matches a stored Form 4 line is dropped; any
\* other is upserted into the row of its place on the page.
TakeOpenInsiderCandidate(p, f) ==
  /\ pc[p] = "ingest"
  /\ f \in NextCandidates(mem[p].todo) \cap OpenInsider
  /\ \E r \in Reports[f][today] :
       \/ Matched(r.trade) /\ Remember(p, Dropped(mem[p], f)) /\ UNCHANGED pc
       \/ ~Matched(r.trade) /\ Remember(p, Taken(mem[p], f, r)) /\ Goto(p, "upsert")
  /\ UNCHANGED <<tables, outside, cmd>>

\* The rows a new SEC candidate supersedes: same natural key, not superseded.
\* For a buyback that is every disclosure of its company and type that was last
\* fetched today, whichever announcement it is of.
FindPriors(p) ==
  /\ pc[p] = "priors"
  /\ Remember(p, [mem[p] EXCEPT !.priors = CurrentRows(mem[p].data.key)])
  /\ Goto(p, "upsert")
  /\ UNCHANGED <<tables, outside, cmd>>

\* The loop over priors goes on, or the candidate is done with.
NextPrior(p, m) ==
  \/ m.priors # {} /\ Goto(p, "mark") /\ Remember(p, m)
  \/ m.priors = {} /\ Goto(p, "ingest") /\ Remember(p, [m EXCEPT !.cur = None])

\* The SELECT of upsert_by_source_ref.
SelectCandidate(p) ==
  /\ pc[p] = "upsert"
  /\ Remember(p, [mem[p] EXCEPT !.seen = rows[mem[p].cur]])
  /\ Goto(p, "write")
  /\ UNCHANGED <<tables, outside, cmd>>

\* Its INSERT.  The source_ref is unique: if another process has inserted it
\* since, IntegrityError ends the command.
InsertCandidate(p) ==
  /\ pc[p] = "write"
  /\ mem[p].seen = None
  /\ \/ /\ mem[p].cur \notin Stored
        /\ rows' = [rows EXCEPT ![mem[p].cur] = mem[p].data]
        /\ NextPrior(p, [mem[p] EXCEPT !.data = None])
        /\ UNCHANGED cmd
     \/ /\ mem[p].cur \in Stored
        /\ Exit(p)
        /\ UNCHANGED rows
  /\ UNCHANGED <<signals, config, outside>>

\* Or its UPDATE.  Every column is assigned from the candidate, superseded_by_id
\* included, which is None there.
UpdateCandidate(p) ==
  /\ pc[p] = "write"
  /\ mem[p].seen # None
  /\ mem[p].cur \in Stored
  /\ rows' = [rows EXCEPT ![mem[p].cur] = Updated(@, mem[p].seen, mem[p].data)]
  /\ NextPrior(p, [mem[p] EXCEPT !.data = None, !.seen = None])
  /\ UNCHANGED <<signals, config, outside, cmd>>

\* The SELECT of mark_superseded(prior.id, new_row.id).
MarkPrior(p, g) ==
  /\ pc[p] = "mark"
  /\ g \in mem[p].priors \cap Stored
  /\ Remember(p, [mem[p] EXCEPT !.priors = @ \ {g}, !.prior = g, !.seen = rows[g]])
  /\ Goto(p, "supersede")
  /\ UNCHANGED <<tables, outside, cmd>>

\* Fault: the arguments of mark_superseded swapped.
SupersedePriorSwapped(p) ==
  /\ pc[p] = "supersede"
  /\ mem[p].prior \in Stored
  /\ rows' = [rows EXCEPT ![mem[p].cur].supersededBy = mem[p].prior]
  /\ Remember(p, [mem[p] EXCEPT !.seen = None])
  /\ Goto(p, "hide")
  /\ UNCHANGED <<signals, config, outside, cmd>>

\* Its UPDATE.
SupersedePrior(p) ==
  /\ pc[p] = "supersede"
  /\ mem[p].prior \in Stored
  /\ LET new == [mem[p].seen EXCEPT !.supersededBy = mem[p].cur]
     IN  rows' = [rows EXCEPT ![mem[p].prior] = Updated(@, mem[p].seen, new)]
  /\ Remember(p, [mem[p] EXCEPT !.seen = None])
  /\ Goto(p, "hide")
  /\ UNCHANGED <<signals, config, outside, cmd>>

\* Read the prior's signal; two rows for one record raise, which no handler
\* between here and the command catches.
ReadPriorSignal(p) ==
  /\ pc[p] = "hide"
  /\ LET g == mem[p].prior IN
       \/ /\ SignalCount(g) > 1
          /\ Exit(p)
       \/ /\ SignalCount(g) = 0 \/ (SignalCount(g) = 1 /\ signals[g][1].superseded)
          /\ NextPrior(p, [mem[p] EXCEPT !.prior = None])
          /\ UNCHANGED cmd
       \/ /\ SignalCount(g) = 1
          /\ ~signals[g][1].superseded
          /\ Remember(p, [mem[p] EXCEPT !.prior = None,
                                !.held = [TheSignal(g) EXCEPT !.row.superseded = TRUE]])
          /\ Goto(p, "saveHidden")
          /\ UNCHANGED cmd
  /\ UNCHANGED <<tables, outside>>

\* signal_repo.save(prior_signal)
HidePriorSignal(p) ==
  /\ pc[p] = "saveHidden"
  /\ Selected(mem[p])
  /\ SaveSignal(mem[p].held, mem[p].seen)
  /\ NextPrior(p, [mem[p] EXCEPT !.held = None, !.seen = None])
  /\ UNCHANGED <<rows, config, outside, cmd>>

EndIngest(p) ==
  /\ pc[p] = "ingest"
  /\ mem[p].todo = {}
  /\ EndPhase(p, "thresholds")
  /\ UNCHANGED <<tables, outside>>

IngestNext(p) ==
  \/ \E f \in Filings : TakeSecCandidate(p, f)
  \/ \E f \in Filings : TakeOpenInsiderCandidate(p, f)
  \/ FindPriors(p)
  \/ SelectCandidate(p)
  \/ InsertCandidate(p)
  \/ UpdateCandidate(p)
  \/ \E g \in Filings : MarkPrior(p, g)
  \/ SupersedePrior(p)
  \/ ReadPriorSignal(p)
  \/ HidePriorSignal(p)
  \/ EndIngest(p)
=============================================================================
