------------------------------- MODULE Notify -------------------------------
(***************************************************************************)
(* run_notify (notifications/orchestrator.py): the pending signals are     *)
(* listed once; each is e-mailed and then saved with the outcome.          *)
(***************************************************************************)
EXTENDS Store

\* Signal.transition_notification: the statuses each status may become.
Transitions ==
  [s \in Statuses |-> IF s = "pending" THEN {"sent", "failed"} ELSE {}]

ListPending(p) ==
  /\ pc[p] = "listPending"
  /\ Remember(p, [mem[p] EXCEPT !.batch = PendingSignals])
  /\ Goto(p, "send")
  /\ UNCHANGED <<tables, outside, cmd>>

\* transition_notification(outcome) on the signal in hand.
Transition(h, outcome) == [h EXCEPT !.row.status = outcome]
CanTransition(h, outcome) == outcome \in Transitions[h.row.status]

\* send_email returns: the server accepted the message.
SendMail(p, h) ==
  /\ pc[p] = "send"
  /\ h \in mem[p].batch
  /\ CanTransition(h, "sent")
  /\ mails' = [mails EXCEPT ![h.rec] = @ + 1]
  /\ Remember(p, [mem[p] EXCEPT !.batch = @ \ {h}, !.held = Transition(h, "sent")])
  /\ Goto(p, "resolve")
  /\ UNCHANGED <<tables, today, cmd, runs, aborts>>

\* Fault: no `continue` after a failed send, so the signal is marked sent.
SendMailFallsThrough(p, h) ==
  /\ pc[p] = "send"
  /\ h \in mem[p].batch
  /\ UNCHANGED mails
  /\ Remember(p, [mem[p] EXCEPT !.batch = @ \ {h}, !.held = Transition(h, "sent")])
  /\ Goto(p, "resolve")
  /\ UNCHANGED <<tables, today, cmd, runs, aborts>>

\* send_email raises EmailSendError: any failure of the SMTP session, before
\* the message was accepted or, in the reply to QUIT, after.
SendMailFails(p, h) ==
  /\ pc[p] = "send"
  /\ h \in mem[p].batch
  /\ CanTransition(h, "failed")
  /\ \E accepted \in {0, 1} : mails' = [mails EXCEPT ![h.rec] = @ + accepted]
  /\ Remember(p, [mem[p] EXCEPT !.batch = @ \ {h}, !.held = Transition(h, "failed")])
  /\ Goto(p, "resolve")
  /\ UNCHANGED <<tables, today, cmd, runs, aborts>>

\* Fault: the outcome is not saved.
SaveOutcomeForgotten(p) ==
  /\ pc[p] = "resolve"
  /\ Remember(p, [mem[p] EXCEPT !.held = None, !.seen = None])
  /\ Goto(p, "send")
  /\ UNCHANGED <<tables, outside, cmd>>

\* signal_repo.save(signal)
SaveOutcome(p) ==
  /\ pc[p] = "resolve"
  /\ Selected(mem[p])
  /\ SaveSignal(mem[p].held, mem[p].seen)
  /\ Remember(p, [mem[p] EXCEPT !.held = None, !.seen = None])
  /\ Goto(p, "send")
  /\ UNCHANGED <<rows, config, outside, cmd>>

EndNotify(p) ==
  /\ pc[p] = "send"
  /\ mem[p].batch = {}
  /\ EndPhase(p, "idle")
  /\ UNCHANGED <<tables, outside>>

NotifyNext(p) ==
  \/ ListPending(p)
  \/ \E h \in mem[p].batch : SendMail(p, h)
  \/ \E h \in mem[p].batch : SendMailFails(p, h)
  \/ SaveOutcome(p)
  \/ EndNotify(p)
=============================================================================
