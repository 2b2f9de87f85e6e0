-------------------------- MODULE SignalLifecycle --------------------------
(***************************************************************************)
(* What the pipeline promises about the signal of one record, with no      *)
(* processes, copies or tables: it is recorded once, as notable (pending)  *)
(* or not; a pending signal is e-mailed; it then becomes sent, if its      *)
(* e-mail was delivered, or failed; nothing else changes its status.  It   *)
(* may be hidden, when its filing is amended, and is never shown again.    *)
(* (specs/001-insider-buyback-tracker/data-model.md, Signal.)              *)
(***************************************************************************)
EXTENDS Naturals

CONSTANT Records

VARIABLES
  status,    \* "none" until the record is classified
  hidden,    \* the records whose signal is hidden
  delivered  \* the records an e-mail was delivered about

lvars == <<status, hidden, delivered>>

LInit ==
  /\ status = [r \in Records |-> "none"]
  /\ hidden = {}
  /\ delivered = {}

Record(r, s) ==
  /\ status[r] = "none"
  /\ status' = [status EXCEPT ![r] = s]
  /\ UNCHANGED <<hidden, delivered>>

Deliver(r) ==
  /\ status[r] = "pending"
  /\ delivered' = delivered \cup {r}
  /\ UNCHANGED <<status, hidden>>

Resolve(r, s) ==
  /\ status[r] = "pending"
  /\ s = "sent" => r \in delivered
  /\ status' = [status EXCEPT ![r] = s]
  /\ UNCHANGED <<hidden, delivered>>

Hide(r) ==
  /\ status[r] # "none"
  /\ hidden' = hidden \cup {r}
  /\ UNCHANGED <<status, delivered>>

LNext ==
  \E r \in Records :
    \/ \E s \in {"pending", "not_applicable"} : Record(r, s)
    \/ Deliver(r)
    \/ \E s \in {"sent", "failed"} : Resolve(r, s)
    \/ Hide(r)

LSpec == LInit /\ [][LNext]_lvars
=============================================================================
