----------------------------- MODULE Thresholds -----------------------------
(***************************************************************************)
(* The single threshold_configuration row: get and set of                  *)
(* storage/repositories/threshold_repo.py, as called by classify, by       *)
(* `thresholds show` and GET /api/thresholds (get), and by `thresholds     *)
(* set` and PUT /api/thresholds (get, merge, validate, set).               *)
(*                                                                         *)
(* The web server runs each request on a thread of its pool, and the CLI   *)
(* is a process of its own, so requests overlap: every statement sent to   *)
(* the database is a step.                                                 *)
(***************************************************************************)
EXTENDS Naturals

CONSTANTS
  Fields,      \* the settings of a configuration
  Values,      \* what a request may hold for a setting
  ValidValues, \* per setting, what its validator accepts
  Defaults,    \* the configuration of a fresh database
  Clients,     \* threads and processes that call the repository
  Updates,     \* the settings each update may name: functions on sets of fields
  None         \* no row, no value (Python's None)

Configuration == [Fields -> Values]
Valid(c) == \A f \in Fields : c[f] \in ValidValues[f]

ASSUME ThresholdsAssumption ==
  /\ ValidValues \in [Fields -> SUBSET Values]
  /\ Defaults \in Configuration /\ Valid(Defaults)
  /\ Updates \subseteq UNION {[F -> Values] : F \in SUBSET Fields}
  /\ None \notin Configuration \cup Updates

VARIABLES
  stored, \* the row, or None
  pc,     \* where each client is
  update, \* the fields its request names, or None for a read
  read,   \* what get returned to it
  seen,   \* the row as its set has selected it
  overtaken \* auxiliary: the fields that others changed since its get,
            \* until its set selects the row

vars == <<stored, pc, update, read, seen, overtaken>>

Init ==
  /\ stored = None
  /\ pc = [c \in Clients |-> "idle"]
  /\ update = [c \in Clients |-> None]
  /\ read = [c \in Clients |-> None]
  /\ seen = [c \in Clients |-> None]
  /\ overtaken = [c \in Clients |-> {}]

Request(c, u) ==
  /\ pc[c] = "idle"
  /\ pc' = [pc EXCEPT ![c] = "get"]
  /\ update' = [update EXCEPT ![c] = u]
  /\ UNCHANGED <<stored, read, seen, overtaken>>

Done(c) ==
  /\ pc' = [pc EXCEPT ![c] = "idle"]
  /\ update' = [update EXCEPT ![c] = None]
  /\ read' = [read EXCEPT ![c] = None]
  /\ seen' = [seen EXCEPT ![c] = None]

\* get returned: a read is answered, an update goes on.
Got(c) ==
  IF update[c] = None
  THEN Done(c)
  ELSE /\ pc' = [pc EXCEPT ![c] = "set"]
       /\ read' = [read EXCEPT ![c] = stored]
       /\ UNCHANGED <<update, seen>>

\* get: session.get of the singleton.
ReadRow(c) ==
  /\ pc[c] = "get"
  /\ \/ /\ stored = None
        /\ pc' = [pc EXCEPT ![c] = "insert"]
        /\ UNCHANGED <<update, read, seen>>
     \/ /\ stored # None
        /\ Got(c)
  /\ UNCHANGED <<stored, overtaken>>

\* Fault: the defaults are merged into the table, not inserted.
InsertDefaultsOverwrites(c) ==
  /\ pc[c] = "insert"
  /\ stored' = Defaults
  /\ pc' = [pc EXCEPT ![c] = "refresh"]
  /\ UNCHANGED <<update, read, seen, overtaken>>

\* Fault: the new row's columns are left NULL.
InsertDefaultsNull(c) ==
  /\ pc[c] = "insert"
  /\ stored = None
  /\ stored' = [f \in Fields |-> None]
  /\ pc' = [pc EXCEPT ![c] = "refresh"]
  /\ UNCHANGED <<update, read, seen, overtaken>>

\* get found no row and inserts the defaults.  Two clients may come here: the
\* second insert breaks the primary key and the request fails.
InsertDefaults(c) ==
  /\ pc[c] = "insert"
  /\ \/ /\ stored = None
        /\ stored' = Defaults
        /\ pc' = [pc EXCEPT ![c] = "refresh"]
        /\ UNCHANGED <<update, read, seen>>
     \/ /\ stored # None
        /\ Done(c)
        /\ UNCHANGED stored
  /\ UNCHANGED overtaken

\* session.refresh: get returns the row as it is by now.
RefreshRow(c) ==
  /\ pc[c] = "refresh"
  /\ Got(c)
  /\ UNCHANGED <<stored, overtaken>>

\* Fault: omitted fields fall back to the defaults.
MergedWithDefaults(c) ==
  [f \in Fields |-> IF f \in DOMAIN update[c] THEN update[c][f] ELSE Defaults[f]]

\* A field the update omits is taken from what get returned.
Merged(c) ==
  [f \in Fields |-> IF f \in DOMAIN update[c] THEN update[c][f] ELSE read[c][f]]

\* Fault: the merged configuration is not validated.
SelectRowUnchecked(c) ==
  /\ pc[c] = "set"
  /\ seen' = [seen EXCEPT ![c] = stored]
  /\ pc' = [pc EXCEPT ![c] = "write"]
  /\ UNCHANGED <<stored, update, read, overtaken>>

\* ThresholdConfiguration's validators accept the merged configuration, and set
\* selects the row.  (It is there: get has seen it, and nothing deletes it.)
SelectRow(c) ==
  /\ pc[c] = "set"
  /\ Valid(Merged(c))
  /\ seen' = [seen EXCEPT ![c] = stored]
  /\ pc' = [pc EXCEPT ![c] = "write"]
  /\ UNCHANGED <<stored, update, read, overtaken>>

\* They reject it: status 422, or a traceback of the CLI.
Reject(c) ==
  /\ pc[c] = "set"
  /\ ~Valid(Merged(c))
  /\ Done(c)
  /\ overtaken' = [overtaken EXCEPT ![c] = {}]
  /\ UNCHANGED stored

\* The UPDATE sends the columns that differ from the row as selected.
Written(c) ==
  [f \in Fields |-> IF Merged(c)[f] = seen[c][f] THEN stored[f] ELSE Merged(c)[f]]

WriteRow(c) ==
  /\ pc[c] = "write"
  /\ stored' = Written(c)
  /\ Done(c)
  /\ LET changed == {f \in Fields : Written(c)[f] # stored[f]} IN
       overtaken' = [d \in Clients |-> CASE d = c -> {}
                                         [] d # c /\ pc[d] = "set" -> overtaken[d] \cup changed
                                         [] OTHER -> overtaken[d]]

Next ==
  \E c \in Clients :
    \/ \E u \in Updates \cup {None} : Request(c, u)
    \/ ReadRow(c)
    \/ InsertDefaults(c)
    \/ RefreshRow(c)
    \/ SelectRow(c)
    \/ Reject(c)
    \/ WriteRow(c)

Spec == Init /\ [][Next]_vars

----------------------------------------------------------------------------
TypeOK ==
  /\ stored \in Configuration \cup {None}
  /\ pc \in [Clients -> {"idle", "get", "insert", "refresh", "set", "write"}]
  /\ update \in [Clients -> Updates \cup {None}]
  /\ read \in [Clients -> Configuration \cup {None}]
  /\ seen \in [Clients -> Configuration \cup {None}]
  /\ overtaken \in [Clients -> SUBSET Fields]

\* What classify reads is valid, whatever the updates asked for and however
\* they overlapped (domain/threshold_configuration.py).
StoredIsValid == stored # None => Valid(stored)

\* A read never undoes an update: two first reads that race to insert the
\* defaults cannot write them over a configuration set in between.
OnlyUpdatesChange ==
  [][stored # None /\ stored' # stored => \E c \in Clients : pc[c] = "write" /\ pc'[c] = "idle"]_vars

\* An update undoes another one's change of a field that it omits itself only if
\* that change fell between its get and the SELECT of its set: a change that was
\* made before its get, or is made while its UPDATE is under way, stays
\* (routes/thresholds.py: "an omitted field keeps its current value").
OnlyOvertakenFieldsRevert ==
  [][\A c \in Clients :
       pc[c] = "write" /\ pc'[c] = "idle" =>
         \A f \in Fields \ DOMAIN update[c] :
           stored'[f] # stored[f] => f \in overtaken[c]]_vars
=============================================================================
