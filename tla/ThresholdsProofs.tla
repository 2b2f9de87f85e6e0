-------------------------- MODULE ThresholdsProofs --------------------------
(***************************************************************************)
(* Theorems about Thresholds, for any fields, validators and clients.      *)
(***************************************************************************)
EXTENDS Thresholds, TLAPS

\* An update is in hand wherever one is merged, with what get returned; what set
\* writes was found valid; and get's and set's readings of a field, and the row
\* between them, differ only where others have overtaken the update.
UpdateOK(c) ==
  /\ pc[c] \in {"refresh", "set", "write"} => stored # None
  /\ pc[c] \in {"set", "write"} => update[c] \in Updates /\ read[c] \in Configuration
  /\ pc[c] = "set" => \A f \in Fields \ overtaken[c] : stored[f] = read[c][f]
  /\ pc[c] = "write" =>
       /\ seen[c] \in Configuration
       /\ Valid(Merged(c))
       /\ \A f \in Fields \ overtaken[c] : seen[c][f] = read[c][f]

Inv == TypeOK /\ StoredIsValid /\ \A c \in Clients : UpdateOK(c)

\* A merge of a partial update into a configuration is a configuration.
LEMMA MergedIsConfiguration ==
  ASSUME NEW c \in Clients, update[c] \in Updates, read[c] \in Configuration
  PROVE  Merged(c) \in Configuration
<1> DEFINE u == update[c]
<1>1. PICK F \in SUBSET Fields : u \in [F -> Values] BY ThresholdsAssumption
<1>2. \A f \in Fields : f \in DOMAIN u => u[f] \in Values BY <1>1
<1>3. \A f \in Fields : read[c][f] \in Values BY DEF Configuration
<1> HIDE DEF u
<1>4. \A f \in Fields : (IF f \in DOMAIN u THEN u[f] ELSE read[c][f]) \in Values BY <1>2, <1>3
<1> QED BY <1>4 DEF Merged, Configuration, u

\* An update writes a configuration, and a valid one over a valid one.
LEMMA WrittenIsValid ==
  ASSUME Inv, NEW c \in Clients, pc[c] = "write"
  PROVE  Written(c) \in Configuration /\ Valid(Written(c))
<1> DEFINE m == Merged(c)
<1>1. /\ m \in Configuration /\ Valid(m) /\ stored \in Configuration /\ Valid(stored)
  BY MergedIsConfiguration DEF Inv, UpdateOK, TypeOK, StoredIsValid
<1>2. \A f \in Fields : Written(c)[f] \in {m[f], stored[f]} BY DEF Written
<1>3. \A f \in Fields : m[f] \in Values /\ stored[f] \in Values BY <1>1 DEF Configuration
<1>4. Written(c) \in Configuration BY <1>2, <1>3 DEF Written, Configuration
<1> HIDE DEF m
<1> QED BY <1>1, <1>2, <1>4 DEF Valid

\* A step of one client leaves the others as they were.
LEMMA OthersKeep ==
  ASSUME Inv, NEW c \in Clients, NEW d \in Clients, d # c, stored' = stored,
         pc'[d] = pc[d], update'[d] = update[d], read'[d] = read[d], seen'[d] = seen[d],
         overtaken'[d] = overtaken[d]
  PROVE  UpdateOK(d)'
BY DEF Inv, UpdateOK, Valid, Merged

\* A request that ends leaves Inv as it is.
LEMMA DoneKeeps ==
  ASSUME Inv, NEW c \in Clients, Done(c), UNCHANGED stored,
         overtaken' = overtaken \/ overtaken' = [overtaken EXCEPT ![c] = {}]
  PROVE  Inv'
<1>1. TypeOK' /\ StoredIsValid' BY DEF Inv, TypeOK, Done, StoredIsValid
<1>2. ASSUME NEW d \in Clients PROVE UpdateOK(d)'
  <2>1. CASE d = c
    <3>1. pc'[c] = "idle" BY DEF Done, Inv, TypeOK
    <3> QED BY <2>1, <3>1 DEF UpdateOK
  <2>2. CASE d # c
    <3>1. /\ pc'[d] = pc[d] /\ update'[d] = update[d] /\ read'[d] = read[d] /\ seen'[d] = seen[d]
          /\ overtaken'[d] = overtaken[d]
      BY <2>2 DEF Done, Inv, TypeOK
    <3> QED BY <2>2, <3>1, OthersKeep
  <2> QED BY <2>1, <2>2
<1> QED BY <1>1, <1>2 DEF Inv

\* get returning the row keeps Inv: nothing has overtaken the update yet.
LEMMA GotKeeps ==
  ASSUME Inv, NEW c \in Clients, Got(c), stored # None, UNCHANGED <<stored, overtaken>>
  PROVE  Inv'
<1>1. CASE update[c] = None BY <1>1, DoneKeeps DEF Got
<1>2. CASE update[c] # None
  <2>1. /\ update[c] \in Updates /\ stored \in Configuration BY <1>2 DEF Inv, TypeOK
  <2>2. /\ pc' = [pc EXCEPT ![c] = "set"] /\ read' = [read EXCEPT ![c] = stored]
        /\ UNCHANGED <<update, seen>>
    BY <1>2 DEF Got
  <2>3. TypeOK' /\ StoredIsValid' BY <2>1, <2>2 DEF Inv, TypeOK, StoredIsValid
  <2>4. UpdateOK(c)'
    <3>1. pc'[c] = "set" /\ read'[c] = stored /\ update'[c] = update[c] BY <2>2 DEF Inv, TypeOK
    <3> QED BY <2>1, <3>1 DEF UpdateOK
  <2>5. ASSUME NEW d \in Clients, d # c PROVE UpdateOK(d)'
    <3>1. pc'[d] = pc[d] /\ read'[d] = read[d] BY <2>2, <2>5 DEF Inv, TypeOK
    <3> QED BY <2>2, <2>5, <3>1, OthersKeep
  <2> QED BY <2>3, <2>4, <2>5 DEF Inv
<1> QED BY <1>1, <1>2

\* Inv is inductive, however the requests overlap.
LEMMA InvIsInductive == Inv /\ [Next]_vars => Inv'
<1> SUFFICES ASSUME Inv, [Next]_vars PROVE Inv' OBVIOUS
<1>1. ASSUME NEW c \in Clients, NEW u \in Updates \cup {None}, Request(c, u) PROVE Inv'
  <2>1. TypeOK' /\ StoredIsValid' BY <1>1 DEF Request, Inv, TypeOK, StoredIsValid
  <2>2. pc'[c] = "get" BY <1>1 DEF Request, Inv, TypeOK
  <2>3. UpdateOK(c)' BY <2>2 DEF UpdateOK
  <2>4. ASSUME NEW d \in Clients, d # c PROVE UpdateOK(d)'
    <3>1. pc'[d] = pc[d] /\ update'[d] = update[d] BY <1>1, <2>4 DEF Request, Inv, TypeOK
    <3> QED BY <1>1, <2>4, <3>1, OthersKeep DEF Request
  <2> QED BY <2>1, <2>3, <2>4 DEF Inv
<1>2. ASSUME NEW c \in Clients, ReadRow(c) PROVE Inv'
  <2>1. CASE stored = None
    <3>1. /\ pc' = [pc EXCEPT ![c] = "insert"] /\ UNCHANGED <<stored, update, read, seen, overtaken>>
      BY <1>2, <2>1 DEF ReadRow
    <3>2. TypeOK' /\ StoredIsValid' BY <3>1 DEF Inv, TypeOK, StoredIsValid
    <3>3. ASSUME NEW d \in Clients PROVE UpdateOK(d)'
      <4>1. pc'[d] \notin {"refresh", "set", "write"}
        BY <2>1, <3>1 DEF Inv, TypeOK, UpdateOK
      <4> QED BY <4>1 DEF UpdateOK
    <3> QED BY <3>2, <3>3 DEF Inv
  <2>2. CASE stored # None /\ Got(c) BY <1>2, <2>2, GotKeeps DEF ReadRow
  <2> QED BY <1>2, <2>1, <2>2 DEF ReadRow
<1>3. ASSUME NEW c \in Clients, InsertDefaults(c) PROVE Inv'
  <2>1. CASE /\ stored = None /\ stored' = Defaults /\ pc' = [pc EXCEPT ![c] = "refresh"]
             /\ UNCHANGED <<update, read, seen, overtaken>>
    <3>1. Defaults # None /\ Defaults \in Configuration BY ThresholdsAssumption
    <3>2. TypeOK' /\ StoredIsValid'
      BY <2>1, <3>1, ThresholdsAssumption DEF Inv, TypeOK, StoredIsValid
    <3>3. ASSUME NEW d \in Clients PROVE UpdateOK(d)'
      <4>1. pc'[d] \notin {"set", "write"} BY <2>1 DEF Inv, TypeOK, UpdateOK
      <4> QED BY <2>1, <3>1, <4>1 DEF UpdateOK
    <3> QED BY <3>2, <3>3 DEF Inv
  <2>2. CASE Done(c) /\ UNCHANGED stored
    BY <1>3, <2>2, DoneKeeps DEF InsertDefaults
  <2> QED BY <1>3, <2>1, <2>2 DEF InsertDefaults
<1>4. ASSUME NEW c \in Clients, RefreshRow(c) PROVE Inv'
  <2>1. stored # None BY <1>4 DEF RefreshRow, Inv, UpdateOK
  <2> QED BY <1>4, <2>1, GotKeeps DEF RefreshRow
<1>5. ASSUME NEW c \in Clients, SelectRow(c) PROVE Inv'
  <2>1. /\ pc[c] = "set" /\ Valid(Merged(c)) /\ seen' = [seen EXCEPT ![c] = stored]
        /\ pc' = [pc EXCEPT ![c] = "write"] /\ UNCHANGED <<stored, update, read, overtaken>>
    BY <1>5 DEF SelectRow
  <2>2. /\ stored # None /\ stored \in Configuration /\ update[c] \in Updates
        /\ read[c] \in Configuration /\ \A f \in Fields \ overtaken[c] : stored[f] = read[c][f]
    BY <2>1 DEF Inv, TypeOK, UpdateOK
  <2>3. TypeOK' /\ StoredIsValid' BY <2>1, <2>2 DEF Inv, TypeOK, StoredIsValid
  <2>4. UpdateOK(c)'
    <3>1. pc'[c] = "write" /\ seen'[c] = stored BY <2>1 DEF Inv, TypeOK
    <3>2. Valid(Merged(c))' BY <2>1 DEF Valid, Merged
    <3> QED BY <2>1, <2>2, <3>1, <3>2 DEF UpdateOK
  <2>5. ASSUME NEW d \in Clients, d # c PROVE UpdateOK(d)'
    <3>1. pc'[d] = pc[d] /\ seen'[d] = seen[d] BY <2>1, <2>5 DEF Inv, TypeOK
    <3> QED BY <2>1, <2>5, <3>1, OthersKeep
  <2> QED BY <2>3, <2>4, <2>5 DEF Inv
<1>6. ASSUME NEW c \in Clients, Reject(c) PROVE Inv'
  BY <1>6, DoneKeeps DEF Reject
<1>7. ASSUME NEW c \in Clients, WriteRow(c) PROVE Inv'
  <2> DEFINE changed == {f \in Fields : Written(c)[f] # stored[f]}
  <2>1. /\ pc[c] = "write" /\ stored' = Written(c) /\ Done(c)
        /\ overtaken' = [d \in Clients |-> CASE d = c -> {}
                                            [] d # c /\ pc[d] = "set" -> overtaken[d] \cup changed
                                            [] OTHER -> overtaken[d]]
    BY <1>7 DEF WriteRow
  <2>2. Written(c) \in Configuration /\ Valid(Written(c)) BY <2>1, WrittenIsValid
  <2>3. stored' # None BY <2>1, <2>2, ThresholdsAssumption
  <2>4. overtaken' \in [Clients -> SUBSET Fields] BY <2>1 DEF Inv, TypeOK
  <2>5. TypeOK' /\ StoredIsValid'
    BY <2>1, <2>2, <2>4 DEF Done, Inv, TypeOK, StoredIsValid, Valid
  <2>6. UpdateOK(c)'
    <3>1. pc'[c] = "idle" BY <2>1 DEF Done, Inv, TypeOK
    <3> QED BY <3>1 DEF UpdateOK
  <2>7. ASSUME NEW d \in Clients, d # c PROVE UpdateOK(d)'
    <3>1. /\ pc'[d] = pc[d] /\ update'[d] = update[d] /\ read'[d] = read[d] /\ seen'[d] = seen[d]
      BY <2>1, <2>7 DEF Done, Inv, TypeOK
    <3>2. Valid(Merged(d))' <=> Valid(Merged(d)) BY <3>1 DEF Valid, Merged
    <3>3. CASE pc[d] = "set"
      <4>1. overtaken'[d] = overtaken[d] \cup changed BY <2>1, <2>7, <3>3
      <4>2. \A f \in Fields \ overtaken[d] : stored[f] = read[d][f]
        BY <3>3 DEF Inv, UpdateOK
      <4>3. \A f \in Fields \ overtaken'[d] : stored'[f] = stored[f] BY <2>1, <4>1
      <4>4. \A f \in Fields \ overtaken'[d] : stored'[f] = read'[d][f]
        BY <3>1, <4>1, <4>2, <4>3
      <4> QED BY <2>3, <3>1, <3>3, <4>4 DEF Inv, UpdateOK
    <3>4. CASE pc[d] # "set"
      <4>1. overtaken'[d] = overtaken[d] BY <2>1, <2>7, <3>4
      <4> QED BY <2>3, <3>1, <3>2, <3>4, <4>1 DEF Inv, UpdateOK
    <3> QED BY <3>3, <3>4
  <2> QED BY <2>5, <2>6, <2>7 DEF Inv
<1>8. CASE UNCHANGED vars
  BY <1>8 DEF vars, Inv, TypeOK, StoredIsValid, UpdateOK, Valid, Merged
<1> QED BY <1>1, <1>2, <1>3, <1>4, <1>5, <1>6, <1>7, <1>8 DEF Next

\* Hence Inv holds in every reachable state.
LEMMA InvHolds == Spec => []Inv
<1>1. Init => Inv BY DEF Init, Inv, TypeOK, StoredIsValid, UpdateOK
<1> QED BY <1>1, InvIsInductive, PTL DEF Spec

\* Every variable keeps its type: what a merge of a partial update yields is a
\* configuration of every field.
THEOREM ThresholdsTyped == Spec => []TypeOK
<1>1. Inv => TypeOK BY DEF Inv
<1> QED BY <1>1, InvHolds, PTL

\* The configuration in force is always valid, for any number of overlapping
\* reads and updates.
THEOREM StoredAlwaysValid == Spec => []StoredIsValid
<1>1. Inv => StoredIsValid BY DEF Inv
<1> QED BY <1>1, InvHolds, PTL

\* Only an update changes a stored configuration: the inserts of two first
\* reads never overwrite it.
THEOREM ReadsNeverOverwrite == Spec => OnlyUpdatesChange
<1> DEFINE ByUpdate == stored # None /\ stored' # stored => \E c \in Clients : pc[c] = "write" /\ pc'[c] = "idle"
<1>1. Inv /\ [Next]_vars => [ByUpdate]_vars
  <2> SUFFICES ASSUME Inv, Next, stored # None, stored' # stored
               PROVE  \E c \in Clients : pc[c] = "write" /\ pc'[c] = "idle"
    BY DEF vars
  <2>1. PICK c \in Clients : WriteRow(c)
    BY DEF Next, Request, ReadRow, InsertDefaults, RefreshRow, SelectRow, Reject
  <2> QED BY <2>1 DEF WriteRow, Done, Inv, TypeOK
<1> QED BY <1>1, InvHolds, PTL DEF Spec, OnlyUpdatesChange

\* However many clients update the thresholds at once, a field that an update omits
\* goes back to an older value only if its change fell between the update's get and
\* the SELECT of its set.
THEOREM OvertakenFieldsOnly == Spec => OnlyOvertakenFieldsRevert
<1> DEFINE Kept == \A c \in Clients :
              pc[c] = "write" /\ pc'[c] = "idle" =>
                \A f \in Fields \ DOMAIN update[c] : stored'[f] # stored[f] => f \in overtaken[c]
<1>1. Inv /\ [Next]_vars => [Kept]_vars
  <2> SUFFICES ASSUME Inv, Next, NEW c \in Clients, pc[c] = "write", pc'[c] = "idle",
                      NEW f \in Fields \ DOMAIN update[c], f \notin overtaken[c]
               PROVE  stored'[f] = stored[f]
    BY DEF vars
  <2>1. PICK d \in Clients : \/ \E u \in Updates \cup {None} : Request(d, u)
                             \/ ReadRow(d)
                             \/ InsertDefaults(d)
                             \/ RefreshRow(d)
                             \/ SelectRow(d)
                             \/ Reject(d)
                             \/ WriteRow(d)
    BY DEF Next
  <2>2. d = c
    <3>1. d # c => pc'[c] = pc[c]
      BY <2>1 DEF Inv, TypeOK, Request, ReadRow, InsertDefaults, RefreshRow, SelectRow, Reject,
                  WriteRow, Got, Done
    <3> QED BY <3>1
  <2>3. WriteRow(c)
    BY <2>1, <2>2 DEF Request, ReadRow, InsertDefaults, RefreshRow, SelectRow, Reject
  <2>4. Merged(c)[f] = read[c][f] BY DEF Merged
  <2>5. seen[c][f] = read[c][f] BY DEF Inv, UpdateOK
  <2>6. stored'[f] = Written(c)[f] BY <2>3 DEF WriteRow
  <2> QED BY <2>4, <2>5, <2>6 DEF Written
<1> QED BY <1>1, InvHolds, PTL DEF Spec, OnlyOvertakenFieldsRevert
=============================================================================
