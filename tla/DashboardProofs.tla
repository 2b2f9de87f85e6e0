-------------------------- MODULE DashboardProofs --------------------------
(***************************************************************************)
(* What a reader of the signals table gets, for any signals, filters and   *)
(* page sizes, however many rows are written between its SELECTs.          *)
(***************************************************************************)
EXTENDS Dashboard, FiniteSetTheorems, WellFoundedInduction, TLAPS

----------------------------------------------------------------------------
\* Places in the order of the list.

\* A nonempty set of numbers has a least one.
LEMMA LeastNumber ==
  ASSUME NEW S, S \subseteq Nat, S # {}
  PROVE  \E m \in S : \A i \in S : m <= i
<1> DEFINE Up == {0..i : i \in S}
<1>1. Up \subseteq FiniteSubsetsOf(Nat) /\ Up # {}
  <2>1. \A i \in S : IsFiniteSet(0..i) BY FS_Interval
  <2>2. \A i \in S : 0..i \subseteq Nat OBVIOUS
  <2>3. Up \subseteq FiniteSubsetsOf(Nat) BY <2>1, <2>2 DEF FiniteSubsetsOf
  <2> QED BY <2>3
<1>2. PICK x \in Up : \A y \in Up : <<y, x>> \notin StrictSubsetOrdering(Nat)
  BY <1>1, WFMin, FS_StrictSubsetOrderingWellFounded
<1>3. PICK m \in S : x = 0..m OBVIOUS
<1>4. ASSUME NEW i \in S, ~(m <= i) PROVE FALSE
  <2>1. m \in Nat /\ i \in Nat /\ i < m BY <1>4
  <2>2. 0..i \subseteq 0..m /\ m \in 0..m /\ m \notin 0..i BY <2>1
  <2>3. <<0..i, 0..m>> \in (SUBSET Nat) \X (SUBSET Nat) BY <2>1
  <2>4. <<0..i, 0..m>> \in StrictSubsetOrdering(Nat) BY <2>2, <2>3 DEF StrictSubsetOrdering
  <2> QED BY <1>2, <1>3, <1>4, <2>4
<1> QED BY <1>4

\* The matching rows that come before a signal's.
Newer(s, f) == {t \in Matching(f) : created[t] > created[s]}

\* A rank is a number: finitely many rows precede one.
LEMMA RankType ==
  ASSUME TypeOK, NEW s, NEW f
  PROVE  /\ Matching(f) \subseteq stored /\ IsFiniteSet(Matching(f))
         /\ IsFiniteSet(Newer(s, f)) /\ Rank(s, f) \in Nat /\ Rank(s, f) = Cardinality(Newer(s, f))
<1>1. Matching(f) \subseteq stored /\ stored \subseteq Signals BY DEF Matching, TypeOK
<1>2. IsFiniteSet(Matching(f)) BY <1>1, SignalsAssumption, FS_Subset
<1>3. IsFiniteSet(Newer(s, f)) BY <1>2, FS_Subset DEF Newer
<1> QED BY <1>1, <1>2, <1>3, FS_CardinalityType DEF Rank, Newer

\* An older signal comes after every newer one that matches.
LEMMA OlderComesLater ==
  ASSUME TypeOK, NEW f, NEW s \in Matching(f), NEW t \in Signals, created[t] < created[s]
  PROVE  Rank(s, f) < Rank(t, f)
<1>1. s \in Signals /\ created[s] \in Nat /\ created[t] \in Nat BY DEF Matching, TypeOK
<1>2. Newer(s, f) \cup {s} \subseteq Newer(t, f)
  <2>1. \A u \in Matching(f) : created[u] \in Nat BY DEF Matching, TypeOK
  <2> QED BY <1>1, <2>1 DEF Newer
<1>3. s \notin Newer(s, f) BY <1>1 DEF Newer
<1>4. Cardinality(Newer(s, f) \cup {s}) = Rank(s, f) + 1 BY <1>3, RankType, FS_AddElement
<1>5. Cardinality(Newer(s, f) \cup {s}) <= Rank(t, f) BY <1>2, RankType, FS_Subset
<1> QED BY <1>4, <1>5, RankType

\* No two rows have one place.
LEMMA RankIsInjective ==
  ASSUME TypeOK, NEW f, NEW s \in Matching(f), NEW t \in Matching(f), Rank(s, f) = Rank(t, f)
  PROVE  s = t
<1>1. /\ s \in Signals /\ t \in Signals /\ created[s] # 0
      /\ created[s] \in Nat /\ created[t] \in Nat
  BY DEF Matching, TypeOK
<1>2. ~(created[s] < created[t]) /\ ~(created[t] < created[s])
  BY <1>1, OlderComesLater, RankType
<1>3. created[s] = created[t] BY <1>1, <1>2
<1> QED BY <1>1, <1>3 DEF TypeOK

\* No place before a row's is empty.
LEMMA RanksHaveNoGap ==
  ASSUME TypeOK, NEW f, NEW s \in Matching(f), NEW n \in Nat, n <= Rank(s, f)
  PROVE  \E u \in Matching(f) : Rank(u, f) = n
<1> DEFINE R == {m \in Nat : n <= m /\ \E u \in Matching(f) : Rank(u, f) = m}
<1>1. R \subseteq Nat /\ R # {} BY RankType
<1>2. PICK m \in R : \A i \in R : m <= i BY <1>1, LeastNumber
<1>3. PICK u \in Matching(f) : Rank(u, f) = m BY <1>2
<1>4. CASE m = n BY <1>3, <1>4
<1>5. CASE m # n
  <2>1. m \in Nat /\ m > n /\ m # 0 BY <1>2, <1>5
  <2>2. Newer(u, f) # {} BY <1>3, <2>1, RankType, FS_EmptySet
  <2> DEFINE C == {created[v] : v \in Newer(u, f)}
  <2>3. C \subseteq Nat /\ C # {} BY <2>2 DEF Newer, Matching, TypeOK
  <2>4. PICK c \in C : \A i \in C : c <= i BY <2>3, LeastNumber
  <2>5. PICK v \in Newer(u, f) : created[v] = c BY <2>4
  <2>6. \A t \in Newer(u, f) : created[v] <= created[t] BY <2>4, <2>5
  <2>7. Newer(v, f) = Newer(u, f) \ {v}
    <3>1. \A t \in Matching(f) : t \in Signals /\ created[t] \in Nat /\ created[t] # 0
      BY DEF Matching, TypeOK
    <3>2. v \in Matching(f) /\ u \in Matching(f) /\ created[v] > created[u] BY <1>3, <2>5 DEF Newer
    <3>3. \A t \in Newer(u, f) : t # v => created[t] > created[v]
      <4> TAKE t \in Newer(u, f)
      <4>1. t \in Matching(f) BY DEF Newer
      <4>2. t # v => created[t] # created[v] BY <3>1, <3>2, <4>1 DEF TypeOK
      <4> QED BY <2>6, <3>1, <3>2, <4>1, <4>2
    <3>4. \A t \in Newer(u, f) : t # v => t \in Newer(v, f) BY <3>3 DEF Newer
    <3>5. \A t \in Newer(v, f) : t \in Newer(u, f) /\ t # v
      <4> TAKE t \in Newer(v, f)
      <4>1. t \in Matching(f) /\ created[t] > created[v] BY DEF Newer
      <4> QED BY <3>1, <3>2, <4>1 DEF Newer
    <3> QED BY <3>4, <3>5
  <2>8. v \in Newer(u, f) BY <2>5
  <2>9. Cardinality(Newer(u, f) \ {v}) = Cardinality(Newer(u, f)) - 1
    BY <2>8, RankType, FS_RemoveElement
  <2>10. Rank(v, f) = m - 1 BY <1>3, <2>7, <2>9, RankType
  <2>11. v \in Matching(f) BY <2>5 DEF Newer
  <2>12. m - 1 \in R BY <2>1, <2>10, <2>11
  <2> QED BY <1>2, <2>1, <2>12
<1> QED BY <1>4, <1>5

\* A page from the top has as many rows as it may when a matching row is beyond
\* it, and every matching row when none is.
LEMMA PageSize ==
  ASSUME TypeOK, NEW f, NEW n \in Nat \ {0}
  PROVE  /\ Cardinality(Page(f, 0, n)) =
              IF Cardinality(Matching(f)) < n THEN Cardinality(Matching(f)) ELSE n
         /\ (\E s \in Matching(f) : s \notin Page(f, 0, n)) => Cardinality(Page(f, 0, n)) = n
<1> DEFINE P == Page(f, 0, n)
           rank == [s \in P |-> Rank(s, f)]
<1>1. P = {s \in Matching(f) : Rank(s, f) < n} BY RankType DEF Page
<1>2. IsFiniteSet(P) BY <1>1, RankType, FS_Subset
<1>3. Cardinality(P) \in Nat /\ Cardinality(Matching(f)) \in Nat
  BY <1>2, RankType, FS_CardinalityType
<1>4. rank \in Injection(P, 0..(n - 1))
  <2>1. \A s \in P : Rank(s, f) \in 0..(n - 1) BY <1>1, RankType
  <2>2. \A s, t \in P : Rank(s, f) = Rank(t, f) => s = t BY <1>1, RankIsInjective
  <2> QED BY <2>1, <2>2 DEF Injection, IsInjective
<1>5. IsFiniteSet(0..(n - 1)) /\ Cardinality(0..(n - 1)) = n BY FS_Interval
<1>6. Cardinality(P) <= n
  <2> HIDE DEF rank, P
  <2> QED BY <1>4, <1>5, FS_Injection
<1>7. ASSUME NEW s \in Matching(f), s \notin P PROVE Cardinality(P) = n
  <2>1. n <= Rank(s, f) BY <1>1, <1>7, RankType
  <2>2. \A i \in 0..(n - 1) : \E u \in P : rank[u] = i
    <3> TAKE i \in 0..(n - 1)
    <3>1. i \in Nat /\ i <= Rank(s, f) BY <2>1, RankType
    <3>2. PICK u \in Matching(f) : Rank(u, f) = i BY <3>1, RanksHaveNoGap
    <3>3. u \in P BY <1>1, <3>2
    <3> QED BY <3>2, <3>3
  <2>3. rank \in Surjection(P, 0..(n - 1)) BY <1>4, <2>2 DEF Injection, Surjection
  <2> HIDE DEF rank, P
  <2> QED BY <1>4, <1>5, <2>3, FS_Injection
<1>8. CASE \A s \in Matching(f) : s \in P
  <2>1. P = Matching(f) BY <1>1, <1>8
  <2> QED BY <1>3, <1>6, <1>8, <2>1
<1>9. CASE \E s \in Matching(f) : s \notin P
  <2>1. Cardinality(P) = n BY <1>7, <1>9
  <2>2. Cardinality(P) <= Cardinality(Matching(f)) BY <1>1, RankType, FS_Subset
  <2> QED BY <1>3, <2>1, <2>2
<1> QED BY <1>8, <1>9

----------------------------------------------------------------------------
\* Types.

Made == {t \in Signals : created[t] # 0}

\* The clock: the latest object made has the number of those that were made.
TypeInv == TypeOK /\ \A t \in Signals : created[t] <= Cardinality(Made)

\* The types are kept by the making of a signal: its time is later than any other.
LEMMA MakeKeepsTypes ==
  ASSUME TypeInv, NEW s \in Signals, MakeSignal(s)
  PROVE  TypeInv'
<1> USE DEF TypeInv, TypeOK
<1>1. IsFiniteSet(Made) /\ Cardinality(Made) \in Nat
  BY SignalsAssumption, FS_Subset, FS_CardinalityType DEF Made
<1>2. created' = [created EXCEPT ![s] = 1 + Cardinality(Made)] /\ created[s] = 0
  BY DEF MakeSignal, Made
<1>3. Made' = Made \cup {s} /\ s \notin Made
  <2>1. \A t \in Signals : t \in Made' <=> t = s \/ t \in Made BY <1>1, <1>2 DEF Made
  <2>2. Made \subseteq Signals /\ Made' \subseteq Signals BY DEF Made
  <2> QED BY <1>2, <2>1, <2>2 DEF Made
<1>4. Cardinality(Made') = Cardinality(Made) + 1 BY <1>1, <1>3, FS_AddElement
<1>5. \A t \in Signals : created'[t] = IF t = s THEN 1 + Cardinality(Made) ELSE created[t]
  BY <1>2
<1>6. created' \in [Signals -> Nat] BY <1>1, <1>2
<1>7. \A t \in Signals : created'[t] <= Cardinality(Made')
  <2> TAKE t \in Signals
  <2>1. created[t] <= Cardinality(Made) /\ created[t] \in Nat OBVIOUS
  <2> QED BY <1>1, <1>4, <1>5, <2>1
<1>8. \A t, u \in Signals : created'[t] = created'[u] => t = u \/ created'[t] = 0
  <2> TAKE t, u \in Signals
  <2>1. /\ created[t] <= Cardinality(Made) /\ created[t] \in Nat
        /\ created[u] <= Cardinality(Made) /\ created[u] \in Nat
    OBVIOUS
  <2> QED BY <1>1, <1>5, <2>1
<1>9. \A t \in Signals : created[t] # 0 => created'[t] # 0 BY <1>2, <1>5
<1>10. stored' \subseteq {t \in Signals : created'[t] # 0} BY <1>9 DEF MakeSignal
<1>11. UNCHANGED <<stored, notable, hidden, rewrites, pc, query, offset, total, shown,
                   steady, came, left>>
  BY DEF MakeSignal, client
<1> QED BY <1>6, <1>7, <1>8, <1>10, <1>11 DEF Made

\* What matches the filter of the request under way.
Found == Matching(query.filter)
Reading == pc \in {"count", "page"}

\* What saving a row does to the request: nothing, but for the bookkeeping.
LEMMA WriteStep ==
  ASSUME TypeOK, NEW s \in Signals, InsertSignal(s) \/ RewriteSignal(s)
  PROVE  /\ created' = created /\ query' = query /\ offset' = offset /\ total' = total
         /\ shown' = shown /\ pc' = pc
         /\ stored \subseteq stored' /\ stored' \subseteq Signals
         /\ stored' \subseteq {t \in Signals : created[t] # 0}
         /\ notable' \in [Signals -> BOOLEAN] /\ hidden' \in [Signals -> BOOLEAN]
         /\ rewrites' \in Nat
         /\ Reading => /\ steady' = steady \cap Found'
                       /\ came' = came \cup (Found' \ Found)
                       /\ left' = left \cup (Found \ Found')
         /\ ~Reading => UNCHANGED <<steady, came, left>>
<1>1. UNCHANGED client /\ created' = created /\ pc' = pc
  BY DEF InsertSignal, RewriteSignal, client
<1>2. Observe BY DEF InsertSignal, RewriteSignal
<1>3. CASE Reading
  <2>1. /\ steady' = steady \cap Matching(query.filter)'
        /\ came' = came \cup (Matching(query.filter)' \ Matching(query.filter))
        /\ left' = left \cup (Matching(query.filter) \ Matching(query.filter)')
    BY <1>2, <1>3 DEF Observe, Reading
  <2>2. Reading => /\ steady' = steady \cap Found'
                   /\ came' = came \cup (Found' \ Found)
                   /\ left' = left \cup (Found \ Found')
    BY <2>1 DEF Found
  <2> HIDE <1>2
  <2>3. /\ stored \subseteq stored' /\ stored' \subseteq {t \in Signals : created[t] # 0}
        /\ notable' \in [Signals -> BOOLEAN] /\ hidden' \in [Signals -> BOOLEAN]
        /\ rewrites' \in Nat
    BY DEF InsertSignal, RewriteSignal, TypeOK
  <2> QED BY <1>1, <1>3, <2>2, <2>3 DEF client
<1>4. CASE ~Reading
  <2>1. UNCHANGED <<steady, came, left>> BY <1>2, <1>4 DEF Observe, Reading
  <2>3. /\ stored \subseteq stored' /\ stored' \subseteq {t \in Signals : created[t] # 0}
        /\ notable' \in [Signals -> BOOLEAN] /\ hidden' \in [Signals -> BOOLEAN]
        /\ rewrites' \in Nat
    BY DEF InsertSignal, RewriteSignal, TypeOK
  <2> QED BY <1>1, <1>4, <2>1, <2>3 DEF client
<1> QED BY <1>3, <1>4

\* Pages hold rows that match.
LEMMA FoundType ==
  ASSUME TypeOK
  PROVE  /\ Found \subseteq stored /\ Found \subseteq Signals /\ IsFiniteSet(Found)
         /\ Cardinality(Found) \in Nat
<1>1. Found \subseteq stored /\ stored \subseteq Signals /\ IsFiniteSet(Found)
  BY RankType DEF Found, TypeOK
<1> QED BY <1>1, FS_CardinalityType

\* A request asks for at least one row; the dashboard's for RowLimit.
LEMMA LimitType ==
  ASSUME query \in Queries
  PROVE  query.limit \in Nat \ {0} /\ (~query.crawl => query.limit = RowLimit)
<1>1. CASE query = DashboardQuery BY <1>1, SignalsAssumption DEF DashboardQuery
<1>2. CASE query \in [filter : Filters, limit : Limits, crawl : {TRUE}]
  <2>1. query.limit \in Limits /\ query.crawl BY <1>2
  <2> QED BY <2>1, SignalsAssumption
<1> QED BY <1>1, <1>2 DEF Queries

\* The types are kept by every step.
LEMMA TypesStay == TypeInv /\ [Next]_vars => TypeInv'
<1> SUFFICES ASSUME TypeInv, [Next]_vars PROVE TypeInv' OBVIOUS
<1>0. TypeOK BY DEF TypeInv
<1>1. ASSUME NEW s \in Signals, MakeSignal(s) PROVE TypeInv' BY <1>1, MakeKeepsTypes
<1>2. ASSUME NEW s \in Signals, InsertSignal(s) \/ RewriteSignal(s) PROVE TypeInv'
  <2>1. created' = created /\ Made' = Made BY <1>0, <1>2, WriteStep DEF Made
  <2>2. Found' \subseteq Signals
    <3>1. stored' \subseteq Signals BY <1>0, <1>2, WriteStep
    <3> QED BY <3>1 DEF Found, Matching
  <2>3. Found \subseteq Signals BY <1>0, FoundType
  <2>4. steady' \subseteq Signals /\ came' \subseteq Signals /\ left' \subseteq Signals
    BY <1>0, <1>2, <2>2, <2>3, WriteStep DEF TypeOK
  <2>5. TypeOK' BY <1>0, <1>2, <2>4, WriteStep DEF TypeOK
  <2> QED BY <2>1, <2>5 DEF TypeInv
<1>3. ASSUME NEW q \in Queries, Ask(q) PROVE TypeInv'
  <2>1. Matching(q.filter) \subseteq Signals BY <1>0, RankType DEF TypeOK
  <2>2. created' = created BY <1>3 DEF Ask, table
  <2>3. TypeOK' BY <1>0, <1>3, <2>1 DEF TypeOK, Ask, table
  <2> QED BY <2>2, <2>3 DEF TypeInv, Made
<1>4. CASE CountRows
  <2>1. total' \in Nat BY <1>0, <1>4, FoundType DEF CountRows, Counted, Found
  <2>2. TypeOK' BY <1>0, <1>4, <2>1 DEF TypeOK, CountRows, table
  <2> QED BY <1>4, <2>2 DEF TypeInv, Made, CountRows, table
<1>5. CASE ReadPage
  <2>1. query.limit \in Nat BY <1>0, LimitType DEF TypeOK
  <2>2. offset' \in Nat BY <1>0, <1>5, <2>1 DEF ReadPage, NextOffset, TypeOK
  <2>3. shown' \in [Signals -> Nat] BY <1>0, <1>5 DEF ReadPage, TypeOK
  <2>4. pc' \in {"idle", "count", "page", "done"} BY <1>5 DEF ReadPage
  <2>5. UNCHANGED <<created, stored, notable, hidden, rewrites, query, total, steady, came, left>>
    BY <1>5 DEF ReadPage, table
  <2>6. TypeOK' BY <1>0, <2>2, <2>3, <2>4, <2>5 DEF TypeOK
  <2> QED BY <2>5, <2>6 DEF TypeInv, Made
<1>6. CASE UNCHANGED vars
  BY <1>6 DEF TypeInv, TypeOK, Made, vars, table, client
<1> QED BY <1>1, <1>2, <1>3, <1>4, <1>5, <1>6 DEF Next

\* The first state has them.
LEMMA InitTypes == Init => TypeInv
<1> SUFFICES ASSUME Init PROVE TypeInv OBVIOUS
<1>1. TypeOK BY SignalsAssumption DEF Init, TypeOK, Queries
<1>2. Made = {} BY DEF Init, Made
<1>3. Cardinality(Made) = 0 BY <1>2, FS_EmptySet
<1> QED BY <1>1, <1>3 DEF TypeInv, Init

\* Types, whatever is asked and written (SignalRepository, routes).
THEOREM Typing == Spec => []TypeOK
<1>1. TypeInv => TypeOK BY DEF TypeInv
<1> QED BY <1>1, InitTypes, TypesStay, PTL DEF Spec

----------------------------------------------------------------------------
\* What a request has seen.

\* Whatever the request has met has a row, and what matched all along still does.
BaseInv ==
  /\ steady \cup came \cup left \subseteq stored
  /\ \A s \in Signals : shown[s] > 0 => s \in stored
  /\ Reading => steady \subseteq Found /\ Found \subseteq steady \cup came

\* The rows that come before a signal's in the list being read.
Ahead(s) == Newer(s, query.filter)
Place(s) == Rank(s, query.filter)

\* Places are numbers, counted by the rows ahead.
LEMMA PlaceType ==
  ASSUME TypeOK, NEW s
  PROVE  /\ Place(s) \in Nat /\ Place(s) = Cardinality(Ahead(s)) /\ IsFiniteSet(Ahead(s))
         /\ Ahead(s) = {t \in Found : created[t] > created[s]}
BY RankType DEF Place, Ahead, Found, Newer

PlacesOK == \A s \in Signals : Place(s) \in Nat

\* So are they after a step.
LEMMA PlacesAfter == TypeOK' => PlacesOK'
<1>1. TypeOK => PlacesOK BY PlaceType DEF PlacesOK
<1> QED BY <1>1, PTL

\* The page that a request reads.
Here == Page(query.filter, offset, query.limit)

\* It is the rows at the next places.
LEMMA HereType == Here = {s \in Found : offset <= Place(s) /\ Place(s) < offset + query.limit}
BY DEF Here, Page, Found, Place

\* Objects get their time before they are saved: nothing that has a row moves.
LEMMA MakeMovesNothing ==
  ASSUME TypeOK, NEW x \in Signals, MakeSignal(x)
  PROVE  /\ x \notin stored /\ \A s \in stored : created'[s] = created[s]
         /\ Found' = Found /\ \A s \in stored : Place(s)' = Place(s)
         /\ UNCHANGED <<stored, pc, query, offset, total, shown, steady, came, left>>
<1>1. x \notin stored /\ \A s \in stored : created'[s] = created[s]
  BY DEF MakeSignal, TypeOK
<1>2. UNCHANGED <<stored, notable, hidden, pc, query, offset, total, shown, steady, came, left>>
  BY DEF MakeSignal, client
<1>3. Found' = Found BY <1>2 DEF Found, Matching
<1>4. \A s \in stored : Ahead(s)' = Ahead(s)
  <2> TAKE s \in stored
  <2>1. Ahead(s)' = {t \in Found' : created'[t] > created'[s]} BY DEF Ahead, Newer, Found
  <2>2. Ahead(s) = {t \in Found : created[t] > created[s]} BY DEF Ahead, Newer, Found
  <2>3. \A t \in Found : created'[t] = created[t] BY <1>1, FoundType
  <2> QED BY <1>1, <1>3, <2>1, <2>2, <2>3
<1>5. \A s \in stored : Place(s)' = Place(s)
  <2> TAKE s \in stored
  <2>1. Place(s)' = Cardinality(Ahead(s)') BY DEF Place, Rank, Ahead, Newer
  <2>2. Place(s) = Cardinality(Ahead(s)) BY PlaceType
  <2> QED BY <1>4, <2>1, <2>2
<1> QED BY <1>1, <1>2, <1>3, <1>5

\* A row moves up only if a newer one ceased to match, and down only if one came.
LEMMA WriteMoves ==
  ASSUME TypeOK, TypeOK', Reading, NEW x \in Signals, InsertSignal(x) \/ RewriteSignal(x),
         NEW s \in Signals
  PROVE  /\ (\A t \in left' : ~(created'[t] > created'[s])) => Place(s) <= Place(s)'
         /\ (\A t \in came' : ~(created'[t] > created'[s])) => Place(s)' <= Place(s)
<1>1. created' = created BY WriteStep
<1>2. left' = left \cup (Found \ Found') /\ came' = came \cup (Found' \ Found) BY WriteStep
<1>3. Place(s) = Cardinality(Ahead(s)) /\ IsFiniteSet(Ahead(s)) /\ Place(s) \in Nat
      /\ Ahead(s) = {t \in Found : created[t] > created[s]}
  BY PlaceType
<1>4. Ahead(s)' = {t \in Found' : created'[t] > created'[s]} BY DEF Ahead, Newer, Found
<1>5. Place(s)' = Cardinality(Ahead(s)') BY DEF Place, Rank, Ahead, Newer
<1>6. IsFiniteSet(Ahead(s)')
  <2>1. Found' \subseteq Signals
    <3>1. stored' \subseteq Signals BY WriteStep
    <3> QED BY <3>1 DEF Found, Matching
  <2>2. Ahead(s)' \subseteq Signals BY <1>4, <2>1
  <2> QED BY <2>2, SignalsAssumption, FS_Subset
<1>7. ASSUME \A t \in left' : ~(created'[t] > created'[s]) PROVE Place(s) <= Place(s)'
  <2>1. Ahead(s) \subseteq Ahead(s)' BY <1>1, <1>2, <1>3, <1>4, <1>7
  <2> QED BY <1>3, <1>5, <1>6, <2>1, FS_Subset
<1>8. ASSUME \A t \in came' : ~(created'[t] > created'[s]) PROVE Place(s)' <= Place(s)
  <2>1. Ahead(s)' \subseteq Ahead(s) BY <1>1, <1>2, <1>3, <1>4, <1>8
  <2> QED BY <1>3, <1>5, <1>6, <2>1, FS_Subset
<1> QED BY <1>7, <1>8

\* BaseInv is kept.
LEMMA BaseStays == TypeOK /\ TypeOK' /\ BaseInv /\ [Next]_vars => BaseInv'
<1> SUFFICES ASSUME TypeOK, TypeOK', BaseInv, [Next]_vars PROVE BaseInv' OBVIOUS
<1>0. Found \subseteq stored BY FoundType
<1>1. ASSUME NEW x \in Signals, MakeSignal(x) PROVE BaseInv'
  <2>1. Reading' = Reading BY <1>1, MakeMovesNothing DEF Reading
  <2> QED BY <1>1, <2>1, MakeMovesNothing DEF BaseInv
<1>2. ASSUME NEW x \in Signals, InsertSignal(x) \/ RewriteSignal(x) PROVE BaseInv'
  <2>1. Found' \subseteq stored' BY DEF Found, Matching
  <2>2. Reading' = Reading BY <1>2, WriteStep DEF Reading
  <2>3. CASE Reading
    <3>1. /\ steady' = steady \cap Found' /\ came' = came \cup (Found' \ Found)
          /\ left' = left \cup (Found \ Found') /\ stored \subseteq stored' /\ shown' = shown
      BY <1>2, <2>3, WriteStep
    <3> QED BY <1>0, <2>1, <2>3, <3>1 DEF BaseInv
  <2>4. CASE ~Reading
    <3>1. UNCHANGED <<steady, came, left>> /\ stored \subseteq stored' /\ shown' = shown
      BY <1>2, <2>4, WriteStep
    <3> QED BY <2>2, <2>4, <3>1 DEF BaseInv
  <2> QED BY <2>3, <2>4
<1>3. ASSUME NEW q \in Queries, Ask(q) PROVE BaseInv'
  <2>1. UNCHANGED <<stored, notable, hidden>> BY <1>3 DEF Ask, table
  <2>2. steady' = Matching(q.filter) /\ came' = {} /\ left' = {} /\ query' = q
        /\ \A s \in Signals : shown'[s] = 0
    BY <1>3 DEF Ask
  <2>3. Found' = Matching(q.filter) BY <2>1, <2>2 DEF Found, Matching
  <2>4. Matching(q.filter) \subseteq stored BY DEF Matching
  <2> QED BY <2>1, <2>2, <2>3, <2>4 DEF BaseInv
<1>4. CASE CountRows
  <2>1. UNCHANGED <<stored, notable, hidden, query, shown, steady, came, left>> /\ Reading
    BY <1>4 DEF CountRows, table, Reading
  <2>2. Found' = Found BY <2>1 DEF Found, Matching
  <2> QED BY <2>1, <2>2 DEF BaseInv
<1>5. CASE ReadPage
  <2>1. UNCHANGED <<stored, notable, hidden, query, steady, came, left>> /\ Reading
    BY <1>5 DEF ReadPage, table, Reading
  <2>2. Found' = Found BY <2>1 DEF Found, Matching
  <2>3. \A s \in Signals : shown'[s] = IF s \in Here THEN shown[s] + 1 ELSE shown[s]
    BY <1>5 DEF ReadPage, Here
  <2>4. \A s \in Signals : shown'[s] > 0 => s \in stored
    BY <1>0, <2>3, HereType DEF BaseInv
  <2> QED BY <2>1, <2>2, <2>4 DEF BaseInv
<1>6. CASE UNCHANGED vars
  <2>1. Found' = Found /\ Reading' = Reading
    BY <1>6 DEF Found, Matching, Reading, vars, table, client
  <2> QED BY <1>6, <2>1 DEF BaseInv, vars, table, client
<1> QED BY <1>1, <1>2, <1>3, <1>4, <1>5, <1>6 DEF Next

\* Where no row is written, none moves.
LEMMA Still ==
  ASSUME UNCHANGED <<table, query>>
  PROVE  Found' = Found /\ \A s \in Signals : Place(s)' = Place(s)
BY DEF table, Found, Matching, Place, Rank

\* A page is read: its rows are shown, and a client goes on unless it is empty.
LEMMA ReadStep ==
  ASSUME TypeOK, ReadPage
  PROVE  /\ UNCHANGED <<created, stored, query, total, steady, came, left>> /\ pc = "page"
         /\ \A s \in Signals : shown'[s] = IF s \in Here THEN shown[s] + 1 ELSE shown[s]
         /\ Found' = Found /\ \A s \in Signals : Place(s)' = Place(s)
         /\ IF query.crawl /\ Here # {} THEN pc' = "count" /\ offset' = offset + query.limit
                                        ELSE pc' = "done" /\ offset' = offset
<1>1. UNCHANGED <<table, query, total, steady, came, left>> /\ pc = "page" BY DEF ReadPage
<1>2. Found' = Found /\ \A s \in Signals : Place(s)' = Place(s) BY <1>1, Still
<1>3. \A s \in Signals : shown'[s] = IF s \in Here THEN shown[s] + 1 ELSE shown[s]
  BY DEF ReadPage, Here
<1>4. IF query.crawl /\ Here # {} THEN pc' = "count" /\ offset' = offset + query.limit
                                  ELSE pc' = "done" /\ offset' = offset
  BY DEF ReadPage, Here, NextOffset
<1> QED BY <1>1, <1>2, <1>3, <1>4 DEF table

\* A request begins with nothing shown, and with what matches then.
LEMMA AskStep ==
  ASSUME NEW q \in Queries, Ask(q)
  PROVE  /\ created' = created /\ stored' = stored /\ pc' = "count" /\ query' = q /\ offset' = 0
         /\ \A s \in Signals : shown'[s] = 0
         /\ steady' = Found' /\ came' = {} /\ left' = {}
BY DEF Ask, table, Found, Matching

\* Rows are counted.
LEMMA CountStep ==
  ASSUME CountRows
  PROVE  /\ UNCHANGED <<created, stored, query, offset, shown, steady, came, left>>
         /\ pc = "count" /\ pc' = "page" /\ total' = Cardinality(Found)
         /\ Found' = Found /\ \A s \in Signals : Place(s)' = Place(s)
BY Still DEF CountRows, Counted, Found, table

\* A step that changes nothing.
LEMMA StutterStep ==
  ASSUME UNCHANGED vars
  PROVE  /\ UNCHANGED <<created, stored, pc, query, offset, total, shown, steady, came, left>>
         /\ Found' = Found /\ \A s \in Signals : Place(s)' = Place(s)
BY Still DEF vars, table, client

----------------------------------------------------------------------------
\* A client that goes from page to page.

\* A signal that matched all along is shown already, or comes later, or was moved
\* up by a newer one that ceased to match.
MissedInv ==
  /\ Reading /\ query.crawl =>
       \A s \in steady : \/ shown[s] > 0 \/ offset <= Place(s)
                         \/ \E t \in left : created[t] > created[s]
  /\ MissedOnlyIfOthersLeft

\* MissedInv is kept.
LEMMA MissedStays ==
  TypeOK /\ TypeOK' /\ BaseInv /\ BaseInv' /\ MissedInv /\ [Next]_vars => MissedInv'
<1> SUFFICES ASSUME TypeOK, TypeOK', BaseInv, BaseInv', MissedInv, [Next]_vars
             PROVE  MissedInv'
  OBVIOUS
<1>0. steady \subseteq stored /\ left \subseteq stored /\ stored \subseteq Signals
  BY DEF BaseInv, TypeOK
<1>1. ASSUME NEW x \in Signals, MakeSignal(x) PROVE MissedInv'
  <2>1. /\ Reading' = Reading /\ query' = query /\ pc' = pc /\ shown' = shown
        /\ offset' = offset /\ steady' = steady /\ left' = left
    BY <1>1, MakeMovesNothing DEF Reading
  <2>2. /\ \A s \in steady : created'[s] = created[s] /\ Place(s)' = Place(s)
        /\ \A s \in left : created'[s] = created[s]
    BY <1>0, <1>1, MakeMovesNothing
  <2> QED BY <2>1, <2>2 DEF MissedInv, MissedOnlyIfOthersLeft
<1>2. ASSUME NEW x \in Signals, InsertSignal(x) \/ RewriteSignal(x) PROVE MissedInv'
  <2>1. /\ created' = created /\ query' = query /\ pc' = pc /\ shown' = shown
        /\ offset' = offset /\ Reading' = Reading
    BY <1>2, WriteStep DEF Reading
  <2>2. CASE Reading
    <3>1. pc # "done" BY <2>2 DEF Reading
    <3>2. steady' \subseteq steady /\ left \subseteq left' BY <1>2, <2>2, WriteStep
    <3>3. ASSUME query.crawl, NEW s \in steady'
          PROVE \/ shown[s] > 0 \/ offset <= Place(s)'
                \/ \E t \in left' : created[t] > created[s]
      <4>1. s \in steady /\ s \in Signals BY <1>0, <3>2
      <4>2. CASE shown[s] > 0 \/ \E t \in left : created[t] > created[s] BY <3>2, <4>2
      <4>3. CASE offset <= Place(s)
        <5>1. CASE \A t \in left' : ~(created[t] > created[s])
          <6>1. Place(s) <= Place(s)' BY <1>2, <2>1, <2>2, <4>1, <5>1, WriteMoves
          <6>2. Place(s) \in Nat /\ offset \in Nat BY PlaceType DEF TypeOK
          <6>3. Place(s)' \in Nat BY <4>1, PlacesAfter DEF PlacesOK
          <6> QED BY <4>3, <6>1, <6>2, <6>3
        <5> QED BY <5>1
      <4> QED BY <2>2, <3>3, <4>1, <4>2, <4>3 DEF MissedInv
    <3> QED BY <2>1, <3>1, <3>3 DEF MissedInv, MissedOnlyIfOthersLeft
  <2>3. CASE ~Reading
    <3>1. steady' = steady /\ left' = left BY <1>2, <2>3, WriteStep
    <3> QED BY <2>1, <2>3, <3>1 DEF MissedInv, MissedOnlyIfOthersLeft
  <2> QED BY <2>2, <2>3
<1>3. ASSUME NEW q \in Queries, Ask(q) PROVE MissedInv'
  <2>1. offset' = 0 /\ pc' = "count" /\ steady' \subseteq Signals
    BY <1>3, AskStep DEF TypeOK
  <2>2. \A s \in steady' : offset' <= Place(s)'
    <3>1. \A s \in Signals : Place(s)' \in Nat BY PlacesAfter DEF PlacesOK
    <3> QED BY <2>1, <3>1
  <2> QED BY <2>1, <2>2 DEF MissedInv, MissedOnlyIfOthersLeft
<1>4. CASE CountRows
  <2>1. /\ UNCHANGED <<created, query, offset, shown, steady, left>>
        /\ Reading /\ pc' # "done" /\ \A s \in Signals : Place(s)' = Place(s)
    BY <1>4, CountStep DEF Reading
  <2>2. \A s \in steady : Place(s)' = Place(s) BY <1>0, <2>1
  <2> QED BY <2>1, <2>2 DEF MissedInv, MissedOnlyIfOthersLeft
<1>5. CASE ReadPage
  <2>1. /\ UNCHANGED <<created, query, steady, left>> /\ Reading
        /\ \A s \in Signals : shown'[s] = IF s \in Here THEN shown[s] + 1 ELSE shown[s]
        /\ \A s \in Signals : Place(s)' = Place(s)
        /\ IF query.crawl /\ Here # {} THEN pc' = "count" /\ offset' = offset + query.limit
                                       ELSE pc' = "done" /\ offset' = offset
    BY <1>5, ReadStep DEF Reading
  <2>2. query.limit \in Nat \ {0} /\ offset \in Nat BY LimitType DEF TypeOK
  <2>3. ASSUME query.crawl, NEW s \in steady
        PROVE  /\ s \in Found /\ s \in Signals /\ shown[s] \in Nat /\ Place(s) \in Nat
               /\ \/ shown[s] > 0 \/ offset <= Place(s)
                  \/ \E t \in left : created[t] > created[s]
    BY <1>0, <2>1, <2>3, PlaceType DEF MissedInv, BaseInv, TypeOK
  <2>4. CASE query.crawl /\ Here # {}
    <3>1. ASSUME NEW s \in steady
          PROVE  \/ shown'[s] > 0 \/ offset' <= Place(s)'
                 \/ \E t \in left : created[t] > created[s]
      <4>1. CASE s \in Here BY <2>1, <2>3, <2>4, <4>1
      <4>2. CASE s \notin Here
        <5>1. offset <= Place(s) => offset + query.limit <= Place(s)
          BY <2>2, <2>3, <2>4, <4>2, HereType
        <5> QED BY <2>1, <2>3, <2>4, <4>2, <5>1
      <4> QED BY <4>1, <4>2
    <3>2. pc' # "done" BY <2>1, <2>4
    <3> QED BY <2>1, <3>1, <3>2 DEF MissedInv, MissedOnlyIfOthersLeft
  <2>5. CASE ~(query.crawl /\ Here # {})
    <3>1. pc' = "done" /\ ~Reading' BY <2>1, <2>5 DEF Reading
    <3>2. ASSUME query.crawl, NEW s \in steady
          PROVE  shown'[s] > 0 \/ \E t \in left : created[t] > created[s]
      <4>1. Here = {} BY <2>5, <3>2
      <4>2. CASE offset <= Place(s)
        <5>1. s \in Matching(query.filter) /\ offset <= Rank(s, query.filter)
          BY <2>3, <3>2, <4>2 DEF Found, Place
        <5>2. PICK u \in Found : Place(u) = offset
          BY <2>2, <5>1, RanksHaveNoGap DEF Found, Place
        <5>3. u \in Here BY <2>2, <5>2, HereType
        <5> QED BY <4>1, <5>3
      <4> QED BY <2>1, <2>3, <3>2, <4>1, <4>2
    <3> QED BY <2>1, <3>1, <3>2 DEF MissedInv, MissedOnlyIfOthersLeft
  <2> QED BY <2>4, <2>5
<1>6. CASE UNCHANGED vars
  <2>1. /\ UNCHANGED <<created, pc, query, offset, shown, steady, left>>
        /\ \A s \in Signals : Place(s)' = Place(s)
    BY <1>6, StutterStep
  <2>2. \A s \in steady : Place(s)' = Place(s) BY <1>0, <2>1
  <2> QED BY <2>1, <2>2 DEF MissedInv, MissedOnlyIfOthersLeft, Reading
<1> QED BY <1>1, <1>2, <1>3, <1>4, <1>5, <1>6 DEF Next

\* A signal shown is before the place that the client reads next, or was moved
\* down by a newer one that came to match.
RepeatedInv ==
  /\ Reading => \A s \in Signals :
       shown[s] > 0 => Place(s) < offset \/ \E t \in came : created[t] > created[s]
  /\ RepeatedOnlyIfOthersCame

\* RepeatedInv is kept.
LEMMA RepeatedStays ==
  TypeOK /\ TypeOK' /\ BaseInv /\ BaseInv' /\ RepeatedInv /\ [Next]_vars => RepeatedInv'
<1> SUFFICES ASSUME TypeOK, TypeOK', BaseInv, BaseInv', RepeatedInv, [Next]_vars
             PROVE  RepeatedInv'
  OBVIOUS
<1> USE DEF RepeatedInv, RepeatedOnlyIfOthersCame
<1>0. came \subseteq stored /\ \A s \in Signals : shown[s] \in Nat /\ (shown[s] > 0 => s \in stored)
  BY DEF BaseInv, TypeOK
<1>1. ASSUME NEW x \in Signals, MakeSignal(x) PROVE RepeatedInv'
  <2>1. Reading' = Reading /\ shown' = shown /\ offset' = offset /\ came' = came
    BY <1>1, MakeMovesNothing DEF Reading
  <2>2. /\ \A s \in Signals : shown[s] > 0 => created'[s] = created[s] /\ Place(s)' = Place(s)
        /\ \A s \in came : created'[s] = created[s]
    BY <1>0, <1>1, MakeMovesNothing
  <2>3. \A s \in Signals : shown[s] > 1 => created'[s] = created[s] BY <1>0, <2>2
  <2> QED BY <2>1, <2>2, <2>3
<1>2. ASSUME NEW x \in Signals, InsertSignal(x) \/ RewriteSignal(x) PROVE RepeatedInv'
  <2>1. created' = created /\ shown' = shown /\ offset' = offset /\ Reading' = Reading
    BY <1>2, WriteStep DEF Reading
  <2>2. CASE Reading
    <3>1. came \subseteq came' BY <1>2, <2>2, WriteStep
    <3>2. ASSUME NEW s \in Signals, shown[s] > 0
          PROVE  Place(s)' < offset \/ \E t \in came' : created[t] > created[s]
      <4>1. CASE \E t \in came : created[t] > created[s] BY <3>1, <4>1
      <4>2. CASE Place(s) < offset
        <5>1. CASE \A t \in came' : ~(created[t] > created[s])
          <6>1. Place(s)' <= Place(s) BY <1>2, <2>1, <2>2, <5>1, WriteMoves
          <6>2. Place(s) \in Nat /\ offset \in Nat BY PlaceType DEF TypeOK
          <6>3. Place(s)' \in Nat BY PlacesAfter DEF PlacesOK
          <6> QED BY <4>2, <6>1, <6>2, <6>3
        <5> QED BY <5>1
      <4> QED BY <2>2, <3>2, <4>1, <4>2
    <3> QED BY <2>1, <3>1, <3>2
  <2>3. CASE ~Reading
    <3>1. came' = came BY <1>2, <2>3, WriteStep
    <3> QED BY <2>1, <2>3, <3>1
  <2> QED BY <2>2, <2>3
<1>3. ASSUME NEW q \in Queries, Ask(q) PROVE RepeatedInv'
  <2>1. \A s \in Signals : shown'[s] = 0 BY <1>3, AskStep
  <2> QED BY <2>1
<1>4. CASE CountRows
  BY <1>4, CountStep DEF Reading
<1>5. CASE ReadPage
  <2>1. /\ UNCHANGED <<created, came>> /\ Reading
        /\ \A s \in Signals : shown'[s] = IF s \in Here THEN shown[s] + 1 ELSE shown[s]
        /\ \A s \in Signals : Place(s)' = Place(s)
        /\ IF query.crawl /\ Here # {} THEN pc' = "count" /\ offset' = offset + query.limit
                                       ELSE pc' = "done" /\ offset' = offset
    BY <1>5, ReadStep DEF Reading
  <2>2. query.limit \in Nat \ {0} /\ offset \in Nat BY LimitType DEF TypeOK
  <2>3. \A s \in Signals : Place(s) \in Nat BY PlaceType
  <2>4. ASSUME NEW s \in Signals, shown'[s] > 1
        PROVE  \E t \in came' : created'[t] > created'[s]
    <3>1. shown[s] > 0 /\ (shown[s] > 1 \/ s \in Here) BY <1>0, <2>1, <2>4
    <3>2. s \in Here => ~(Place(s) < offset) BY <2>2, <2>3, HereType
    <3> QED BY <2>1, <3>1, <3>2
  <2>5. ASSUME Reading', NEW s \in Signals, shown'[s] > 0
        PROVE  Place(s)' < offset' \/ \E t \in came' : created'[t] > created'[s]
    <3>1. offset' = offset + query.limit BY <2>1, <2>5 DEF Reading
    <3>2. CASE s \in Here BY <2>1, <2>2, <2>3, <3>1, <3>2, HereType
    <3>3. CASE s \notin Here
      <4>1. Place(s) < offset => Place(s) < offset + query.limit BY <2>2, <2>3
      <4> QED BY <2>1, <2>5, <3>1, <3>3, <4>1
    <3> QED BY <3>2, <3>3
  <2> QED BY <2>4, <2>5
<1>6. CASE UNCHANGED vars
  BY <1>6, StutterStep DEF Reading
<1> QED BY <1>1, <1>2, <1>3, <1>4, <1>5, <1>6 DEF Next

----------------------------------------------------------------------------
\* The dashboard.

\* It reads one page from the top, having shown nothing before; what it shows then
\* is what matched, up to its limit.
CutInv ==
  /\ Reading /\ ~query.crawl => offset = 0 /\ \A s \in Signals : shown[s] = 0
  /\ OnlyOldSignalsAreCutOff

\* The rows of a dashboard are its page.
LEMMA DashboardRows ==
  ASSUME TypeOK, CutInv, ReadPage, ~query.crawl
  PROVE  /\ Rows' = Here /\ Here = Page(query.filter, 0, RowLimit) /\ Here \subseteq Found
         /\ pc' = "done" /\ RowLimit \in Nat \ {0}
<1>1. Reading /\ pc' = "done" /\ offset = 0 /\ query.limit = RowLimit
  BY ReadStep, LimitType DEF Reading, CutInv, TypeOK
<1>2. Here = Page(query.filter, 0, RowLimit) BY <1>1 DEF Here
<1>3. Here \subseteq Found BY HereType
<1>4. \A s \in Signals : shown'[s] = IF s \in Here THEN 1 ELSE 0
  <2>1. \A s \in Signals : shown[s] = 0 BY <1>1 DEF CutInv
  <2> QED BY <2>1, ReadStep
<1>5. Rows' = {s \in Signals : shown'[s] > 0} BY DEF Rows
<1>6. Rows' = Here BY <1>3, <1>4, <1>5, FoundType
<1> QED BY <1>1, <1>2, <1>3, <1>6, SignalsAssumption

\* CutInv is kept.
LEMMA CutStays ==
  TypeOK /\ TypeOK' /\ BaseInv /\ BaseInv' /\ CutInv /\ [Next]_vars => CutInv'
<1> SUFFICES ASSUME TypeOK, TypeOK', BaseInv, BaseInv', CutInv, [Next]_vars
             PROVE  CutInv'
  OBVIOUS
<1> USE DEF OnlyOldSignalsAreCutOff
<1>0. /\ steady \subseteq stored /\ Rows \subseteq stored /\ stored \subseteq Signals
      /\ \A s \in Signals : shown[s] > 0 => s \in stored
  BY DEF BaseInv, TypeOK, Rows
<1>1. ASSUME NEW x \in Signals, MakeSignal(x) PROVE CutInv'
  <2>1. /\ Reading' = Reading /\ query' = query /\ pc' = pc /\ shown' = shown
        /\ offset' = offset /\ steady' = steady
    BY <1>1, MakeMovesNothing DEF Reading
  <2>2. \A s \in stored : created'[s] = created[s] BY <1>1, MakeMovesNothing
  <2>3. Rows' = Rows BY <2>1 DEF Rows
  <2>4. \A s \in steady \ Rows : \A t \in Rows :
          created[t] > created[s] => created'[t] > created'[s]
    BY <1>0, <2>2
  <2> QED BY <2>1, <2>3, <2>4 DEF CutInv
<1>2. ASSUME NEW x \in Signals, InsertSignal(x) \/ RewriteSignal(x) PROVE CutInv'
  <2>1. /\ created' = created /\ query' = query /\ pc' = pc /\ shown' = shown
        /\ offset' = offset /\ Reading' = Reading /\ Rows' = Rows
    BY <1>2, WriteStep DEF Reading, Rows
  <2>2. pc = "done" => steady' = steady BY <1>2, WriteStep DEF Reading
  <2> QED BY <2>1, <2>2 DEF CutInv
<1>3. ASSUME NEW q \in Queries, Ask(q) PROVE CutInv'
  <2>1. offset' = 0 /\ pc' = "count" /\ \A s \in Signals : shown'[s] = 0 BY <1>3, AskStep
  <2> QED BY <2>1 DEF CutInv
<1>4. CASE CountRows
  <2>1. UNCHANGED <<query, offset, shown>> /\ Reading /\ pc' # "done"
    BY <1>4, CountStep DEF Reading
  <2> QED BY <2>1 DEF CutInv
<1>5. CASE ReadPage
  <2>1. UNCHANGED <<created, query, steady>> /\ Reading BY <1>5, ReadStep DEF Reading
  <2>2. CASE query.crawl BY <2>1, <2>2 DEF CutInv
  <2>3. CASE ~query.crawl
    <3>1. /\ Rows' = Here /\ Here = Page(query.filter, 0, RowLimit) /\ Here \subseteq Found
          /\ pc' = "done" /\ RowLimit \in Nat \ {0}
      BY <1>5, <2>3, DashboardRows
    <3>2. ~Reading' BY <3>1 DEF Reading
    <3>3. ASSUME NEW s \in steady \ Here
          PROVE  Cardinality(Here) = RowLimit /\ \A t \in Here : created[t] > created[s]
      <4>1. s \in Found /\ s \in stored BY <1>0, <2>1 DEF BaseInv
      <4>2. Cardinality(Here) = RowLimit BY <3>1, <3>3, <4>1, PageSize DEF Found
      <4>3. ASSUME NEW t \in Here PROVE created[t] > created[s]
        <5>1. /\ t \in Found /\ t \in stored /\ t \in Signals /\ s \in Signals /\ t # s
              /\ created[t] \in Nat \ {0} /\ created[s] \in Nat \ {0}
          BY <1>0, <3>1, <3>3, <4>1, FoundType DEF TypeOK
        <5>2. Place(t) \in Nat /\ Place(s) \in Nat BY PlaceType
        <5>3. /\ s \in Matching(query.filter) /\ t \in Matching(query.filter)
              /\ 0 <= Rank(t, query.filter) /\ Rank(t, query.filter) < 0 + RowLimit
              /\ ~(0 <= Rank(s, query.filter) /\ Rank(s, query.filter) < 0 + RowLimit)
          BY <3>1, <3>3, <4>1, <4>3, <5>1 DEF Page, Found
        <5>4. Place(t) < Place(s) BY <3>1, <5>2, <5>3 DEF Place
        <5>5. ~(created[t] < created[s])
          BY <5>1, <5>2, <5>3, <5>4, OlderComesLater DEF Place
        <5>6. created[t] # created[s] BY <5>1 DEF TypeOK
        <5> QED BY <5>1, <5>5, <5>6
      <4> QED BY <4>2, <4>3
    <3> QED BY <2>1, <3>1, <3>2, <3>3 DEF CutInv
  <2> QED BY <2>2, <2>3
<1>6. CASE UNCHANGED vars
  <2>1. /\ UNCHANGED <<created, pc, query, offset, shown, steady>> /\ Rows' = Rows
    BY <1>6, StutterStep DEF Rows
  <2> QED BY <2>1 DEF CutInv, Reading
<1> QED BY <1>1, <1>2, <1>3, <1>4, <1>5, <1>6 DEF Next

\* While nothing changes, the request has counted what matches.
HeadInv ==
  /\ pc = "page" /\ came = {} /\ left = {} => total = Cardinality(steady)
  /\ HeadingCountsRows

\* HeadInv is kept.
LEMMA HeadStays ==
  TypeOK /\ TypeOK' /\ BaseInv /\ BaseInv' /\ CutInv /\ HeadInv /\ [Next]_vars => HeadInv'
<1> SUFFICES ASSUME TypeOK, TypeOK', BaseInv, BaseInv', CutInv, HeadInv, [Next]_vars
             PROVE  HeadInv'
  OBVIOUS
<1> USE DEF HeadingCountsRows
<1>1. ASSUME NEW x \in Signals, MakeSignal(x) PROVE HeadInv'
  <2>1. /\ UNCHANGED <<pc, query, shown, total, steady, came, left>> /\ Rows' = Rows
    BY <1>1, MakeMovesNothing DEF Rows
  <2> QED BY <2>1 DEF HeadInv
<1>2. ASSUME NEW x \in Signals, InsertSignal(x) \/ RewriteSignal(x) PROVE HeadInv'
  <2>1. query' = query /\ pc' = pc /\ total' = total /\ Rows' = Rows
    BY <1>2, WriteStep DEF Rows
  <2>2. CASE Reading
    <3>1. /\ steady' = steady \cap Found' /\ came' = came \cup (Found' \ Found)
          /\ left' = left \cup (Found \ Found')
      BY <1>2, <2>2, WriteStep
    <3>2. steady \subseteq Found BY <2>2 DEF BaseInv
    <3>3. came' = {} /\ left' = {} => steady' = steady /\ came = {} /\ left = {}
      BY <3>1, <3>2
    <3>4. pc # "done" BY <2>2 DEF Reading
    <3> QED BY <2>1, <3>3, <3>4 DEF HeadInv
  <2>3. CASE ~Reading
    <3>1. steady' = steady /\ came' = came /\ left' = left /\ pc # "page"
      BY <1>2, <2>3, WriteStep DEF Reading
    <3> QED BY <2>1, <3>1 DEF HeadInv
  <2> QED BY <2>2, <2>3
<1>3. ASSUME NEW q \in Queries, Ask(q) PROVE HeadInv' BY <1>3, AskStep DEF HeadInv
<1>4. CASE CountRows
  <2>1. /\ UNCHANGED <<steady, came, left>> /\ Reading /\ pc' = "page"
        /\ total' = Cardinality(Found)
    BY <1>4, CountStep DEF Reading
  <2>2. came = {} => Found = steady BY <2>1 DEF BaseInv
  <2> QED BY <2>1, <2>2 DEF HeadInv
<1>5. CASE ReadPage
  <2>1. UNCHANGED <<query, total, steady, came, left>> /\ Reading /\ pc = "page" /\ pc' # "page"
    BY <1>5, ReadStep DEF Reading
  <2>2. ASSUME ~query.crawl, came = {}, left = {}
        PROVE  Cardinality(Rows') = IF total < RowLimit THEN total ELSE RowLimit
    <3>1. Rows' = Page(query.filter, 0, RowLimit) /\ RowLimit \in Nat \ {0}
      BY <1>5, <2>2, DashboardRows
    <3>2. Found = steady BY <2>1, <2>2 DEF BaseInv
    <3>3. total = Cardinality(Matching(query.filter)) BY <2>1, <2>2, <3>2 DEF HeadInv, Found
    <3> QED BY <3>1, <3>3, PageSize
  <2> QED BY <2>1, <2>2 DEF HeadInv
<1>6. CASE UNCHANGED vars
  <2>1. /\ UNCHANGED <<pc, query, shown, total, steady, came, left>> /\ Rows' = Rows
    BY <1>6, StutterStep DEF Rows
  <2> QED BY <2>1 DEF HeadInv
<1> QED BY <1>1, <1>2, <1>3, <1>4, <1>5, <1>6 DEF Next

----------------------------------------------------------------------------
\* Everything together.

ReaderInv == BaseInv /\ MissedInv /\ RepeatedInv /\ CutInv /\ HeadInv

\* Before any request nothing was asked, met or shown.
LEMMA InitReader == Init => ReaderInv
<1> SUFFICES ASSUME Init PROVE ReaderInv OBVIOUS
<1>1. /\ pc = "idle" /\ steady = {} /\ came = {} /\ left = {}
      /\ \A s \in Signals : shown[s] = 0
  BY DEF Init
<1> QED BY <1>1 DEF ReaderInv, BaseInv, MissedInv, MissedOnlyIfOthersLeft, RepeatedInv,
       RepeatedOnlyIfOthersCame, CutInv, OnlyOldSignalsAreCutOff, HeadInv,
       HeadingCountsRows, Reading

\* The invariant holds of every state.
LEMMA Readers == Spec => []ReaderInv
<1>1. TypeInv => TypeOK BY DEF TypeInv
<1>2. TypeOK /\ TypeOK' /\ ReaderInv /\ [Next]_vars => ReaderInv'
  BY BaseStays, MissedStays, RepeatedStays, CutStays, HeadStays DEF ReaderInv
<1> QED BY <1>1, <1>2, InitTypes, TypesStay, InitReader, PTL DEF Spec

\* Going through the pages of /api/signals misses a signal that matched all along
\* only if a newer one ceased to match meanwhile (SignalRepository.list: offset).
THEOREM PagesMissOnlyWhatMovedUp == Spec => []MissedOnlyIfOthersLeft
<1>1. ReaderInv => MissedOnlyIfOthersLeft BY DEF ReaderInv, MissedInv
<1> QED BY <1>1, Readers, PTL

\* It shows a signal twice only if a newer one came to match meanwhile.
THEOREM PagesRepeatOnlyWhatMovedDown == Spec => []RepeatedOnlyIfOthersCame
<1>1. ReaderInv => RepeatedOnlyIfOthersCame BY DEF ReaderInv, RepeatedInv
<1> QED BY <1>1, Readers, PTL

\* The dashboard, at its limit, leaves out the oldest of what is notable all along,
\* and below it nothing (dashboard: _DASHBOARD_ROW_LIMIT).
THEOREM TheDashboardIsFullOfTheNewest == Spec => []OnlyOldSignalsAreCutOff
<1>1. ReaderInv => OnlyOldSignalsAreCutOff BY DEF ReaderInv, CutInv
<1> QED BY <1>1, Readers, PTL

\* The heading counts the rows, or more than the dashboard holds, when nothing is
\* written between the two SELECTs (SignalRepository.list: count, then rows).
THEOREM TheHeadingIsTrue == Spec => []HeadingCountsRows
<1>1. ReaderInv => HeadingCountsRows BY DEF ReaderInv, HeadInv
<1> QED BY <1>1, Readers, PTL
=============================================================================
