--------------------------- MODULE DetectionProofs ---------------------------
(***************************************************************************)
(* What detect_clusters returns, for every set of trades and every window: *)
(* the loop of Clusters is proved by induction over the trades it visits.  *)
(***************************************************************************)
EXTENDS Clusters, FiniteSetTheorems, TLAPS

----------------------------------------------------------------------------
\* Induction, in forms the provers can use: over a set of numbers or of sets.

\* A non-empty set of natural numbers has a least element.
LEMMA LeastNumber ==
  ASSUME NEW T \in SUBSET Nat, T # {}
  PROVE  \E n \in T : \A m \in T : n <= m
<1>1. PICK n \in T : \A m \in T : ~(<<m, n>> \in OpToRel(<, Nat))
  BY NatLessThanWellFounded, WFMin
<1>2. \A m \in T : ~(m < n) BY <1>1 DEF OpToRel
<1> QED BY <1>2

\* A set of natural numbers with 0 and the successor of each member is Nat.
LEMMA InductionOverNat ==
  ASSUME NEW S \in SUBSET Nat, 0 \in S, \A n \in S : n + 1 \in S
  PROVE  S = Nat
<1> SUFFICES ASSUME Nat \ S # {} PROVE FALSE OBVIOUS
<1>1. PICK n \in Nat \ S : \A m \in Nat \ S : n <= m
  <2>1. Nat \ S \in SUBSET Nat OBVIOUS
  <2> QED BY <2>1, LeastNumber
<1>2. n # 0 /\ n - 1 \in Nat OBVIOUS
<1>3. n - 1 \in S BY <1>1, <1>2
<1>4. (n - 1) + 1 \in S BY <1>3
<1> QED BY <1>1, <1>4

\* The subsets of a finite set q are all in G if {} is, and each is that with any
\* one of its elements removed is in G.
LEMMA InductionOverSubsets ==
  ASSUME NEW q, IsFiniteSet(q), NEW G, {} \in G,
         \A v \in SUBSET q : v # {} /\ (\A t \in v : v \ {t} \in G) => v \in G
  PROVE  SUBSET q \subseteq G
<1> DEFINE S == {n \in Nat : \A v \in SUBSET q : Cardinality(v) = n => v \in G}
<1>1. \A v \in SUBSET q : IsFiniteSet(v) /\ Cardinality(v) \in Nat
  BY FS_Subset, FS_CardinalityType
<1>2. 0 \in S
  <2>1. \A v \in SUBSET q : Cardinality(v) = 0 => v = {} BY <1>1, FS_EmptySet
  <2> QED BY <2>1
<1>3. ASSUME NEW n \in S PROVE n + 1 \in S
  <2> SUFFICES ASSUME NEW v \in SUBSET q, Cardinality(v) = n + 1 PROVE v \in G OBVIOUS
  <2>1. v # {} BY FS_EmptySet
  <2>2. ASSUME NEW t \in v PROVE v \ {t} \in G
    <3>1. Cardinality(v \ {t}) = n BY <1>1, <2>2, FS_RemoveElement
    <3> QED BY <3>1
  <2> QED BY <2>1, <2>2
<1>4. S = Nat
  <2> HIDE DEF S
  <2>1. S \in SUBSET Nat BY DEF S
  <2> QED BY <1>2, <1>3, <2>1, InductionOverNat
<1> QED BY <1>1, <1>4

\* A non-empty set of trades has a first day.
LEMMA FirstDayExists ==
  ASSUME NEW g \in SUBSET Trades, g # {}
  PROVE  /\ FirstDay(g) \in Nat
         /\ \A t \in g : FirstDay(g) <= Day[t]
         /\ \E t \in g : FirstDay(g) = Day[t]
<1> DEFINE days == {Day[t] : t \in g}
<1>1. days \in SUBSET Nat /\ days # {} BY ClustersAssumption
<1> HIDE DEF days
<1>2. \E n \in days : \A m \in days : n <= m BY <1>1, LeastNumber
<1>3. Min(days) \in days /\ \A m \in days : Min(days) <= m BY <1>2 DEF Min
<1> QED BY <1>1, <1>3 DEF FirstDay, days

\* A non-empty set of trades, which is finite, has a latest trade.
LEMMA LatestExists ==
  ASSUME NEW g \in SUBSET Trades, g # {}
  PROVE  \E t \in g : \A u \in g : Day[u] <= Day[t]
<1> DEFINE later(t) == {u \in g : Day[t] <= Day[u]}
           sizes == {Cardinality(later(t)) : t \in g}
<1>0. \A t \in g : Day[t] \in Nat BY ClustersAssumption
<1>1. \A t \in g : IsFiniteSet(later(t)) /\ Cardinality(later(t)) \in Nat
  <2> SUFFICES ASSUME NEW t \in g PROVE IsFiniteSet(later(t)) /\ Cardinality(later(t)) \in Nat
    OBVIOUS
  <2>1. later(t) \in SUBSET Trades OBVIOUS
  <2> QED BY <2>1, FS_Subset, FS_CardinalityType, ClustersAssumption
<1>2. PICK n \in sizes : \A m \in sizes : n <= m
  <2>1. sizes \in SUBSET Nat /\ sizes # {} BY <1>1
  <2> HIDE DEF sizes
  <2> QED BY <2>1, LeastNumber
<1>3. PICK t \in g : n = Cardinality(later(t)) OBVIOUS
<1>4. ASSUME NEW u \in g, ~(Day[u] <= Day[t]) PROVE FALSE
  <2>1. later(u) \subseteq later(t) \ {t} BY <1>0, <1>4
  <2>2. t \in later(t) BY <1>0
  <2> HIDE DEF later
  <2>3. /\ Cardinality(later(t) \ {t}) = Cardinality(later(t)) - 1
        /\ IsFiniteSet(later(t) \ {t})
    BY <1>1, <2>2, FS_RemoveElement
  <2>4. Cardinality(later(u)) <= Cardinality(later(t)) - 1
    BY <2>1, <2>3, FS_Subset
  <2>5. Cardinality(later(t)) <= Cardinality(later(u)) BY <1>2, <1>3
  <2> QED BY <1>1, <2>4, <2>5
<1> QED BY <1>4

----------------------------------------------------------------------------
\* The loop.

\* The company visited last is complete with its latest trade.
LEMMA LastVisitedIsLatest ==
  ASSUME NEW v \in SUBSET Trades, v # {}
  PROVE  /\ LastVisited(v) \in v
         /\ Cik[LastVisited(v)] = CHOOSE c \in {Cik[t] : t \in v} : TRUE
         /\ \A u \in v : Cik[u] = Cik[LastVisited(v)] => Day[u] <= Day[LastVisited(v)]
<1> DEFINE ciks == {Cik[t] : t \in v}
           cik == CHOOSE c \in ciks : TRUE
           company == {t \in v : Cik[t] = cik}
           last == CHOOSE t \in company : \A u \in company : Day[u] <= Day[t]
<1>1. cik \in ciks OBVIOUS
<1>2. company \in SUBSET Trades /\ company # {} BY <1>1
<1>3. last \in company /\ \A u \in company : Day[u] <= Day[last]
  <2> HIDE DEF company
  <2> QED BY <1>2, LatestExists
<1>4. LastVisited(v) = last BY DEF LastVisited
<1> HIDE DEF last
<1> QED BY <1>3, <1>4

\* What the loop does after visiting v, if f says what it has done before.
Body(f, v, window) ==
  IF v = {} THEN NothingYet ELSE Visit(f[v \ {LastVisited(v)}], LastVisited(v), window)

\* The recursion of the loop is well-founded: AfterVisiting is the function that
\* its equation describes.
LEMMA LoopEquation ==
  ASSUME NEW q \in SUBSET Trades, NEW window
  PROVE  AfterVisiting(q, window) =
           [v \in SUBSET q |-> Body(AfterVisiting(q, window), v, window)]
<1> DEFINE upTo(n) == {v \in SUBSET q : Cardinality(v) <= n}
           solves(f, n) == f = [v \in upTo(n) |-> Body(f, v, window)]
           S == {n \in Nat : \E f : solves(f, n)}
<1>1. \A v \in SUBSET q : IsFiniteSet(v) /\ Cardinality(v) \in Nat
  BY FS_Subset, FS_CardinalityType, ClustersAssumption
<1>2. 0 \in S
  <2>1. \A v \in upTo(0) : v = {} BY <1>1, FS_EmptySet
  <2> DEFINE f == [v \in upTo(0) |-> NothingYet]
  <2>2. f = [v \in upTo(0) |-> Body(f, v, window)] BY <2>1 DEF Body
  <2> QED BY <2>2
<1>3. ASSUME NEW n \in S PROVE n + 1 \in S
  <2>1. PICK f : solves(f, n) OBVIOUS
  <2> DEFINE g == [v \in upTo(n + 1) |-> Body(f, v, window)]
  <2>2. \A v \in upTo(n) : v \in upTo(n + 1) /\ g[v] = f[v] BY <1>1, <2>1
  <2>3. ASSUME NEW v \in upTo(n + 1), v # {} PROVE v \ {LastVisited(v)} \in upTo(n)
    <3>1. LastVisited(v) \in v BY <2>3, LastVisitedIsLatest
    <3>2. Cardinality(v \ {LastVisited(v)}) = Cardinality(v) - 1 BY <1>1, <3>1, FS_RemoveElement
    <3> QED BY <1>1, <3>2
  <2>4. \A v \in upTo(n + 1) : Body(f, v, window) = Body(g, v, window)
    BY <2>2, <2>3 DEF Body
  <2>5. solves(g, n + 1) BY <2>4
  <2> HIDE DEF solves
  <2> QED BY <2>5
<1>4. S = Nat
  <2> HIDE DEF S
  <2>1. S \in SUBSET Nat BY DEF S
  <2> QED BY <1>2, <1>3, <2>1, InductionOverNat
<1>5. Cardinality(q) \in Nat /\ upTo(Cardinality(q)) = SUBSET q
  BY <1>1, FS_Subset, ClustersAssumption
<1>6. \E f : f = [v \in SUBSET q |-> Body(f, v, window)] BY <1>4, <1>5
<1>7. AfterVisiting(q, window) = CHOOSE f : f = [v \in SUBSET q |-> Body(f, v, window)]
  BY DEF AfterVisiting, Body
<1> QED BY <1>6, <1>7

----------------------------------------------------------------------------
\* What the loop has made of the trades it visited.

\* What the loop's variables hold.
LoopState == [candidates : Seq(SUBSET Trades), group : SUBSET Trades]

\* g is what the trades v of one company have in a window that starts with g.
IsWindow(g, v, window) ==
  /\ g # {}
  /\ \A t \in g : g = {u \in v : /\ Cik[u] = Cik[t]
                               /\ Day[u] \in FirstDay(g)..FirstDay(g) + window}

\* The open group g is the last window of the company visited last; those of P
\* are closed for good.
IsOpen(g, P, v, window) ==
  /\ IsWindow(g, v, window)
  /\ \A t \in g : Cik[t] = Cik[LastVisited(v)]
  /\ \A W \in P : \A u \in W :
       Cik[u] = Cik[LastVisited(v)] => FirstDay(W) + window < FirstDay(g)

\* The candidates are the closed windows of two filers or more.
AreCandidates(c, P) ==
  /\ \A i \in DOMAIN c : c[i] \in P /\ IsCluster(c[i])
  /\ \A W \in P : IsCluster(W) => \E i \in DOMAIN c : c[i] = W
  /\ \A i, j \in DOMAIN c : i # j => c[i] # c[j]

\* After the trades v the loop has closed the windows P and is in state s: P and
\* the open group divide v into windows.
Divided(P, v, s, window) ==
  /\ s \in LoopState
  /\ (UNION P) \cup s.group = v
  /\ \A W \in P : IsWindow(W, v, window) /\ W \cap s.group = {}
  /\ \A W, X \in P : W # X => W \cap X = {}
  /\ IF v = {} THEN s.group = {} ELSE IsOpen(s.group, P, v, window)
  /\ AreCandidates(s.candidates, P)

\* A window stays one when a trade of another company or of a later day comes.
LEMMA WindowStays ==
  ASSUME NEW window \in Nat, NEW v \in SUBSET Trades, NEW t \in Trades, NEW W,
         IsWindow(W, v, window),
         \A u \in W : Cik[u] = Cik[t] => FirstDay(W) + window < Day[t]
  PROVE  IsWindow(W, v \cup {t}, window)
<1>1. W \in SUBSET Trades /\ FirstDay(W) \in Nat /\ Day[t] \in Nat
  BY FirstDayExists, ClustersAssumption DEF IsWindow
<1>2. \A u \in W : Cik[t] = Cik[u] => Day[t] \notin FirstDay(W)..FirstDay(W) + window
  BY <1>1
<1> QED BY <1>2 DEF IsWindow

\* The company visited last is visited last until it is complete.
LEMMA CompaniesOneByOne ==
  ASSUME NEW v \in SUBSET Trades, NEW t \in Trades, t = LastVisited(v \cup {t}), t \notin v,
         NEW u \in v, Cik[u] = Cik[t]
  PROVE  Cik[LastVisited(v)] = Cik[t]
<1>1. {Cik[x] : x \in v} = {Cik[x] : x \in v \cup {t}} BY SMT
<1>2. Cik[LastVisited(v)] = CHOOSE c \in {Cik[x] : x \in v} : TRUE
  BY LastVisitedIsLatest
<1>3. Cik[t] = CHOOSE c \in {Cik[x] : x \in v \cup {t}} : TRUE
  <2>1. v \cup {t} \in SUBSET Trades /\ v \cup {t} # {} OBVIOUS
  <2> QED BY <2>1, LastVisitedIsLatest
<1> QED BY <1>1, <1>2, <1>3

\* An empty group has no filers: it is no cluster.
LEMMA EmptyIsNoCluster == ~IsCluster({})
<1>1. Filers({}) = {} BY DEF Filers
<1> QED BY <1>1, FS_EmptySet DEF IsCluster

\* Closing the open group adds it to the candidates iff it is a cluster.
LEMMA CandidatesClosed ==
  ASSUME NEW window, NEW v \in SUBSET Trades, NEW s, NEW P, Divided(P, v, s, window)
  PROVE  /\ Finalized(s) \in Seq(SUBSET Trades)
         /\ AreCandidates(Finalized(s), IF s.group = {} THEN P ELSE P \cup {s.group})
<1> DEFINE c == s.candidates
           g == s.group
           R == IF g = {} THEN P ELSE P \cup {g}
<1>1. c \in Seq(SUBSET Trades) /\ AreCandidates(c, P) BY DEF Divided, LoopState
<1>2. CASE ~IsCluster(g)
  <2>1. Finalized(s) = c BY <1>2 DEF Finalized
  <2> QED BY <1>1, <1>2, <2>1 DEF AreCandidates
<1>3. CASE IsCluster(g)
  <2>1. g # {} /\ Finalized(s) = Append(c, g) BY <1>3, EmptyIsNoCluster DEF Finalized
  <2>2. \A W \in P : W # g BY <2>1 DEF Divided, IsWindow
  <2>3. g \in SUBSET Trades BY DEF Divided
  <2>4. /\ Append(c, g) \in Seq(SUBSET Trades)
        /\ DOMAIN Append(c, g) = DOMAIN c \cup {Len(c) + 1}
        /\ Len(c) + 1 \notin DOMAIN c
        /\ Append(c, g)[Len(c) + 1] = g
        /\ \A i \in DOMAIN c : Append(c, g)[i] = c[i]
    BY <1>1, <2>3
  <2> HIDE DEF g, c
  <2>5. AreCandidates(Append(c, g), P \cup {g})
    BY <1>1, <1>3, <2>2, <2>4 DEF AreCandidates
  <2> QED BY <2>1, <2>4, <2>5 DEF g
<1> QED BY <1>2, <1>3

\* The trade joins the group.
LEMMA JoinKeeps ==
  ASSUME NEW window \in Nat, NEW v \in SUBSET Trades, NEW t \in Trades, t \notin v,
         t = LastVisited(v \cup {t}), NEW s, NEW P, Divided(P, v, s, window),
         s.group # {}, \A u \in s.group : Cik[u] = Cik[t],
         Day[t] <= FirstDay(s.group) + window
  PROVE  Divided(P, v \cup {t}, [s EXCEPT !.group = @ \cup {t}], window)
<1> DEFINE g == s.group
           h == g \cup {t}
<1>1. v # {} /\ g \subseteq v /\ IsOpen(g, P, v, window) /\ IsWindow(g, v, window)
  BY DEF Divided, IsOpen
<1>2. /\ \A u \in v \cup {t} : Cik[u] = Cik[t] => Day[u] <= Day[t]
      /\ \A u \in v \cup {t} : Day[u] \in Nat
  <2>1. v \cup {t} \in SUBSET Trades /\ v \cup {t} # {} OBVIOUS
  <2> QED BY <2>1, LastVisitedIsLatest, ClustersAssumption
<1>3. FirstDay(h) = FirstDay(g) /\ FirstDay(g) \in Nat
  <2>1. /\ FirstDay(g) \in Nat /\ \A u \in g : FirstDay(g) <= Day[u]
        /\ \E u \in g : FirstDay(g) = Day[u]
    BY <1>1, FirstDayExists
  <2>2. /\ FirstDay(h) \in Nat /\ \A u \in h : FirstDay(h) <= Day[u]
        /\ \E u \in h : FirstDay(h) = Day[u]
    BY <1>1, FirstDayExists
  <2>3. FirstDay(g) <= Day[t] BY <1>1, <1>2, <2>1
  <2> QED BY <1>1, <1>2, <2>1, <2>2, <2>3
<1>4. IsWindow(h, v \cup {t}, window)
  <2> SUFFICES ASSUME NEW x \in h
               PROVE  h = {u \in v \cup {t} : /\ Cik[u] = Cik[x]
                                              /\ Day[u] \in FirstDay(h)..FirstDay(h) + window}
    BY DEF IsWindow
  <2>1. PICK y \in g : TRUE OBVIOUS
  <2>2. Cik[x] = Cik[t] /\ Cik[y] = Cik[t] OBVIOUS
  <2>3. g = {u \in v : Cik[u] = Cik[t] /\ Day[u] \in FirstDay(g)..FirstDay(g) + window}
    BY <1>1, <2>1, <2>2 DEF IsWindow
  <2>4. FirstDay(g) <= Day[y] /\ Day[y] <= Day[t] BY <1>1, <1>2, <2>1, <2>2, FirstDayExists
  <2>5. Day[t] \in FirstDay(g)..FirstDay(g) + window BY <1>1, <1>2, <1>3, <2>1, <2>4
  <2> QED BY <1>3, <2>2, <2>3, <2>5
<1>5. Cik[LastVisited(v)] = Cik[t]
  <2>1. PICK y \in g : TRUE OBVIOUS
  <2> QED BY <1>1, <2>1, CompaniesOneByOne
<1>6. ASSUME NEW W \in P
      PROVE  /\ IsWindow(W, v \cup {t}, window) /\ W \cap h = {}
             /\ \A u \in W : Cik[u] = Cik[t] => FirstDay(W) + window < FirstDay(h)
  <2>1. /\ IsWindow(W, v, window) /\ W \cap g = {} /\ W \subseteq v
        /\ \A u \in W : Cik[u] = Cik[t] => FirstDay(W) + window < FirstDay(g)
    BY <1>1, <1>5 DEF Divided, IsOpen
  <2>2. W \in SUBSET Trades /\ W # {} BY <2>1 DEF IsWindow
  <2>3. FirstDay(W) \in Nat BY <2>2, FirstDayExists
  <2>4. FirstDay(g) <= Day[t]
    <3>1. PICK y \in g : TRUE OBVIOUS
    <3>2. FirstDay(g) <= Day[y] /\ Day[y] <= Day[t] BY <1>1, <1>2, <3>1, FirstDayExists
    <3> QED BY <1>1, <1>2, <1>3, <3>1, <3>2
  <2>5. \A u \in W : Cik[u] = Cik[t] => FirstDay(W) + window < Day[t]
    BY <1>2, <1>3, <2>1, <2>3, <2>4
  <2>6. IsWindow(W, v \cup {t}, window) BY <2>1, <2>5, WindowStays
  <2> QED BY <1>3, <2>1, <2>6
<1>7. /\ [s EXCEPT !.group = @ \cup {t}] \in LoopState
      /\ [s EXCEPT !.group = @ \cup {t}].group = h
      /\ [s EXCEPT !.group = @ \cup {t}].candidates = s.candidates
  BY DEF Divided, LoopState
<1> HIDE DEF h
<1>8. (UNION P) \cup h = v \cup {t} BY DEF Divided, h
<1>9. \A u \in h : Cik[u] = Cik[t] BY DEF h
<1>10. h # {} /\ v \cup {t} # {} /\ LastVisited(v \cup {t}) = t BY DEF h
<1>11. IsOpen(h, P, v \cup {t}, window) BY <1>4, <1>6, <1>9, <1>10 DEF IsOpen
<1> DEFINE r == [s EXCEPT !.group = @ \cup {t}]
<1> HIDE DEF r
<1>12. r \in LoopState /\ r.group = h /\ r.candidates = s.candidates BY <1>7 DEF r
<1>13. Divided(P, v \cup {t}, r, window)
  BY <1>6, <1>8, <1>10, <1>11, <1>12 DEF Divided
<1> QED BY <1>13 DEF r

\* The group is closed and the trade starts the next one.
LEMMA StartKeeps ==
  ASSUME NEW window \in Nat, NEW v \in SUBSET Trades, NEW t \in Trades, t \notin v,
         t = LastVisited(v \cup {t}), NEW s, NEW P, Divided(P, v, s, window),
         ~ /\ s.group # {}
           /\ \A u \in s.group : Cik[u] = Cik[t]
           /\ Day[t] <= FirstDay(s.group) + window
  PROVE  \E R : Divided(R, v \cup {t}, [candidates |-> Finalized(s), group |-> {t}], window)
<1> DEFINE g == s.group
           R == IF g = {} THEN P ELSE P \cup {g}
           r == [candidates |-> Finalized(s), group |-> {t}]
<1>1. g \subseteq v /\ (v # {} => IsOpen(g, P, v, window) /\ IsWindow(g, v, window)) /\ (v = {} => g = {})
  BY DEF Divided, IsOpen
<1>2. /\ \A u \in v \cup {t} : Cik[u] = Cik[t] => Day[u] <= Day[t]
      /\ \A u \in v \cup {t} : Day[u] \in Nat
  <2>1. v \cup {t} \in SUBSET Trades /\ v \cup {t} # {} OBVIOUS
  <2> QED BY <2>1, LastVisitedIsLatest, ClustersAssumption
<1>3. FirstDay({t}) = Day[t]
  <2>1. {t} \in SUBSET Trades /\ {t} # {} OBVIOUS
  <2> QED BY <2>1, FirstDayExists
\* Whatever was closed, or is now, lies before t or at another company.
<1>4. ASSUME NEW W \in R
      PROVE  /\ W \subseteq v /\ IsWindow(W, v, window)
             /\ \A u \in W : Cik[u] = Cik[t] => FirstDay(W) + window < Day[t]
  <2>1. v # {}
    <3>1. CASE W \in P BY <3>1 DEF Divided, IsWindow
    <3>2. CASE W \notin P BY <1>1, <3>2
    <3> QED BY <3>1, <3>2
  <2>2. W \subseteq v /\ IsWindow(W, v, window) BY <1>1, <2>1 DEF Divided
  <2>3. ASSUME NEW u \in W, Cik[u] = Cik[t] PROVE FirstDay(W) + window < Day[t]
    <3>1. Cik[LastVisited(v)] = Cik[t] BY <2>2, <2>3, CompaniesOneByOne
    <3>2. \A x \in g : Cik[x] = Cik[t] BY <1>1, <2>1, <3>1 DEF IsOpen
    <3>3. g # {} /\ g \in SUBSET Trades /\ FirstDay(g) \in Nat /\ W \in SUBSET Trades /\ FirstDay(W) \in Nat
      BY <1>1, <2>1, <2>2, FirstDayExists DEF IsWindow
    <3>4. FirstDay(g) + window < Day[t] BY <1>2, <3>2, <3>3
    <3>5. CASE W = g BY <3>4, <3>5
    <3>6. CASE W # g
      <4>1. W \in P BY <3>6
      <4>2. \A X \in P : \A x \in X :
               Cik[x] = Cik[LastVisited(v)] => FirstDay(X) + window < FirstDay(g)
        BY <1>1, <2>1 DEF IsOpen
      <4>3. FirstDay(W) + window < FirstDay(g) BY <2>3, <3>1, <4>1, <4>2, Zenon
      <4> QED BY <1>2, <3>3, <3>4, <4>3
    <3> QED BY <3>5, <3>6
  <2> QED BY <2>2, <2>3
<1>5. \A W \in R : IsWindow(W, v \cup {t}, window) /\ W \cap {t} = {}
  BY <1>4, WindowStays
<1>6. \A u \in v : Cik[u] = Cik[t] => Day[u] < Day[t]
  <2> SUFFICES ASSUME NEW u \in v, Cik[u] = Cik[t] PROVE Day[u] < Day[t] OBVIOUS
  <2>1. PICK W \in R : u \in W BY <1>1 DEF Divided
  <2>2. /\ FirstDay(W) + window < Day[t]
        /\ Day[u] \in FirstDay(W)..FirstDay(W) + window
    BY <1>4, <2>1 DEF IsWindow
  <2>3. FirstDay(W) \in Nat BY <1>4, <2>1, FirstDayExists
  <2> QED BY <1>2, <2>2, <2>3
<1>7. IsWindow({t}, v \cup {t}, window)
  <2>1. Day[t] \in Day[t]..Day[t] + window BY <1>2
  <2>2. \A u \in v : Cik[u] = Cik[t] => Day[u] \notin Day[t]..Day[t] + window BY <1>2, <1>6
  <2> QED BY <1>3, <2>1, <2>2 DEF IsWindow
<1>8. (UNION R) \cup {t} = v \cup {t} BY <1>1 DEF Divided
<1>9. \A W, X \in R : W # X => W \cap X = {} BY DEF Divided
<1>10. r \in LoopState /\ AreCandidates(r.candidates, R)
  <2>1. Finalized(s) \in Seq(SUBSET Trades) /\ AreCandidates(Finalized(s), R)
    BY CandidatesClosed
  <2> QED BY <2>1 DEF LoopState
<1>11. Cik[LastVisited(v \cup {t})] = Cik[t] OBVIOUS
<1> HIDE DEF R
<1>12. r.group = {t} /\ v \cup {t} # {} /\ LastVisited(v \cup {t}) = t OBVIOUS
<1>13. \A W \in R : \A u \in W : Cik[u] = Cik[t] => FirstDay(W) + window < FirstDay(r.group)
  BY <1>3, <1>4, <1>12
<1> HIDE DEF r
<1>14. IsOpen(r.group, R, v \cup {t}, window)
  BY <1>7, <1>12, <1>13 DEF IsOpen
<1>15. Divided(R, v \cup {t}, r, window)
  BY <1>5, <1>8, <1>9, <1>10, <1>12, <1>14 DEF Divided
<1> QED BY <1>15 DEF r

\* By induction, the loop has divided whatever it has visited.
LEMMA LoopDivides ==
  ASSUME NEW q \in SUBSET Trades, NEW window \in Nat
  PROVE  \E P : Divided(P, q, AfterVisiting(q, window)[q], window)
<1> DEFINE after == AfterVisiting(q, window)
           G == {v \in SUBSET q : \E P : Divided(P, v, after[v], window)}
<1>1. \A v \in SUBSET q : after[v] = Body(after, v, window) BY LoopEquation
<1> HIDE DEF after
<1>2. {} \in G
  <2>1. after[{}] = NothingYet BY <1>1 DEF Body
  <2>2. Divided({}, {}, NothingYet, window)
    <3>1. NothingYet \in LoopState /\ NothingYet.group = {} /\ NothingYet.candidates = <<>>
      BY DEF NothingYet, LoopState
    <3>2. AreCandidates(<<>>, {}) BY DEF AreCandidates
    <3> QED BY <3>1, <3>2 DEF Divided
  <2> QED BY <2>1, <2>2
<1>3. ASSUME NEW v \in SUBSET q, v # {}, v \ {LastVisited(v)} \in G PROVE v \in G
  <2> DEFINE t == LastVisited(v)
             u == v \ {t}
             s == after[u]
  <2>1. t \in v /\ t \notin u /\ u \cup {t} = v BY <1>3, LastVisitedIsLatest
  <2>2. after[v] = Visit(s, t, window) BY <1>1, <1>3 DEF Body
  <2>3. PICK P : Divided(P, u, s, window) BY <1>3
  <2> HIDE DEF u, s
  <2>4. u \in SUBSET Trades /\ t \in Trades /\ t = LastVisited(u \cup {t}) BY <2>1
  <2> HIDE DEF t
  <2> DEFINE joins == /\ s.group # {}
                      /\ \A x \in s.group : Cik[x] = Cik[t]
                      /\ Day[t] <= FirstDay(s.group) + window
  <2>5. CASE joins
    <3>1. after[v] = [s EXCEPT !.group = @ \cup {t}] BY <2>2, <2>5 DEF Visit
    <3>2. Divided(P, u \cup {t}, [s EXCEPT !.group = @ \cup {t}], window)
      BY <2>1, <2>3, <2>4, <2>5, JoinKeeps
    <3> QED BY <2>1, <3>1, <3>2
  <2>6. CASE ~joins
    <3>1. after[v] = [candidates |-> Finalized(s), group |-> {t}] BY <2>2, <2>6 DEF Visit
    <3>2. \E R : Divided(R, u \cup {t}, [candidates |-> Finalized(s), group |-> {t}], window)
      BY <2>1, <2>3, <2>4, <2>6, StartKeeps
    <3> QED BY <2>1, <3>1, <3>2
  <2> QED BY <2>5, <2>6
<1> HIDE DEF G
<1>4. SUBSET q \subseteq G
  <2>1. IsFiniteSet(q) BY FS_Subset, ClustersAssumption
  <2>2. ASSUME NEW v \in SUBSET q, v # {}, \A t \in v : v \ {t} \in G PROVE v \in G
    BY <1>3, <2>2, LastVisitedIsLatest
  <2> QED BY <1>2, <2>1, <2>2, InductionOverSubsets
<1> QED BY <1>4 DEF G, after

\* P divides the trades v into windows: no trade is in two of them, and each
\* holds all that its company has from its first day to that day plus the window.
DividesIntoWindows(P, v, window) ==
  /\ UNION P = v
  /\ \A W \in P : IsWindow(W, v, window)
  /\ \A W, X \in P : W # X => W \cap X = {}

\* What detect_clusters promises (research.md 1): the qualifying trades divide into
\* windows, and the candidates are, each once, those with two filers or more.
THEOREM DetectClustersFindsWindows ==
  ASSUME NEW trades \in SUBSET Trades, NEW window \in Nat
  PROVE  /\ DetectClusters(trades, window) \in Seq(SUBSET Trades)
         /\ \E P : /\ DividesIntoWindows(P, trades \cap Buys, window)
                   /\ AreCandidates(DetectClusters(trades, window), P)
<1> DEFINE q == trades \cap Buys
           s == AfterVisiting(q, window)[q]
           d == DetectClusters(trades, window)
<1>1. d = Finalized(s) BY DEF DetectClusters
<1>2. q \in SUBSET Trades OBVIOUS
<1>3. PICK P : Divided(P, q, s, window) BY <1>2, LoopDivides
<1> HIDE DEF q, s, d
<1> DEFINE g == s.group
           R == IF g = {} THEN P ELSE P \cup {g}
<1>4. DividesIntoWindows(R, q, window) BY <1>3 DEF Divided, IsOpen, DividesIntoWindows
<1>5. d \in Seq(SUBSET Trades) /\ AreCandidates(d, R)
  BY <1>1, <1>2, <1>3, CandidatesClosed
<1> QED BY <1>4, <1>5 DEF q, d
=============================================================================
