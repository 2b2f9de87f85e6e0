----------------------------- MODULE PollProofs -----------------------------
(***************************************************************************)
(* What holds of Poll for any filings, documents, trades and bounds: its   *)
(* types, that filings are stored whole, that an outage is contained and   *)
(* that a page that was read is stored.                                    *)
(***************************************************************************)
EXTENDS Poll, FiniteSetTheorems, WellFoundedInduction, TLAPS

----------------------------------------------------------------------------
\* What the parsers return.

RecordFacts == InsiderFacts \cup BuybackFacts

\* A nonempty set of places has a least one.
LEMMA LeastPlace ==
  ASSUME NEW S, S \subseteq Nat \ {0}, S # {}
  PROVE  \E m \in S : \A i \in S : m <= i
<1> DEFINE Up == {1..i : i \in S}
<1>1. Up \subseteq FiniteSubsetsOf(Nat) /\ Up # {}
  <2>1. \A i \in S : IsFiniteSet(1..i) BY FS_Interval
  <2>2. \A i \in S : 1..i \subseteq Nat OBVIOUS
  <2>3. Up \subseteq FiniteSubsetsOf(Nat) BY <2>1, <2>2 DEF FiniteSubsetsOf
  <2> QED BY <2>3
<1>2. PICK x \in Up : \A y \in Up : <<y, x>> \notin StrictSubsetOrdering(Nat)
  BY <1>1, WFMin, FS_StrictSubsetOrderingWellFounded
<1>3. PICK m \in S : x = 1..m OBVIOUS
<1>4. ASSUME NEW i \in S, ~(m <= i) PROVE FALSE
  <2>1. m \in Nat /\ i \in Nat /\ i < m BY <1>4
  <2>2. 1..i \subseteq 1..m /\ m \in 1..m /\ m \notin 1..i BY <2>1
  <2>3. <<1..i, 1..m>> \in (SUBSET Nat) \X (SUBSET Nat) BY <2>1
  <2>4. <<1..i, 1..m>> \in StrictSubsetOrdering(Nat) BY <2>2, <2>3 DEF StrictSubsetOrdering
  <2> QED BY <1>2, <1>3, <1>4, <2>4
<1> QED BY <1>4

\* The first exception among outcomes is one of them.
LEMMA FirstRaisedType ==
  ASSUME NEW outcomes, DOMAIN outcomes \subseteq Nat \ {0},
         \A i \in DOMAIN outcomes : outcomes[i] \in Exceptions \cup {None}
  PROVE  FirstRaised(outcomes) \in Exceptions \cup {None}
<1> DEFINE raised == {i \in DOMAIN outcomes : outcomes[i] # None}
<1>1. CASE raised = {} BY <1>1 DEF FirstRaised
<1>2. CASE raised # {}
  <2>1. \E m \in raised : \A j \in raised : m <= j BY <1>2, LeastPlace
  <2>2. (CHOOSE i \in raised : \A j \in raised : i <= j) \in raised BY <2>1
  <2> QED BY <1>2, <2>2 DEF FirstRaised
<1> QED BY <1>1, <1>2

\* Checks whose exceptions are exceptions raise one or nothing.
LEMMA RaisedType ==
  ASSUME NEW checks, NEW flaws, DOMAIN checks \subseteq Nat \ {0},
         \A i \in DOMAIN checks : checks[i].raises \in Exceptions
  PROVE  Raised(checks, flaws) \in Exceptions \cup {None}
<1> DEFINE outcomes == [i \in DOMAIN checks |->
                          IF checks[i].flaw \in flaws THEN checks[i].raises ELSE None]
<1>1. \A i \in DOMAIN outcomes : outcomes[i] \in Exceptions \cup {None} OBVIOUS
<1>2. DOMAIN outcomes \subseteq Nat \ {0} OBVIOUS
<1>3. FirstRaised(outcomes) \in Exceptions \cup {None}
  <2> HIDE DEF outcomes
  <2> QED BY <1>1, <1>2, FirstRaisedType
<1> QED BY <1>3 DEF Raised

\* A sequence of checks raises one of the exceptions or nothing.
LEMMA ChecksType ==
  \A checks \in {HeaderChecks, LineChecks, RowChecks} :
    /\ DOMAIN checks \subseteq Nat \ {0}
    /\ \A i \in DOMAIN checks : checks[i].raises \in Exceptions
<1>1. DOMAIN HeaderChecks = 1..5 /\ DOMAIN LineChecks = 1..5 /\ DOMAIN RowChecks = 1..4
  BY DEF HeaderChecks, LineChecks, RowChecks
<1>2. \A i \in 1..5 : HeaderChecks[i].raises \in Exceptions
  BY DEF HeaderChecks, Check, Exceptions
<1>3. \A i \in 1..5 : LineChecks[i].raises \in Exceptions
  BY DEF LineChecks, Check, Exceptions
<1>4. \A i \in 1..4 : RowChecks[i].raises \in Exceptions
  BY DEF RowChecks, Check, Exceptions
<1> QED BY <1>1, <1>2, <1>3, <1>4

\* A Form 4 role is a filer role.
LEMMA FilerRoleType ==
  ASSUME NEW relationship PROVE FilerRole(relationship) \in FilerRoles
<1> DEFINE order == <<"officer", "director", "ten_percent_owner">>
           hits == {i \in DOMAIN order : order[i] \in relationship}
<1>1. DOMAIN order = 1..3 /\ \A i \in 1..3 : order[i] \in FilerRoles BY DEF FilerRoles
<1>2. CASE hits = {} BY <1>2 DEF FilerRole, FirstRole, FilerRoles
<1>3. CASE hits # {}
  <2>1. \E m \in hits : \A j \in hits : m <= j BY <1>1, <1>3, LeastPlace
  <2>2. (CHOOSE i \in hits : \A j \in hits : i <= j) \in hits BY <2>1
  <2> QED BY <1>1, <1>3, <2>2 DEF FilerRole, FirstRole
<1> QED BY <1>2, <1>3

\* Every filing is parsed into records, or raises and yields none.
LEMMA ParsedType ==
  ASSUME NEW d \in Filings
  PROVE  /\ Parsed[d].raised \in Exceptions \cup {None}
         /\ Parsed[d].lines \in Seq(RecordFacts)
         /\ Parsed[d].raised # None => Parsed[d].lines = <<>>
<1>1. CASE d \in Form4Filings
  <2> DEFINE form == Content[d]
             outcomes == [i \in DOMAIN form.lines |-> Raised(LineChecks, form.lines[i].flaws)]
  <2>1. form \in Form4Document /\ form.lines \in Seq(Form4Line)
    BY <1>1, DocumentsAssumption DEF Form4Document
  <2>2. Raised(HeaderChecks, form.flaws) \in Exceptions \cup {None} BY ChecksType, RaisedType
  <2>3. \A i \in DOMAIN outcomes : outcomes[i] \in Exceptions \cup {None}
    BY ChecksType, RaisedType
  <2>4. DOMAIN outcomes \subseteq Nat \ {0} BY <2>1
  <2>5. FirstRaised(outcomes) \in Exceptions \cup {None}
    <3> HIDE DEF outcomes
    <3> QED BY <2>3, <2>4, FirstRaisedType
  <2>6. \A i \in 1..Len(form.lines) : LineFacts(form.lines[i], form) \in InsiderFacts
    <3> TAKE i \in 1..Len(form.lines)
    <3>1. form.lines[i] \in Form4Line BY <2>1
    <3>2. IsDiscretionary(form.lines[i].code, form.lines[i].notes, form.planNotes) \in BOOLEAN
      BY DEF IsDiscretionary
    <3> QED BY <3>1, <3>2, FilerRoleType DEF LineFacts, InsiderFacts, Form4Line
  <2>7. [i \in 1..Len(form.lines) |-> LineFacts(form.lines[i], form)] \in Seq(RecordFacts)
    BY <2>1, <2>6 DEF RecordFacts
  <2>8. Parsed[d] = ParseForm4(form) BY <1>1 DEF Parsed
  <2>9. <<>> \in Seq(RecordFacts) OBVIOUS
  <2> QED BY <2>2, <2>5, <2>7, <2>8, <2>9 DEF ParseForm4
<1>2. CASE d \notin Form4Filings
  <2> DEFINE text == Content[d]
             match == IF text.total # None THEN [text.total EXCEPT !.scale = 1]
                      ELSE text.authorization
  <2>1. text \in BuybackDocument BY <1>2, DocumentsAssumption DEF Filings
  <2>2. match \in AmountMatch \cup {None} BY <2>1 DEF BuybackDocument, AmountMatch
  <2>3. Parsed[d] = ParseBuyback(text) BY <1>2 DEF Parsed
  <2>4. CASE match = None \/ match.digits = None
    <3>1. ParseBuyback(text).raised \in {"ValueError", "InvalidOperation"}
      BY <2>4 DEF ParseBuyback
    <3>2. ParseBuyback(text).raised # None => ParseBuyback(text).lines = <<>>
      BY DEF ParseBuyback
    <3>3. None \notin Exceptions BY DocumentsAssumption
    <3>4. ParseBuyback(text).lines = <<>> BY <3>1, <3>2, <3>3 DEF Exceptions
    <3>5. <<>> \in Seq(RecordFacts) OBVIOUS
    <3> QED BY <2>3, <3>1, <3>2, <3>4, <3>5 DEF Exceptions
  <2>5. CASE match # None /\ match.digits # None
    <3>1. match \in AmountMatch /\ match.digits \in Nat BY <2>2, <2>5 DEF AmountMatch
    <3>2. match.digits * match.scale \in Nat BY <3>1 DEF AmountMatch
    <3> DEFINE record == [disclosure |-> IF text.total # None THEN "executed" ELSE "authorized",
                          value |-> match.digits * match.scale]
    <3>3. record \in RecordFacts BY <3>2 DEF RecordFacts, BuybackFacts
    <3>4. ParseBuyback(text) = [raised |-> None, lines |-> <<record>>]
      BY <2>5 DEF ParseBuyback
    <3> QED BY <2>3, <3>3, <3>4
  <2> QED BY <2>4, <2>5
<1> QED BY <1>1, <1>2

\* What a feed shows of a sequence is a sequence of the same, no longer than asked.
LEMMA LatestType ==
  ASSUME NEW S, NEW s \in Seq(S), NEW n \in Nat
  PROVE  Latest(s, n) \in Seq(S) /\ Len(Latest(s, n)) <= n
<1>1. CASE Len(s) < n
  <2>1. SubSeq(s, 1, Len(s)) \in Seq(S) /\ Len(SubSeq(s, 1, Len(s))) = Len(s) OBVIOUS
  <2> QED BY <1>1, <2>1 DEF Latest
<1>2. CASE ~(Len(s) < n)
  <2>1. SubSeq(s, 1, n) \in Seq(S) /\ Len(SubSeq(s, 1, n)) = n BY <1>2
  <2> QED BY <1>2, <2>1 DEF Latest
<1> QED BY <1>1, <1>2

\* What the page showed once is what it shows of the trades from some place on.
LEMMA SavedPageType ==
  ASSUME traded \in Seq(Trades), NEW page \in SavedPages
  PROVE  /\ page \in Seq(Trades) /\ Len(page) <= PageRows
         /\ \E k \in Nat : \A i \in DOMAIN page : i + k \in DOMAIN traded /\ traded[i + k] = page[i]
<1>1. PICK j \in 1..(Len(traded) + 1) : page = Latest(SubSeq(traded, j, Len(traded)), PageRows)
  BY DEF SavedPages
<1> DEFINE old == SubSeq(traded, j, Len(traded))
           n == IF Len(old) < PageRows THEN Len(old) ELSE PageRows
<1>2. /\ old \in Seq(Trades) /\ Len(old) = Len(traded) - j + 1 /\ Len(old) \in Nat
      /\ \A i \in 1..Len(old) : i + (j - 1) \in DOMAIN traded /\ old[i] = traded[i + (j - 1)]
  OBVIOUS
<1> HIDE DEF old
<1>3. n \in Nat /\ n <= Len(old) BY <1>2, BoundsAssumption
<1>4. page = SubSeq(old, 1, n) BY <1>1 DEF Latest, old
<1> HIDE DEF n
<1>5. Len(page) = n /\ page \in Seq(Trades) /\ \A i \in 1..n : page[i] = old[i]
  BY <1>2, <1>3, <1>4
<1>6. DOMAIN page = 1..n BY <1>5
<1>7. \A i \in DOMAIN page : i + (j - 1) \in DOMAIN traded /\ traded[i + (j - 1)] = page[i]
  BY <1>2, <1>3, <1>5, <1>6
<1>8. j - 1 \in Nat OBVIOUS
<1>9. Len(page) <= PageRows BY <1>1, <1>2, LatestType, BoundsAssumption DEF old
<1> QED BY <1>5, <1>7, <1>8, <1>9

\* The list that a loop iterates holds elements with their places.
LEMMA PlacedType ==
  ASSUME NEW S, NEW s \in Seq(S) PROVE Placed(s) \in SUBSET (S \X (Nat \ {0}))
BY DEF Placed

\* It is finite.
LEMMA PlacedFinite ==
  ASSUME NEW S, NEW s \in Seq(S) PROVE IsFiniteSet(Placed(s))
<1> DEFINE place == [i \in 1..Len(s) |-> <<s[i], i>>]
<1>1. IsFiniteSet(1..Len(s)) BY FS_Interval
<1>2. Placed(s) = {place[i] : i \in 1..Len(s)} BY DEF Placed
<1>3. place \in Surjection(1..Len(s), Placed(s)) BY <1>2 DEF Surjection
<1> QED
  <2> HIDE DEF place
  <2> QED BY <1>1, <1>3, FS_Surjection

\* A page raises an exception or yields candidates, each from its place.
LEMMA PageType ==
  ASSUME NEW page \in Seq(Trades)
  PROVE  /\ ParsePage(page, Content).raised \in Exceptions \cup {None}
         /\ ParsePage(page, Content).candidates \subseteq Placed(page)
<1> DEFINE outcomes == [i \in DOMAIN page |-> RowRaises(Content[page[i]])]
<1>1. \A row : RowRaises(row) \in Exceptions \cup {None}
  BY ChecksType, RaisedType DEF RowRaises
<1>2. \A i \in DOMAIN outcomes : outcomes[i] \in Exceptions \cup {None} BY <1>1
<1>3. DOMAIN outcomes \subseteq Nat \ {0} OBVIOUS
<1>4. FirstRaised(outcomes) \in Exceptions \cup {None}
  <2> HIDE DEF outcomes
  <2> QED BY <1>2, <1>3, FirstRaisedType
<1>5. ParsePage(page, Content).raised = FirstRaised(outcomes) BY DEF ParsePage
<1>6. ParsePage(page, Content).candidates \subseteq Placed(page) BY DEF ParsePage, Placed
<1> QED BY <1>4, <1>5, <1>6

----------------------------------------------------------------------------
\* The inductive invariant behind the types: what a run holds at each stage.

Items(S) == S \X (Nat \ {0})

FilingStages == {"index", "document", "buyback", "lines"}

PhaseOK ==
  /\ pc \in {"filings", "index", "document"} => todo \subseteq Items(Form4Filings)
  /\ pc \in {"index", "document"} => doc \in Form4Filings
  /\ pc \in {"buybacks", "buyback"} => todo \subseteq Items(BuybackFilings)
  /\ pc = "buyback" => doc \in BuybackFilings
  /\ pc = "document" => HasDocument(doc)
  /\ pc = "lines" =>
       /\ \/ doc \in Form4Filings /\ todo \subseteq Items(Form4Filings)
          \/ doc \in BuybackFilings /\ todo \subseteq Items(BuybackFilings)
       /\ line # 0
       /\ HasDocument(doc)
       /\ ~fixture => Parsed[doc].raised = None
  /\ pc \notin FilingStages => doc = None
  /\ pc \in {"feed", "search", "page"} => todo = {}
  /\ pc = "trades" =>
       /\ listed.page \in Seq(Trades) /\ Len(listed.page) <= PageRows
       /\ todo \subseteq ParsePage(listed.page, Content).candidates

SourcesOK ==
  /\ reports \subseteq asked
  /\ pc \in {"feed", "filings", "search", "buybacks"} \cup FilingStages =>
       "sec_edgar" \in asked /\ reports = {}
  /\ pc \in {"page", "trades"} => "openinsider" \in asked /\ reports = asked \ {"openinsider"}
  /\ pc \notin {"idle", "lines", "trades"} => ~fixture
  /\ pc = "lines" /\ fixture => asked = {"sec_edgar"} /\ todo = {}
  /\ pc # "idle" => ended = None
  /\ pc = "idle" => ended # "FetchError" /\ (ended = "done" => reports = asked)

RunInv == RunTypes /\ PhaseOK /\ SourcesOK

\* A run that ends and forgets its locals, whatever it ended with.
LEMMA ForgetKeepsRun ==
  ASSUME ForgetRun, pc' = "idle", ended' \in (Exceptions \cup {"crash"}) \ {"FetchError"}
  PROVE  RunInv'
<1>1. RunTypes'
  <2>1. 0 \in 0..(MaxAttempts - 1) BY BoundsAssumption
  <2>2. NothingListed \in [feed : Seq(Filings) \cup {None}, search : Seq(Filings) \cup {None},
                           page : Seq(Trades) \cup {None}]
    BY DEF NothingListed
  <2>3. NoCounts \in [Sources -> [fetched : Nat, failed : Nat]] BY DEF NoCounts
  <2> QED BY <2>1, <2>2, <2>3 DEF RunTypes, ForgetRun, Stages
<1>2. PhaseOK' BY DEF PhaseOK, ForgetRun, FilingStages
<1>3. SourcesOK' BY DEF SourcesOK, ForgetRun, FilingStages
<1> QED BY <1>1, <1>2, <1>3 DEF RunInv

\* The end of a source keeps what is said of the run.
LEMMA FinishKeepsRun ==
  ASSUME RunInv, RunTypes', NEW s \in Sources, FinishSource(s), doc' = None, todo' = {},
         asked' = asked, fixture' = fixture, s \in asked,
         s = "sec_edgar" => reports = {} /\ (fixture => asked = {"sec_edgar"}),
         s = "openinsider" => reports = asked \ {"openinsider"},
         ended = None
  PROVE  RunInv'
<1>1. PhaseOK' BY DEF PhaseOK, FinishSource, FilingStages
<1>2. SourcesOK'
  <2>1. CASE s = "sec_edgar" /\ "openinsider" \in asked
    <3>1. reports' = {"sec_edgar"} /\ pc' = "page" /\ ended' = ended
      BY <2>1 DEF FinishSource
    <3>2. asked = {"sec_edgar", "openinsider"} /\ ~fixture
      BY <2>1 DEF RunInv, RunTypes, Sources
    <3> QED BY <3>1, <3>2 DEF SourcesOK, FilingStages
  <2>2. CASE ~(s = "sec_edgar" /\ "openinsider" \in asked)
    <3>1. reports' = reports \cup {s} /\ pc' = "idle" /\ ended' = "done"
      BY <2>2 DEF FinishSource
    <3>2. reports \cup {s} = asked BY <2>2 DEF RunInv, RunTypes, Sources
    <3> QED BY <3>1, <3>2 DEF SourcesOK, FilingStages
  <2> QED BY <2>1, <2>2
<1> QED BY <1>1, <1>2 DEF RunInv

\* Counting keeps the counters numbers.
LEMMA CountType ==
  ASSUME counts \in [Sources -> [fetched : Nat, failed : Nat]], NEW s \in Sources,
         NEW counter \in {"fetched", "failed"}, NEW n \in Nat, Count(s, counter, n)
  PROVE  counts' \in [Sources -> [fetched : Nat, failed : Nat]]
<1>1. counts[s] \in [fetched : Nat, failed : Nat] OBVIOUS
<1>2. counts[s].fetched \in Nat /\ counts[s].failed \in Nat BY <1>1
<1>3. [counts[s] EXCEPT ![counter] = @ + n] \in [fetched : Nat, failed : Nat]
  BY <1>1, <1>2
<1>4. counts' = [counts EXCEPT ![s] = [counts[s] EXCEPT ![counter] = @ + n]] BY DEF Count
<1> QED BY <1>3, <1>4

\* An exception at a stage that fetches is counted there or ends the run.
LEMMA RaiseKeepsRun ==
  ASSUME RunInv, pc \in Fetching, NEW e \in Exceptions, Raise(e)
  PROVE  RunInv'
<1>1. 0 \in 0..(MaxAttempts - 1) BY BoundsAssumption
<1>2. \A s \in Sources : Count(s, "failed", 1) =>
         counts' \in [Sources -> [fetched : Nat, failed : Nat]]
  BY CountType DEF RunInv, RunTypes
<1>3. CASE e \in Caught[pc] /\ pc \in {"index", "document", "buyback"}
  <2>1. /\ Count("sec_edgar", "failed", 1) /\ attempt' = 0 /\ doc' = None /\ pc' = Loop
        /\ UNCHANGED <<asked, fixture, todo, line, listed, reports, ended>>
    BY <1>3 DEF Raise
  <2>2. RunTypes' BY <1>1, <1>2, <2>1 DEF RunInv, RunTypes, Sources, Loop, Stages
  <2>3. PhaseOK'
    <3>1. CASE pc \in {"index", "document"}
      <4>1. pc' = "filings" /\ todo \subseteq Items(Form4Filings)
        BY <2>1, <3>1 DEF RunInv, PhaseOK, Loop
      <4> QED BY <2>1, <4>1 DEF PhaseOK, FilingStages
    <3>2. CASE pc = "buyback"
      <4>1. pc' = "buybacks" /\ todo \subseteq Items(BuybackFilings)
        BY <2>1, <3>2, DocumentsAssumption DEF RunInv, PhaseOK, Loop
      <4> QED BY <2>1, <4>1 DEF PhaseOK, FilingStages
    <3> QED BY <1>3, <3>1, <3>2
  <2>4. SourcesOK'
    <3>1. pc' \in {"filings", "buybacks"} BY <2>1 DEF Loop
    <3>2. "sec_edgar" \in asked /\ reports = {} /\ ended = None /\ ~fixture
      BY <1>3 DEF RunInv, SourcesOK, FilingStages
    <3> QED BY <2>1, <3>1, <3>2 DEF SourcesOK, FilingStages
  <2> QED BY <2>2, <2>3, <2>4 DEF RunInv
<1>4. CASE e \in Caught[pc] /\ pc \in {"feed", "search", "page"}
  <2> DEFINE s == IF pc = "page" THEN "openinsider" ELSE "sec_edgar"
  <2>1. /\ Count(s, "failed", 1) /\ attempt' = 0 /\ FinishSource(s)
        /\ UNCHANGED <<asked, fixture, todo, doc, line, listed>>
    BY <1>4 DEF Raise
  <2>2. s \in Sources BY DEF Sources
  <2>3. ended = None /\ todo = {} /\ doc = None
    BY <1>4 DEF RunInv, SourcesOK, PhaseOK, FilingStages
  <2>4. RunTypes'
    BY <1>1, <1>2, <2>1, <2>2, <2>3 DEF RunInv, RunTypes, FinishSource, Stages, Fetching
  <2>5. s \in asked /\ (s = "sec_edgar" => reports = {})
        /\ (s = "openinsider" => reports = asked \ {"openinsider"})
    BY <1>4 DEF RunInv, SourcesOK
  <2>6. ~fixture
    BY <1>4 DEF RunInv, SourcesOK
  <2> HIDE DEF s
  <2> QED BY <2>1, <2>2, <2>3, <2>4, <2>5, <2>6, FinishKeepsRun
<1>5. CASE e \notin Caught[pc]
  <2>1. pc' = "idle" /\ ended' = e /\ ForgetRun BY <1>5 DEF Raise
  <2>2. e # "FetchError" BY <1>5 DEF Caught, Fetching
  <2> QED BY <2>1, <2>2, ForgetKeepsRun
<1> QED BY <1>3, <1>4, <1>5 DEF Fetching

\* A step of the run that stays within it, whatever it does to the tables.
LEMMA DiscoveryKeepsRun ==
  ASSUME FeedTypes, RunInv, FeedAnswers \/ SearchAnswers \/ EmptyAnswer \/ PageAnswers
  PROVE  RunInv'
<1>1. 0 \in 0..(MaxAttempts - 1) BY BoundsAssumption
<1>2. /\ Latest(filed, Window) \in Seq(Form4Filings) /\ <<>> \in Seq(Form4Filings)
      /\ Latest(disclosed, Window) \in Seq(BuybackFilings) /\ <<>> \in Seq(BuybackFilings)
      /\ Latest(traded, PageRows) \in Seq(Trades) /\ <<>> \in Seq(Trades)
      /\ Len(Latest(traded, PageRows)) <= PageRows /\ Len(<<>>) <= PageRows
  BY LatestType, BoundsAssumption DEF FeedTypes
<1>3. ASSUME NEW urls \in Seq(Form4Filings), FeedLists(urls) PROVE RunInv'
  <2>1. /\ pc = "feed" /\ pc' = "filings" /\ attempt' = 0
        /\ listed' = [listed EXCEPT !.feed = urls] /\ todo' = Placed(urls)
        /\ UNCHANGED <<asked, fixture, doc, line, counts, reports, ended>>
    BY <1>3 DEF FeedLists
  <2>2. todo' \subseteq Items(Form4Filings) BY <2>1, PlacedType DEF Items
  <2>3. urls \in Seq(Filings) BY DEF Filings
  <2>4. RunTypes' BY <1>1, <2>1, <2>2, <2>3 DEF RunInv, RunTypes, Stages, Items, Filings
  <2>5. PhaseOK' BY <2>1, <2>2 DEF RunInv, PhaseOK, FilingStages
  <2>6. SourcesOK' BY <2>1 DEF RunInv, SourcesOK, FilingStages
  <2> QED BY <2>4, <2>5, <2>6 DEF RunInv
<1>4. ASSUME NEW hits \in Seq(BuybackFilings), SearchLists(hits) PROVE RunInv'
  <2>1. /\ pc = "search" /\ pc' = "buybacks" /\ attempt' = 0
        /\ listed' = [listed EXCEPT !.search = hits] /\ todo' = Placed(hits)
        /\ UNCHANGED <<asked, fixture, doc, line, counts, reports, ended>>
    BY <1>4 DEF SearchLists
  <2>2. todo' \subseteq Items(BuybackFilings) BY <2>1, PlacedType DEF Items
  <2>3. hits \in Seq(Filings) BY DEF Filings
  <2>4. RunTypes' BY <1>1, <2>1, <2>2, <2>3 DEF RunInv, RunTypes, Stages, Items, Filings
  <2>5. PhaseOK' BY <2>1, <2>2 DEF RunInv, PhaseOK, FilingStages
  <2>6. SourcesOK' BY <2>1 DEF RunInv, SourcesOK, FilingStages
  <2> QED BY <2>4, <2>5, <2>6 DEF RunInv
<1>5. ASSUME NEW page \in Seq(Trades), Len(page) <= PageRows, PageLists(page) PROVE RunInv'
  <2> DEFINE parsed == ParsePage(page, Content)
  <2>1. pc = "page" BY <1>5 DEF PageLists
  <2>2. CASE parsed.raised # None
    <3>1. CASE Raise(parsed.raised)
      <4>1. parsed.raised \in Exceptions BY <2>2, PageType
      <4> QED BY <2>1, <3>1, <4>1, RaiseKeepsRun DEF Fetching
    <3> QED BY <1>5, <2>2, <3>1 DEF PageLists, TakePage
  <2>3. CASE parsed.raised = None
    <3>1. /\ listed' = [listed EXCEPT !.page = page] /\ todo' = parsed.candidates
          /\ Count("openinsider", "fetched", Cardinality(parsed.candidates))
          /\ attempt' = 0 /\ pc' = "trades"
          /\ UNCHANGED <<asked, fixture, doc, line, reports, ended>>
      BY <1>5, <2>3 DEF PageLists, TakePage
    <3>2. todo' \subseteq Items(Trades) BY <3>1, PageType, PlacedType DEF Items
    <3>3. IsFiniteSet(parsed.candidates)
      <4>1. IsFiniteSet(Placed(page)) BY PlacedFinite
      <4> QED BY <4>1, PageType, FS_Subset
    <3>4. Cardinality(parsed.candidates) \in Nat BY <3>3, FS_CardinalityType
    <3>5. counts' \in [Sources -> [fetched : Nat, failed : Nat]]
      <4> HIDE DEF parsed
      <4> QED BY <3>1, <3>4, CountType DEF RunInv, RunTypes, Sources
    <3>6. RunTypes' BY <1>1, <3>1, <3>2, <3>5 DEF RunInv, RunTypes, Stages, Items
    <3>7. listed'.page = page BY <3>1 DEF RunInv, RunTypes
    <3>8. PhaseOK' BY <1>5, <2>1, <3>1, <3>7 DEF RunInv, PhaseOK, FilingStages
    <3>9. SourcesOK' BY <2>1, <3>1 DEF RunInv, SourcesOK, FilingStages
    <3> QED BY <3>6, <3>8, <3>9 DEF RunInv
  <2> QED BY <2>2, <2>3
<1> QED BY <1>2, <1>3, <1>4, <1>5 DEF FeedAnswers, SearchAnswers, EmptyAnswer, PageAnswers

\* The steps at the stages of one filing and at the loop heads.
LEMMA FilingKeepsRun ==
  ASSUME RunInv,
         NextFiling \/ EndFilings \/ EndBuybacks \/ IndexAnswers \/ DocumentAnswers
           \/ IngestRecord \/ LeaveFiling
  PROVE  RunInv'
<1>1. 0 \in 0..(MaxAttempts - 1) BY BoundsAssumption
<1>2. CASE NextFiling
  <2>1. PICK item \in todo : todo' = todo \ {item} /\ doc' = item[1] BY <1>2 DEF NextFiling
  <2>2. /\ Count("sec_edgar", "fetched", 1)
        /\ pc' = IF pc = "filings" THEN "index" ELSE "buyback"
        /\ UNCHANGED <<asked, fixture, attempt, line, listed, reports, ended>>
    BY <1>2 DEF NextFiling
  <2>3. counts' \in [Sources -> [fetched : Nat, failed : Nat]]
    BY <2>2, CountType DEF RunInv, RunTypes, Sources
  <2>4. CASE pc = "filings"
    <3>1. doc' \in Form4Filings /\ todo' \subseteq Items(Form4Filings) /\ pc' = "index"
      BY <2>1, <2>2, <2>4 DEF RunInv, PhaseOK, Items
    <3>2. RunTypes' BY <2>1, <2>2, <2>3, <3>1 DEF RunInv, RunTypes, Stages, Filings, Fetching
    <3>3. PhaseOK' BY <3>1 DEF PhaseOK, FilingStages
    <3>4. SourcesOK' BY <2>2, <2>4, <3>1 DEF RunInv, SourcesOK, FilingStages
    <3> QED BY <3>2, <3>3, <3>4 DEF RunInv
  <2>5. CASE pc = "buybacks"
    <3>1. doc' \in BuybackFilings /\ todo' \subseteq Items(BuybackFilings) /\ pc' = "buyback"
      BY <2>1, <2>2, <2>5 DEF RunInv, PhaseOK, Items
    <3>2. RunTypes' BY <2>1, <2>2, <2>3, <3>1 DEF RunInv, RunTypes, Stages, Filings, Fetching
    <3>3. PhaseOK' BY <3>1 DEF PhaseOK, FilingStages
    <3>4. SourcesOK' BY <2>2, <2>5, <3>1 DEF RunInv, SourcesOK, FilingStages
    <3> QED BY <3>2, <3>3, <3>4 DEF RunInv
  <2> QED BY <1>2, <2>4, <2>5 DEF NextFiling
<1>3. CASE EndFilings
  <2>1. RunTypes' BY <1>3 DEF EndFilings, RunInv, RunTypes, Stages, Fetching
  <2>2. PhaseOK' BY <1>3 DEF EndFilings, RunInv, PhaseOK, FilingStages
  <2>3. SourcesOK' BY <1>3 DEF EndFilings, RunInv, SourcesOK, FilingStages
  <2> QED BY <2>1, <2>2, <2>3 DEF RunInv
<1>4. CASE EndBuybacks
  <2>1. RunTypes' BY <1>4 DEF EndBuybacks, FinishSource, RunInv, RunTypes, Stages, Fetching, Sources
  <2>2. doc = None /\ "sec_edgar" \in asked /\ reports = {} /\ ended = None /\ ~fixture
    BY <1>4 DEF EndBuybacks, RunInv, PhaseOK, SourcesOK, FilingStages
  <2> QED BY <1>4, <2>1, <2>2, FinishKeepsRun DEF EndBuybacks, Sources
<1>5. CASE IndexAnswers
  <2>1. CASE Raise("ValueError")
    BY <1>5, <2>1, RaiseKeepsRun DEF IndexAnswers, Fetching, Exceptions
  <2>2. CASE /\ HasDocument(doc) /\ attempt' = 0 /\ pc' = "document"
             /\ UNCHANGED <<asked, fixture, todo, doc, line, listed, counts, reports, ended>>
    <3>1. pc = "index" BY <1>5 DEF IndexAnswers
    <3>2. RunTypes' BY <1>1, <2>2 DEF RunInv, RunTypes, Stages, Fetching
    <3>3. PhaseOK' BY <2>2, <3>1 DEF RunInv, PhaseOK, FilingStages, HasDocument
    <3>4. SourcesOK' BY <2>2, <3>1 DEF RunInv, SourcesOK, FilingStages
    <3> QED BY <3>2, <3>3, <3>4 DEF RunInv
  <2> QED BY <1>5, <2>1, <2>2 DEF IndexAnswers
<1>6. CASE DocumentAnswers
  <2>1. doc \in Filings /\ HasDocument(doc) /\ pc \in Fetching
    BY <1>6 DEF DocumentAnswers, RunInv, PhaseOK, Filings, Fetching, HasDocument
  <2>2. CASE Parsed[doc].raised # None /\ Raise(Parsed[doc].raised)
    BY <2>1, <2>2, ParsedType, RaiseKeepsRun
  <2>3. CASE /\ Parsed[doc].raised = None /\ attempt' = 0 /\ line' = 1 /\ pc' = "lines"
             /\ UNCHANGED <<asked, fixture, todo, doc, listed, counts, reports, ended>>
    <3>1. pc \in {"document", "buyback"} BY <1>6 DEF DocumentAnswers
    <3>2. RunTypes' BY <1>1, <2>3 DEF RunInv, RunTypes, Stages
    <3>3. PhaseOK' BY <2>1, <2>3, <3>1 DEF RunInv, PhaseOK, FilingStages, HasDocument
    <3>4. SourcesOK' BY <2>3, <3>1 DEF RunInv, SourcesOK, FilingStages
    <3> QED BY <3>2, <3>3, <3>4 DEF RunInv
  <2> QED BY <1>6, <2>2, <2>3 DEF DocumentAnswers, ParseDocument
<1>7. CASE IngestRecord
  <2>1. RunTypes' BY <1>7 DEF IngestRecord, RunInv, RunTypes
  <2>2. line' # 0 BY <1>7 DEF IngestRecord, RunInv, RunTypes
  <2>3. PhaseOK' BY <1>7, <2>2 DEF IngestRecord, RunInv, PhaseOK, FilingStages, HasDocument
  <2>4. SourcesOK' BY <1>7 DEF IngestRecord, RunInv, SourcesOK, FilingStages
  <2> QED BY <2>1, <2>3, <2>4 DEF RunInv
<1>8. CASE LeaveFiling
  <2>1. /\ doc' = None /\ line' = 0 /\ pc = "lines"
        /\ UNCHANGED <<asked, fixture, attempt, todo, listed, counts>>
    BY <1>8 DEF LeaveFiling
  <2>2. "sec_edgar" \in asked /\ reports = {} /\ ended = None
    BY <2>1 DEF RunInv, SourcesOK, FilingStages
  <2>3. CASE fixture
    <3>1. FinishSource("sec_edgar") BY <1>8, <2>3 DEF LeaveFiling
    <3>2. asked = {"sec_edgar"} /\ todo' = {} BY <2>1, <2>3 DEF RunInv, SourcesOK
    <3>3. RunTypes' BY <2>1, <3>1 DEF FinishSource, RunInv, RunTypes, Stages, Fetching, Sources
    <3> QED BY <2>1, <2>2, <3>1, <3>2, <3>3, FinishKeepsRun DEF Sources
  <2>4. CASE ~fixture
    <3>1. pc' = Loop /\ UNCHANGED <<reports, ended>> BY <1>8, <2>4 DEF LeaveFiling
    <3>2. RunTypes' BY <2>1, <3>1 DEF Loop, RunInv, RunTypes, Stages
    <3>3. PhaseOK'
      <4>1. CASE doc \in Form4Filings /\ todo \subseteq Items(Form4Filings)
        BY <2>1, <3>1, <4>1 DEF PhaseOK, Loop, FilingStages
      <4>2. CASE doc \in BuybackFilings /\ todo \subseteq Items(BuybackFilings)
        BY <2>1, <3>1, <4>2, DocumentsAssumption DEF PhaseOK, Loop, FilingStages
      <4> QED BY <2>1, <4>1, <4>2 DEF RunInv, PhaseOK
    <3>4. SourcesOK' BY <2>1, <2>2, <2>4, <3>1 DEF SourcesOK, Loop, FilingStages
    <3> QED BY <3>2, <3>3, <3>4 DEF RunInv
  <2> QED BY <2>3, <2>4
<1> QED BY <1>2, <1>3, <1>4, <1>5, <1>6, <1>7, <1>8

\* The steps at the page and the starts and ends of a run.
LEMMA OtherKeepsRun ==
  ASSUME FeedTypes, RunInv,
         \/ IngestTrade \/ EndTrades \/ AttemptFails \/ GarbledAnswer \/ Crash \/ StartFixture
         \/ \E S \in Requests : StartPoll(S)
  PROVE  RunInv'
<1>1. 0 \in 0..(MaxAttempts - 1) BY BoundsAssumption
<1>2. CASE IngestTrade
  <2>1. PICK item \in todo : todo' = todo \ {item} BY <1>2 DEF IngestTrade
  <2>2. RunTypes' BY <1>2, <2>1 DEF IngestTrade, RunInv, RunTypes
  <2>3. PhaseOK' BY <1>2, <2>1 DEF IngestTrade, RunInv, PhaseOK, FilingStages
  <2>4. SourcesOK' BY <1>2 DEF IngestTrade, RunInv, SourcesOK, FilingStages
  <2> QED BY <2>2, <2>3, <2>4 DEF RunInv
<1>3. CASE EndTrades
  <2>1. RunTypes' BY <1>3 DEF EndTrades, FinishSource, RunInv, RunTypes, Stages, Fetching, Sources
  <2>2. doc = None /\ "openinsider" \in asked /\ reports = asked \ {"openinsider"} /\ ended = None
    BY <1>3 DEF EndTrades, RunInv, PhaseOK, SourcesOK, FilingStages
  <2> QED BY <1>3, <2>1, <2>2, FinishKeepsRun DEF EndTrades, Sources
<1>4. CASE AttemptFails
  <2>1. CASE Raise("FetchError")
    BY <1>4, <2>1, RaiseKeepsRun DEF AttemptFails, Exceptions
  <2>2. CASE /\ attempt + 1 < MaxAttempts /\ attempt' = attempt + 1
             /\ UNCHANGED <<pc, asked, fixture, todo, doc, line, listed, counts, reports, ended>>
    <3>1. attempt' \in 0..(MaxAttempts - 1) BY <2>2, BoundsAssumption DEF RunInv, RunTypes
    <3>2. RunTypes' BY <2>2, <3>1 DEF RunInv, RunTypes
    <3>3. PhaseOK' BY <2>2 DEF RunInv, PhaseOK, HasDocument
    <3>4. SourcesOK' BY <2>2 DEF RunInv, SourcesOK
    <3> QED BY <3>2, <3>3, <3>4 DEF RunInv
  <2> QED BY <1>4, <2>1, <2>2 DEF AttemptFails
<1>5. CASE GarbledAnswer
  <2>1. PICK e \in GarbledRaises[pc] : Raise(e) BY <1>5 DEF GarbledAnswer
  <2>2. pc \in Fetching BY <1>5 DEF GarbledAnswer
  <2>3. e \in Exceptions BY <2>1, <2>2 DEF GarbledRaises, Fetching, Exceptions
  <2> QED BY <2>1, <2>2, <2>3, RaiseKeepsRun
<1>6. CASE Crash BY <1>6, ForgetKeepsRun DEF Crash, Exceptions
<1>7. ASSUME NEW S \in Requests, StartPoll(S) PROVE RunInv'
  <2>1. /\ asked' = S /\ fixture' = FALSE /\ attempt' = 0 /\ todo' = {} /\ doc' = None
        /\ line' = 0 /\ listed' = NothingListed /\ counts' = NoCounts /\ reports' = {}
        /\ ended' = None /\ pc' = IF "sec_edgar" \in S THEN "feed" ELSE "page"
    BY <1>7 DEF StartPoll
  <2>2. S \subseteq Sources /\ S # {} BY BoundsAssumption DEF Sources
  <2>3. NothingListed \in [feed : Seq(Filings) \cup {None}, search : Seq(Filings) \cup {None},
                           page : Seq(Trades) \cup {None}]
    BY DEF NothingListed
  <2>4. NoCounts \in [Sources -> [fetched : Nat, failed : Nat]] BY DEF NoCounts
  <2>5. RunTypes' BY <1>1, <2>1, <2>2, <2>3, <2>4 DEF RunTypes, Stages, Fetching
  <2>6. PhaseOK' BY <2>1 DEF PhaseOK, FilingStages
  <2>7. SourcesOK' BY <2>1, <2>2 DEF SourcesOK, FilingStages, Sources
  <2> QED BY <2>5, <2>6, <2>7 DEF RunInv
<1>8. CASE StartFixture
  <2>1. /\ fixture' = TRUE /\ ended' = None /\ reports' = {} /\ attempt' = 0 /\ line' = 1
    BY <1>8 DEF StartFixture
  <2>2. NothingListed \in [feed : Seq(Filings) \cup {None}, search : Seq(Filings) \cup {None},
                           page : Seq(Trades) \cup {None}]
    BY DEF NothingListed
  <2>3. \A n \in {0, 1} : [fetched |-> 1, failed |-> n] \in [fetched : Nat, failed : Nat]
    OBVIOUS
  <2>4. NoCounts \in [Sources -> [fetched : Nat, failed : Nat]] BY DEF NoCounts
  <2>5. ASSUME NEW d \in {e \in Elements(filed) \cup Elements(disclosed) : HasDocument(e)},
               asked' = {"sec_edgar"}, doc' = d, todo' = {},
               listed' = [NothingListed EXCEPT !.feed = <<d>>, !.search = <<>>],
               counts' = [NoCounts EXCEPT !["sec_edgar"] =
                            [fetched |-> 1, failed |-> IF Parsed[d].raised = None THEN 0 ELSE 1]],
               pc' = "lines"
        PROVE  RunInv'
    <3>1. d \in Filings BY DEF FeedTypes, Elements, Filings
    <3>2. listed' \in [feed : Seq(Filings) \cup {None}, search : Seq(Filings) \cup {None},
                       page : Seq(Trades) \cup {None}]
      <4>1. <<d>> \in Seq(Filings) /\ <<>> \in Seq(Filings) BY <3>1
      <4>2. listed' = [feed |-> <<d>>, search |-> <<>>, page |-> None]
        BY <2>5 DEF NothingListed
      <4> QED BY <4>1, <4>2
    <3>3. counts' \in [Sources -> [fetched : Nat, failed : Nat]] BY <2>3, <2>4, <2>5
    <3>4. RunTypes' BY <1>1, <2>1, <2>5, <3>1, <3>2, <3>3 DEF RunTypes, Stages, Sources
    <3>5. PhaseOK' BY <2>1, <2>5, <3>1 DEF PhaseOK, FilingStages, Filings, HasDocument
    <3>6. SourcesOK' BY <2>1, <2>5 DEF SourcesOK, FilingStages
    <3> QED BY <3>4, <3>5, <3>6 DEF RunInv
  <2>6. ASSUME NEW page \in SavedPages,
               asked' = {"openinsider"}, doc' = None,
               todo' = ParsePage(page, Content).candidates,
               listed' = [NothingListed EXCEPT !.page = page],
               counts' = [NoCounts EXCEPT !["openinsider"] =
                            [fetched |-> 1,
                             failed |-> IF ParsePage(page, Content).raised = None THEN 0 ELSE 1]],
               pc' = "trades"
        PROVE  RunInv'
    <3>1. page \in Seq(Trades) /\ Len(page) <= PageRows
      BY SavedPageType DEF FeedTypes
    <3>2. listed' \in [feed : Seq(Filings) \cup {None}, search : Seq(Filings) \cup {None},
                       page : Seq(Trades) \cup {None}] /\ listed'.page = page
      BY <2>2, <2>6, <3>1 DEF NothingListed
    <3>3. counts' \in [Sources -> [fetched : Nat, failed : Nat]] BY <2>3, <2>4, <2>6
    <3>4. todo' \subseteq Items(Trades) BY <2>6, <3>1, PageType, PlacedType DEF Items
    <3>5. RunTypes' BY <1>1, <2>1, <2>6, <3>2, <3>3, <3>4 DEF RunTypes, Stages, Sources, Items
    <3>6. PhaseOK' BY <2>1, <2>6, <3>1, <3>2 DEF PhaseOK, FilingStages
    <3>7. SourcesOK' BY <2>1, <2>6 DEF SourcesOK, FilingStages
    <3> QED BY <3>5, <3>6, <3>7 DEF RunInv
  <2> QED BY <1>8, <2>5, <2>6 DEF StartFixture
<1> QED BY <1>2, <1>3, <1>4, <1>5, <1>6, <1>7, <1>8

\* A step that leaves the run alone keeps it.
LEMMA StutterKeepsRun == RunInv /\ UNCHANGED run => RunInv'
BY DEF run, RunInv, RunTypes, PhaseOK, SourcesOK, HasDocument

\* Every step keeps the types of the run.
LEMMA NextKeepsRun == FeedTypes /\ RunInv /\ [Next]_vars => RunInv'
<1> SUFFICES ASSUME FeedTypes, RunInv, [Next]_vars PROVE RunInv'
  OBVIOUS
<1>1. CASE Publish BY <1>1, StutterKeepsRun DEF Publish
<1>2. CASE UNCHANGED vars BY <1>2, StutterKeepsRun DEF vars
<1>3. CASE Next /\ ~Publish
  BY <1>3, DiscoveryKeepsRun, FilingKeepsRun, OtherKeepsRun DEF Next, RunNext, Proceed
<1> QED BY <1>1, <1>2, <1>3

----------------------------------------------------------------------------
\* The types.

\* The steps that change the tables, or the filings that a crash cut short.
LEMMA TablesChangeHere ==
  ASSUME [Next]_vars
  PROVE  \/ IngestRecord \/ LeaveFiling \/ IngestTrade \/ Crash
         \/ UNCHANGED <<rows, copies, torn>>
BY DEF Next, RunNext, Proceed, vars, Publish, StartPoll, StartFixture, AttemptFails, GarbledAnswer,
       FeedAnswers, SearchAnswers, EmptyAnswer, FeedLists, SearchLists, PageLists, NextFiling,
       EndFilings, EndBuybacks, IndexAnswers, DocumentAnswers, PageAnswers, EndTrades

\* Only a publication changes what is published.
LEMMA FeedsChangeHere ==
  ASSUME [Next]_vars
  PROVE  Publish \/ UNCHANGED feeds
BY DEF Next, RunNext, Proceed, vars, StartPoll, StartFixture, AttemptFails, GarbledAnswer,
       FeedAnswers, SearchAnswers, EmptyAnswer, FeedLists, SearchLists, PageLists, NextFiling,
       EndFilings, EndBuybacks, IndexAnswers, DocumentAnswers, PageAnswers, EndTrades,
       IngestRecord, LeaveFiling, IngestTrade, Crash

\* Every step keeps the types of the feeds.
LEMMA NextKeepsFeeds == FeedTypes /\ [Next]_vars => FeedTypes'
<1> SUFFICES ASSUME FeedTypes, [Next]_vars PROVE FeedTypes'
  OBVIOUS
<1>1. CASE UNCHANGED feeds BY <1>1 DEF feeds, FeedTypes
<1>2. CASE Publish
  <2>1. \A S : \A s \in Seq(S) : \A x \in S : <<x>> \o s \in Seq(S) OBVIOUS
  <2> QED BY <1>2, <2>1 DEF Publish, FeedTypes
<1> QED BY <1>1, <1>2, FeedsChangeHere

\* The candidate first in line has a source_ref of its own.
LEMMA CandidateType ==
  ASSUME RunInv, pc = "trades", NEW item \in todo
  PROVE  /\ item[1] \in Trades /\ item[2] \in 1..PageRows
         /\ SourceRef(item[1], item[2]) = <<Insider[item[1]], item[2]>>
         /\ SourceRef(item[1], item[2]) \in Insiders \X (1..PageRows)
<1>1. /\ listed.page \in Seq(Trades) /\ Len(listed.page) <= PageRows
      /\ item \in ParsePage(listed.page, Content).candidates
  BY DEF RunInv, PhaseOK
<1>2. item \in Placed(listed.page) BY <1>1, PageType
<1>3. PICK i \in DOMAIN listed.page : item = <<listed.page[i], i>> BY <1>2 DEF Placed
<1>4. item[1] \in Trades /\ item[2] \in 1..PageRows BY <1>1, <1>3, BoundsAssumption
<1> QED BY <1>4 DEF SourceRef, Insiders

\* Every step keeps the types of the tables.
LEMMA NextKeepsTables == RunInv /\ TableTypes /\ [Next]_vars => TableTypes'
<1> SUFFICES ASSUME RunInv, TableTypes, [Next]_vars PROVE TableTypes'
  OBVIOUS
<1>1. CASE UNCHANGED <<rows, copies, torn>> BY <1>1 DEF TableTypes
<1>2. CASE Crash \/ LeaveFiling
  <2>1. pc = "lines" => doc \in Filings BY DEF RunInv, PhaseOK, Filings
  <2> QED BY <1>2, <2>1 DEF Crash, LeaveFiling, TableTypes
<1>3. CASE IngestRecord
  <2>1. /\ doc \in Filings /\ line \in Records(doc) /\ UNCHANGED <<copies, torn>>
        /\ rows' = [rows EXCEPT ![doc][line] = Parsed[doc].lines[line]]
    BY <1>3 DEF IngestRecord, RunInv, PhaseOK, Filings
  <2>2. Parsed[doc].lines[line] \in InsiderFacts \cup BuybackFacts
    BY <2>1, ParsedType DEF Records, RecordFacts
  <2>3. rows'[doc] \in [Records(doc) -> InsiderFacts \cup BuybackFacts \cup {None}]
    BY <2>1, <2>2 DEF TableTypes
  <2>4. DOMAIN rows' = Filings /\ \A d \in Filings : d # doc => rows'[d] = rows[d]
    BY <2>1 DEF TableTypes
  <2> QED BY <2>1, <2>3, <2>4 DEF TableTypes
<1>4. CASE IngestTrade
  <2>1. PICK item \in todo :
          copies' = IF HasTwin(item[1]) THEN copies
                    ELSE [copies EXCEPT ![SourceRef(item[1], item[2])] = item[1]]
    BY <1>4 DEF IngestTrade
  <2>2. item[1] \in Trades BY <1>4, CandidateType DEF IngestTrade
  <2>3. copies' \in [Insiders \X (1..PageRows) -> Trades \cup {None}]
    BY <2>1, <2>2 DEF TableTypes
  <2> QED BY <1>4, <2>3 DEF IngestTrade, TableTypes
<1> QED BY <1>1, <1>2, <1>3, <1>4, TablesChangeHere

TypeInv == FeedTypes /\ TableTypes /\ RunInv

\* The types hold at first.
LEMMA InitTypes == Init => TypeInv
<1> SUFFICES ASSUME Init PROVE TypeInv
  OBVIOUS
<1>1. FeedTypes BY DEF Init, FeedTypes
<1>2. TableTypes BY DEF Init, TableTypes
<1>3. RunTypes
  <2>1. 0 \in 0..(MaxAttempts - 1) BY BoundsAssumption
  <2>2. NothingListed \in [feed : Seq(Filings) \cup {None}, search : Seq(Filings) \cup {None},
                           page : Seq(Trades) \cup {None}]
    BY DEF NothingListed
  <2>3. NoCounts \in [Sources -> [fetched : Nat, failed : Nat]] BY DEF NoCounts
  <2> QED BY <2>1, <2>2, <2>3 DEF Init, RunTypes, Stages
<1>4. PhaseOK BY DEF Init, PhaseOK, FilingStages
<1>5. SourcesOK BY DocumentsAssumption DEF Init, SourcesOK, FilingStages, Exceptions
<1> QED BY <1>1, <1>2, <1>3, <1>4, <1>5 DEF TypeInv, RunInv

\* Every step keeps them.
LEMMA TypesStay == TypeInv /\ [Next]_vars => TypeInv'
BY NextKeepsFeeds, NextKeepsTables, NextKeepsRun DEF TypeInv

\* Hence they hold in every reachable state.
LEMMA AlwaysTyped == Spec => []TypeInv
BY InitTypes, TypesStay, PTL DEF Spec

\* The variables have their types in every behaviour, whatever is published, how
\* often attempts fail and wherever the process is killed.
THEOREM Typing == Spec => []TypeOK
<1>1. TypeInv => TypeOK BY DEF TypeInv, RunInv, TypeOK
<1> QED BY <1>1, AlwaysTyped, PTL

----------------------------------------------------------------------------
\* A run ends by itself only when every source has reported, and no outage ends
\* one: run_ingest contains them at the source or at the filing.
THEOREM OutagesAreContained == Spec => []OutageContained
<1>1. TypeInv => OutageContained
  BY DocumentsAssumption DEF TypeInv, RunInv, SourcesOK, OutageContained, Exceptions
<1> QED BY <1>1, AlwaysTyped, PTL

----------------------------------------------------------------------------
\* Filings are stored whole.

\* While a filing is being ingested, the records before the next one are stored.
WholeInv ==
  /\ StoredWhole
  /\ pc = "lines" => \A i \in Records(doc) : i < line => rows[doc][i] = Parsed[doc].lines[i]

\* A step that starts no record of a filing under way.
LEMMA QuietKeepsWhole ==
  ASSUME WholeInv, TypeInv, UNCHANGED rows, torn' = torn, pc # "lines", pc' = "lines" => line' = 1,
         TypeInv'
  PROVE  WholeInv'
<1>1. pc' = "lines" => doc' \in Filings BY DEF TypeInv, RunInv, PhaseOK, Filings
<1>2. \A d \in Filings : \A i \in Records(d) : ~(i < 1)
  BY ParsedType DEF Records
<1> QED BY <1>1, <1>2 DEF WholeInv, StoredWhole, Stored, Untouched

\* Every step keeps WholeInv.
LEMMA WholeStays == WholeInv /\ TypeInv /\ TypeInv' /\ [Next]_vars => WholeInv'
<1> SUFFICES ASSUME WholeInv, TypeInv, TypeInv', [Next]_vars PROVE WholeInv'
  OBVIOUS
<1>1. pc = "lines" => doc \in Filings /\ HasDocument(doc) /\ line \in Nat \ {0}
  BY DEF TypeInv, RunInv, RunTypes, PhaseOK, Filings
<1>2. CASE IngestRecord
  <2>1. /\ pc = "lines" /\ line \in Records(doc) /\ line' = line + 1
        /\ rows' = [rows EXCEPT ![doc][line] = Parsed[doc].lines[line]]
        /\ UNCHANGED <<pc, doc, torn>>
    BY <1>2 DEF IngestRecord
  <2>2. DOMAIN rows = Filings /\ rows[doc] \in [Records(doc) -> RecordFacts \cup {None}]
    BY <1>1, <2>1 DEF TypeInv, TableTypes, RecordFacts
  <2>3. \A d \in Filings : d # doc => rows'[d] = rows[d] BY <2>1, <2>2
  <2>4. rows'[doc][line] = Parsed[doc].lines[line]
        /\ \A i \in Records(doc) : i # line => rows'[doc][i] = rows[doc][i]
    BY <1>1, <2>1, <2>2
  <2>5. Records(doc) \subseteq Nat BY <1>1, <2>1, ParsedType DEF Records
  <2>6. \A i \in Records(doc) : i < line + 1 => i < line \/ i = line BY <1>1, <2>1, <2>5
  <2>7. pc' = "lines" =>
          \A i \in Records(doc') : i < line' => rows'[doc'][i] = Parsed[doc'].lines[i]
    BY <2>1, <2>4, <2>6 DEF WholeInv
  <2>8. StoredWhole' BY <2>1, <2>3 DEF WholeInv, StoredWhole, Stored, Untouched
  <2> QED BY <2>7, <2>8 DEF WholeInv
<1>3. CASE LeaveFiling
  <2>1. /\ pc = "lines" /\ line \notin Records(doc) /\ torn' = torn \ {doc} /\ UNCHANGED rows
    BY <1>3 DEF LeaveFiling
  <2>2. pc' # "lines" BY <1>3 DEF LeaveFiling, FinishSource, Loop
  <2>3. \A i \in Records(doc) : i < line
    BY <1>1, <2>1, ParsedType DEF Records
  <2>4. \A i \in Records(doc) : rows[doc][i] = Parsed[doc].lines[i]
    BY <2>1, <2>3 DEF WholeInv
  <2>5. Stored(doc) \/ Untouched(doc)
    <3>1. CASE Parsed[doc].raised = None BY <1>1, <2>1, <2>4, <3>1 DEF Stored, Parsable
    <3>2. CASE Parsed[doc].raised # None
      BY <1>1, <2>1, <3>2, ParsedType DEF Untouched, Records
    <3> QED BY <3>1, <3>2
  <2>6. \A d \in Filings : Stored(d) \/ Untouched(d) \/ d \in torn \ {doc}
    BY <2>5 DEF WholeInv, StoredWhole
  <2> QED BY <2>1, <2>2, <2>6 DEF WholeInv, StoredWhole, Stored, Untouched
<1>4. CASE Crash
  BY <1>4 DEF Crash, WholeInv, StoredWhole, Stored, Untouched
<1>5. CASE UNCHANGED rows /\ UNCHANGED torn /\ pc # "lines" /\ (pc' = "lines" => line' = 1)
  BY <1>5, QuietKeepsWhole
<1>6. CASE UNCHANGED <<rows, torn, pc, doc, line>>
  BY <1>6 DEF WholeInv, StoredWhole, Stored, Untouched
<1>7. CASE Publish \/ UNCHANGED vars BY <1>6, <1>7 DEF Publish, vars, run
<1>8. CASE StartFixture \/ \E S \in Requests : StartPoll(S)
  BY <1>5, <1>8 DEF StartFixture, StartPoll
<1>9. ASSUME NEW e, Raise(e), pc \in Fetching, UNCHANGED <<rows, torn>> PROVE WholeInv'
  BY <1>5, <1>9 DEF Raise, Loop, FinishSource, Fetching
<1>10. CASE AttemptFails \/ GarbledAnswer
  BY <1>6, <1>9, <1>10 DEF AttemptFails, GarbledAnswer
<1>11. CASE FeedAnswers \/ SearchAnswers \/ EmptyAnswer \/ PageAnswers
  BY <1>5, <1>9, <1>11 DEF FeedAnswers, SearchAnswers, EmptyAnswer, PageAnswers, FeedLists,
                           SearchLists, PageLists, TakePage, Fetching
<1>12. CASE NextFiling \/ EndFilings \/ EndBuybacks
  BY <1>5, <1>12 DEF NextFiling, EndFilings, EndBuybacks, FinishSource
<1>13. CASE IndexAnswers \/ DocumentAnswers
  BY <1>5, <1>9, <1>13 DEF IndexAnswers, DocumentAnswers, ParseDocument, Fetching
<1>14. CASE IngestTrade \/ EndTrades
  BY <1>5, <1>14 DEF IngestTrade, EndTrades, FinishSource
<1> QED BY <1>2, <1>3, <1>4, <1>7, <1>8, <1>10, <1>11, <1>12, <1>13, <1>14 DEF Next, RunNext, Proceed

\* Wherever attempts fail, bodies are garbled or other filings are malformed, a
\* filing has all its records or none unless a crash cut its ingestion short.
THEOREM FilingsAreStoredWhole == Spec => []StoredWhole
<1>1. Init => WholeInv BY DEF Init, WholeInv, StoredWhole, Untouched
<1>2. WholeInv => StoredWhole BY DEF WholeInv
<1> QED BY <1>1, <1>2, WholeStays, AlwaysTyped, PTL DEF Spec

----------------------------------------------------------------------------
\* A page that was read is stored.

\* A candidate is told of: it has a twin, or the row of its source_ref is its own.
Told(c) == HasTwin(c[1]) \/ copies[SourceRef(c[1], c[2])] = c[1]

\* Of the page in hand, the candidates that were taken are told of.
PageInv ==
  /\ pc = "trades" /\ counts["openinsider"].failed = 0 =>
       \A c \in ParsePage(listed.page, Content).candidates \ todo : Told(c)
  /\ PageIsStored

\* OpenInsider is the last source to report.
LEMMA ReportedLast == TypeInv => ("openinsider" \in reports => pc = "idle")
BY DEF TypeInv, RunInv, RunTypes, SourcesOK, Stages, Fetching, FilingStages

\* An exception at the page is counted, so no result of it claims that no row failed.
LEMMA RaiseKeepsPage ==
  ASSUME TypeInv, TypeInv', PageInv, pc \in Fetching, NEW e, Raise(e)
  PROVE  PageInv'
<1>1. pc' # "trades" BY DEF Raise, Loop, FinishSource
<1>2. "openinsider" \notin reports BY ReportedLast DEF Fetching
<1>3. CASE "openinsider" \notin reports' BY <1>1, <1>3 DEF PageInv, PageIsStored
<1>4. CASE "openinsider" \in reports'
  <2>1. pc = "page" /\ Count("openinsider", "failed", 1)
    BY <1>2, <1>4 DEF Raise, FinishSource, ForgetRun
  <2>2. counts \in [Sources -> [fetched : Nat, failed : Nat]] /\ "openinsider" \in Sources
    BY DEF TypeInv, RunInv, RunTypes, Sources
  <2>3. counts["openinsider"] \in [fetched : Nat, failed : Nat] BY <2>2
  <2>4. counts'["openinsider"].failed = counts["openinsider"].failed + 1
    BY <2>1, <2>2, <2>3 DEF Count
  <2>5. counts'["openinsider"].failed # 0 BY <2>3, <2>4
  <2> QED BY <1>1, <2>5 DEF PageInv, PageIsStored
<1> QED BY <1>3, <1>4

\* A candidate that is ingested takes no other candidate's row: its place on the
\* page is its own.
LEMMA IngestKeepsPage ==
  ASSUME TypeInv, PageInv, IngestTrade
  PROVE  PageInv'
<1>1. PICK item \in todo :
        /\ todo' = todo \ {item}
        /\ copies' = IF HasTwin(item[1]) THEN copies
                     ELSE [copies EXCEPT ![SourceRef(item[1], item[2])] = item[1]]
  BY DEF IngestTrade
<1>2. /\ pc = "trades" /\ listed.page \in Seq(Trades)
      /\ UNCHANGED <<rows, pc, listed, counts, reports>>
  BY DEF IngestTrade, TypeInv, RunInv, PhaseOK
<1>3. /\ SourceRef(item[1], item[2]) = <<Insider[item[1]], item[2]>>
      /\ SourceRef(item[1], item[2]) \in Insiders \X (1..PageRows)
  BY <1>2, CandidateType DEF TypeInv
<1>4. copies \in [Insiders \X (1..PageRows) -> Trades \cup {None}] BY DEF TypeInv, TableTypes
<1>5. ASSUME NEW c \in ParsePage(listed.page, Content).candidates \ todo',
             counts["openinsider"].failed = 0
      PROVE  Told(c)'
  <2>1. CASE c = item
    <3>1. HasTwin(item[1]) => HasTwin(item[1])' BY <1>2 DEF HasTwin
    <3>2. ~HasTwin(item[1]) => copies'[SourceRef(item[1], item[2])] = item[1]
      BY <1>1, <1>3, <1>4
    <3> QED BY <2>1, <3>1, <3>2 DEF Told
  <2>2. CASE c # item
    <3>1. c \notin todo BY <1>1, <2>2
    <3>2. Told(c) BY <1>2, <1>5, <3>1 DEF PageInv
    <3>3. HasTwin(c[1]) => HasTwin(c[1])' BY <1>2 DEF HasTwin
    <3>4. item \in ParsePage(listed.page, Content).candidates
      BY <1>2 DEF TypeInv, RunInv, PhaseOK
    <3>5. c \in Placed(listed.page) /\ item \in Placed(listed.page)
      BY <1>2, <3>4, PageType
    <3>6. c[2] # item[2] BY <2>2, <3>5 DEF Placed
    <3>7. SourceRef(c[1], c[2]) # SourceRef(item[1], item[2]) BY <3>6 DEF SourceRef
    <3>8. copies'[SourceRef(c[1], c[2])] = copies[SourceRef(c[1], c[2])] \/ HasTwin(item[1])
          \/ SourceRef(c[1], c[2]) \notin DOMAIN copies
      BY <1>1, <3>7
    <3>9. SourceRef(c[1], c[2]) \in DOMAIN copies
      <4>1. PICK i \in DOMAIN listed.page : c = <<listed.page[i], i>> BY <3>5 DEF Placed
      <4>2. Len(listed.page) <= PageRows BY <1>2 DEF TypeInv, RunInv, PhaseOK
      <4>3. c[1] \in Trades /\ c[2] \in 1..PageRows BY <1>2, <4>1, <4>2, BoundsAssumption
      <4> QED BY <1>4, <4>3 DEF SourceRef, Insiders
    <3>10. copies'[SourceRef(c[1], c[2])] = copies[SourceRef(c[1], c[2])]
      BY <1>1, <3>8, <3>9
    <3> QED BY <3>2, <3>3, <3>10 DEF Told
  <2> QED BY <2>1, <2>2
<1>6. "openinsider" \notin reports' BY <1>2, ReportedLast
<1> QED BY <1>2, <1>5, <1>6 DEF PageInv, PageIsStored

\* Once every candidate is taken, the page is stored.
LEMMA EndStoresPage ==
  ASSUME TypeInv, PageInv, EndTrades
  PROVE  PageInv'
<1>1. /\ pc = "trades" /\ todo = {} /\ UNCHANGED <<rows, copies, listed, counts>>
      /\ pc' # "trades"
  BY DEF EndTrades, FinishSource
<1>2. /\ listed.page \in Seq(Trades) /\ Len(listed.page) <= PageRows
      /\ copies \in [Insiders \X (1..PageRows) -> Trades \cup {None}]
  BY <1>1 DEF TypeInv, TableTypes, RunInv, PhaseOK
<1>3. ASSUME counts["openinsider"].failed = 0,
             NEW c \in ParsePage(listed.page, Content).candidates
      PROVE  HasTwin(c[1])' \/ \E r \in DOMAIN copies' : copies'[r] = c[1]
  <2>1. Told(c) BY <1>1, <1>3 DEF PageInv
  <2>2. c \in Placed(listed.page) BY <1>2, PageType
  <2>3. PICK i \in DOMAIN listed.page : c = <<listed.page[i], i>> BY <2>2 DEF Placed
  <2>4. c[1] \in Trades /\ c[2] \in 1..PageRows BY <1>2, <2>3, BoundsAssumption
  <2>5. SourceRef(c[1], c[2]) \in DOMAIN copies BY <1>2, <2>4 DEF SourceRef, Insiders
  <2> QED BY <1>1, <2>1, <2>5 DEF Told, HasTwin
<1> QED BY <1>1, <1>3 DEF PageInv, PageIsStored

\* Every step keeps PageInv.
LEMMA PageStays == PageInv /\ TypeInv /\ TypeInv' /\ [Next]_vars => PageInv'
<1> SUFFICES ASSUME PageInv, TypeInv, TypeInv', [Next]_vars PROVE PageInv'
  OBVIOUS
<1>1. CASE pc' # "trades" /\ "openinsider" \notin reports'
  BY <1>1 DEF PageInv, PageIsStored
<1>2. CASE todo' = ParsePage(listed'.page, Content).candidates /\ pc' = "trades"
  <2>1. "openinsider" \notin reports' BY <1>2 DEF TypeInv, RunInv, SourcesOK
  <2> QED BY <1>2, <2>1 DEF PageInv, PageIsStored
<1>3. CASE UNCHANGED <<rows, copies, pc, todo, listed, counts, reports>>
  <2>1. \A x : HasTwin(x)' = HasTwin(x) BY <1>3 DEF HasTwin
  <2>2. \A c : Told(c)' = Told(c) BY <1>3, <2>1 DEF Told
  <2> QED BY <1>3, <2>1, <2>2 DEF PageInv, PageIsStored
<1>4. CASE Publish \/ UNCHANGED vars BY <1>3, <1>4 DEF Publish, vars, run
<1>5. CASE Crash \/ \E S \in Requests : StartPoll(S)
  BY <1>1, <1>5 DEF Crash, ForgetRun, StartPoll
<1>6. CASE StartFixture
  <2>1. CASE pc' = "lines" /\ reports' = {} BY <1>1, <2>1
  <2>2. ASSUME NEW page, pc' = "trades", todo' = ParsePage(page, Content).candidates,
               listed' = [NothingListed EXCEPT !.page = page]
        PROVE  PageInv'
    BY <1>2, <2>2 DEF NothingListed
  <2> QED BY <1>6, <2>1, <2>2 DEF StartFixture
<1>7. CASE AttemptFails \/ GarbledAnswer
  BY <1>3, <1>7, RaiseKeepsPage DEF AttemptFails, GarbledAnswer
<1>8. ASSUME NEW page, PageLists(page) PROVE PageInv'
  <2>1. CASE Raise(ParsePage(page, Content).raised)
    BY <1>8, <2>1, RaiseKeepsPage DEF PageLists, Fetching
  <2>2. CASE /\ listed' = [listed EXCEPT !.page = page] /\ pc' = "trades"
             /\ todo' = ParsePage(page, Content).candidates
    <3>1. listed'.page = page BY <2>2 DEF TypeInv, RunInv, RunTypes
    <3> QED BY <1>2, <2>2, <3>1
  <2> QED BY <1>8, <2>1, <2>2 DEF PageLists, TakePage
<1>9. CASE FeedAnswers \/ SearchAnswers \/ EmptyAnswer \/ PageAnswers
  <2>1. ASSUME NEW urls, FeedLists(urls) \/ SearchLists(urls) PROVE PageInv'
    BY <1>1, <2>1, ReportedLast DEF FeedLists, SearchLists
  <2> QED BY <1>8, <1>9, <2>1 DEF FeedAnswers, SearchAnswers, EmptyAnswer, PageAnswers
<1>10. CASE NextFiling \/ EndFilings \/ IngestRecord
  BY <1>1, <1>10, ReportedLast DEF NextFiling, EndFilings, IngestRecord
<1>11. CASE EndBuybacks \/ LeaveFiling
  BY <1>1, <1>11, ReportedLast DEF EndBuybacks, LeaveFiling, FinishSource, Loop
<1>12. CASE IndexAnswers
  <2>1. pc = "index" /\ (Raise("ValueError") \/ (pc' = "document" /\ reports' = reports))
    BY <1>12 DEF IndexAnswers
  <2> QED BY <1>1, <2>1, RaiseKeepsPage, ReportedLast DEF Fetching
<1>13. CASE DocumentAnswers
  <2>1. /\ pc \in {"document", "buyback"}
        /\ Raise(Parsed[doc].raised) \/ (pc' = "lines" /\ reports' = reports)
    BY <1>13 DEF DocumentAnswers, ParseDocument
  <2> QED BY <1>1, <2>1, RaiseKeepsPage, ReportedLast DEF Fetching
<1> QED BY <1>4, <1>5, <1>6, <1>7, <1>9, <1>10, <1>11, <1>12, <1>13, IngestKeepsPage, EndStoresPage
     DEF Next, RunNext, Proceed

\* A run that reports on OpenInsider without a failure has stored every trade of
\* the page it read, unless a Form 4 line tells of it.
THEOREM PagesAreStored == Spec => []PageIsStored
<1>1. Init => PageInv BY DEF Init, PageInv, PageIsStored
<1>2. PageInv => PageIsStored BY DEF PageInv
<1> QED BY <1>1, <1>2, PageStays, AlwaysTyped, PTL DEF Spec

----------------------------------------------------------------------------
\* A row passes only to a newer trade.

\* k trades were reported since the page in hand was shown; a row at a place holds
\* a trade that is at that place or behind it and, while a polled page is in hand,
\* is so even if those k are not counted.
Lag(k) == IF fixture THEN 0 ELSE k

AgeAt(k) ==
  /\ pc = "trades" =>
       \A i \in DOMAIN listed.page :
         i + k \in DOMAIN traded /\ traded[i + k] = listed.page[i]
  /\ \A r \in DOMAIN copies : copies[r] # None =>
       \E p \in DOMAIN traded : traded[p] = copies[r] /\ r[2] + Lag(k) <= p

AgeInv ==
  /\ \A i, j \in DOMAIN traded : traded[i] = traded[j] => i = j
  /\ \E k \in Nat : AgeAt(k)

\* A trade is reported once, so it has one place.
LEMMA PlaceIsUnique ==
  ASSUME AgeInv, NEW p \in DOMAIN traded
  PROVE  PlaceOf(traded[p]) = p
<1>1. \E i \in DOMAIN traded : traded[i] = traded[p] OBVIOUS
<1>2. PlaceOf(traded[p]) \in DOMAIN traded /\ traded[PlaceOf(traded[p])] = traded[p]
  BY <1>1 DEF PlaceOf
<1> QED BY <1>2 DEF AgeInv

\* What an ingested candidate does to the rows.
LEMMA IngestedPlace ==
  ASSUME TypeInv, IngestTrade, NEW k \in Nat, AgeAt(k)
  PROVE  \/ UNCHANGED copies
         \/ \E r \in DOMAIN copies : \E p \in DOMAIN traded :
              copies' = [copies EXCEPT ![r] = traded[p]] /\ p = r[2] + k
<1>1. PICK item \in todo :
        copies' = IF HasTwin(item[1]) THEN copies
                  ELSE [copies EXCEPT ![SourceRef(item[1], item[2])] = item[1]]
  BY DEF IngestTrade
<1>2. /\ pc = "trades" /\ listed.page \in Seq(Trades)
      /\ item \in ParsePage(listed.page, Content).candidates
  BY DEF IngestTrade, TypeInv, RunInv, PhaseOK
<1>3. /\ SourceRef(item[1], item[2]) = <<Insider[item[1]], item[2]>>
      /\ SourceRef(item[1], item[2]) \in DOMAIN copies
  BY <1>2, CandidateType DEF TypeInv, TableTypes
<1>4. item \in Placed(listed.page) BY <1>2, PageType
<1>5. PICK i \in DOMAIN listed.page : item = <<listed.page[i], i>> BY <1>4 DEF Placed
<1>6. i + k \in DOMAIN traded /\ traded[i + k] = item[1] /\ item[2] = i
  BY <1>2, <1>5 DEF AgeAt
<1>7. CASE HasTwin(item[1]) BY <1>1, <1>7
<1>8. CASE ~HasTwin(item[1])
  <2> DEFINE ref == SourceRef(item[1], item[2])
  <2>1. copies' = [copies EXCEPT ![ref] = traded[i + k]] BY <1>1, <1>6, <1>8
  <2>2. ref \in DOMAIN copies /\ i + k = ref[2] + k BY <1>3, <1>6
  <2> HIDE DEF ref
  <2> QED BY <1>6, <2>1, <2>2
<1> QED BY <1>7, <1>8

\* What the page shows now is at the same places.
LEMMA LatestShows ==
  ASSUME traded \in Seq(Trades), NEW page, page = Latest(traded, PageRows) \/ page = <<>>
  PROVE  \A i \in DOMAIN page : i + 0 \in DOMAIN traded /\ traded[i + 0] = page[i]
<1>1. CASE page = <<>> BY <1>1
<1>2. CASE page = Latest(traded, PageRows)
  <2> DEFINE n == IF Len(traded) < PageRows THEN Len(traded) ELSE PageRows
  <2>1. n \in Nat /\ n <= Len(traded) BY BoundsAssumption
  <2>2. Len(SubSeq(traded, 1, n)) = n
        /\ \A i \in 1..n : SubSeq(traded, 1, n)[i] = traded[i]
    BY <2>1
  <2>3. SubSeq(traded, 1, n) \in Seq(Trades) BY <2>1
  <2>4. DOMAIN SubSeq(traded, 1, n) = 1..n BY <2>2, <2>3
  <2> QED BY <1>2, <2>1, <2>2, <2>4 DEF Latest
<1> QED BY <1>1, <1>2

\* Every step keeps AgeInv.
LEMMA AgeStays == AgeInv /\ TypeInv /\ TypeInv' /\ [Next]_vars => AgeInv'
<1> SUFFICES ASSUME AgeInv, TypeInv, TypeInv', [Next]_vars PROVE AgeInv'
  OBVIOUS
<1>1. PICK k \in Nat : AgeAt(k) BY DEF AgeInv
<1>2. copies \in [Insiders \X (1..PageRows) -> Trades \cup {None}] BY DEF TypeInv, TableTypes
<1>3. traded \in Seq(Trades) BY DEF TypeInv, FeedTypes
<1>4. CASE Publish
  <2>1. CASE UNCHANGED traded BY <1>1, <1>4, <2>1 DEF Publish, AgeInv, AgeAt, Lag, run
  <2>2. ASSUME NEW t \in Trades \ Elements(traded), traded' = <<t>> \o traded PROVE AgeInv'
    <3>1. Len(traded') = Len(traded) + 1 /\ traded'[1] = t
          /\ \A i \in DOMAIN traded : i + 1 \in DOMAIN traded' /\ traded'[i + 1] = traded[i]
      BY <1>3, <2>2
    <3>2. \A i \in DOMAIN traded' : i = 1 \/ i - 1 \in DOMAIN traded BY <1>3, <3>1, <2>2
    <3>3. \A i, j \in DOMAIN traded' : traded'[i] = traded'[j] => i = j
      <4> SUFFICES ASSUME NEW i \in DOMAIN traded', NEW j \in DOMAIN traded',
                          traded'[i] = traded'[j]
                   PROVE  i = j
        OBVIOUS
      <4>1. i \in Nat /\ j \in Nat BY <1>3, <2>2
      <4>2. \A x \in DOMAIN traded' : x # 1 =>
              x - 1 \in DOMAIN traded /\ traded'[x] = traded[x - 1] /\ traded'[x] # t
        BY <1>3, <2>2, <3>1, <3>2 DEF Elements
      <4> QED BY <3>1, <4>1, <4>2 DEF AgeInv
    <3>4. UNCHANGED <<pc, listed, copies, fixture>> BY <1>4 DEF Publish, run
    <3>5. ASSUME NEW i \in DOMAIN listed.page, pc = "trades"
          PROVE  i + (k + 1) \in DOMAIN traded' /\ traded'[i + (k + 1)] = listed.page[i]
      <4>1. i + k \in DOMAIN traded /\ traded[i + k] = listed.page[i]
        BY <1>1, <3>5 DEF AgeAt
      <4>2. i \in Nat BY <3>5 DEF TypeInv, RunInv, PhaseOK
      <4>3. (i + k) + 1 = i + (k + 1) BY <1>1, <4>2
      <4> QED BY <3>1, <4>1, <4>3
    <3>6. ASSUME NEW r \in DOMAIN copies, copies[r] # None
          PROVE  \E p \in DOMAIN traded' : traded'[p] = copies[r] /\ r[2] + Lag(k + 1) <= p
      <4>1. PICK p \in DOMAIN traded : traded[p] = copies[r] /\ r[2] + Lag(k) <= p
        BY <1>1, <3>6 DEF AgeAt
      <4>2. r[2] \in Nat /\ p \in Nat BY <1>2, <1>3, BoundsAssumption
      <4> QED BY <1>1, <3>1, <4>1, <4>2 DEF Lag
    <3>7. AgeAt(k + 1)' BY <3>4, <3>5, <3>6 DEF AgeAt, Lag
    <3> QED BY <1>1, <3>3, <3>7 DEF AgeInv
  <2> QED BY <1>4, <2>1, <2>2 DEF Publish
<1>5. ASSUME UNCHANGED traded, AgeAt(k)' PROVE AgeInv'
  BY <1>1, <1>5 DEF AgeInv
<1>6. CASE UNCHANGED <<traded, pc, listed, copies, fixture>>
  BY <1>1, <1>5, <1>6 DEF AgeAt, Lag
<1>8. ASSUME UNCHANGED <<traded, copies>>, NEW n \in Nat, n = 0 \/ fixture',
             pc' = "trades" => \A i \in DOMAIN listed'.page :
               i + n \in DOMAIN traded /\ traded[i + n] = listed'.page[i]
      PROVE  AgeInv'
  <2>1. ASSUME NEW r \in DOMAIN copies, copies[r] # None
        PROVE  \E p \in DOMAIN traded : traded[p] = copies[r] /\ r[2] + 0 <= p
    <3>1. PICK p \in DOMAIN traded : traded[p] = copies[r] /\ r[2] + Lag(k) <= p
      BY <1>1, <2>1 DEF AgeAt
    <3>2. r[2] \in Nat /\ p \in Nat BY <1>2, <1>3, BoundsAssumption
    <3> QED BY <1>1, <3>1, <3>2 DEF Lag
  <2>2. Lag(n)' = 0 BY <1>8 DEF Lag
  <2>3. AgeAt(n)' BY <1>8, <2>1, <2>2 DEF AgeAt
  <2> QED BY <1>8, <2>3 DEF AgeInv
<1>7. CASE UNCHANGED <<traded, copies>> /\ pc' # "trades"
  BY <1>7, <1>8
<1>9. CASE IngestTrade
  <2>1. UNCHANGED <<traded, pc, listed, fixture>> BY <1>9 DEF IngestTrade, feeds
  <2>2. CASE UNCHANGED copies BY <1>6, <2>1, <2>2
  <2>3. ASSUME NEW r \in DOMAIN copies, NEW p \in DOMAIN traded,
               copies' = [copies EXCEPT ![r] = traded[p]], p = r[2] + k
        PROVE  AgeInv'
    <3>1. r[2] \in Nat /\ Lag(k) \in {0, k} BY <1>2, BoundsAssumption DEF Lag
    <3>2. r[2] + Lag(k) <= p /\ Lag(k)' = Lag(k) BY <1>1, <2>1, <2>3, <3>1 DEF Lag
    <3>3. AgeAt(k)' BY <1>1, <1>2, <2>1, <2>3, <3>2 DEF AgeAt
    <3> QED BY <1>5, <2>1, <3>3
  <2> QED BY <1>1, <1>9, <2>2, <2>3, IngestedPlace
<1>10. CASE UNCHANGED vars \/ NextFiling \/ EndFilings \/ IngestRecord
  BY <1>6, <1>7, <1>10 DEF vars, feeds, run, NextFiling, EndFilings, IngestRecord
<1>11. CASE Crash \/ (\E S \in Requests : StartPoll(S)) \/ EndTrades \/ EndBuybacks \/ LeaveFiling
  BY <1>7, <1>11 DEF feeds, Crash, StartPoll, EndTrades, EndBuybacks, LeaveFiling, FinishSource, Loop
<1>12. ASSUME NEW e, Raise(e), UNCHANGED <<feeds, copies>> PROVE AgeInv'
  BY <1>7, <1>12 DEF feeds, Raise, Loop, FinishSource
<1>13. CASE AttemptFails \/ GarbledAnswer
  BY <1>6, <1>12, <1>13 DEF feeds, AttemptFails, GarbledAnswer
<1>14. CASE IndexAnswers \/ DocumentAnswers
  BY <1>7, <1>12, <1>14 DEF feeds, IndexAnswers, DocumentAnswers, ParseDocument
<1>15. CASE StartFixture
  <2>1. UNCHANGED <<traded, copies>> BY <1>15 DEF StartFixture, feeds
  <2>2. CASE pc' = "lines" BY <1>7, <2>1, <2>2
  <2>3. ASSUME NEW page \in SavedPages, listed' = [NothingListed EXCEPT !.page = page]
        PROVE  AgeInv'
    <3>1. PICK n \in Nat : \A i \in DOMAIN page : i + n \in DOMAIN traded /\ traded[i + n] = page[i]
      BY <1>3, SavedPageType
    <3>2. listed'.page = page /\ fixture' = TRUE BY <1>15, <2>3 DEF NothingListed, StartFixture
    <3> QED BY <1>8, <2>1, <3>1, <3>2
  <2> QED BY <1>15, <2>2, <2>3 DEF StartFixture
<1>16. ASSUME NEW page, page = Latest(traded, PageRows) \/ page = <<>>, PageLists(page)
       PROVE  AgeInv'
  <2>1. UNCHANGED <<feeds, copies>> BY <1>16 DEF PageLists
  <2>2. CASE Raise(ParsePage(page, Content).raised) BY <1>12, <2>1, <2>2
  <2>3. CASE listed' = [listed EXCEPT !.page = page]
    <3>1. listed'.page = page BY <2>3 DEF TypeInv, RunInv, RunTypes
    <3>2. \A i \in DOMAIN page : i + 0 \in DOMAIN traded /\ traded[i + 0] = page[i]
      BY <1>3, <1>16, LatestShows
    <3> QED BY <1>8, <2>1, <3>1, <3>2 DEF feeds
  <2> QED BY <1>16, <2>2, <2>3 DEF PageLists, TakePage
<1>17. CASE FeedAnswers \/ SearchAnswers \/ EmptyAnswer \/ PageAnswers
  <2>1. ASSUME NEW urls, FeedLists(urls) \/ SearchLists(urls) PROVE AgeInv'
    BY <1>7, <2>1 DEF feeds, FeedLists, SearchLists
  <2> QED BY <1>16, <1>17, <2>1 DEF FeedAnswers, SearchAnswers, EmptyAnswer, PageAnswers
<1> QED BY <1>4, <1>9, <1>10, <1>11, <1>13, <1>14, <1>15, <1>17 DEF Next, RunNext, Proceed

\* However many polls and saved pages came before, a poll gives a row to another
\* trade only when a newer one has come to its place.
THEOREM RowsPassToNewerTrades == Spec => OnlyNewerTradesTakeRows
<1>1. Init => AgeInv
  <2> SUFFICES ASSUME Init PROVE AgeInv
    OBVIOUS
  <2>1. AgeAt(0) BY DEF Init, AgeAt
  <2>2. DOMAIN traded = {} BY DEF Init
  <2> QED BY <2>1, <2>2 DEF AgeInv
<1>2. TypeInv /\ AgeInv /\ [Next]_vars =>
        [~fixture =>
           \A r \in DOMAIN copies :
             copies[r] \notin {None, copies'[r]} => PlaceOf(copies'[r]) < PlaceOf(copies[r])]_vars
  <2> SUFFICES ASSUME TypeInv, AgeInv, [Next]_vars, ~fixture, NEW r \in DOMAIN copies,
                      copies[r] \notin {None, copies'[r]}
               PROVE  PlaceOf(copies'[r]) < PlaceOf(copies[r])
    OBVIOUS
  <2>1. IngestTrade BY TablesChangeHere DEF IngestRecord, LeaveFiling, Crash
  <2>2. PICK k \in Nat : AgeAt(k) BY DEF AgeInv
  <2>3. PICK q \in DOMAIN copies, p \in DOMAIN traded :
          copies' = [copies EXCEPT ![q] = traded[p]] /\ p = q[2] + k
    BY <2>1, <2>2, IngestedPlace
  <2>4. copies \in [Insiders \X (1..PageRows) -> Trades \cup {None}] BY DEF TypeInv, TableTypes
  <2>5. q = r /\ copies'[r] = traded[p] BY <2>3, <2>4
  <2>6. PICK o \in DOMAIN traded : traded[o] = copies[r] /\ r[2] + k <= o
    BY <2>2 DEF AgeAt, Lag
  <2>7. o # p BY <2>5, <2>6
  <2>8. p \in Nat /\ o \in Nat BY DEF TypeInv, FeedTypes
  <2>9. p < o BY <2>3, <2>5, <2>6, <2>7, <2>8
  <2>10. PlaceOf(traded[p]) = p /\ PlaceOf(traded[o]) = o BY PlaceIsUnique
  <2> QED BY <2>5, <2>6, <2>9, <2>10
<1> QED BY <1>1, <1>2, AgeStays, AlwaysTyped, PTL DEF Spec, OnlyNewerTradesTakeRows

----------------------------------------------------------------------------
\* No failure is silent.

\* The filings that the run still has to do with.
Pending == {doc} \cup {item[1] : item \in todo}

\* The discovery of buybacks never answered.
SearchFailed == "sec_edgar" \in reports /\ listed.search = None

\* Buybacks are only reached when the search answered; a fixture is all that is
\* listed, and what it raises is counted at once.
FailInv ==
  /\ FailuresAreCounted
  /\ pc \in {"buybacks", "buyback"} \/ (pc = "lines" /\ (fixture \/ doc \in BuybackFilings)) =>
       listed.search # None
  /\ pc = "lines" /\ fixture =>
       ListedFilings \subseteq {doc} /\ (Parsed[doc].raised # None => counts["sec_edgar"].failed # 0)

\* The filings that a run listed are filings, finitely many.
LEMMA ListedType ==
  ASSUME TypeInv
  PROVE  ListedFilings \subseteq Filings /\ IsFiniteSet(ListedFilings) /\ IsFiniteSet(Missing)
<1> DEFINE S == {f \in {"feed", "search"} : listed[f] # None}
<1>1. \A f \in S : listed[f] \in Seq(Filings) BY DEF TypeInv, RunInv, RunTypes
<1>2. \A q \in Seq(Filings) : Elements(q) \subseteq Filings /\ IsFiniteSet(Elements(q))
  <2> TAKE q \in Seq(Filings)
  <2> DEFINE element == [i \in 1..Len(q) |-> q[i]]
  <2>1. IsFiniteSet(1..Len(q)) BY FS_Interval
  <2>2. Elements(q) = {element[i] : i \in 1..Len(q)} BY DEF Elements
  <2>3. element \in Surjection(1..Len(q), Elements(q)) BY <2>2 DEF Surjection
  <2>4. Elements(q) \subseteq Filings BY DEF Elements
  <2> HIDE DEF element
  <2> QED BY <2>1, <2>3, <2>4, FS_Surjection
<1>3. ListedFilings \subseteq Filings BY <1>1, <1>2 DEF ListedFilings
<1>4. IsFiniteSet({Elements(listed["feed"])} \cup {Elements(listed["search"])})
  BY FS_Singleton, FS_Union
<1>5. {Elements(listed[f]) : f \in S}
        \subseteq {Elements(listed["feed"])} \cup {Elements(listed["search"])}
  OBVIOUS
<1>6. IsFiniteSet({Elements(listed[f]) : f \in S}) BY <1>4, <1>5, FS_Subset
<1>7. \A T \in {Elements(listed[f]) : f \in S} : IsFiniteSet(T) BY <1>1, <1>2
<1>8. IsFiniteSet(ListedFilings) BY <1>6, <1>7, FS_UNION DEF ListedFilings
<1>9. Missing \subseteq ListedFilings BY DEF Missing
<1> QED BY <1>3, <1>8, <1>9, FS_Subset

\* What FailuresAreCounted says, for each of the two cases of its sum.
LEMMA CountedMeans ==
  ASSUME TypeInv
  PROVE  /\ counts["sec_edgar"].failed \in Nat /\ Cardinality(Missing) \in Nat
         /\ FailuresAreCounted <=>
              /\ Cardinality(Missing) <= counts["sec_edgar"].failed
              /\ SearchFailed => Cardinality(Missing) + 1 <= counts["sec_edgar"].failed
<1>1. counts["sec_edgar"].failed \in Nat BY DEF TypeInv, RunInv, RunTypes, Sources
<1>2. Cardinality(Missing) \in Nat BY ListedType, FS_CardinalityType
<1>3. CASE SearchFailed BY <1>1, <1>2, <1>3 DEF FailuresAreCounted, SearchFailed
<1>4. CASE ~SearchFailed BY <1>1, <1>2, <1>4 DEF FailuresAreCounted, SearchFailed
<1> QED BY <1>1, <1>2, <1>3, <1>4

\* A step after which no more is missing than before.
LEMMA NoMoreMissing ==
  ASSUME TypeInv, TypeInv', FailuresAreCounted, Missing' \subseteq Missing,
         counts'["sec_edgar"].failed = counts["sec_edgar"].failed, SearchFailed' => SearchFailed
  PROVE  FailuresAreCounted'
<1>1. Cardinality(Missing') <= Cardinality(Missing) BY ListedType, FS_Subset
<1>2. counts'["sec_edgar"].failed \in Nat BY DEF TypeInv, RunInv, RunTypes, Sources
<1>3. IsFiniteSet(Missing') BY ListedType, FS_Subset
<1>4. Cardinality(Missing') \in Nat BY <1>3, FS_CardinalityType
<1>5. /\ Cardinality(Missing') <= counts'["sec_edgar"].failed
      /\ SearchFailed' => Cardinality(Missing') + 1 <= counts'["sec_edgar"].failed
  BY <1>1, <1>2, <1>4, CountedMeans
<1> QED BY <1>2, <1>4, <1>5 DEF FailuresAreCounted, SearchFailed

\* A step that counts a failure, after which one filing more or the search is missing.
LEMMA CountedMissing ==
  ASSUME TypeInv, TypeInv', FailuresAreCounted, Count("sec_edgar", "failed", 1),
         \/ \E d : Missing' \subseteq Missing \cup {d} /\ (SearchFailed' => SearchFailed)
         \/ Missing' \subseteq Missing /\ ~SearchFailed
  PROVE  FailuresAreCounted'
<1>1. counts \in [Sources -> [fetched : Nat, failed : Nat]] /\ "sec_edgar" \in Sources
  BY DEF TypeInv, RunInv, RunTypes, Sources
<1>2. counts["sec_edgar"] \in [fetched : Nat, failed : Nat] BY <1>1
<1>3. counts'["sec_edgar"].failed = counts["sec_edgar"].failed + 1 BY <1>1, <1>2 DEF Count
<1>4. IsFiniteSet(Missing) /\ Cardinality(Missing) \in Nat BY ListedType, FS_CardinalityType
<1>5. CASE \E d : Missing' \subseteq Missing \cup {d} /\ (SearchFailed' => SearchFailed)
  <2>1. PICK d : Missing' \subseteq Missing \cup {d} BY <1>5
  <2>2. IsFiniteSet(Missing \cup {d}) /\ Cardinality(Missing \cup {d}) \in Nat
        /\ Cardinality(Missing \cup {d}) <= Cardinality(Missing) + 1
    BY <1>4, FS_AddElement
  <2>3. IsFiniteSet(Missing') /\ Cardinality(Missing') <= Cardinality(Missing \cup {d})
    BY <2>1, <2>2, FS_Subset
  <2>4. Cardinality(Missing') \in Nat BY <2>3, FS_CardinalityType
  <2>5. /\ Cardinality(Missing') <= counts'["sec_edgar"].failed
        /\ SearchFailed' => Cardinality(Missing') + 1 <= counts'["sec_edgar"].failed
    BY <1>3, <1>4, <1>5, <2>2, <2>3, <2>4, CountedMeans
  <2> QED BY <1>3, <2>4, <2>5, CountedMeans DEF FailuresAreCounted, SearchFailed
<1>6. CASE Missing' \subseteq Missing /\ ~SearchFailed
  <2>1. IsFiniteSet(Missing') /\ Cardinality(Missing') <= Cardinality(Missing)
    BY <1>4, <1>6, FS_Subset
  <2>2. Cardinality(Missing') \in Nat BY <2>1, FS_CardinalityType
  <2>3. Cardinality(Missing') + 1 <= counts'["sec_edgar"].failed
    BY <1>3, <1>4, <2>1, <2>2, CountedMeans
  <2> QED BY <1>3, <2>2, <2>3, CountedMeans DEF FailuresAreCounted
<1> QED BY <1>5, <1>6

\* With nothing listed, nothing is missing.
LEMMA NothingMissing ==
  ASSUME TypeInv', ListedFilings' \ Pending' = {}, ~SearchFailed'
  PROVE  FailuresAreCounted'
<1>1. Missing' = {} BY DEF Missing, Pending
<1>2. Cardinality(Missing') = 0 BY <1>1, FS_EmptySet
<1>3. counts'["sec_edgar"].failed \in Nat BY DEF TypeInv, RunInv, RunTypes, Sources
<1> QED BY <1>2, <1>3 DEF FailuresAreCounted, SearchFailed

\* Without records ingested, a filing is only missing anew when it was listed and
\* is no longer pending.
LEMMA MissingShrinks ==
  ASSUME UNCHANGED rows, NEW D, ListedFilings' \subseteq ListedFilings \cup Pending',
         ListedFilings \cap Pending \subseteq Pending' \cup D
  PROVE  Missing' \subseteq Missing \cup D
<1>1. \A d : Stored(d)' = Stored(d) BY DEF Stored
<1> QED BY <1>1 DEF Missing, Pending

\* A run that has forgotten its locals lists nothing.
LEMMA NothingListedLists ==
  ASSUME listed'.feed = None, listed'.search = None
  PROVE  ListedFilings' = {}
BY DEF ListedFilings

\* Outside the filing stages, no filing is pending unless one of the loops runs.
LEMMA PendingTrades ==
  ASSUME TypeInv, pc \in {"idle", "feed", "search", "page", "trades"}, pc = "idle" => todo = {}
  PROVE  ListedFilings \cap Pending = {}
<1>1. doc = None /\ None \notin Filings
  BY DocumentsAssumption DEF TypeInv, RunInv, PhaseOK, FilingStages
<1>2. pc = "trades" => \A item \in todo : item[1] \in Trades BY CandidateType DEF TypeInv
<1>3. pc # "trades" => todo = {} BY DEF TypeInv, RunInv, PhaseOK
<1>4. \A item \in todo : item[1] \notin Filings BY <1>2, <1>3, DocumentsAssumption
<1> QED BY <1>1, <1>4, ListedType DEF Pending

\* What an exception does to the count: it ends the run, or it is counted.
LEMMA RaiseKeepsFail ==
  ASSUME TypeInv, TypeInv', FailInv, pc \in Fetching, NEW e, Raise(e), UNCHANGED rows
  PROVE  FailInv'
<1>1. pc' # "lines" /\ (pc' = "buybacks" => pc = "buyback" /\ UNCHANGED listed) /\ pc' # "buyback"
  <2>1. pc = "index" \/ pc = "document" => doc \in Form4Filings
    BY DEF TypeInv, RunInv, PhaseOK
  <2> QED BY <2>1 DEF Raise, Loop, FinishSource
<1>2. CASE pc' = "idle" /\ ForgetRun
  <2>1. ListedFilings' = {} /\ ~SearchFailed'
    BY <1>2, NothingListedLists DEF ForgetRun, NothingListed, SearchFailed
  <2>2. FailuresAreCounted' BY <2>1, NothingMissing
  <2> QED BY <1>2, <2>2 DEF FailInv
<1>3. CASE /\ pc \in {"index", "document", "buyback"} /\ Count("sec_edgar", "failed", 1)
           /\ doc' = None /\ UNCHANGED <<todo, listed, reports>>
  <2>1. ListedFilings' = ListedFilings BY <1>3 DEF ListedFilings
  <2>2. ListedFilings \cap Pending \subseteq Pending' \cup {doc} BY <1>3 DEF Pending
  <2>3. Missing' \subseteq Missing \cup {doc} BY <2>1, <2>2, MissingShrinks
  <2>4. FailuresAreCounted' BY <1>3, <2>3, CountedMissing DEF FailInv, SearchFailed
  <2> QED BY <1>1, <1>3, <2>4 DEF FailInv
<1>4. CASE /\ pc \in {"feed", "search"} /\ Count("sec_edgar", "failed", 1)
           /\ UNCHANGED <<todo, doc, listed>>
  <2>1. ListedFilings' = ListedFilings /\ Pending' = Pending BY <1>4 DEF ListedFilings, Pending
  <2>2. Missing' \subseteq Missing BY <2>1, MissingShrinks
  <2>3. ~SearchFailed BY <1>4 DEF SearchFailed, TypeInv, RunInv, SourcesOK
  <2>4. FailuresAreCounted' BY <1>4, <2>2, <2>3, CountedMissing DEF FailInv
  <2> QED BY <1>1, <1>4, <2>4 DEF FailInv
<1>5. CASE /\ pc = "page" /\ Count("openinsider", "failed", 1) /\ FinishSource("openinsider")
           /\ UNCHANGED <<todo, doc, listed>>
  <2>1. ListedFilings' = ListedFilings /\ Pending' = Pending BY <1>5 DEF ListedFilings, Pending
  <2>2. Missing' \subseteq Missing BY <2>1, MissingShrinks
  <2>3. counts'["sec_edgar"].failed = counts["sec_edgar"].failed
    BY <1>5 DEF Count, TypeInv, RunInv, RunTypes, Sources
  <2>4. SearchFailed' => SearchFailed BY <1>5 DEF SearchFailed, FinishSource
  <2>5. FailuresAreCounted' BY <2>2, <2>3, <2>4, NoMoreMissing DEF FailInv
  <2> QED BY <1>1, <1>5, <2>5 DEF FailInv, FinishSource
<1> QED BY <1>2, <1>3, <1>4, <1>5 DEF Raise

\* A step of the loops or the discoveries that raises nothing.
LEMMA ListKeepsFail ==
  ASSUME TypeInv, TypeInv', FailInv, UNCHANGED <<rows, reports>>, pc' # "lines",
         ListedFilings' \subseteq ListedFilings \cup Pending',
         ListedFilings \cap Pending \subseteq Pending',
         counts'["sec_edgar"].failed = counts["sec_edgar"].failed,
         listed.search # None => listed'.search # None,
         pc' \in {"buybacks", "buyback"} => listed'.search # None
  PROVE  FailInv'
<1>1. Missing' \subseteq Missing BY MissingShrinks
<1>2. FailuresAreCounted' BY <1>1, NoMoreMissing DEF FailInv, SearchFailed
<1> QED BY <1>2 DEF FailInv

\* The discoveries and the heads of the loops.
LEMMA LoopKeepsFail ==
  ASSUME TypeInv, TypeInv', FailInv,
         \/ FeedAnswers \/ SearchAnswers \/ EmptyAnswer \/ NextFiling \/ EndFilings
         \/ EndBuybacks \/ PageAnswers \/ IngestTrade \/ EndTrades
  PROVE  FailInv'
<1>1. listed \in [feed : Seq(Filings) \cup {None}, search : Seq(Filings) \cup {None},
                  page : Seq(Trades) \cup {None}]
  BY DEF TypeInv, RunInv, RunTypes
<1>2. ASSUME NEW urls, urls \in Seq(Filings), FeedLists(urls) \/ SearchLists(urls) PROVE FailInv'
  <2>1. /\ UNCHANGED <<rows, reports, doc, counts>> /\ pc \in {"feed", "search"}
        /\ pc' \in {"filings", "buybacks"} /\ todo' = Placed(urls)
        /\ \/ listed' = [listed EXCEPT !.feed = urls] /\ pc' = "filings"
           \/ listed' = [listed EXCEPT !.search = urls]
    BY <1>2 DEF FeedLists, SearchLists
  <2>2. ListedFilings \cap Pending = {} BY <2>1, PendingTrades
  <2>3. urls # None BY <1>2, DocumentsAssumption
  <2>4. Elements(urls) \subseteq Pending'
    <3> SUFFICES ASSUME NEW i \in DOMAIN urls PROVE urls[i] \in Pending'
      BY DEF Elements
    <3>1. <<urls[i], i>> \in todo' BY <2>1 DEF Placed
    <3>2. urls[i] = <<urls[i], i>>[1] OBVIOUS
    <3> QED BY <3>1, <3>2 DEF Pending
  <2>5. ListedFilings' \subseteq ListedFilings \cup Elements(urls)
    <3>1. CASE listed' = [listed EXCEPT !.feed = urls]
      BY <1>1, <3>1 DEF ListedFilings
    <3>2. CASE listed' = [listed EXCEPT !.search = urls]
      BY <1>1, <3>2 DEF ListedFilings
    <3> QED BY <2>1, <3>1, <3>2
  <2>6. /\ listed.search # None => listed'.search # None
        /\ pc' = "buybacks" => listed'.search # None
    BY <1>1, <2>1, <2>3
  <2> QED BY <2>1, <2>2, <2>4, <2>5, <2>6, ListKeepsFail
<1>3. ASSUME NEW page, page \in Seq(Trades), PageLists(page) PROVE FailInv'
  <2>1. CASE Raise(ParsePage(page, Content).raised)
    BY <1>3, <2>1, RaiseKeepsFail DEF PageLists, Fetching
  <2>2. CASE /\ listed' = [listed EXCEPT !.page = page] /\ pc' = "trades"
             /\ Count("openinsider", "fetched", Cardinality(ParsePage(page, Content).candidates))
             /\ UNCHANGED <<doc, reports>>
    <3>1. pc = "page" /\ UNCHANGED rows BY <1>3 DEF PageLists
    <3>2. ListedFilings' = ListedFilings /\ listed'.search = listed.search
      BY <1>1, <2>2 DEF ListedFilings
    <3>3. ListedFilings \cap Pending = {} BY <3>1, PendingTrades
    <3>4. counts'["sec_edgar"].failed = counts["sec_edgar"].failed
      BY <2>2 DEF Count, TypeInv, RunInv, RunTypes, Sources
    <3> QED BY <2>2, <3>1, <3>2, <3>3, <3>4, ListKeepsFail
  <2> QED BY <1>3, <2>1, <2>2 DEF PageLists, TakePage
<1>4. CASE FeedAnswers \/ SearchAnswers \/ EmptyAnswer \/ PageAnswers
  <2>1. /\ Latest(filed, Window) \in Seq(Filings) /\ Latest(disclosed, Window) \in Seq(Filings)
        /\ Latest(traded, PageRows) \in Seq(Trades)
        /\ <<>> \in Seq(Filings) /\ <<>> \in Seq(Trades)
    <3>1. filed \in Seq(Filings) /\ disclosed \in Seq(Filings) /\ traded \in Seq(Trades)
      BY DEF TypeInv, FeedTypes, Filings
    <3> QED BY <3>1, LatestType, BoundsAssumption
  <2> QED BY <1>2, <1>3, <1>4, <2>1 DEF FeedAnswers, SearchAnswers, EmptyAnswer, PageAnswers
<1>5. CASE NextFiling
  <2>1. PICK item \in todo : todo' = todo \ {item} /\ doc' = item[1] BY <1>5 DEF NextFiling
  <2>2. doc = None BY <1>5 DEF NextFiling, TypeInv, RunInv, PhaseOK, FilingStages
  <2>3. ListedFilings \cap Pending \subseteq Pending'
    BY <2>1, <2>2, ListedType, DocumentsAssumption DEF Pending
  <2>4. counts'["sec_edgar"].failed = counts["sec_edgar"].failed
    BY <1>5 DEF NextFiling, Count, TypeInv, RunInv, RunTypes, Sources
  <2>5. ListedFilings' = ListedFilings BY <1>5 DEF NextFiling, ListedFilings
  <2>6. pc' \in {"buybacks", "buyback"} => listed'.search # None
    BY <1>5 DEF NextFiling, FailInv
  <2> QED BY <1>5, <2>3, <2>4, <2>5, <2>6, ListKeepsFail DEF NextFiling
<1>6. CASE EndFilings
  BY <1>6, ListKeepsFail DEF EndFilings, ListedFilings, Pending
<1>7. CASE IngestTrade
  <2>1. ListedFilings' = ListedFilings BY <1>7 DEF IngestTrade, ListedFilings
  <2>2. ListedFilings \cap Pending = {} BY <1>7, PendingTrades DEF IngestTrade
  <2> QED BY <1>7, <2>1, <2>2, ListKeepsFail DEF IngestTrade
<1>8. CASE EndBuybacks
  <2>1. listed.search # None /\ UNCHANGED <<rows, listed, doc, todo, counts>> /\ pc' \in {"page", "idle"}
    BY <1>8 DEF FailInv, EndBuybacks, FinishSource
  <2>2. ~SearchFailed' BY <2>1 DEF SearchFailed
  <2>3. ListedFilings' = ListedFilings /\ Pending' = Pending BY <2>1 DEF ListedFilings, Pending
  <2>4. Missing' \subseteq Missing BY <2>1, <2>3, MissingShrinks
  <2>5. FailuresAreCounted' BY <2>1, <2>2, <2>4, NoMoreMissing DEF FailInv
  <2> QED BY <2>1, <2>5 DEF FailInv
<1>9. CASE EndTrades
  <2>1. UNCHANGED <<rows, listed, doc, todo, counts>> /\ pc' = "idle"
        /\ reports' = reports \cup {"openinsider"}
    BY <1>9 DEF EndTrades, FinishSource
  <2>2. SearchFailed' => SearchFailed BY <2>1 DEF SearchFailed
  <2>3. ListedFilings' = ListedFilings /\ Pending' = Pending BY <2>1 DEF ListedFilings, Pending
  <2>4. Missing' \subseteq Missing BY <2>1, <2>3, MissingShrinks
  <2>5. FailuresAreCounted' BY <2>1, <2>2, <2>4, NoMoreMissing DEF FailInv
  <2> QED BY <2>1, <2>5 DEF FailInv
<1> QED BY <1>4, <1>5, <1>6, <1>7, <1>8, <1>9

\* Every step keeps FailInv.
LEMMA FailStays == FailInv /\ WholeInv /\ TypeInv /\ TypeInv' /\ [Next]_vars => FailInv'
<1> SUFFICES ASSUME FailInv, WholeInv, TypeInv, TypeInv', [Next]_vars PROVE FailInv'
  OBVIOUS
<1>1. CASE UNCHANGED <<rows, run>>
  <2>1. ListedFilings' = ListedFilings /\ Pending' = Pending
    BY <1>1 DEF run, ListedFilings, Pending
  <2>2. Missing' \subseteq Missing BY <1>1, <2>1, MissingShrinks
  <2>3. FailuresAreCounted' BY <1>1, <2>2, NoMoreMissing DEF FailInv, run, SearchFailed
  <2> QED BY <1>1, <2>1, <2>3 DEF FailInv, run
<1>2. CASE Publish \/ UNCHANGED vars BY <1>1, <1>2 DEF Publish, vars
<1>3. CASE Crash \/ \E S \in Requests : StartPoll(S)
  <2>1. listed' = NothingListed /\ reports' = {} /\ pc' \in {"idle", "feed", "page"}
    BY <1>3 DEF Crash, ForgetRun, StartPoll
  <2>2. ListedFilings' = {} /\ ~SearchFailed'
    BY <2>1, NothingListedLists DEF NothingListed, SearchFailed
  <2>3. FailuresAreCounted' BY <2>2, NothingMissing
  <2> QED BY <2>1, <2>3 DEF FailInv
<1>4. CASE StartFixture
  <2>1. reports' = {} BY <1>4 DEF StartFixture
  <2>2. ASSUME NEW d, d \in Filings, doc' = d, pc' = "lines",
               listed' = [NothingListed EXCEPT !.feed = <<d>>, !.search = <<>>],
               counts' = [NoCounts EXCEPT !["sec_edgar"] =
                            [fetched |-> 1, failed |-> IF Parsed[d].raised = None THEN 0 ELSE 1]]
        PROVE  FailInv'
    <3>1. listed' = [feed |-> <<d>>, search |-> <<>>, page |-> None] BY <2>2 DEF NothingListed
    <3>2. Elements(<<d>>) = {d} /\ Elements(<<>>) = {} BY DEF Elements
    <3>3. ListedFilings' \subseteq {d} BY <3>1, <3>2 DEF ListedFilings
    <3>4. d \in Pending' BY <2>2 DEF Pending
    <3>5. FailuresAreCounted' BY <2>1, <3>3, <3>4, NothingMissing DEF SearchFailed
    <3>6. Parsed[d].raised # None => counts'["sec_edgar"].failed # 0
      BY <2>2 DEF NoCounts, Sources
    <3>7. <<>> \in Seq(Filings) OBVIOUS
    <3>8. listed'.search # None BY <3>1, <3>7, DocumentsAssumption
    <3> QED BY <2>2, <3>3, <3>5, <3>6, <3>8 DEF FailInv, Parsed
  <2>3. ASSUME NEW page, pc' = "trades", listed' = [NothingListed EXCEPT !.page = page]
        PROVE  FailInv'
    <3>1. ListedFilings' = {} BY <2>3, NothingListedLists DEF NothingListed
    <3>2. FailuresAreCounted' BY <2>1, <3>1, NothingMissing DEF SearchFailed
    <3> QED BY <2>3, <3>2 DEF FailInv
  <2>4. \A d \in Elements(filed) \cup Elements(disclosed) : d \in Filings
    BY DEF TypeInv, FeedTypes, Elements, Filings
  <2> QED BY <1>4, <2>2, <2>3, <2>4 DEF StartFixture
<1>5. CASE AttemptFails \/ GarbledAnswer
  <2>1. UNCHANGED rows /\ pc \in Fetching BY <1>5 DEF AttemptFails, GarbledAnswer
  <2>2. CASE \E e : Raise(e) BY <2>1, <2>2, RaiseKeepsFail
  <2>3. CASE UNCHANGED <<pc, fixture, todo, doc, listed, counts, reports>>
    <3>1. ListedFilings' = ListedFilings /\ Pending' = Pending
      BY <2>3 DEF ListedFilings, Pending
    <3> QED BY <2>1, <2>3, <3>1, ListKeepsFail DEF FailInv, Fetching
  <2> QED BY <1>5, <2>2, <2>3 DEF AttemptFails, GarbledAnswer
<1>6. CASE IndexAnswers
  <2>1. pc = "index" /\ UNCHANGED rows BY <1>6 DEF IndexAnswers
  <2>2. CASE Raise("ValueError") BY <2>1, <2>2, RaiseKeepsFail DEF Fetching
  <2>3. CASE pc' = "document" /\ UNCHANGED <<fixture, todo, doc, listed, counts, reports>>
    <3>1. ListedFilings' = ListedFilings /\ Pending' = Pending
      BY <2>3 DEF ListedFilings, Pending
    <3> QED BY <2>1, <2>3, <3>1, ListKeepsFail
  <2> QED BY <1>6, <2>2, <2>3 DEF IndexAnswers
<1>7. CASE DocumentAnswers
  <2>1. pc \in {"document", "buyback"} /\ UNCHANGED rows BY <1>7 DEF DocumentAnswers
  <2>2. CASE Raise(Parsed[doc].raised) BY <2>1, <2>2, RaiseKeepsFail DEF Fetching
  <2>3. CASE pc' = "lines" /\ UNCHANGED <<fixture, todo, doc, listed, counts, reports>>
    <3>1. ListedFilings' = ListedFilings /\ Pending' = Pending
      BY <2>3 DEF ListedFilings, Pending
    <3>2. Missing' \subseteq Missing BY <2>1, <3>1, MissingShrinks
    <3>3. FailuresAreCounted' BY <2>3, <3>2, NoMoreMissing DEF FailInv, SearchFailed
    <3>4. ~fixture /\ (pc = "document" => doc \in Form4Filings)
      BY <2>1 DEF TypeInv, RunInv, PhaseOK, SourcesOK
    <3>5. doc \in BuybackFilings => pc = "buyback" BY <2>1, <3>4, DocumentsAssumption
    <3> QED BY <2>3, <3>3, <3>4, <3>5 DEF FailInv
  <2> QED BY <1>7, <2>2, <2>3 DEF DocumentAnswers, ParseDocument
<1>8. CASE IngestRecord
  <2>1. /\ pc = "lines" /\ rows' = [rows EXCEPT ![doc][line] = Parsed[doc].lines[line]]
        /\ UNCHANGED <<pc, fixture, todo, doc, listed, counts, reports>>
    BY <1>8 DEF IngestRecord
  <2>2. \A d \in Filings : d # doc => rows'[d] = rows[d]
    BY <2>1 DEF TypeInv, TableTypes
  <2>3. ListedFilings' = ListedFilings /\ Pending' = Pending BY <2>1 DEF ListedFilings, Pending
  <2>4. \A d \in Filings : d # doc => Stored(d)' = Stored(d) BY <2>2 DEF Stored
  <2>5. Missing' \subseteq Missing BY <2>1, <2>3, <2>4, ListedType DEF Missing, Pending
  <2>6. FailuresAreCounted' BY <2>1, <2>5, NoMoreMissing DEF FailInv, SearchFailed
  <2> QED BY <2>1, <2>3, <2>6 DEF FailInv
<1>9. CASE LeaveFiling
  <2>1. /\ pc = "lines" /\ line \notin Records(doc) /\ doc' = None
        /\ UNCHANGED <<rows, todo, listed, counts>>
        /\ IF fixture THEN FinishSource("sec_edgar") ELSE pc' = Loop /\ UNCHANGED reports
    BY <1>9 DEF LeaveFiling
  <2>2. doc \in Filings /\ HasDocument(doc) /\ line \in Nat \ {0}
        /\ (~fixture => Parsed[doc].raised = None) /\ reports = {}
    BY <2>1 DEF TypeInv, RunInv, RunTypes, PhaseOK, SourcesOK, FilingStages, Filings
  <2>3. Parsed[doc].raised = None => Stored(doc)
    <3>1. \A i \in Records(doc) : i < line BY <2>1, <2>2, ParsedType DEF Records
    <3> QED BY <2>1, <2>2, <3>1 DEF WholeInv, Stored, Parsable
  <2>4. ListedFilings' = ListedFilings BY <2>1 DEF ListedFilings
  <2>5. pc' # "lines" /\ (pc' \in {"buybacks", "buyback"} => listed.search # None)
    <3>1. pc' = "buybacks" => doc \in BuybackFilings
      BY <2>1, <2>2 DEF FinishSource, Loop, Filings
    <3> QED BY <2>1, <3>1 DEF FailInv, FinishSource, Loop
  <2>6. CASE Parsed[doc].raised = None
    <3>1. Missing' \subseteq Missing
      BY <2>1, <2>3, <2>4, <2>6 DEF Missing, Stored
    <3>2. ~SearchFailed' BY <2>1, <2>2 DEF SearchFailed, FailInv, FinishSource
    <3>3. FailuresAreCounted' BY <2>1, <3>1, <3>2, NoMoreMissing DEF FailInv
    <3> QED BY <2>1, <2>5, <3>3 DEF FailInv
  <2>7. CASE Parsed[doc].raised # None
    <3>1. fixture /\ ListedFilings \subseteq {doc} /\ counts["sec_edgar"].failed # 0
          /\ listed.search # None
      BY <2>1, <2>2, <2>7 DEF FailInv
    <3>2. Missing' \subseteq {doc} BY <2>4, <3>1 DEF Missing
    <3>3. IsFiniteSet({doc}) /\ Cardinality({doc}) = 1 BY FS_Singleton
    <3>4. IsFiniteSet(Missing') /\ Cardinality(Missing') <= 1 BY <3>2, <3>3, FS_Subset
    <3>5. Cardinality(Missing') \in Nat BY <3>4, FS_CardinalityType
    <3>6. counts["sec_edgar"].failed \in Nat BY CountedMeans
    <3>7. ~SearchFailed' BY <2>1, <3>1 DEF SearchFailed
    <3>8. FailuresAreCounted' BY <2>1, <3>1, <3>4, <3>5, <3>6, <3>7 DEF FailuresAreCounted, SearchFailed
    <3> QED BY <2>1, <2>5, <3>8 DEF FailInv
  <2> QED BY <2>6, <2>7
<1> QED BY <1>2, <1>3, <1>4, <1>5, <1>6, <1>7, <1>8, <1>9, LoopKeepsFail DEF Next, RunNext, Proceed

\* No failure is silent (FR-015): in every behaviour, the filings a run is through
\* with and did not store, and a search that never answered, are counted as failed.
THEOREM NoFailureIsSilent == Spec => []FailuresAreCounted
<1>1. Init => FailInv
  <2> SUFFICES ASSUME Init PROVE FailInv
    OBVIOUS
  <2>1. Missing = {}
    BY DEF Init, Missing, ListedFilings, NothingListed
  <2>2. Cardinality(Missing) = 0 BY <2>1, FS_EmptySet
  <2> QED BY <2>2 DEF Init, FailInv, FailuresAreCounted, NoCounts, Sources
<1>2. Init => WholeInv BY DEF Init, WholeInv, StoredWhole, Untouched
<1>3. FailInv => FailuresAreCounted BY DEF FailInv
<1> QED BY <1>1, <1>2, <1>3, FailStays, WholeStays, AlwaysTyped, PTL DEF Spec
=============================================================================
