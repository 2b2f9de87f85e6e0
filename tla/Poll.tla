-------------------------------- MODULE Poll --------------------------------
(***************************************************************************)
(* run_ingest over the network, one HTTP attempt or one ingested record    *)
(* per step (ingestion/orchestrator.py, http_client.py and the readers of  *)
(* the three feeds), while filings and trades are published.               *)
(*                                                                         *)
(* Ingesting a record, which module Ingest models call by call, is one     *)
(* step here and adds its row; which rows supersede which is Ingest's.     *)
(***************************************************************************)
EXTENDS Documents, FiniteSets

CONSTANTS
  Form4Filings,     \* Form 4 filings, named by accession number
  BuybackFilings,   \* 8-K filings
  Trades,           \* trades that OpenInsider lists
  Content,          \* the document of each filing, the page row of each trade
  Insider,          \* the ticker, trade date and filer name of each trade
  Twins,            \* Twins[t]: the Form 4 lines <<filing, index>> with t's
                    \* ticker, filer name, date and share count
  Window,           \* filings a SEC feed lists (count=100)
  PageRows,         \* rows of the OpenInsider page
  Requests,         \* the sets of sources a run may be asked for
  MaxAttempts       \* max_attempts of fetch_with_retry

Filings == Form4Filings \cup BuybackFilings
Insiders == {Insider[t] : t \in Trades}

ASSUME DocumentsAssumption ==
  /\ Form4Filings \cap BuybackFilings = {} /\ Filings \cap Trades = {}
  /\ None \notin Filings \cup Trades \cup Nat \cup Exceptions \cup {"done", "crash"}
  /\ None \notin Seq(Filings) /\ None \notin Seq(Trades)
  /\ \A d \in Form4Filings : Content[d] \in Form4Document
  /\ \A d \in BuybackFilings : Content[d] \in BuybackDocument
  /\ \A t \in Trades : Content[t] \in PageRow
  /\ Twins \in [Trades -> SUBSET (Form4Filings \X (Nat \ {0}))]

ASSUME BoundsAssumption ==
  /\ Window \in Nat \ {0}
  /\ PageRows \in Nat \ {0}
  /\ MaxAttempts \in Nat \ {0}
  /\ Requests \subseteq (SUBSET {"sec_edgar", "openinsider"}) \ {{}}

\* What the parser makes of each filing: its records, or the exception.
Parsed ==
  [d \in Filings |->
     IF d \in Form4Filings THEN ParseForm4(Content[d]) ELSE ParseBuyback(Content[d])]

Records(d) == DOMAIN Parsed[d].lines

\* The index page of a Form 4 filing links to its XML document.
HasDocument(d) == d \in BuybackFilings \/ "no_xml" \notin Content[d].flaws

VARIABLES
  filed,        \* Form 4 filings published so far, newest first
  disclosed,    \* 8-K filings published so far, newest first
  traded,       \* trades reported by OpenInsider so far, newest first
  rows,         \* rows[d][i]: the stored record of source_ref d-i, or None
  copies,       \* copies[r]: the trade whose row has OpenInsider source_ref r
  pc,           \* where the run is
  asked,        \* the sources it was asked for
  fixture,      \* it ingests a local file
  attempt,      \* failed attempts of the request under way
  todo,         \* rest of the list being iterated: <<item, place>>
  doc,          \* the filing in hand
  line,         \* the next of its records to ingest
  listed,       \* what each discovery answered in this run, None if it did not
  counts,       \* counters of the results
  reports,      \* the sources whose result was appended
  ended,        \* how the last run ended: None before the first and during one
  torn          \* auxiliary: filings whose ingestion a crash cut short

feeds == <<filed, disclosed, traded>>
run == <<pc, asked, fixture, attempt, todo, doc, line, listed, counts, reports, ended>>
vars == <<feeds, rows, copies, run, torn>>

Sources == {"sec_edgar", "openinsider"}

\* Stages with a request under way.
Fetching == {"feed", "index", "document", "search", "buyback", "page"}

\* Fault: the search for buybacks is not guarded.
CaughtButSearch ==
  [feed     |-> {"FetchError"},
   index    |-> {"FetchError", "ValueError", "SyntaxError"},
   document |-> {"FetchError", "ValueError", "SyntaxError"},
   search   |-> {},
   buyback  |-> {"FetchError", "ValueError"},
   page     |-> {"FetchError"}]

\* What the handler around each stage's own filing or source catches.
Caught ==
  [feed     |-> {"FetchError"},
   index    |-> {"FetchError", "ValueError", "SyntaxError"},
   document |-> {"FetchError", "ValueError", "SyntaxError"},
   search   |-> {"FetchError"},
   buyback  |-> {"FetchError", "ValueError"},
   page     |-> {"FetchError"}]

\* What a reader may raise of a body that is not what was asked for: not XML, no
\* link, XML that is no ownership document, not JSON, no amount.
GarbledRaises ==
  [feed |-> {"SyntaxError"}, index |-> {"ValueError"},
   document |-> {"SyntaxError", "AttributeError"},
   search |-> {"ValueError"}, buyback |-> {"ValueError"}, page |-> {}]

NoCounts == [s \in Sources |-> [fetched |-> 0, failed |-> 0]]
NothingListed == [feed |-> None, search |-> None, page |-> None]

\* The first n elements: what a feed or a page shows of all published so far.
Latest(s, n) == SubSeq(s, 1, IF Len(s) < n THEN Len(s) ELSE n)

Elements(s) == {s[i] : i \in DOMAIN s}
Placed(s) == {<<s[i], i>> : i \in DOMAIN s}

\* for ... in: the element with the least place.
IsFirst(item) == item \in todo /\ \A other \in todo : item[2] <= other[2]

Init ==
  /\ filed = <<>> /\ disclosed = <<>> /\ traded = <<>>
  /\ rows = [d \in Filings |-> [i \in Records(d) |-> None]]
  /\ copies = [r \in Insiders \X (1..PageRows) |-> None]
  /\ pc = "idle" /\ asked = {} /\ fixture = FALSE
  /\ attempt = 0 /\ todo = {} /\ doc = None /\ line = 0
  /\ listed = NothingListed /\ counts = NoCounts /\ reports = {} /\ ended = None
  /\ torn = {}

----------------------------------------------------------------------------
\* The world: a filing is published, a trade is reported.

Publish ==
  /\ \/ \E d \in Form4Filings \ Elements(filed) :
          filed' = <<d>> \o filed /\ UNCHANGED <<disclosed, traded>>
     \/ \E d \in BuybackFilings \ Elements(disclosed) :
          disclosed' = <<d>> \o disclosed /\ UNCHANGED <<filed, traded>>
     \/ \E t \in Trades \ Elements(traded) :
          traded' = <<t>> \o traded /\ UNCHANGED <<filed, disclosed>>
  /\ UNCHANGED <<rows, copies, run, torn>>

----------------------------------------------------------------------------
\* How a run proceeds and ends.

\* The locals of a run are gone.
ForgetRun ==
  /\ asked' = {} /\ fixture' = FALSE /\ attempt' = 0 /\ todo' = {} /\ doc' = None /\ line' = 0
  /\ listed' = NothingListed /\ counts' = NoCounts /\ reports' = {}

\* A source's result is appended: on to the next source, or the run is done.
FinishSource(s) ==
  /\ reports' = reports \cup {s}
  /\ IF s = "sec_edgar" /\ "openinsider" \in asked
     THEN pc' = "page" /\ UNCHANGED ended
     ELSE pc' = "idle" /\ ended' = "done"

\* The loop that the filing in hand belongs to.
Loop == IF doc \in Form4Filings THEN "filings" ELSE "buybacks"

\* Fault: failures are logged and not counted.
CountFetched(s, counter, n) ==
  counts' = IF counter = "failed" THEN counts ELSE [counts EXCEPT ![s][counter] = @ + n]

Count(s, counter, n) == counts' = [counts EXCEPT ![s][counter] = @ + n]

\* An exception at stage pc: the handler around the filing logs and counts it,
\* that of the source ends the source with its counts so far, or nothing
\* catches it and the run ends without a result.
Raise(e) ==
  \/ /\ e \in Caught[pc] /\ pc \in {"index", "document", "buyback"}
     /\ Count("sec_edgar", "failed", 1)
     /\ attempt' = 0 /\ doc' = None /\ pc' = Loop
     /\ UNCHANGED <<asked, fixture, todo, line, listed, reports, ended>>
  \/ /\ e \in Caught[pc] /\ pc \in {"feed", "search"}
     /\ Count("sec_edgar", "failed", 1)
     /\ attempt' = 0
     /\ FinishSource("sec_edgar")
     /\ UNCHANGED <<asked, fixture, todo, doc, line, listed>>
  \/ /\ e \in Caught[pc] /\ pc = "page"
     /\ Count("openinsider", "failed", 1)
     /\ attempt' = 0
     /\ FinishSource("openinsider")
     /\ UNCHANGED <<asked, fixture, todo, doc, line, listed>>
  \/ /\ e \notin Caught[pc]
     /\ pc' = "idle" /\ ended' = e
     /\ ForgetRun

StartPoll(S) ==
  /\ pc = "idle"
  /\ asked' = S /\ fixture' = FALSE /\ attempt' = 0 /\ todo' = {} /\ doc' = None /\ line' = 0
  /\ listed' = NothingListed /\ counts' = NoCounts /\ reports' = {} /\ ended' = None
  /\ pc' = IF "sec_edgar" \in S THEN "feed" ELSE "page"
  /\ UNCHANGED <<feeds, rows, copies, torn>>

\* Fault: one attempt too many.
AttemptFailsOnceMore ==
  /\ pc \in Fetching
  /\ IF attempt < MaxAttempts
     THEN /\ attempt' = attempt + 1
          /\ UNCHANGED <<pc, asked, fixture, todo, doc, line, listed, counts, reports, ended>>
     ELSE Raise("FetchError")
  /\ UNCHANGED <<feeds, rows, copies, torn>>

\* An attempt fails: retry, or give up after the last one.
AttemptFails ==
  /\ pc \in Fetching
  /\ IF attempt + 1 < MaxAttempts
     THEN /\ attempt' = attempt + 1
          /\ UNCHANGED <<pc, asked, fixture, todo, doc, line, listed, counts, reports, ended>>
     ELSE Raise("FetchError")
  /\ UNCHANGED <<feeds, rows, copies, torn>>

\* A response with a body that is not what was asked for.
GarbledAnswer ==
  /\ pc \in Fetching
  /\ \E e \in GarbledRaises[pc] : Raise(e)
  /\ UNCHANGED <<feeds, rows, copies, torn>>

\* The process is killed.
Crash ==
  /\ pc # "idle"
  /\ torn' = IF pc = "lines" THEN torn \cup {doc} ELSE torn
  /\ pc' = "idle" /\ ended' = "crash"
  /\ ForgetRun
  /\ UNCHANGED <<feeds, rows, copies>>

----------------------------------------------------------------------------
\* _run_sec_edgar

\* The discoveries: fetch_recent_filing_index_urls, fetch_recent_buyback_filing_urls.
FeedLists(urls) ==
  /\ pc = "feed"
  /\ listed' = [listed EXCEPT !.feed = urls]
  /\ todo' = Placed(urls)
  /\ attempt' = 0 /\ pc' = "filings"
  /\ UNCHANGED <<feeds, rows, copies, asked, fixture, doc, line, counts, reports, ended, torn>>

SearchLists(hits) ==
  /\ pc = "search"
  /\ listed' = [listed EXCEPT !.search = hits]
  /\ todo' = Placed(hits)
  /\ attempt' = 0 /\ pc' = "buybacks"
  /\ UNCHANGED <<feeds, rows, copies, asked, fixture, doc, line, counts, reports, ended, torn>>

FeedAnswers == FeedLists(Latest(filed, Window))
SearchAnswers == SearchLists(Latest(disclosed, Window))

\* The head of either loop: take the next filing, or leave the loop.
NextFiling ==
  /\ pc \in {"filings", "buybacks"}
  /\ \E item \in todo :
       /\ IsFirst(item)
       /\ todo' = todo \ {item}
       /\ doc' = item[1]
  /\ Count("sec_edgar", "fetched", 1)
  /\ pc' = IF pc = "filings" THEN "index" ELSE "buyback"
  /\ UNCHANGED <<feeds, rows, copies, asked, fixture, attempt, line, listed, reports, ended, torn>>

EndFilings ==
  /\ pc = "filings" /\ todo = {}
  /\ pc' = "search"
  /\ UNCHANGED <<feeds, rows, copies, asked, fixture, attempt, todo, doc, line, listed, counts,
                 reports, ended, torn>>

EndBuybacks ==
  /\ pc = "buybacks" /\ todo = {}
  /\ FinishSource("sec_edgar")
  /\ UNCHANGED <<feeds, rows, copies, asked, fixture, attempt, todo, doc, line, listed, counts, torn>>

\* The whole document is parsed before its first record is ingested.
ParseDocument ==
  \/ /\ Parsed[doc].raised # None
     /\ Raise(Parsed[doc].raised)
  \/ /\ Parsed[doc].raised = None
     /\ attempt' = 0 /\ line' = 1 /\ pc' = "lines"
     /\ UNCHANGED <<asked, fixture, todo, doc, listed, counts, reports, ended>>

\* Fault: a filing with a stored record counts as known and is not fetched again.
IndexAnswersUnknown ==
  /\ pc = "index"
  /\ IF ~HasDocument(doc) THEN Raise("ValueError")
     ELSE /\ IF \E i \in Records(doc) : rows[doc][i] # None
             THEN doc' = None /\ pc' = "filings"
             ELSE pc' = "document" /\ UNCHANGED doc
          /\ attempt' = 0
          /\ UNCHANGED <<asked, fixture, todo, line, listed, counts, reports, ended>>
  /\ UNCHANGED <<feeds, rows, copies, torn>>

\* Follow the index page to the ownership document.
IndexAnswers ==
  /\ pc = "index"
  /\ \/ /\ ~HasDocument(doc)
        /\ Raise("ValueError")
     \/ /\ HasDocument(doc)
        /\ attempt' = 0 /\ pc' = "document"
        /\ UNCHANGED <<asked, fixture, todo, doc, line, listed, counts, reports, ended>>
  /\ UNCHANGED <<feeds, rows, copies, torn>>

DocumentAnswers ==
  /\ pc \in {"document", "buyback"}
  /\ ParseDocument
  /\ UNCHANGED <<feeds, rows, copies, torn>>

\* Fault: source_ref without the line's index.
IngestRecordByFiling ==
  /\ pc = "lines" /\ line \in Records(doc)
  /\ rows' = [rows EXCEPT ![doc][1] = Parsed[doc].lines[line]]
  /\ line' = line + 1
  /\ UNCHANGED <<feeds, copies, pc, asked, fixture, attempt, todo, doc, listed, counts, reports,
                 ended, torn>>

\* ingest_insider_transaction, ingest_buyback_event
IngestRecord ==
  /\ pc = "lines" /\ line \in Records(doc)
  /\ rows' = [rows EXCEPT ![doc][line] = Parsed[doc].lines[line]]
  /\ line' = line + 1
  /\ UNCHANGED <<feeds, copies, pc, asked, fixture, attempt, todo, doc, listed, counts, reports,
                 ended, torn>>

\* The last record is ingested: back to the loop, or a fixture is done.
LeaveFiling ==
  /\ pc = "lines" /\ line \notin Records(doc)
  /\ torn' = torn \ {doc}
  /\ doc' = None /\ line' = 0
  /\ IF fixture THEN FinishSource("sec_edgar") ELSE pc' = Loop /\ UNCHANGED <<reports, ended>>
  /\ UNCHANGED <<feeds, rows, copies, asked, fixture, attempt, todo, listed, counts>>

----------------------------------------------------------------------------
\* _run_openinsider

\* The candidates of the page are all parsed before the first is ingested.
TakePage(page) ==
  LET parsed == ParsePage(page, Content)
  IN  \/ /\ parsed.raised # None
         /\ Raise(parsed.raised)
      \/ /\ parsed.raised = None
         /\ listed' = [listed EXCEPT !.page = page]
         /\ todo' = parsed.candidates
         /\ Count("openinsider", "fetched", Cardinality(parsed.candidates))
         /\ attempt' = 0 /\ pc' = "trades"
         /\ UNCHANGED <<asked, fixture, doc, line, reports, ended>>

PageLists(page) ==
  /\ pc = "page"
  /\ TakePage(page)
  /\ UNCHANGED <<feeds, rows, copies, torn>>

PageAnswers == PageLists(Latest(traded, PageRows))

\* Other XML, JSON without hits, a page without a table: read as a list of
\* nothing, which no reader reports.
EmptyAnswer ==
  \/ filed # <<>> /\ FeedLists(<<>>)
  \/ disclosed # <<>> /\ SearchLists(<<>>)
  \/ traded # <<>> /\ PageLists(<<>>)

\* A Form 4 line with the trade's ticker, filer, date and shares is stored.
HasTwin(t) == \E d \in Form4Filings : \E i \in Records(d) : <<d, i>> \in Twins[t] /\ rows[d][i] # None

\* Fault: source_ref without the row's place.
SourceRefUnplaced(t, place) == <<Insider[t], 1>>

\* openinsider:{ticker}:{trade_date}:{filer_name}:{row_index}
SourceRef(t, place) == <<Insider[t], place>>

\* A candidate with a twin is dropped, any other is upserted by source_ref.
IngestTrade ==
  /\ pc = "trades"
  /\ \E item \in todo :
       /\ IsFirst(item)
       /\ todo' = todo \ {item}
       /\ copies' = IF HasTwin(item[1]) THEN copies
                    ELSE [copies EXCEPT ![SourceRef(item[1], item[2])] = item[1]]
  /\ UNCHANGED <<feeds, rows, pc, asked, fixture, attempt, doc, line, listed, counts, reports,
                 ended, torn>>

EndTrades ==
  /\ pc = "trades" /\ todo = {}
  /\ FinishSource("openinsider")
  /\ UNCHANGED <<feeds, rows, copies, asked, fixture, attempt, todo, doc, line, listed, counts, torn>>

----------------------------------------------------------------------------
\* _ingest_fixture: a saved copy of what was published, named as its source
\* names it.  Any exception is caught and counted.

\* The OpenInsider page as it looked at any time, the present included: the
\* trades reported up to then are the last ones of traded.
SavedPages == {Latest(SubSeq(traded, i, Len(traded)), PageRows) : i \in 1..(Len(traded) + 1)}

StartFixture ==
  /\ pc = "idle"
  /\ fixture' = TRUE /\ ended' = None /\ reports' = {} /\ attempt' = 0 /\ line' = 1
  /\ \/ \E d \in {e \in Elements(filed) \cup Elements(disclosed) : HasDocument(e)} :
          /\ asked' = {"sec_edgar"} /\ doc' = d /\ todo' = {}
          /\ listed' = [NothingListed EXCEPT !.feed = <<d>>, !.search = <<>>]
          /\ counts' = [NoCounts EXCEPT !["sec_edgar"] =
                          [fetched |-> 1, failed |-> IF Parsed[d].raised = None THEN 0 ELSE 1]]
          /\ pc' = "lines"
     \/ \E page \in SavedPages :
          LET parsed == ParsePage(page, Content)
          IN  /\ asked' = {"openinsider"} /\ doc' = None /\ todo' = parsed.candidates
              /\ listed' = [NothingListed EXCEPT !.page = page]
              /\ counts' = [NoCounts EXCEPT !["openinsider"] =
                              [fetched |-> 1, failed |-> IF parsed.raised = None THEN 0 ELSE 1]]
              /\ pc' = "trades"
  /\ UNCHANGED <<feeds, rows, copies, torn>>

----------------------------------------------------------------------------
\* The steps of a run whose requests are all answered as they should be.
Proceed ==
  \/ FeedAnswers
  \/ SearchAnswers
  \/ NextFiling
  \/ EndFilings
  \/ EndBuybacks
  \/ IndexAnswers
  \/ DocumentAnswers
  \/ IngestRecord
  \/ LeaveFiling
  \/ PageAnswers
  \/ IngestTrade
  \/ EndTrades

RunNext ==
  \/ Proceed
  \/ AttemptFails
  \/ GarbledAnswer
  \/ EmptyAnswer

\* What happens while the network and the machine behave.
FaultlessNext ==
  \/ Publish
  \/ \E S \in Requests : StartPoll(S)
  \/ StartFixture
  \/ Proceed

Next ==
  \/ Publish
  \/ \E S \in Requests : StartPoll(S)
  \/ StartFixture
  \/ RunNext
  \/ Crash

Spec == Init /\ [][Next]_vars

\* A run goes on (every attempt ends, at the latest by its timeout), and the
\* scheduler's job starts one again and again, whatever commands run between.
FairSpec == Spec /\ WF_vars(RunNext) /\ SF_vars(StartPoll(Sources))

----------------------------------------------------------------------------
\* Properties.

Stages == Fetching \cup {"idle", "filings", "buybacks", "lines", "trades"}

FeedTypes ==
  filed \in Seq(Form4Filings) /\ disclosed \in Seq(BuybackFilings) /\ traded \in Seq(Trades)

TableTypes ==
  /\ DOMAIN rows = Filings
  /\ \A d \in Filings : rows[d] \in [Records(d) -> InsiderFacts \cup BuybackFacts \cup {None}]
  /\ copies \in [Insiders \X (1..PageRows) -> Trades \cup {None}]
  /\ torn \in SUBSET Filings

RunTypes ==
  /\ pc \in Stages /\ asked \in SUBSET Sources /\ fixture \in BOOLEAN
  /\ attempt \in 0..(MaxAttempts - 1)
  /\ todo \in SUBSET ((Filings \cup Trades) \X (Nat \ {0}))
  /\ doc \in Filings \cup {None} /\ line \in Nat
  /\ listed \in [feed : Seq(Filings) \cup {None}, search : Seq(Filings) \cup {None},
                 page : Seq(Trades) \cup {None}]
  /\ counts \in [Sources -> [fetched : Nat, failed : Nat]]
  /\ reports \in SUBSET Sources
  /\ ended \in Exceptions \cup {None, "done", "crash"}

\* Types of the variables.
TypeOK == FeedTypes /\ TableTypes /\ RunTypes

Parsable(d) == HasDocument(d) /\ Parsed[d].raised = None

Stored(d) == Parsable(d) /\ \A i \in Records(d) : rows[d][i] = Parsed[d].lines[i]
Untouched(d) == \A i \in Records(d) : rows[d][i] = None

\* A filing has all its records or none, except while they are being ingested
\* and after a crash that cut this very filing short (data-model.md: a record
\* is "never partially persisted").
StoredWhole ==
  \A d \in Filings : Stored(d) \/ Untouched(d) \/ (pc = "lines" /\ doc = d) \/ d \in torn

ListedFilings ==
  UNION {Elements(listed[s]) : s \in {f \in {"feed", "search"} : listed[f] # None}}

Missing == {d \in ListedFilings \ ({doc} \cup {item[1] : item \in todo}) : ~Stored(d)}

\* No failure is silent (FR-015): of the filings that this run's feeds listed and
\* that it is through with, those that are not stored, and a discovery that
\* never answered, are counted as failed.
FailuresAreCounted ==
  Cardinality(Missing) + (IF "sec_edgar" \in reports /\ listed.search = None THEN 1 ELSE 0)
    <= counts["sec_edgar"].failed

\* One bad source does not block the others (orchestrator.py, run_ingest): no
\* outage ends a run, and a run that ends by itself reports on every source it
\* was asked for.
OutageContained ==
  /\ ended # "FetchError"
  /\ ended = "done" => reports = asked

\* After a run that reports on OpenInsider without a failure, every trade of the
\* page it read has a row of its own or a Form 4 line that tells of it.
PageIsStored ==
  "openinsider" \in reports /\ counts["openinsider"].failed = 0 =>
    \A c \in ParsePage(listed.page, Content).candidates :
      HasTwin(c[1]) \/ \E r \in DOMAIN copies : copies[r] = c[1]

PlaceOf(t) == CHOOSE i \in DOMAIN traded : traded[i] = t

\* In a poll a row passes to another trade only when a newer one has come to its
\* place, whatever saved pages were ingested before.  (A saved page gives rows
\* back to the older trades that it lists.)
OnlyNewerTradesTakeRows ==
  [][~fixture =>
       \A r \in DOMAIN copies :
         copies[r] \notin {None, copies'[r]} => PlaceOf(copies'[r]) < PlaceOf(copies[r])]_vars

Listed(d) == d \in Elements(Latest(filed, Window)) \cup Elements(Latest(disclosed, Window))

\* Every filing without a flaw that the feeds list is stored.
CaughtUp == \A d \in Filings : Parsable(d) /\ Listed(d) => Stored(d)

\* What the filing d itself raises is caught by no handler around it.
Escapes(d) ==
  /\ HasDocument(d)
  /\ Parsed[d].raised \notin {None} \cup Caught[IF d \in Form4Filings THEN "document" ELSE "buyback"]

\* Once the network and the machine behave, and no filing that the feeds list
\* escapes its handler, the tables catch up with the feeds again and again:
\* whatever other flaws the filings have, and whatever earlier runs that crashed,
\* or that an escaping filing ended, left behind.
FeedsAreCaughtUpWith ==
  /\ <>[][FaultlessNext]_vars
  /\ <>[](\A d \in Filings : Listed(d) => ~Escapes(d))
  => []<>CaughtUp

\* A single malformed filing does not abort the run: at the stages of one filing
\* a run ends only when its process does.
MalformedFilingContained ==
  [][(pc \in {"index", "document", "buyback"} /\ pc' = "idle") => ended' = "crash"]_vars
=============================================================================
