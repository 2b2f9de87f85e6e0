----------------------------- MODULE Documents -----------------------------
(***************************************************************************)
(* What the feed readers make of one document: the records it yields or    *)
(* the exception it raises.                                                *)
(*                                                                         *)
(* A document is described by what the parser tells apart in it: its       *)
(* flaws, each of which makes one expression of the parser raise, and the  *)
(* facts it reports.  A parser raises the exception of the first flaw it   *)
(* meets, in the order in which it evaluates its expressions, and yields   *)
(* records only when it meets none.                                        *)
(***************************************************************************)
EXTENDS Naturals, Sequences

CONSTANTS
  Notes,   \* footnote ids
  None     \* no value (Python's None)

Exceptions == {"FetchError", "SyntaxError", "ValueError", "AttributeError", "InvalidOperation"}

FilerRoles == {"officer", "director", "ten_percent_owner", "other"}

\* What classification and cluster detection read of an InsiderTransaction.
InsiderFacts ==
  [buy : BOOLEAN, discretionary : BOOLEAN, value : Nat \cup {None}, role : FilerRoles]

\* What they read of a BuybackEvent.
BuybackFacts == [disclosure : {"authorized", "executed"}, value : Nat]

\* One expression that raises when the document has a flaw.
Check(flaw, exception) == [flaw |-> flaw, raises |-> exception]

\* The first exception among outcomes, each an exception or None.
FirstRaised(outcomes) ==
  LET raised == {i \in DOMAIN outcomes : outcomes[i] # None}
  IN  IF raised = {} THEN None
      ELSE outcomes[CHOOSE i \in raised : \A j \in raised : i <= j]

\* What a sequence of checks raises of a set of flaws.
Raised(checks, flaws) ==
  FirstRaised([i \in DOMAIN checks |->
                 IF checks[i].flaw \in flaws THEN checks[i].raises ELSE None])

----------------------------------------------------------------------------
\* SEC Form 4.

HeaderChecks ==
  << Check("malformed", "SyntaxError"),        \* ET.fromstring
     Check("no_issuer", "AttributeError"),     \* root.find("issuer") is None
     Check("no_owner", "AttributeError"),
     Check("no_period", "AttributeError"),     \* period_of_report is None
     Check("bad_period", "ValueError") >>      \* date.fromisoformat

LineChecks ==
  << Check("bad_date", "ValueError"),
     Check("no_coding", "AttributeError"),
     Check("no_amounts", "AttributeError"),
     Check("bad_shares", "InvalidOperation"),  \* Decimal
     Check("bad_price", "InvalidOperation") >>

FlawsOf(checks) == {checks[i].flaw : i \in DOMAIN checks}

Form4Line ==
  [flaws : SUBSET FlawsOf(LineChecks), code : {"P", "S", "F", "A"}, acquired : {"A", "D", None},
   notes : SUBSET Notes, value : Nat \cup {None}]

\* no_xml: the filing's index page links to no XML document.  A document without
\* a nonDerivativeTable has no lines.
Form4Document ==
  [flaws : SUBSET (FlawsOf(HeaderChecks) \cup {"no_xml"}), relationship : SUBSET FilerRoles,
   planNotes : SUBSET Notes, lines : Seq(Form4Line)]

\* The first role of the sequence that the filing or the page gives the filer.
FirstRole(order, given) ==
  LET hits == {i \in DOMAIN order : order[i] \in given}
  IN  IF hits = {} THEN "other" ELSE order[CHOOSE i \in hits : \A j \in hits : i <= j]

\* _filer_role of sec_edgar_form4.py
FilerRole(relationship) == FirstRole(<<"officer", "director", "ten_percent_owner">>, relationship)

IsDiscretionary(code, notes, planNotes) ==
  /\ code # "F"
  /\ notes \cap planNotes = {}
  /\ code \in {"P", "S"}

LineFacts(line, form) ==
  [buy |-> line.acquired # "D",
   discretionary |-> IsDiscretionary(line.code, line.notes, form.planNotes),
   value |-> line.value,
   role |-> FilerRole(form.relationship)]

ParseForm4(form) ==
  LET header == Raised(HeaderChecks, form.flaws)
      raised == IF header # None THEN header
                ELSE FirstRaised([i \in DOMAIN form.lines |->
                                    Raised(LineChecks, form.lines[i].flaws)])
  IN  [raised |-> raised,
       lines |-> IF raised # None THEN <<>>
                 ELSE [i \in 1..Len(form.lines) |-> LineFacts(form.lines[i], form)]]

----------------------------------------------------------------------------
\* 8-K buyback disclosures.

\* A match of one of the two patterns: the digits it captured, None when it
\* captured commas only, which both patterns accept, and the scale behind them.
AmountMatch == [digits : Nat \cup {None}, scale : {1, 1000000, 1000000000}]

\* The total value and the authorization found in the text, None when absent.
BuybackDocument == [total : AmountMatch \cup {None}, authorization : AmountMatch \cup {None}]

\* A total value is read without its scale.
ParseBuyback(text) ==
  LET match == IF text.total # None THEN [text.total EXCEPT !.scale = 1] ELSE text.authorization
      raised == IF match = None THEN "ValueError"
                ELSE IF match.digits = None THEN "InvalidOperation" ELSE None
  IN  [raised |-> raised,
       lines |-> IF raised # None THEN <<>>
                 ELSE << [disclosure |-> IF text.total # None THEN "executed" ELSE "authorized",
                          value |-> match.digits * match.scale] >>]

----------------------------------------------------------------------------
\* The OpenInsider page.

RowChecks ==
  << Check("bad_quantity", "InvalidOperation"), Check("bad_price", "InvalidOperation"),
     Check("bad_trade_date", "ValueError"), Check("bad_filing_date", "ValueError") >>

\* short: a row of fewer than ten cells, which is skipped.
PageRow == [flaws : SUBSET (FlawsOf(RowChecks) \cup {"short"})]

RowRaises(row) == IF "short" \in row.flaws THEN None ELSE Raised(RowChecks, row.flaws)

\* The candidates of a page, a sequence of trades whose rows are given: each with
\* the place it has on the page, short rows counted.
ParsePage(page, rowOf) ==
  LET raised == FirstRaised([i \in DOMAIN page |-> RowRaises(rowOf[page[i]])])
  IN  [raised |-> raised,
       candidates |->
         IF raised # None THEN {}
         ELSE {<<page[i], i>> : i \in {j \in DOMAIN page : "short" \notin rowOf[page[j]].flaws}}]
=============================================================================
