------------------------------- MODULE MCPoll -------------------------------
(***************************************************************************)
(* Instances of Poll for TLC: a Form 4 filing of two lines, one without an *)
(* issuer, one without XML, a buyback, two trades of one insider on one    *)
(* day and a page row with too few cells.                                  *)
(***************************************************************************)
EXTENDS Poll

CONSTANTS f, g, h, k, t, u, w, n

Line(flaws, notes) ==
  [flaws |-> flaws, code |-> "P", acquired |-> "A", notes |-> notes, value |-> 1]
Form(flaws, lines) ==
  [flaws |-> flaws, relationship |-> {"officer", "director"}, planNotes |-> {n}, lines |-> lines]
Row(flaws) == [flaws |-> flaws]
Amount(digits) == [digits |-> digits, scale |-> 1000000]

\* f is sound, g raises what no handler around it catches, h has no XML link; the
\* buyback k announces 2 million.
MCContent ==
  [x \in Filings \cup Trades |->
     CASE x = f -> Form({}, <<Line({}, {}), Line({}, {n})>>)
       [] x = g -> Form({"no_issuer"}, <<Line({}, {})>>)
       [] x = h -> Form({"no_xml"}, <<Line({}, {})>>)
       [] x = k -> [total |-> None, authorization |-> Amount(2)]
       [] x = w -> Row({"short"})
       [] OTHER -> Row({})]

\* The same, but the first thing that looks like an amount in k is a comma:
\* "authorized a share repurchase program, under which ...".
CommaContent == [MCContent EXCEPT ![k] = [total |-> None, authorization |-> Amount(None)]]

\* t and u are trades of one insider on one day, t is the second line of f.
MCInsider == [x \in Trades |-> t]
MCTwins == [x \in Trades |-> IF x = t THEN {<<f, 2>>} ELSE {}]

\* The scheduler asks for both sources, a command may ask for OpenInsider alone.
MCRequests == {Sources, {"openinsider"}}
=============================================================================
