----------------------------- MODULE MCPipeline -----------------------------
(***************************************************************************)
(* Instances of Pipeline for TLC: a handful of filings, one or two         *)
(* processes, two threshold configurations.                                *)
(***************************************************************************)
EXTENDS Pipeline

CONSTANTS a, b, c, d, o, k, l, scheduler, cli, officer, other

\* The Form 4 lines a, b, c and d tell of one trade of an officer's (each a later
\* amendment of those ingested before it); b corrects its share count.  The
\* OpenInsider row o shows that trade, as a has it, at times, and at other times
\* one that no Form 4 line tells of, of another role.
\* The buybacks k and l are two announcements of one company.
\* In run sibling_lines a and c are two lines of one filing, of one day: nothing
\* that the code reads tells them from versions.
MCKeys == {<<"trade">>, <<"no cik">>} \cup ({"buyback"} \X Days)
MCTrades == {"trade", "amended trade", "other trade"}
MCAccessionOf == [f \in Form4 |-> IF f = c THEN a ELSE f]

\* b and l are smaller than the others; d is a 10b5-1 plan purchase.
Report(f, key, trade, role) ==
  [key |-> key, trade |-> trade, buy |-> TRUE, discretionary |-> f # d,
   value |-> IF f \in {b, l} THEN 1 ELSE 2, role |-> role, supersededBy |-> None]

MCReports ==
  [f \in Filings |-> [day \in Days |->
     IF f \in Form4 THEN {Report(f, <<"trade">>, IF f = b THEN "amended trade" ELSE "trade", officer)}
     ELSE IF f \in Buybacks THEN {Report(f, <<"buyback", day>>, None, other)}
     ELSE {Report(f, <<"no cik">>, "trade", officer), Report(f, <<"no cik">>, "other trade", other)}]]

Thresholds(x, y, z) == [minBuy |-> x, minRoleBuy |-> y, roles |-> {officer}, minBuyback |-> z]
\* Under Low all but d and l are notable, under High only o's other trade is.
Low == Thresholds(2, 1, 2)
High == Thresholds(2, 3, 3)
LowOrHigh == {Low, High}
OnlyLow == {Low}

SchedulerOnly == [p \in Procs |-> {"cycle"}]
OneByOne == [p \in Procs |-> {"cycle", "reclassify"}]
SchedulerAndCli == [p \in Procs |-> IF p \in Cli THEN Commands \ {"cycle"} ELSE {"cycle"}]
=============================================================================
