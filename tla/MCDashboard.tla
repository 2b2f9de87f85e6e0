---------------------------- MODULE MCDashboard ----------------------------
(***************************************************************************)
(* An instance of Dashboard for TLC: two transactions and an older         *)
(* cluster, a dashboard of two rows, a client that reads one row at a      *)
(* time.                                                                   *)
(***************************************************************************)
EXTENDS Dashboard, TLC

CONSTANTS a, b, d

MCTypeOf == [s \in Signals |-> IF s = d THEN "cluster_buy" ELSE "insider_transaction"]
MCEventDate == [s \in Signals |-> IF s = d THEN 1 ELSE 2]

\* Routine signals too, since the second day, or the notable transactions.
MCFilters ==
  { [notable_only |-> FALSE, signal_type |-> None, since |-> 2],
    [notable_only |-> TRUE, signal_type |-> "insider_transaction", since |-> None] }

\* The transactions are alike.
Alike == Permutations({a, b})
=============================================================================
