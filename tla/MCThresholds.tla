---------------------------- MODULE MCThresholds ----------------------------
(***************************************************************************)
(* Instances of Thresholds for TLC: the cluster window and minimum, whose  *)
(* validators reject a window of 0 and a minimum of 1, and three           *)
(* clients.                                                                *)
(***************************************************************************)
EXTENDS Thresholds, TLC

MCFields == {"window", "minimum"}
MCValues == 0..3
MCValid == [f \in Fields |-> IF f = "window" THEN {1, 2} ELSE {2, 3}]
MCDefaults == [f \in Fields |-> 2]
MCUpdates == {"window" :> 0, "window" :> 1, "minimum" :> 1, "minimum" :> 3,
              ("window" :> 2) @@ ("minimum" :> 2)}

\* The clients are interchangeable, and every property speaks of all of them.
MCSymmetry == Permutations(Clients)
=============================================================================
