----------------------------- MODULE MCClusters -----------------------------
(***************************************************************************)
(* Instances of Clusters for TLC: one company with up to five trades of    *)
(* three filers, one trade of another company.                             *)
(***************************************************************************)
EXTENDS Clusters, TLC

CONSTANTS p, q, r, s, t, x, F, G, H

\* p, q, r, s and t are bought on days 1, 2, 4, 5 and 6, by F, H, F, G and G.
MCDay == (p :> 1) @@ (q :> 2) @@ (r :> 4) @@ (s :> 5) @@ (t :> 6) @@ (x :> 2)
MCFiler == (p :> F) @@ (q :> H) @@ (r :> F) @@ (s :> G) @@ (t :> G) @@ (x :> G)
MCCik == [u \in {p, q, r, s, t} |-> "acme"] @@ (x :> "other")

Of(f) == [u \in Trades |-> f[u]]
DayOf == Of(MCDay)
FilerOf == Of(MCFiler)
CikOf == Of(MCCik)

\* Narrow groups {p, q} and {r, s, t}; wide groups them all.
Narrow == [window |-> 2, minimum |-> 2]
Wide == [window |-> 5, minimum |-> 2]
WideOfThree == [window |-> 4, minimum |-> 3]
AllSettings == {Narrow, Wide, WideOfThree}
=============================================================================
