----------------------------- MODULE MCCampaign -----------------------------
(* A graph for TLC: a step p for a person, then two lanes (a; b then the   *)
(* gate d), the gate c whose dependency in the other lane makes it a join, *)
(* and the irreversible x that waits for c and p.                          *)
EXTENDS Campaign, TLC

CONSTANTS a, b, c, d, p, x, north, south, t0, t1

MCOrder == <<p, a, b, d, c, x>>
MCLaneOf == (a :> north) @@ (b :> south) @@ (c :> north) @@ (d :> south) @@ (p :> NoLane) @@ (x :> NoLane)
MCAfter == (a :> {}) @@ (b :> {}) @@ (c :> {b}) @@ (d :> {b}) @@ (p :> {}) @@ (x :> {c, p})
MCWidth == (a :> 1) @@ (b :> 2) @@ (c :> 1) @@ (d :> 1) @@ (p :> 1) @@ (x :> 1)

\* Trees differ only by their names: the campaign starts on t0.
InitT0 == Init /\ tree = t0
FromT0 == InitT0 /\ [][Next]_vars /\ Fairness
=============================================================================
