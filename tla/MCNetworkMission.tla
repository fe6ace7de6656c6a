-------------------------- MODULE MCNetworkMission --------------------------
(* Small instances of NetworkMission.                                      *)
EXTENDS NetworkMission, TLC

CONSTANTS s, a, b, c, d, x, y

\* Two ways from s to d, of two and of three links; everyone sees everyone back.
\* Two more neighbours are not to be managed.
TwoWays ==
  s :> {a, b} @@ a :> {s, d, x} @@ b :> {s, c} @@ c :> {b, d} @@ d :> {a, c, y}
    @@ x :> {a} @@ y :> {d}

\* A seed with one neighbour to manage and one that belongs to others.
Pair == s :> {a, x} @@ a :> {s} @@ x :> {s}
=============================================================================
