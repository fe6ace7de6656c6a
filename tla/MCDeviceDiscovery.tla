------------------------- MODULE MCDeviceDiscovery -------------------------
(* A small instance of DeviceDiscovery.                                    *)
EXTENDS DeviceDiscovery, TLC

CONSTANTS ns, na, nb, nc, nd, nx

\* Two ways to nd, of which the longer one is reported last, a circle back to
\* the seed, and an address the guard rejects.
Topology ==
  [n \in Address |->
     CASE n = ns -> <<na, nb, nx>>
       [] n = na -> <<ns, nd>>
       [] n = nb -> <<nc>>
       [] n = nc -> <<nd, na>>
       [] OTHER -> <<>>]

\* Bounds that cut the walk short in width and in depth, and one that does not.
Bounds == {[devices |-> 1, depth |-> 3], [devices |-> 4, depth |-> 3],
           [devices |-> 4, depth |-> 1]}
=============================================================================
