------------------------- MODULE MCEndpointRouting -------------------------
(***************************************************************************)
(* An endpoint of two hops, both over the same two nodes: the two sound    *)
(* routes are the two orders, and a restored lease may have one node twice *)
(* or a hop less.                                                          *)
(***************************************************************************)
EXTENDS EndpointRouting

CONSTANTS a, b

TwoHops == <<{a, b}, {a, b}>>
UpToTwo == UNION {[1 .. n -> Node] : n \in 1 .. 2}
=============================================================================
