--------------------------- MODULE MCRouteHealth ---------------------------
(***************************************************************************)
(* Two routes that share their first node: with a second hop and without.  *)
(***************************************************************************)
EXTENDS RouteHealth

CONSTANTS a, b

OneIsShort == {<<a, b>>, <<a>>}
=============================================================================
