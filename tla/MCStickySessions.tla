-------------------------- MODULE MCStickySessions --------------------------
(***************************************************************************)
(* Two exits, one of them a front too, and another front; the exits differ *)
(* in latency.                                                             *)
(***************************************************************************)
EXTENDS StickySessions, TLC

CONSTANTS f, x, y

SlowFast == [n \in {x, y} |-> IF n = x THEN 2 ELSE 1]
Sessions == Permutations(Session)
=============================================================================
