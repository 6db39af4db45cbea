------------------------------ MODULE MCRefresh ------------------------------
(***************************************************************************)
(* A handler and AutoRefresh that refresh up to two subscriptions, with one  *)
(* worker each, so that the second one has to wait.  Subscriptions and calls *)
(* are interchangeable, which the safety run uses.                          *)
(***************************************************************************)
EXTENDS Refresh, TLC

CONSTANTS c1, s1, s2, i1, i2, i3

Symmetry == Permutations(Subs) \cup Permutations(Calls)
=============================================================================
