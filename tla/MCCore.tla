------------------------------- MODULE MCCore -------------------------------
(***************************************************************************)
(* Instances of Core for TLC.  home is the local subscription, which holds   *)
(* n1, and feed a remote one, which holds n2; MCSubOfFeed puts both nodes    *)
(* into feed, so that a refresh can drop one and keep the other.            *)
(***************************************************************************)
EXTENDS Core

CONSTANTS n1, n2, home, feed

MCSubOf     == [n \in Nodes |-> IF n = n1 THEN home ELSE feed]
MCSubOfFeed == [n \in Nodes |-> feed]
=============================================================================
