------------------------------- MODULE MCProbe -------------------------------
(***************************************************************************)
(* Three callers and a change beside them, over two nodes; a caller asks for   *)
(* all nodes or for one of them.                                            *)
(***************************************************************************)
EXTENDS Probe

CONSTANTS n1, n2, c1, c2, c3

Matching == [all |-> {n1, n2}, one |-> {n1}]
=============================================================================
