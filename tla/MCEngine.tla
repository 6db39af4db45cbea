------------------------------ MODULE MCEngine ------------------------------
(***************************************************************************)
(* Three nodes, one of them insecure, and two of each kind of settings.      *)
(***************************************************************************)
EXTENDS Engine

CONSTANTS n1, n2, bad, d1, d2, t1, t2
=============================================================================
