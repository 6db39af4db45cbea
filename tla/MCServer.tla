------------------------------ MODULE MCServer ------------------------------
(***************************************************************************)
(* An instance of Server for TLC.                                           *)
(***************************************************************************)
EXTENDS Server

CONSTANTS c1, c2, c3, s1
=============================================================================
