------------------------------- MODULE MCWatch -------------------------------
(***************************************************************************)
(* Two watchers of one daemon, each over a connection that holds one       *)
(* snapshot.  The watchers are interchangeable, but the liveness property   *)
(* names them, so no symmetry is used.                                     *)
(***************************************************************************)
EXTENDS Watch

CONSTANTS w1, w2
=============================================================================
