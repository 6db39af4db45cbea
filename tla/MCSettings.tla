----------------------------- MODULE MCSettings -----------------------------
(***************************************************************************)
(* An instance of Settings for TLC: two configurations in their normal form,  *)
(* one that a user wrote and Normalize turns into the second, and one that   *)
(* it refuses.                                                              *)
(***************************************************************************)
EXTENDS Settings

CONSTANTS plain, direct, edited, broken, k1, k2

MCNormal == [c \in Confs |-> CASE c = edited -> direct
                               [] c = broken -> Invalid
                               [] OTHER -> c]
=============================================================================
