----------------------------- MODULE MCDaemons -----------------------------
(***************************************************************************)
(* An instance of Daemons for TLC.                                          *)
(***************************************************************************)
EXTENDS Daemons, TLC

CONSTANTS d1, d2, d3, u1, u2, x1

Symmetry == Permutations(Procs) \cup Permutations(Users)

(* A bound: the daemons of the other version are one that was started and, *)
(* while it is being replaced by its copy, this copy.                      *)
OneOld ==
    \A p, q \in Procs :
        proc[p].old /\ proc[q].old /\ p # q => "handing" \in {proc[p].next, proc[q].next}
=============================================================================
