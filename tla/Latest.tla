------------------------------- MODULE Latest -------------------------------
(***************************************************************************)
(* What the daemon promises whoever watches it: a watcher may skip           *)
(* snapshots, but what it shows was published, and never goes back in time.  *)
(***************************************************************************)
EXTENDS Integers

CONSTANT Watchers

VARIABLES
    snapshot,  \* the number of the latest snapshot
    seen       \* the number of the snapshot each watcher shows

vars == <<snapshot, seen>>

Init == /\ snapshot = 0
        /\ seen = [w \in Watchers |-> 0]

Publish == /\ snapshot' = snapshot + 1
           /\ UNCHANGED seen

Show(w) == /\ \E v \in seen[w]..snapshot : seen' = [seen EXCEPT ![w] = v]
           /\ UNCHANGED snapshot

Next == Publish \/ \E w \in Watchers : Show(w)

Spec == Init /\ [][Next]_vars
=============================================================================
