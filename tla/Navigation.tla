----------------------------- MODULE Navigation -----------------------------
(***************************************************************************)
(* The motions of the terminal interface: what the keys move by.  The digits   *)
(* before a key are the count of its motion, which is 1 without them.         *)
(*                                                                         *)
(* Source: client/tui/navigation/keys.go.                                    *)
(***************************************************************************)
EXTENDS Integers, FiniteSets

Maximum(a, b) == IF a > b THEN a ELSE b
Minimum(a, b) == IF a < b THEN a ELSE b

\* min(max(value, 0), max(top, 0))
Within(value, top) == Minimum(Maximum(value, 0), Maximum(top, 0))

\* How many places come before one, and the place that so many come before: its
\* index in the slice of the places, and what that has at the index.
Before(places, place) == Cardinality({other \in places : other < place})
Nth(places, n) == CHOOSE place \in places : Before(places, place) = n

Motions(counts) ==
    [action : {"move", "page", "scroll"}, count : counts, direction : {-1, 1}]
    \cup [action : {"half"}, count : counts \cup {0}, direction : {-1, 1}]
    \cup [action : {"line", "last"}, count : counts, direction : {1}]

Distance(motion, height, limit) ==
    LET step  == CASE motion.action = "page" -> Maximum(height - 1, 1)
                   [] motion.action = "half" /\ motion.count = 0 -> Maximum(height \div 2, 1)
                   [] OTHER -> 1
        count == Maximum(motion.count, 1)
    IN  motion.direction * (IF count > limit \div step THEN limit ELSE count * step)
=============================================================================
