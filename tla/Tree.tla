-------------------------------- MODULE Tree --------------------------------
(***************************************************************************)
(* The list of the terminal interface: the rows a snapshot has under a        *)
(* filter, and what the keys and the mouse make of the cursor, which counts    *)
(* the rows that can be selected, and of the scroll, which counts all rows.    *)
(* Both count from 0, as in the code.                                        *)
(*                                                                         *)
(* Sources: client/tui/tree/tree.go and client/tui/navigation.go.             *)
(***************************************************************************)
EXTENDS Navigation, Sequences

CONSTANTS
    Refreshable,  \* the subscriptions with an address
    Hits,         \* what each filter finds: subscriptions by name, nodes by theirs
    None

(* A snapshot: subs in their order; nodes, the nodes of each subscription;     *)
(* folded; connected, <<subscription, node>> or None.                        *)
Row(kind, sub, node) == [kind |-> kind, sub |-> sub, node |-> node]
NoRow == Row("none", None, None)

-----------------------------------------------------------------------------
(* Rows.                                                                     *)

Filtered(query, sub) == query # None /\ sub \notin Hits[query]

ShownNodes(snapshot, live, query, sub) ==
    LET nodes == snapshot.nodes[sub]
        shows(node) == /\ ~Filtered(query, sub) \/ node \in Hits[query]
                       /\ \/ query # None \/ sub \notin snapshot.folded
                          \/ live /\ snapshot.connected = <<sub, node>>
        shown[i \in 0..Len(nodes)] ==
            IF i = 0 THEN <<>>
            ELSE IF shows(nodes[i]) THEN Append(shown[i - 1], nodes[i]) ELSE shown[i - 1]
    IN  shown[Len(nodes)]

\* A header, what is known of the subscription, and its nodes; nothing when the
\* filter finds none of them.
GroupRows(snapshot, live, query, sub) ==
    LET nodes == ShownNodes(snapshot, live, query, sub)
    IN  IF Filtered(query, sub) /\ nodes = <<>> THEN <<>>
        ELSE <<Row("header", sub, None)>>
             \o (IF sub \in Refreshable THEN <<Row("meta", sub, None)>> ELSE <<>>)
             \o [i \in DOMAIN nodes |-> Row("node", sub, nodes[i])]

Rows(snapshot, live, query) ==
    LET rows[i \in 0..Len(snapshot.subs)] ==
            IF i = 0 THEN <<>>
            ELSE LET above == rows[i - 1]
                     group == GroupRows(snapshot, live, query, snapshot.subs[i])
                     gap   == IF above # <<>> /\ group # <<>> THEN <<Row("gap", None, None)>> ELSE <<>>
                 IN  above \o gap \o group
    IN  rows[Len(snapshot.subs)]

\* The places, from 0, of the rows that can be selected.
Selectable(rows) == {i \in 0..Len(rows) - 1 : rows[i + 1].kind \in {"header", "node"}}
Count(rows)      == Cardinality(Selectable(rows))
Place(rows, cursor) == Nth(Selectable(rows), cursor)

At(rows, cursor) ==
    IF cursor \in 0..Count(rows) - 1 THEN rows[Place(rows, cursor) + 1] ELSE NoRow

\* The cursor of a row, or another one when the row is not there.
CursorOf(rows, row, other) ==
    LET found == {place \in Selectable(rows) : rows[place + 1] = row}
    IN  IF found # {} THEN Before(Selectable(rows), CHOOSE place \in found : TRUE) ELSE other

Visible(rows, cursor, scroll, height) ==
    /\ At(rows, cursor) # NoRow
    /\ Place(rows, cursor) \in scroll..scroll + height - 1

-----------------------------------------------------------------------------
(* Places: <<cursor, scroll>>.                                               *)

Clamp(rows, cursor, scroll, height) ==
    <<Within(cursor, Count(rows) - 1), Within(scroll, Len(rows) - height)>>

Reveal(rows, cursor, scroll, height) ==
    LET to    == Within(cursor, Count(rows) - 1)
        place == Place(rows, to)
        up    == Minimum(place, scroll)
        down  == IF place >= up + height THEN place - height + 1 ELSE up
    IN  IF Selectable(rows) = {} THEN <<0, 0>>
        ELSE <<to, Within(down, Len(rows) - height)>>

\* The first row that can be selected at the target or after it, and before it
\* on the way up.
Page(rows, cursor, scroll, delta, height) ==
    LET places == Selectable(rows)
        target == Place(rows, Within(cursor, Count(rows) - 1)) + delta
        below  == Before(places, target)
    IN  IF places = {} THEN <<0, 0>>
        ELSE Reveal(rows, IF delta < 0 /\ target \notin places THEN below - 1 ELSE below,
                    scroll + delta, height)

\* The cursor of the row on a line of the list, or -1.
Point(rows, scroll, line) ==
    LET i     == scroll + line
        place == IF i > 0 /\ rows[i + 1].kind = "meta" THEN i - 1 ELSE i
    IN  IF i >= Len(rows) \/ rows[place + 1].kind \notin {"header", "node"} THEN -1
        ELSE Before(Selectable(rows), place)

-----------------------------------------------------------------------------
Navigate(rows, cursor, scroll, height, motion) ==
    LET count == Count(rows)
        all   == Distance(motion, height, Len(rows))
    IN  IF count = 0 THEN <<0, 0>>
        ELSE CASE motion.action = "move" ->
                      Reveal(rows, cursor + Distance(motion, height, count), scroll, height)
               [] motion.action \in {"page", "half"} -> Page(rows, cursor, scroll, all, height)
               [] motion.action = "scroll" -> Clamp(rows, cursor, scroll + all, height)
               [] motion.action = "line" ->
                      Reveal(rows, Minimum(motion.count - 1, count - 1), scroll, height)
               [] OTHER -> Reveal(rows, count - 1, scroll, height)
=============================================================================
