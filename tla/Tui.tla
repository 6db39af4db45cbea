--------------------------------- MODULE Tui ---------------------------------
(***************************************************************************)
(* The terminal interface: one Update after another of its model, between the *)
(* snapshots of the daemon, the user, and the requests it has under way, each  *)
(* of which is retried once when there is no daemon of its version.  The list  *)
(* is Tree's, the settings dialog Dialog's.                                   *)
(*                                                                         *)
(* Sources: client/tui/model.go, update.go, actions.go, modal.go and msg.go,    *)
(* ipc/client.go.                                                           *)
(***************************************************************************)
EXTENDS Navigation, Sequences

CONSTANTS
    Snapshots,    \* what the daemon may show
    Blank,        \* what there is before it has shown anything
    Refreshable, Hits,
    Tabs, Rules, Apart,
    Settings,     \* the settings a dialog may begin with
    Heights,      \* heights of the list
    Counts,       \* counts of motions
    Requests,     \* requests under way at a time
    None

List   == INSTANCE Tree
Dialog == INSTANCE Dialog

ASSUME BlankAssumption == Blank \notin Snapshots /\ Blank.subs = <<>> /\ Blank.connected = None
ASSUME SnapshotsAssumption ==
    \A shown \in Snapshots :
        /\ Len(shown.subs) \in Nat
        /\ \A i \in 1..Len(shown.subs) : Len(shown.nodes[shown.subs[i]]) \in Nat
ASSUME MotionsAssumption  == Heights \subseteq Nat \ {0} /\ Counts \subseteq Nat
ASSUME DialogAssumption   == Dialog!TabsTyped /\ (\A settings \in Settings : Dialog!Typed(settings))
ASSUME NoneAssumption     == None \notin Dialog!States

VARIABLES
    snapshot, live,
    query, typing,   \* the filter, and whether it has the keys
    cursor, scroll, height,
    modal, target,   \* the window above the list, and what it would delete
    dialog,          \* the settings dialog, or None
    saving, busy,    \* its settings are being saved; a connection is being changed
    request          \* what is under way

view == <<cursor, scroll, height>>
over == <<modal, target, dialog>>
vars == <<snapshot, live, query, typing, view, over, saving, busy, request>>

Kinds == {"none", "fold", "plain", "connection", "tun", "save"}

(* stage: the first attempt, the start of a daemon, or the second attempt, and  *)
(* the wait for a connection in each; runs: how often the daemon has carried it *)
(* out; elevates: it was answered that the daemon restarts; ok: it succeeded.  *)
NoRequest == [kind |-> "none", stage |-> "first", runs |-> 0, elevates |-> FALSE, ok |-> FALSE]

Rows == List!Rows(snapshot, live, query)
At   == List!At(Rows, cursor)

TypeOK ==
    /\ snapshot \in Snapshots \cup {Blank} /\ live \in BOOLEAN
    /\ query \in DOMAIN Hits \cup {None} /\ typing \in BOOLEAN
    /\ cursor \in Nat /\ scroll \in Nat /\ height \in Heights
    /\ modal \in {"none", "add", "help", "delete"}
    /\ target.kind \in {"none", "header", "node"}
    /\ saving \in BOOLEAN /\ busy \in BOOLEAN
    /\ request \in [Requests -> [kind : Kinds, stage : {"first", "await", "start", "second", "last", "done"},
                                 runs : 0..2, elevates : BOOLEAN, ok : BOOLEAN]]

Init ==
    /\ snapshot = Blank /\ live = FALSE
    /\ query = None /\ typing = FALSE
    /\ cursor = 0 /\ scroll = 0 /\ height = 1
    /\ modal = "none" /\ target = List!NoRow /\ dialog = None
    /\ saving = FALSE /\ busy = FALSE
    /\ request = [r \in Requests |-> NoRequest]

-----------------------------------------------------------------------------
Goes(place) == cursor' = place[1] /\ scroll' = place[2]

Stays == UNCHANGED <<cursor, scroll>>

Sends(kind) ==
    \E r \in Requests :
        /\ request[r].kind = "none"
        /\ request' = [request EXCEPT ![r] = [NoRequest EXCEPT !.kind = kind]]

(* Snapshots.                                                                *)

\* Sensitivity: the cursor stays where it is in the list.
Follow(rows, selected) == cursor

\* The selected row, or the header of its subscription when the row is gone.
Followed(rows, selected) ==
    LET header == [selected EXCEPT !.kind = "header", !.node = None]
    IN  CASE selected.kind = "none" -> cursor
          [] selected.kind = "node" ->
                 List!CursorOf(rows, selected, List!CursorOf(rows, header, cursor))
          [] OTHER -> List!CursorOf(rows, selected, cursor)

\* updateSnapshot: the first snapshot selects what is connected.
Updates(shown, lives) ==
    LET first  == snapshot = Blank
        rows   == List!Rows(shown, lives, query)
        here   == IF first /\ shown.connected # None
                  THEN List!CursorOf(rows, List!Row("node", shown.connected[1], shown.connected[2]),
                                     cursor)
                  ELSE Followed(rows, At)
    IN  /\ snapshot' = shown /\ live' = lives
        /\ Goes(IF first \/ List!Visible(Rows, cursor, scroll, height)
                THEN List!Reveal(rows, here, scroll, height)
                ELSE List!Clamp(rows, here, scroll, height))
        /\ UNCHANGED <<query, typing, height, over, saving, busy, request>>

Pushed == \E shown \in Snapshots : Updates(shown, TRUE)
Lost   == Updates(snapshot, FALSE)

Resized ==
    /\ height' \in Heights
    /\ dialog' = IF dialog = None THEN None ELSE Dialog!Resize(dialog, height')
    /\ Goes(IF List!Visible(Rows, cursor, scroll, height)
            THEN List!Reveal(Rows, cursor, scroll, height')
            ELSE List!Clamp(Rows, cursor, scroll, height'))
    /\ UNCHANGED <<snapshot, live, query, typing, modal, target, saving, busy, request>>

-----------------------------------------------------------------------------
(* The list has the keys and the mouse when nothing is above it.              *)

OnList == ~saving /\ modal = "none" /\ dialog = None
OnKeys == OnList /\ ~typing

UnlessPlace == <<snapshot, live, query, typing, height, over, saving, busy>>

Navigate ==
    /\ OnKeys
    /\ \E motion \in Motions(Counts) : Goes(List!Navigate(Rows, cursor, scroll, height, motion))
    /\ UNCHANGED <<UnlessPlace, request>>

Wheel ==
    /\ OnKeys
    /\ \E delta \in {-3, 3} : Goes(List!Clamp(Rows, cursor, scroll + delta, height))
    /\ UNCHANGED <<UnlessPlace, request>>

\* A header folds, a node is connected, or disconnected from.
Activate(row) ==
    \/ row.kind = "header" /\ Sends("fold") /\ UNCHANGED busy
    \/ row.kind = "node" /\ ~busy /\ Sends("connection") /\ busy' = TRUE
    \/ row.kind = "node" /\ busy /\ UNCHANGED <<busy, request>>

Enter ==
    /\ OnKeys /\ At # List!NoRow
    /\ Activate(At)
    /\ UNCHANGED <<snapshot, live, query, typing, view, over, saving>>

\* The second click on a row is like enter, also while the filter has the keys.
Click ==
    /\ OnList
    /\ \E line \in 0..height - 1 :
          LET to == List!Point(Rows, scroll, line)
          IN  /\ to # -1
              /\ Goes(List!Reveal(Rows, to, scroll, height))
              /\ IF to = cursor THEN Activate(At) ELSE UNCHANGED <<busy, request>>
    /\ UNCHANGED <<snapshot, live, query, typing, height, over, saving>>

\* Folding a node's group selects the group.
Collapse ==
    /\ OnKeys /\ At # List!NoRow
    /\ LET header == List!CursorOf(Rows, [At EXCEPT !.kind = "header", !.node = None], cursor)
       IN  IF At.kind = "node" THEN Goes(List!Reveal(Rows, header, scroll, height)) ELSE Stays
    /\ Sends("fold")
    /\ UNCHANGED UnlessPlace

Expand ==
    /\ OnKeys /\ At # List!NoRow
    /\ Sends("fold")
    /\ UNCHANGED <<UnlessPlace, cursor, scroll>>

\* Probe, refresh, of one or all, and reorder.
Ask ==
    /\ OnKeys
    /\ Sends("plain")
    /\ UNCHANGED <<UnlessPlace, cursor, scroll>>

\* SetTun changes the connection only when there is one.
SetTun ==
    /\ OnList /\ ~busy
    /\ LET connected == live /\ snapshot.connected # None
       IN  busy' = connected /\ Sends(IF connected THEN "connection" ELSE "tun")
    /\ UNCHANGED <<snapshot, live, query, typing, view, over, saving>>

-----------------------------------------------------------------------------
(* The filter.                                                               *)

\* Sensitivity: the place is not looked at again under another filter.
Kept(rows) == <<cursor, scroll>>

Clamped(rows) == List!Clamp(rows, cursor, scroll, height)

Filters(next) ==
    /\ query' = next
    /\ Goes(Clamped(List!Rows(snapshot, live, next)))
    /\ UNCHANGED <<snapshot, live, height, over, saving, busy, request>>

Slash  == OnKeys /\ typing' = TRUE /\ UNCHANGED <<snapshot, live, query, view, over, saving, busy, request>>
Type   == OnList /\ typing /\ (\E next \in DOMAIN Hits \cup {None} : Filters(next)) /\ UNCHANGED typing
Accept == OnList /\ typing /\ typing' = FALSE /\ Filters(query)
Clear  == OnList /\ typing' = FALSE /\ Filters(None)

-----------------------------------------------------------------------------
(* Windows and the dialog.                                                   *)

Shows(kind, row) == modal' = kind /\ target' = row

Editing == typing \/ IF dialog = None THEN FALSE ELSE dialog.editing

Help ==
    /\ ~saving /\ modal = "none" /\ ~Editing
    /\ Shows("help", List!NoRow)
    /\ UNCHANGED <<snapshot, live, query, typing, view, dialog, saving, busy, request>>

Add ==
    /\ OnKeys
    /\ Shows("add", List!NoRow)
    /\ UNCHANGED <<snapshot, live, query, typing, view, dialog, saving, busy, request>>

\* A subscription, or a node of the list that has no address.
Delete ==
    /\ OnKeys
    /\ At.kind = "header" \/ (At.kind = "node" /\ At.sub \notin Refreshable)
    /\ Shows("delete", At)
    /\ UNCHANGED <<snapshot, live, query, typing, view, dialog, saving, busy, request>>

CloseModal ==
    /\ ~saving /\ modal # "none"
    /\ Shows("none", List!NoRow)
    /\ (modal \in {"add", "delete"} /\ Sends("plain")) \/ UNCHANGED request
    /\ UNCHANGED <<snapshot, live, query, typing, view, dialog, saving, busy>>

OpenSettings ==
    /\ OnKeys /\ snapshot # Blank
    /\ \E settings \in Settings : dialog' = Dialog!Open(settings, height)
    /\ UNCHANGED <<snapshot, live, query, typing, view, modal, target, saving, busy, request>>

OnDialog == ~saving /\ modal = "none" /\ dialog # None

Dialogue ==
    /\ OnDialog
    /\ dialog' \in Dialog!Next(dialog, Motions(Counts))
    /\ UNCHANGED <<snapshot, live, query, typing, view, modal, target, saving, busy, request>>

\* The dialog closes at once when nothing is changed or it is abandoned, stays when
\* the settings are invalid, and else until they are saved.
CloseSettings ==
    /\ OnDialog /\ ~dialog.editing
    /\ \/ dialog' = None /\ UNCHANGED <<saving, request>>
       \/ Dialog!Changed(dialog) /\ saving' = TRUE /\ Sends("save") /\ UNCHANGED dialog
    /\ UNCHANGED <<snapshot, live, query, typing, view, modal, target, busy>>

-----------------------------------------------------------------------------
(* Requests.                                                                 *)

Unrequested == <<snapshot, live, query, typing, view, modal, target>>

Becomes(r, changed) ==
    request' = [request EXCEPT ![r] = changed] /\ UNCHANGED <<Unrequested, busy, saving, dialog>>

\* The request ends, and its message waits for Update.
Returns(r, state, ok) == Becomes(r, [state EXCEPT !.stage = "done", !.ok = ok])

\* Sensitivity: any error is answered with a second attempt.
RetriesAll(error) == TRUE

\* ErrNoDaemon and ErrVersion mean that nothing was done.
Retries(error) == error \in {"no daemon", "version"}

\* request: an error of the first attempt may start a daemon, except for a fold.
Fails(r, state, error) ==
    IF state.stage \in {"first", "await"} /\ Retries(error) /\ state.kind # "fold"
    THEN Becomes(r, [state EXCEPT !.stage = "start"])
    ELSE Returns(r, state, FALSE)

\* call: the daemon is not there, is another version, refuses, or the connection
\* is lost before the request has reached it or after; or it carries it out, or
\* answers that it restarts.
Attempt(r) ==
    LET before == request[r]
        after  == [before EXCEPT !.runs = @ + 1]
    IN  /\ before.kind # "none" /\ before.stage \in {"first", "second"}
        /\ \/ \E error \in {"no daemon", "version", "refused", "lost"} : Fails(r, before, error)
           \/ \E error \in {"failed", "lost"} : Fails(r, after, error)
           \/ Returns(r, after, TRUE)
           \/ /\ before.kind \in {"connection", "tun"}
              /\ Becomes(r, [after EXCEPT !.elevates = TRUE,
                                          !.stage = IF before.stage = "first" THEN "await" ELSE "last"])

\* AwaitConnection, which may find a daemon of another version.
Await(r) ==
    /\ request[r].stage \in {"await", "last"}
    /\ \/ \E error \in {"version", "failed"} : Fails(r, request[r], error)
       \/ Returns(r, request[r], TRUE)

StartDaemon(r) ==
    /\ request[r].stage = "start"
    /\ \/ Becomes(r, [request[r] EXCEPT !.stage = "second"])
       \/ Returns(r, request[r], FALSE)

\* Sensitivity: a save that failed leaves the dialog waiting.
Saves(kind, ok) == saving /\ ~(kind = "save" /\ ok)

Waits(kind, ok) == saving /\ kind # "save"

\* completed and settingsSaved.
Completed(r) ==
    LET kind == request[r].kind
        ok   == request[r].ok
    IN  /\ request[r].stage = "done"
        /\ request' = [request EXCEPT ![r] = NoRequest]
        /\ busy' = (busy /\ kind # "connection")
        /\ saving' = Waits(kind, ok)
        /\ dialog' = IF kind = "save" /\ ok THEN None ELSE dialog
        /\ UNCHANGED Unrequested

-----------------------------------------------------------------------------
Next ==
    \/ Pushed \/ Lost \/ Resized
    \/ Navigate \/ Wheel \/ Enter \/ Click \/ Collapse \/ Expand \/ Ask \/ SetTun
    \/ Slash \/ Type \/ Accept \/ Clear
    \/ Help \/ Add \/ Delete \/ CloseModal
    \/ OpenSettings \/ Dialogue \/ CloseSettings
    \/ \E r \in Requests : Attempt(r) \/ Await(r) \/ StartDaemon(r) \/ Completed(r)

Spec == Init /\ [][Next]_vars

-----------------------------------------------------------------------------
(* Properties.                                                               *)

\* The cursor is on a row whenever the list has one, the part of the list that is
\* shown is one, and the same holds for the dialog, its options and its lines: no
\* snapshot, filter, resize or removal leaves an index behind.
InBounds ==
    /\ cursor \in 0..Maximum(List!Count(Rows) - 1, 0)
    /\ scroll \in 0..Maximum(Len(Rows) - height, 0)
    /\ dialog = None \/ Dialog!InBounds(dialog)

Header(row) == [row EXCEPT !.kind = "header", !.node = None]

\* A snapshot does not take the selection to another row: the selected row stays
\* selected wherever it moves to, its group takes its place when it is gone, and
\* what was visible stays so.
SelectionKept ==
    [][<<snapshot, live>>' # <<snapshot, live>> /\ snapshot # Blank /\ At # List!NoRow =>
          LET rows     == List!Rows(snapshot', live', query')
              selected == At
              now      == List!At(rows, cursor')
              has(row) == \E i \in DOMAIN rows : rows[i] = row
          IN  /\ has(selected) => now = selected
              /\ ~has(selected) /\ selected.kind = "node" /\ has(Header(selected))
                    => now = Header(selected)
              /\ now # List!NoRow /\ List!Visible(Rows, cursor, scroll, height)
                    => List!Visible(rows, cursor', scroll', height')]_vars

\* What the model says of its requests is true: a connection is being changed by
\* one request as long as busy says so, and the dialog waits for one as long as
\* saving says so, so that it never waits for ever.
FlagsTrue ==
    LET of(kind) == {r \in Requests : request[r].kind = kind}
    IN  /\ Cardinality(of("connection")) = IF busy THEN 1 ELSE 0
        /\ Cardinality(of("save")) = IF saving THEN 1 ELSE 0
        /\ saving => dialog # None

\* A request is carried out once, however its daemon is started, replaced or lost;
\* only one that waited for a restart may be asked for again.
RequestOnce == \A r \in Requests : request[r].runs > 1 => request[r].elevates
=============================================================================
