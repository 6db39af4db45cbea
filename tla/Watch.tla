-------------------------------- MODULE Watch --------------------------------
(***************************************************************************)
(* How a snapshot reaches those who watch the daemon: publishLocked offers   *)
(* it to a one-slot channel per watcher, the handler of the watcher takes it *)
(* from there and writes it to the connection, the client reads it and shows *)
(* it.  The publisher holds the state lock (stMu) from the first channel to  *)
(* the last, handlers receive without it, so their steps interleave with     *)
(* the three steps of filling a channel that is full.                        *)
(*                                                                         *)
(* Snapshots are numbered in the order in which they are published.          *)
(***************************************************************************)
EXTENDS Integers, Sequences

CONSTANTS
    Watchers,  \* clients that watch, one connection at a time
    Buffer,    \* snapshots the connection holds before a write blocks
    Limit,     \* bound on the number of snapshots published
    Nothing    \* an empty channel, a handler with nothing to write

ASSUME WatchAssumption ==
    /\ Buffer \in Nat \ {0}
    /\ Limit \in Nat
    /\ Nothing \notin Nat
    /\ Nothing \notin Watchers

VARIABLES
    snapshot,    \* Core.snapshot
    todo,        \* watchers publishLocked has still to serve
    full,        \* the watcher whose full channel it is replacing, or Nothing
    drained,     \* ... and has emptied, if the handler did not
    registered,  \* Core.watchers
    chan,        \* the slot of each watcher's channel
    conn,        \* the watch handler: "closed", "open", "closing"
    hand,        \* what the handler is about to write
    wire,        \* what the client has not read yet
    seen         \* what the client shows

watchVars == <<snapshot, todo, full, drained, registered, chan, conn, hand, wire, seen>>

publisher == <<snapshot, todo, full, drained>>

WatchInit ==
    /\ snapshot = 0
    /\ todo = {} /\ full = Nothing /\ drained = FALSE
    /\ registered = {}
    /\ chan = [w \in Watchers |-> Nothing]
    /\ conn = [w \in Watchers |-> "closed"]
    /\ hand = [w \in Watchers |-> Nothing]
    /\ wire = [w \in Watchers |-> <<>>]
    /\ seen = [w \in Watchers |-> 0]

(* nobody is inside publishLocked, so stMu can be taken *)
Unlocked == todo = {}

----------------------------------------------------------------------------
(* The publisher *)

(* a new snapshot is stored before any watcher is offered it *)
Publish ==
    /\ Unlocked
    /\ snapshot < Limit
    /\ snapshot' = snapshot + 1
    /\ todo' = registered
    /\ UNCHANGED <<full, drained, registered, chan, conn, hand, wire, seen>>

(* Sensitivity: a snapshot that finds the channel full is dropped *)
OfferOnly(w) ==
    /\ full = Nothing
    /\ w \in todo
    /\ chan' = [chan EXCEPT ![w] = IF @ = Nothing THEN snapshot ELSE @]
    /\ todo' = todo \ {w}
    /\ UNCHANGED <<snapshot, full, drained, registered, conn, hand, wire, seen>>

(* the first select: send if the slot is free *)
Offer(w) ==
    /\ full = Nothing
    /\ w \in todo
    /\ IF chan[w] = Nothing
       THEN /\ chan' = [chan EXCEPT ![w] = snapshot]
            /\ todo' = todo \ {w}
            /\ UNCHANGED <<full, drained>>
       ELSE /\ full' = w /\ drained' = FALSE
            /\ UNCHANGED <<chan, todo>>
    /\ UNCHANGED <<snapshot, registered, conn, hand, wire, seen>>

(* the second select: take the old snapshot out, unless the handler has *)
Drain(w) ==
    /\ full = w /\ ~drained
    /\ chan' = [chan EXCEPT ![w] = Nothing]
    /\ drained' = TRUE
    /\ UNCHANGED <<snapshot, todo, full, registered, conn, hand, wire, seen>>

(* the plain send, which would block on a full slot *)
Put(w) ==
    /\ full = w /\ drained
    /\ chan[w] = Nothing
    /\ chan' = [chan EXCEPT ![w] = snapshot]
    /\ todo' = todo \ {w}
    /\ full' = Nothing /\ drained' = FALSE
    /\ UNCHANGED <<snapshot, registered, conn, hand, wire, seen>>

----------------------------------------------------------------------------
(* The watch handler *)

(* Watch: register, and read the initial snapshot under the same lock *)
Open(w) ==
    /\ conn[w] = "closed"
    /\ Unlocked
    /\ wire[w] = <<>>
    /\ conn' = [conn EXCEPT ![w] = "open"]
    /\ registered' = registered \cup {w}
    /\ chan' = [chan EXCEPT ![w] = Nothing]
    /\ hand' = [hand EXCEPT ![w] = snapshot]
    /\ UNCHANGED <<publisher, wire, seen>>

(* Sensitivity: snapshots are written out of turn *)
TakeAtOnce(w) ==
    /\ conn[w] = "open"
    /\ chan[w] # Nothing
    /\ Len(wire[w]) < Buffer
    /\ wire' = [wire EXCEPT ![w] = Append(@, chan[w])]
    /\ chan' = [chan EXCEPT ![w] = Nothing]
    /\ UNCHANGED <<publisher, registered, conn, hand, seen>>

Take(w) ==
    /\ conn[w] = "open"
    /\ hand[w] = Nothing /\ chan[w] # Nothing
    /\ hand' = [hand EXCEPT ![w] = chan[w]]
    /\ chan' = [chan EXCEPT ![w] = Nothing]
    /\ UNCHANGED <<publisher, registered, conn, wire, seen>>

(* reply: blocks while the client does not read *)
Write(w) ==
    /\ conn[w] = "open"
    /\ hand[w] # Nothing
    /\ Len(wire[w]) < Buffer
    /\ wire' = [wire EXCEPT ![w] = Append(@, hand[w])]
    /\ hand' = [hand EXCEPT ![w] = Nothing]
    /\ UNCHANGED <<publisher, registered, chan, conn, seen>>

(* a write fails or times out, the client hangs up or the server stops; the  *)
(* channel stays registered until the handler gets the lock                  *)
Drop(w) ==
    /\ conn[w] = "open"
    /\ conn' = [conn EXCEPT ![w] = "closing"]
    /\ hand' = [hand EXCEPT ![w] = Nothing]
    /\ wire' \in {wire, [wire EXCEPT ![w] = <<>>]}
    /\ UNCHANGED <<publisher, registered, chan, seen>>

Unregister(w) ==
    /\ conn[w] = "closing"
    /\ Unlocked
    /\ conn' = [conn EXCEPT ![w] = "closed"]
    /\ registered' = registered \ {w}
    /\ UNCHANGED <<publisher, chan, hand, wire, seen>>

----------------------------------------------------------------------------
(* The client *)

(* Client.Watch decodes a snapshot and hands it to the model's Update *)
Receive(w) ==
    /\ wire[w] # <<>>
    /\ seen' = [seen EXCEPT ![w] = Head(wire[w])]
    /\ wire' = [wire EXCEPT ![w] = Tail(@)]
    /\ UNCHANGED <<publisher, registered, chan, conn, hand>>

----------------------------------------------------------------------------

Publisher == \E w \in Watchers : Offer(w) \/ Drain(w) \/ Put(w)

Handler(w) == Take(w) \/ Write(w) \/ Unregister(w)

WatchNext ==
    \/ Publish
    \/ Publisher
    \/ \E w \in Watchers : Open(w) \/ Handler(w) \/ Drop(w) \/ Receive(w)

WatchSpec == WatchInit /\ [][WatchNext]_watchVars

(* The publisher runs on, a handler that can go on does, a client that       *)
(* watches reads.  Nobody has to publish, to watch or to hang up.            *)
WatchFairSpec ==
    /\ WatchSpec
    /\ WF_watchVars(Publisher)
    /\ \A w \in Watchers : WF_watchVars(Handler(w)) /\ WF_watchVars(Receive(w))

----------------------------------------------------------------------------
(* Properties *)

(* The publisher only ever serves watchers that are registered: nobody comes *)
(* or goes while it goes through them (stMu in Watch and its stop).         *)
WatchTypeOK ==
    /\ snapshot \in Nat
    /\ registered \subseteq Watchers /\ todo \subseteq registered
    /\ full \in todo \cup {Nothing} /\ drained \in BOOLEAN
    /\ chan \in [Watchers -> Nat \cup {Nothing}]
    /\ conn \in [Watchers -> {"closed", "open", "closing"}]
    /\ hand \in [Watchers -> Nat \cup {Nothing}]
    /\ wire \in [Watchers -> Seq(Nat)]
    /\ seen \in [Watchers -> Nat]

(* the newest snapshot on its way to a watcher, or the one it shows *)
Newest(w) == IF chan[w] # Nothing THEN chan[w]
             ELSE IF hand[w] # Nothing THEN hand[w]
             ELSE IF wire[w] # <<>> THEN wire[w][Len(wire[w])]
             ELSE seen[w]

(* However slow a watcher is, the snapshot that is current is on its way to  *)
(* it: only older ones are dropped (publishLocked, Watch).                   *)
NothingLost ==
    \A w \in Watchers : conn[w] = "open" /\ w \notin todo => Newest(w) = snapshot

(* The plain send after the second select finds the slot free, so nobody is  *)
(* kept waiting for the state lock by a watcher that does not read.          *)
PublisherNeverBlocks ==
    full # Nothing /\ drained => chan[full] = Nothing

(* Watchers see published snapshots, and never an older one after a newer    *)
(* one, also across a reconnection.                                          *)
Promise == INSTANCE Latest

ImplementsLatest == Promise!Spec

(* A watcher that stays connected comes to show every snapshot or a later    *)
(* one, whatever the publisher and the other watchers do.                   *)
Delivered ==
    \A w \in Watchers, v \in 1..Limit :
        (conn[w] = "open" /\ snapshot = v)
            ~> (seen[w] >= v \/ conn[w] # "open")
=============================================================================
