------------------------------- MODULE Server -------------------------------
(***************************************************************************)
(* The server of one daemon: the loop that accepts connections, the handlers  *)
(* and the two kinds of slots they take, the automatic refresh beside them,   *)
(* and how main stops all of it.  What a request does to the core is in Core,  *)
(* Settings and Refresh: here it only takes its time and ends.               *)
(*                                                                         *)
(* Sources: daemon/server/server.go, handlers.go and refresh.go, and the loop  *)
(* of cmd/justrayd/main.go.                                                 *)
(***************************************************************************)
EXTENDS Integers, FiniteSets, SequencesExt

CONSTANTS
    Conns,       \* connections, reused once they are closed
    Subs,        \* subscriptions
    Slots,       \* cap(sem), 32 in the code
    WatchSlots,  \* cap(watchSem), 64 in the code
    Pause,       \* minutes between two attempts, 15 in the code
    None

ASSUME NoneAssumption == None \notin Conns
ASSUME ConnsAssumption == IsFiniteSet(Conns)
ASSUME SlotsAssumption == Slots \in Nat \ {0} /\ WatchSlots \in Nat
ASSUME PauseAssumption == Pause \in Nat \ {0}

VARIABLES
    main,      \* where main is: "serving", "draining" or "off"
    leaves,    \* why: "end" or "restart"
    over,      \* the context of the server is cancelled
    open,      \* the listener is
    accept,    \* where Serve is
    backlog,   \* connections the system holds for Accept
    pending,   \* the connection Serve has accepted and has no slot for yet
    handler,   \* the handler of each connection
    sem, watchSem,
    stop,      \* somebody has asked for a shutdown
    restart,   \* somebody was told to wait for a restart
    tick,      \* the ticker's channel is full
    updating,  \* the subscriptions AutoRefresh is refreshing
    tried,     \* minutes since it tried each of them, Pause when unknown
    every,     \* Settings.RefreshEvery is not zero
    due,       \* the refreshable subscriptions older than that
    failing    \* minutes since a subscription that has been due ever since was tried

serving   == <<main, leaves, over, open, accept, backlog, pending, handler, sem, watchSem,
               stop, restart>>
refresher == <<tick, updating, tried>>
outside   == <<every, due, failing>>
vars      == <<serving, refresher, outside>>

(* "read" waits for the request; "bye", "stopbye", "elevate" answer it;       *)
(* "call" is in the core; "swap" has a watch slot and its first slot still.   *)
Holding  == {"read", "bye", "stopbye", "call", "elevate", "swap"}
Watching == {"swap", "watch"}

TypeOK ==
    /\ main \in {"serving", "draining", "off"}
    /\ leaves \in {"end", "restart"}
    /\ over \in BOOLEAN /\ open \in BOOLEAN
    /\ accept \in {"loop", "accept", "slot", "wait", "done"}
    /\ backlog \in Seq(Conns)
    /\ pending \in Conns \cup {None}
    /\ handler \in [Conns -> Holding \cup {"none", "watch"}]
    /\ sem \in 0..Slots /\ watchSem \in 0..WatchSlots
    /\ stop \in BOOLEAN /\ restart \in BOOLEAN
    /\ tick \in BOOLEAN
    /\ updating \in SUBSET Subs
    /\ tried \in [Subs -> 0..Pause]
    /\ every \in BOOLEAN /\ due \in SUBSET Subs
    /\ failing \in [Subs -> 0..Pause]

Init ==
    /\ main = "serving" /\ leaves = "end"
    /\ over = FALSE /\ open = TRUE
    /\ accept = "loop" /\ backlog = <<>> /\ pending = None
    /\ handler = [c \in Conns |-> "none"]
    /\ sem = 0 /\ watchSem = 0
    /\ stop = FALSE /\ restart = FALSE
    /\ tick = FALSE /\ updating = {} /\ tried = [s \in Subs |-> Pause]
    /\ every \in BOOLEAN /\ due \in SUBSET Subs
    /\ failing = [s \in Subs |-> Pause]

\* The process is there.
Works == main # "off"

-----------------------------------------------------------------------------
(* Serve.                                                                    *)

Idle(c) == handler[c] = "none" /\ pending # c /\ ~Contains(backlog, c)

Connect(c) ==
    /\ open /\ Idle(c)
    /\ backlog' = Append(backlog, c)
    /\ UNCHANGED <<main, leaves, over, open, accept, pending, handler, sem, watchSem, stop,
                   restart, refresher, outside>>

\* Serve returns: it cancels everything and closes the listener, and the system
\* drops the connections that nobody accepted.
Return ==
    /\ accept' = "wait"
    /\ over' = TRUE /\ open' = FALSE /\ backlog' = <<>>

Loop ==
    /\ accept = "loop"
    /\ \/ over /\ Return
       \/ ~over /\ accept' = "accept" /\ UNCHANGED <<over, open, backlog>>
    /\ UNCHANGED <<main, leaves, pending, handler, sem, watchSem, stop, restart, refresher,
                   outside>>

Accept ==
    /\ accept = "accept" /\ open /\ backlog # <<>>
    /\ pending' = Head(backlog) /\ backlog' = Tail(backlog)
    /\ accept' = "slot"
    /\ UNCHANGED <<main, leaves, over, open, handler, sem, watchSem, stop, restart, refresher,
                   outside>>

\* Accept fails on a closed listener, or by itself.
AcceptFails ==
    /\ accept = "accept"
    /\ Return
    /\ UNCHANGED <<main, leaves, pending, handler, sem, watchSem, stop, restart, refresher,
                   outside>>

\* context.AfterFunc closes the listener.
CloseListener ==
    /\ over /\ open
    /\ open' = FALSE /\ backlog' = <<>>
    /\ UNCHANGED <<main, leaves, over, accept, pending, handler, sem, watchSem, stop, restart,
                   refresher, outside>>

TakeSlot ==
    /\ accept = "slot" /\ sem < Slots
    /\ sem' = sem + 1
    /\ handler' = [handler EXCEPT ![pending] = "read"]
    /\ pending' = None /\ accept' = "loop"
    /\ UNCHANGED <<main, leaves, over, open, backlog, watchSem, stop, restart, refresher,
                   outside>>

NoSlot ==
    /\ accept = "slot" /\ over
    /\ pending' = None
    /\ Return
    /\ UNCHANGED <<main, leaves, handler, sem, watchSem, stop, restart, refresher, outside>>

\* handlers.Wait
AllHandled ==
    /\ accept = "wait"
    /\ \A c \in Conns : handler[c] = "none"
    /\ accept' = "done"
    /\ UNCHANGED <<main, leaves, over, open, backlog, pending, handler, sem, watchSem, stop,
                   restart, refresher, outside>>

-----------------------------------------------------------------------------
(* handle.                                                                   *)

Becomes(c, pc) == handler' = [handler EXCEPT ![c] = pc]

Unserving == <<main, leaves, over, open, accept, backlog, pending>>

\* Sensitivity: a watch gives back both slots, the first one for the second time.
GivesBoth(c) ==
    /\ Becomes(c, "none")
    /\ sem' = sem - 1
    /\ watchSem' = IF handler[c] \in Watching THEN watchSem - 1 ELSE watchSem

\* The deferred calls.
Ends(c) ==
    /\ Becomes(c, "none")
    /\ sem' = IF handler[c] \in Holding THEN sem - 1 ELSE sem
    /\ watchSem' = IF handler[c] \in Watching THEN watchSem - 1 ELSE watchSem

\* The request is read, or the client has left, or thirty seconds have passed.
\* A ping, a bad request and one of another version are only answered.
Read(c) ==
    /\ handler[c] = "read"
    /\ \/ \E pc \in {"bye", "stopbye", "call"} : Becomes(c, pc) /\ UNCHANGED <<sem, watchSem>>
       \/ watchSem < WatchSlots /\ watchSem' = watchSem + 1 /\ Becomes(c, "swap") /\ UNCHANGED sem
       \/ Ends(c)
    /\ UNCHANGED <<Unserving, stop, restart, refresher, outside>>

\* The answer is written, or is not; a shutdown is heard all the same.
Answer(c) ==
    /\ handler[c] \in {"bye", "stopbye"}
    /\ stop' = (stop \/ handler[c] = "stopbye")
    /\ Ends(c)
    /\ UNCHANGED <<Unserving, restart, refresher, outside>>

\* The core is done, by itself or because thirty seconds have passed, the client
\* has left or the server stops.
Called(c) ==
    /\ handler[c] = "call"
    /\ \E pc \in {"bye", "elevate"} : Becomes(c, pc)
    /\ UNCHANGED <<Unserving, sem, watchSem, stop, restart, refresher, outside>>

\* The daemon restarts only for a client that was told so.
Elevate(c) ==
    /\ handler[c] = "elevate"
    /\ restart' \in {restart, TRUE}
    /\ Ends(c)
    /\ UNCHANGED <<Unserving, stop, refresher, outside>>

\* Sensitivity: a watch keeps the slot of its request as well.
KeepsSlot(c) ==
    /\ handler[c] = "swap"
    /\ Becomes(c, "watch")
    /\ UNCHANGED <<Unserving, sem, watchSem, stop, restart, refresher, outside>>

\* A watch has no need of the slot of a request.
Swap(c) ==
    /\ handler[c] = "swap"
    /\ sem' = sem - 1
    /\ Becomes(c, "watch")
    /\ UNCHANGED <<Unserving, watchSem, stop, restart, refresher, outside>>

\* The client of a watch leaves, or does not take a snapshot in time.
WatchLost(c) ==
    /\ handler[c] = "watch"
    /\ Ends(c)
    /\ UNCHANGED <<Unserving, stop, restart, refresher, outside>>

\* Sensitivity: a watch ends only with its client.
Undying == FALSE

\* A watch looks at its context, which the server's ends.
Cancelled == over

WatchOver(c) == Cancelled /\ WatchLost(c)

-----------------------------------------------------------------------------
(* main.                                                                     *)

Unheard == <<pending, handler, sem, watchSem, stop, restart, refresher, outside>>

\* A signal or a request ends the service, a restart makes it begin again, a
\* failed listener ends it.
Leave ==
    /\ main = "serving"
    /\ \/ leaves' = "end"
       \/ restart /\ leaves' = "restart"
    /\ main' = "draining" /\ over' = TRUE
    /\ UNCHANGED <<open, accept, backlog, Unheard>>

\* The same for a request, which main is sure to see.
Heeds == main = "serving" /\ (stop \/ restart \/ accept = "done") /\ Leave

\* Everything of the server is gone with its process, or made anew.
Anew(where) ==
    /\ main' = where /\ leaves' = "end"
    /\ over' = FALSE /\ open' = TRUE
    /\ accept' = "loop" /\ backlog' = <<>> /\ pending' = None
    /\ handler' = [c \in Conns |-> "none"]
    /\ sem' = 0 /\ watchSem' = 0
    /\ stop' = FALSE /\ restart' = FALSE
    /\ tick' = FALSE /\ updating' = {} /\ tried' = [s \in Subs |-> Pause]
    /\ failing' = [s \in Subs |-> Pause]
    /\ UNCHANGED <<every, due>>

\* Everything has ended in time: Serve, then the core with the refresh it runs.
Drained ==
    /\ main = "draining"
    /\ accept = "done" /\ updating = {}
    /\ Anew(IF leaves = "restart" THEN "serving" ELSE "off")

\* After five seconds the process ends as it is.
Fatal == main = "draining" /\ Anew("off")

Again == main = "off" /\ Anew("serving")

-----------------------------------------------------------------------------
(* AutoRefresh.                                                              *)

Older(ages) == [s \in Subs |-> IF ages[s] < Pause THEN ages[s] + 1 ELSE Pause]

\* A minute passes; a tick nobody waits for is kept, a second one is not.
Minute ==
    /\ main = "serving"
    /\ tick' = TRUE
    /\ tried' = Older(tried) /\ failing' = Older(failing)
    /\ UNCHANGED <<serving, updating, every, due>>

\* Sensitivity: only the subscriptions of this tick are remembered.
Forgotten(ids) == [s \in Subs |-> IF s \in ids THEN 0 ELSE Pause]

\* next: a subscription that is not due is forgotten.
NextTried(ids) ==
    [s \in Subs |-> IF s \in ids THEN 0 ELSE IF s \in due THEN tried[s] ELSE Pause]

Check ==
    /\ tick /\ updating = {} /\ ~over /\ main = "serving"
    /\ tick' = FALSE
    /\ IF every
       THEN LET ids == {s \in due : tried[s] = Pause}
            IN  /\ tried' = NextTried(ids)
                /\ updating' = ids
                /\ failing' = [s \in Subs |-> IF s \in ids THEN 0 ELSE failing[s]]
       ELSE UNCHANGED <<tried, updating, failing>>
    /\ UNCHANGED <<serving, every, due>>

\* A subscription is due or not any more: refreshed, changed, removed, or with
\* time or another interval.
Settle(dues) ==
    /\ due' = dues
    /\ failing' = [s \in Subs |-> IF s \in due \cap dues THEN failing[s] ELSE Pause]

\* Refreshed subscriptions are not due any more, the failed ones are still.
Refreshed ==
    /\ Works /\ updating # {}
    /\ \E done \in SUBSET updating : Settle(due \ done)
    /\ updating' = {}
    /\ UNCHANGED <<serving, tick, tried, every>>

Outside ==
    /\ \E dues \in SUBSET Subs : Settle(dues)
    /\ every' \in BOOLEAN
    /\ UNCHANGED <<serving, refresher>>

-----------------------------------------------------------------------------
Serve == Loop \/ Accept \/ AcceptFails \/ CloseListener \/ TakeSlot \/ NoSlot \/ AllHandled

Handle(c) ==
    Read(c) \/ Answer(c) \/ Called(c) \/ Elevate(c) \/ Swap(c) \/ WatchLost(c)

Next ==
    \/ Works /\ (Serve \/ \E c \in Conns : Connect(c) \/ Handle(c))
    \/ Leave \/ Drained \/ Fatal \/ Again
    \/ Minute \/ Check \/ Refreshed \/ Outside

Spec == Init /\ [][Next]_vars

\* Nothing is asked of clients, of the ticker or of the five seconds: a handler
\* waits for a client thirty seconds at most, for the core as long, and for a
\* watch as long as it looks at its context.
FairSpec ==
    /\ Spec
    /\ WF_vars(Works /\ Loop) /\ WF_vars(Works /\ Accept) /\ WF_vars(Works /\ ~open /\ AcceptFails)
    /\ WF_vars(Works /\ CloseListener) /\ WF_vars(Works /\ TakeSlot) /\ WF_vars(Works /\ NoSlot)
    /\ WF_vars(Works /\ AllHandled)
    /\ \A c \in Conns :
          /\ WF_vars(Works /\ Read(c)) /\ WF_vars(Works /\ Answer(c)) /\ WF_vars(Works /\ Called(c))
          /\ WF_vars(Works /\ Elevate(c)) /\ WF_vars(Works /\ Swap(c)) /\ WF_vars(Works /\ WatchOver(c))
    /\ WF_vars(Heeds) /\ WF_vars(Drained) /\ WF_vars(Refreshed)

-----------------------------------------------------------------------------
(* Properties.                                                               *)

\* Every slot is held by one handler that has the right to it, and is free when
\* the handler is gone or watches: none is lost and none is given back twice.
SlotsKept ==
    /\ sem = Cardinality({c \in Conns : handler[c] \in Holding})
    /\ watchSem = Cardinality({c \in Conns : handler[c] \in Watching})

\* A client that connects is handled in the end, or its connection is closed,
\* also when every slot is taken: nobody can keep one for ever.
ClientServed == \A c \in Conns : Contains(backlog, c) ~> ~Contains(backlog, c) /\ pending # c

\* A stop gets out: once main leaves, Serve and the core end without the five
\* seconds, whatever waits for a slot, a client or a refresh.
StopEnds == main = "draining" ~> main # "draining"

\* A subscription that is due and keeps failing is not tried again by itself
\* before the pause is over.
RetryLimited == [][\A s \in Subs : s \in updating' \ updating => failing[s] = Pause]_vars
=============================================================================
