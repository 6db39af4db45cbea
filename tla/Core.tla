-------------------------------- MODULE Core --------------------------------
(***************************************************************************)
(* The change pipeline of the daemon: internal/daemon/core serialises every *)
(* operation that touches the connection or the stored state as one         *)
(* "change", runs the engine calls of the change with the operation mutex   *)
(* released, and commits or rolls back.  The module also holds the part of  *)
(* cmd/justrayd/main.go that drives it: launch, Restore, elevation,         *)
(* serving, restart, shutdown and crash.                                    *)
(*                                                                         *)
(* Between two steps of a change the operation mutex is free, so the steps  *)
(* of SetCollapsed, RequestRestart, a client giving up, a shutdown and a    *)
(* crash interleave with it.  Everything done under the mutex in one go is  *)
(* one action.                                                              *)
(***************************************************************************)
CONSTANTS
    Nodes,     \* node identities (SubscriptionID and NodeID together)
    Subs,      \* subscription identities
    SubOf,     \* the subscription a node belongs to
    Local,     \* subscriptions without a URL: never refreshed, nodes removable
    Requests,  \* identities of the Pending records handlers hold a pointer to
    Ops,       \* the client operations a model lets run
    None       \* absent reference, record or change

ClientOps == {"Connect", "Disconnect", "SetTun", "AddSubscription",
              "RemoveSubscription", "RemoveNode", "Refresh"}

ASSUME CoreAssumption ==
    /\ SubOf \in [Nodes -> Subs]
    /\ Local \subseteq Subs
    /\ Ops \subseteq ClientOps
    /\ None \notin Nodes /\ None \notin Subs /\ None \notin Requests

VARIABLES
    mem,       \* Core.state, without the settings
    disk,      \* the state file
    status,    \* connection.Service.status: what the engine runs, or None
    changing,  \* Core.changing: the change in progress, or None
    reply,     \* how the last change ended: changeCall.err
    asks,      \* elevation requests whose handlers have not yet asked to restart
    restart,   \* Core.restart: the restart channel holds a token
    daemon,    \* where main is
    root,      \* the process may open a TUN device
    copy,      \* the process runs the executable that was granted the privilege
    torn       \* history: the last rollback failed with the engine left running

vars == <<mem, disk, status, changing, reply, asks, restart,
          daemon, root, copy, torn>>

proc == <<daemon, root, copy>>

----------------------------------------------------------------------------
(* Data *)

Ref     == Nodes \cup {None}
Pending == [ref : Ref, tun : BOOLEAN, id : Requests \cup {None}]
State   == [subs : SUBSET Subs, nodes : SUBSET Nodes, active : Ref, last : Ref,
            tun : BOOLEAN, pending : Pending \cup {None},
            collapsed : SUBSET Subs]
Running == [ref : Nodes, tun : BOOLEAN]
Status  == Running \cup {None}

Steps   == {"switch", "rollback", "last", "pending", "active"}
Call    == [ref : Ref, tun : BOOLEAN, then : Steps]
Results == {"ok", "failed", "elevate"}
Kinds   == ClientOps \cup {"Restore", "RestoreFailed"}
Change  == [kind : Kinds, canceled : BOOLEAN, before : Status, prev : State,
            next : State, call : Call \cup {None},
            result : Results \cup {None}]

ASSUME NoneAssumption ==
    /\ None \notin Pending /\ None \notin Running
    /\ None \notin Call /\ None \notin Change /\ None \notin Results
    /\ None \notin [step : {"switch", "rollback", "renew"}, before : Status,
                goal : Status \cup [ref : Ref, tun : BOOLEAN]]

NodesOf(subs) == {n \in Nodes : SubOf[n] \in subs}

(* find resolves a reference against the nodes of the subscriptions *)
Found(s, ref) == ref \in s.nodes

(* a Pending read back from the file is a record no handler points to *)
Stored(s) == IF s.pending = None THEN s
             ELSE [s EXCEPT !.pending =
                      [ref |-> s.pending.ref, tun |-> s.pending.tun, id |-> None]]

(* an engine call made with the mutex released, and where its result goes;  *)
(* a call without a node stops the engine                                   *)
Start(ref, tun, then) == [ref |-> ref, tun |-> tun, then |-> then]
Stop(then)            == [ref |-> None, tun |-> FALSE, then |-> then]

Empty(subs) == [subs |-> subs, nodes |-> NodesOf(subs), active |-> None,
                last |-> None, tun |-> FALSE, pending |-> None,
                collapsed |-> {}]

Init ==
    /\ \E subs \in {{}, Subs} : mem = Empty(subs) /\ disk = Empty(subs)
    /\ status = None /\ changing = None /\ reply = "ok"
    /\ asks = {} /\ restart = FALSE
    /\ daemon = "down" /\ root = FALSE /\ copy = FALSE /\ torn = FALSE

----------------------------------------------------------------------------
(* Steps every change is made of *)

(* what begin records: the connection and the state as the change found them *)
NewChange(kind, before, state) ==
    [kind |-> kind, canceled |-> FALSE, before |-> before, prev |-> state,
     next |-> state, call |-> None, result |-> None]

Runs(kind) == /\ changing # None
              /\ changing.kind = kind
              /\ changing.call = None
              /\ ~changing.canceled

Returned(then) == /\ changing # None
                  /\ changing.call # None
                  /\ changing.call.then = then
                  /\ changing.result # None

(* Sensitivity: a commit that ignores the error of SaveState *)
SavedOrLost(s) == mem' = s /\ disk' \in {disk, Stored(s)}

(* commit: the file first, memory only when the file has it *)
Saved(s) == mem' = s /\ disk' = Stored(s)

SaveFailed == UNCHANGED <<mem, disk>>

Finish(err) == changing' = None /\ reply' = err

Continue(prev, next, call) ==
    /\ changing' = [changing EXCEPT !.prev = prev, !.next = next,
                                    !.call = call, !.result = None]
    /\ UNCHANGED reply

(* finishDisconnect after its commit, or an error that commits nothing *)
FinishDrop(s, drop) ==
    IF drop THEN Continue(s, s, Stop("last")) ELSE Finish("ok")

(* Sensitivity: restore is content with an engine that runs nothing *)
RollbackIfRunning(s, next) ==
    IF status \in {changing.before, None} THEN Finish("failed")
    ELSE IF changing.before = None THEN Continue(s, next, Stop("rollback"))
    ELSE Continue(s, next, Start(changing.before.ref, changing.before.tun, "rollback"))

(* restore: bring the engine back to the connection found at the start *)
Rollback(s, next) ==
    IF status = changing.before
    THEN Finish("failed")
    ELSE IF changing.before = None
    THEN Continue(s, next, Stop("rollback"))
    ELSE IF Found(s, changing.before.ref)
    THEN Continue(s, next, Start(changing.before.ref, changing.before.tun,
                                 "rollback"))
    ELSE Finish("failed")

(* Sensitivity: finishConnection commits the collapsed set it started with *)
CollapseStale(s) == s

(* while a change releases the mutex only the collapsed set may move *)
Collapse(s) == [s EXCEPT !.collapsed = mem.collapsed]

(* Sensitivity: finishConnection does not look at its context again *)
VerdictOfEngine(result) == result

(* the cancellation of the change's context overrides the engine's answer *)
Verdict(result) == IF changing.canceled THEN "failed" ELSE result

(* finishConnection *)
FinishConnection(previous, following, result) ==
    LET prev == Collapse(previous)
        next == Collapse(following)
        held == IF mem.pending = None THEN asks ELSE asks \cup {mem.pending.id}
    IN  \/ /\ Verdict(result) = "ok"
           /\ Saved(next)
           /\ Finish("ok")
           /\ torn' = FALSE
           /\ UNCHANGED asks
        \/ /\ Verdict(result) = "ok"
           /\ SaveFailed
           /\ Rollback(prev, next)
           /\ UNCHANGED <<asks, torn>>
        \/ /\ Verdict(result) = "elevate"
           /\ \E id \in Requests \ held :
                 LET waiting == [prev EXCEPT !.pending =
                                   [ref |-> next.active, tun |-> next.tun,
                                    id |-> id]]
                 IN  /\ Saved(waiting)
                     /\ asks' = asks \cup {id}
           /\ Finish("elevate")
           /\ torn' = FALSE
        \/ /\ Verdict(result) = "elevate"
           /\ SaveFailed
           /\ Rollback(prev, next)
           /\ UNCHANGED <<asks, torn>>
        \/ /\ Verdict(result) = "failed"
           /\ Saved(prev) \/ SaveFailed
           /\ Rollback(prev, next)
           /\ UNCHANGED <<asks, torn>>

(* Sensitivity: a switch that starts from the stored connection *)
PreviousStored == [mem EXCEPT !.pending = None]

(* Connect and SetTun start from the live connection, not from what was      *)
(* stored, and forget an earlier elevation request                           *)
Previous ==
    LET live == IF status = None THEN mem
                ELSE [mem EXCEPT !.active = status.ref, !.last = status.ref,
                                 !.tun = status.tun]
    IN  [live EXCEPT !.pending = None]

(* Sensitivity: sanitizeRefs forgets about Last *)
SanitizedButLast(s, sub) ==
    LET gone(ref) == ref # None /\ SubOf[ref] = sub /\ ref \notin s.nodes
    IN  [s EXCEPT !.active  = IF gone(@) THEN None ELSE @,
                  !.pending = IF @ # None /\ gone(@.ref) THEN None ELSE @]

(* Sensitivity: whatever a refresh brings, the subscription starts afresh *)
SanitizedWhole(s, sub) ==
    LET gone(ref) == ref # None /\ SubOf[ref] = sub
    IN  [s EXCEPT !.active  = IF gone(@) THEN None ELSE @,
                  !.last    = IF gone(@) THEN None ELSE @,
                  !.pending = IF @ # None /\ gone(@.ref) THEN None ELSE @]

(* sanitizeRefs: forget references to nodes of sub that are gone *)
Sanitized(s, sub) ==
    LET gone(ref) == ref # None /\ SubOf[ref] = sub /\ ref \notin s.nodes
    IN  [s EXCEPT !.active  = IF gone(@) THEN None ELSE @,
                  !.last    = IF gone(@) THEN None ELSE @,
                  !.pending = IF @ # None /\ gone(@.ref) THEN None ELSE @]

(* Sensitivity: the connection is dropped when the stored node is gone *)
DropsStored(s, sub) ==
    s.active # None /\ SubOf[s.active] = sub /\ s.active \notin s.nodes

(* ... and whether the live connection went with them *)
DropsConnection(s, sub) ==
    status # None /\ SubOf[status.ref] = sub /\ status.ref \notin s.nodes

----------------------------------------------------------------------------
(* Clients *)

(* begin: refused with errChanging, and without effect, while another change *)
(* is in progress                                                            *)
Begin(kind) ==
    /\ daemon = "serving"
    /\ changing = None
    /\ changing' = NewChange(kind, status, mem)
    /\ UNCHANGED <<mem, disk, status, reply, asks, restart, proc, torn>>

(* the caller times out or hangs up: the change goes on with a dead context *)
Cancel ==
    /\ daemon = "serving"
    /\ changing # None
    /\ ~changing.canceled
    /\ changing' = [changing EXCEPT !.canceled = TRUE]
    /\ UNCHANGED <<mem, disk, status, reply, asks, restart, proc, torn>>

(* Sensitivity: only a client's cancellation ends a change before its action *)
RunCanceledServing ==
    /\ daemon = "serving"
    /\ changing # None
    /\ changing.call = None
    /\ changing.canceled
    /\ Finish("failed")
    /\ UNCHANGED <<mem, disk, status, asks, restart, proc, torn>>

(* the goroutine of begin finds the context dead before the action ran *)
RunCanceled ==
    /\ changing # None
    /\ changing.call = None
    /\ changing.canceled
    /\ Finish("failed")
    /\ UNCHANGED <<mem, disk, status, asks, restart, proc, torn>>

RunConnect(ref, mode) ==
    /\ Runs("Connect")
    /\ IF Found(mem, ref)
       THEN LET tun  == IF mode = None THEN Previous.tun ELSE mode
                next == [Previous EXCEPT !.active = ref, !.last = ref, !.tun = tun]
            IN  /\ changing' = [changing EXCEPT
                        !.before = status, !.prev = Previous, !.next = next,
                        !.call = Start(ref, tun, "switch")]
                /\ UNCHANGED reply
       ELSE Finish("failed")
    /\ UNCHANGED <<mem, disk, status, asks, restart, proc, torn>>

RunSetTun(tun) ==
    LET next == [Previous EXCEPT !.tun = tun]
    IN  /\ Runs("SetTun")
        /\ IF status = None \/ status.tun = tun
           THEN FinishConnection(Previous, next, "ok")
           ELSE /\ IF Found(mem, status.ref)
                   THEN /\ changing' = [changing EXCEPT
                               !.before = status, !.prev = Previous,
                               !.next = next,
                               !.call = Start(status.ref, tun, "switch")]
                        /\ UNCHANGED reply
                   ELSE Finish("failed")
                /\ UNCHANGED <<mem, disk, asks, torn>>
        /\ UNCHANGED <<status, restart, proc>>

(* the engine answered Connect or SetTun: commit, ask for elevation or undo *)
SwitchReturned ==
    /\ Returned("switch")
    /\ FinishConnection(changing.prev, changing.next, changing.result)
    /\ UNCHANGED <<status, restart, proc>>

RollbackReturned ==
    /\ Returned("rollback")
    /\ Finish("failed")
    /\ UNCHANGED <<mem, disk, status, asks, restart, proc, torn>>

(* Sensitivity: an error return that leaves Core.changing set *)
LastReturnedOk ==
    /\ Returned("last")
    /\ changing.result = "ok"
    /\ Finish("ok")
    /\ UNCHANGED <<mem, disk, status, asks, restart, proc, torn>>

(* the last call of a change: its error is the change's error *)
LastReturned ==
    /\ Returned("last")
    /\ Finish(IF changing.kind = "RestoreFailed" THEN "ok" ELSE changing.result)
    /\ UNCHANGED <<mem, disk, status, asks, restart, proc, torn>>

RunDisconnect ==
    /\ Runs("Disconnect")
    /\ \/ /\ Saved([mem EXCEPT !.active = None, !.pending = None])
          /\ FinishDrop(mem', TRUE)
       \/ SaveFailed /\ Finish("failed")
    /\ UNCHANGED <<status, asks, restart, proc, torn>>

(* a link goes to the local subscription, a URL becomes a new one; the node  *)
(* identities are fresh                                                      *)
RunAddSubscription(sub, nodes) ==
    /\ Runs("AddSubscription")
    /\ sub \in Local \/ sub \notin mem.subs
    /\ nodes \subseteq NodesOf({sub}) \ mem.nodes
    /\ \/ /\ Saved([mem EXCEPT !.subs = @ \cup {sub}, !.nodes = @ \cup nodes])
          /\ Finish("ok")
       \/ SaveFailed /\ Finish("failed")
    /\ UNCHANGED <<status, asks, restart, proc, torn>>

(* RemoveSubscription and RemoveNode once the new state is known *)
Remove(kept, sub) ==
    \/ /\ Saved(Sanitized(kept, sub))
       /\ FinishDrop(mem', DropsConnection(kept, sub))
    \/ SaveFailed /\ Finish("failed")

RunRemoveSubscription(sub) ==
    /\ Runs("RemoveSubscription")
    /\ IF sub \in mem.subs
       THEN Remove([mem EXCEPT !.subs = @ \ {sub}, !.nodes = @ \ NodesOf({sub}),
                               !.collapsed = @ \ {sub}], sub)
       ELSE Finish("failed") /\ UNCHANGED <<mem, disk>>
    /\ UNCHANGED <<status, asks, restart, proc, torn>>

RunRemoveNode(node) ==
    /\ Runs("RemoveNode")
    /\ IF node \in mem.nodes /\ SubOf[node] \in Local
       THEN Remove([mem EXCEPT !.nodes = @ \ {node}], SubOf[node])
       ELSE Finish("failed") /\ UNCHANGED <<mem, disk>>
    /\ UNCHANGED <<status, asks, restart, proc, torn>>

(* the change of runRefresh: the fetched subscription now has these nodes *)
RunRefresh(sub, nodes) ==
    LET fetched == [mem EXCEPT !.nodes = (@ \ NodesOf({sub})) \cup nodes]
        next    == Sanitized(fetched, sub)
    IN  /\ Runs("Refresh")
        /\ sub \notin Local
        /\ nodes \subseteq NodesOf({sub})
        /\ \/ /\ sub \in mem.subs
              /\ Saved(next)
              /\ IF ~DropsConnection(fetched, sub) /\ status # None
                    /\ SubOf[status.ref] = sub
                 THEN Continue(next, next, Start(status.ref, status.tun, "last"))
                 ELSE FinishDrop(next, DropsConnection(fetched, sub))
           \/ SaveFailed /\ Finish("failed")
        /\ UNCHANGED <<status, asks, restart, proc, torn>>

(* SetCollapsed takes only the mutex: it is served during a change *)
SetCollapsed(sub) ==
    /\ daemon = "serving"
    /\ sub \in mem.subs
    /\ Saved([mem EXCEPT !.collapsed =
                 IF sub \in @ THEN @ \ {sub} ELSE @ \cup {sub}])
    /\ UNCHANGED <<status, changing, reply, asks, restart, proc, torn>>

(* the handler has sent the reply and asks for the restart *)
RequestRestart(id) ==
    /\ daemon = "serving"
    /\ id \in asks
    /\ changing = None
    /\ asks' = asks \ {id}
    /\ restart' = (restart \/ (mem.pending # None /\ mem.pending.id = id))
    /\ UNCHANGED <<mem, disk, status, changing, reply, proc, torn>>

(* the client was gone: the reply failed and nobody asks *)
ReplyFailed(id) ==
    /\ daemon = "serving"
    /\ id \in asks
    /\ asks' = asks \ {id}
    /\ UNCHANGED <<mem, disk, status, changing, reply, restart, proc, torn>>

----------------------------------------------------------------------------
(* The engine, as connection.apply and connection.stop report it *)

Calling == changing # None /\ changing.call # None /\ changing.result = None

Answer(result) == changing' = [changing EXCEPT !.result = result]

(* the rollback that leaves another connection running than the one before *)
Tears(result, now) ==
    changing.call.then = "rollback" /\ result = "failed" /\ now # None

EngineStarts ==
    LET call == changing.call
    IN  /\ Calling
        /\ call.ref # None
        /\ call.tun => root
        /\ status' = [ref |-> call.ref, tun |-> call.tun]
        /\ Answer("ok")
        /\ UNCHANGED <<mem, disk, reply, asks, restart, proc, torn>>

(* an error before or instead of the rebuild keeps the running instance, an  *)
(* error after the old instance was stopped leaves none                      *)
EngineFails ==
    LET call == changing.call
    IN  /\ Calling
        /\ call.ref # None
        /\ \/ status' = status
           \/ status' = None /\ (call.tun => root)
        /\ Answer("failed")
        /\ torn' = (torn \/ Tears("failed", status'))
        /\ UNCHANGED <<mem, disk, reply, asks, restart, proc>>

(* a TUN device without the privilege is refused before anything is touched *)
EngineNeedsElevation ==
    LET call == changing.call
    IN  /\ Calling
        /\ call.ref # None
        /\ call.tun /\ ~root
        /\ Answer("elevate")
        /\ UNCHANGED <<mem, disk, status, reply, asks, restart, proc, torn>>

(* stop forgets the engine before it closes it, whatever closing returns *)
EngineStops(result) ==
    /\ Calling
    /\ changing.call.ref = None
    /\ result # "elevate"
    /\ status' = None
    /\ Answer(result)
    /\ UNCHANGED <<mem, disk, reply, asks, restart, proc, torn>>

----------------------------------------------------------------------------
(* main: launch, Restore, elevation, serving, stop, crash *)

(* core.New loads the file, then main calls Restore before it serves anyone *)
Load(kind) ==
    /\ mem' = disk
    /\ status' = None
    /\ changing' = NewChange(kind, None, disk)
    /\ reply' = "ok" /\ asks' = {} /\ restart' = FALSE /\ torn' = FALSE
    /\ UNCHANGED disk

(* somebody starts the executable, with or without the privilege *)
Launch ==
    /\ daemon = "down"
    /\ daemon' = "starting"
    /\ root' \in BOOLEAN
    /\ copy' = FALSE
    /\ Load("Restore")

(* Restore, once a pending connection is out of the way *)
RestoreActive(s) ==
    IF status = None /\ Found(s, s.active)
    THEN Continue(s, s, Start(s.active, s.tun, "active"))
    ELSE Finish("ok")

RunRestore ==
    /\ Runs("Restore")
    /\ \/ /\ mem.pending = None
          /\ RestoreActive(mem)
          /\ UNCHANGED <<mem, disk>>
       \/ /\ mem.pending # None
          /\ Found(mem, mem.pending.ref)
          /\ Continue(mem, mem, Start(mem.pending.ref, mem.pending.tun, "pending"))
          /\ UNCHANGED <<mem, disk>>
       \/ /\ mem.pending # None
          /\ ~Found(mem, mem.pending.ref)
          /\ \/ /\ Saved([mem EXCEPT !.pending = None])
                /\ RestoreActive(mem')
             \/ SaveFailed /\ Finish("failed")
    /\ UNCHANGED <<status, asks, restart, proc, torn>>

(* what Restore commits when the pending connection was tried *)
Resolved(s) ==
    LET live == IF status = [ref |-> s.pending.ref, tun |-> s.pending.tun]
                THEN [s EXCEPT !.active = s.pending.ref, !.last = s.pending.ref,
                               !.tun = s.pending.tun]
                ELSE s
    IN  Collapse([live EXCEPT !.pending = None])

PendingReturned ==
    /\ Returned("pending")
    /\ \/ /\ changing.result = "elevate"
          /\ Finish("elevate")
          /\ UNCHANGED <<mem, disk>>
       \/ /\ changing.result # "elevate"
          /\ Saved(Resolved(changing.prev))
          /\ RestoreActive(mem')
       \/ /\ changing.result # "elevate"
          /\ SaveFailed
          /\ Finish("failed")
    /\ UNCHANGED <<status, asks, restart, proc, torn>>

ActiveReturned ==
    /\ Returned("active")
    /\ Finish(IF changing.result = "elevate" THEN "elevate" ELSE "ok")
    /\ UNCHANGED <<mem, disk, status, asks, restart, proc, torn>>

(* Restore returned: serve, elevate, or exit on any other error *)
Restored ==
    /\ daemon = "starting"
    /\ changing = None
    /\ daemon' = CASE reply = "ok"      -> "serving"
                   [] reply = "elevate" -> "elevating"
                   [] reply = "failed"  -> "down"
    /\ status' = IF reply = "failed" THEN None ELSE status
    /\ UNCHANGED <<mem, disk, changing, reply, asks, restart, root, copy, torn>>

(* Sensitivity: the granted executable asks for the privilege again *)
ElevateAgain ==
    /\ daemon = "elevating"
    /\ daemon' = "starting"
    /\ root' \in BOOLEAN
    /\ copy' = TRUE
    /\ Load("Restore")

(* elevate.Restart replaced the process by the granted executable, in which  *)
(* the privilege may still not be effective                                  *)
Elevate ==
    /\ daemon = "elevating"
    /\ ~copy
    /\ daemon' = "starting"
    /\ root' \in BOOLEAN
    /\ copy' = TRUE
    /\ Load("Restore")

(* elevate.Restart failed: denied, or already the granted executable *)
ElevateFails ==
    /\ daemon = "elevating"
    /\ daemon' = "recovering"
    /\ changing' = NewChange("RestoreFailed", status, mem)
    /\ UNCHANGED <<mem, disk, status, reply, asks, restart, root, copy, torn>>

(* Sensitivity: RestoreFailed looks at the mode that was refused *)
RunRestoreFailedPendingMode ==
    /\ Runs("RestoreFailed")
    /\ IF mem.pending = None
       THEN Finish("ok") /\ UNCHANGED <<mem, disk>>
       ELSE /\ Saved([mem EXCEPT !.pending = None]) \/ SaveFailed
            /\ IF ~mem.pending.tun /\ Found(mem, mem.active)
               THEN Continue(mem, mem, Start(mem.active, FALSE, "last"))
               ELSE Finish("ok")
    /\ UNCHANGED <<status, asks, restart, proc, torn>>

RunRestoreFailed ==
    /\ Runs("RestoreFailed")
    /\ IF mem.pending = None
       THEN Finish("ok") /\ UNCHANGED <<mem, disk>>
       ELSE /\ Saved([mem EXCEPT !.pending = None]) \/ SaveFailed
            /\ IF ~mem.tun /\ Found(mem, mem.active)
               THEN Continue(mem, mem, Start(mem.active, FALSE, "last"))
               ELSE Finish("ok")
    /\ UNCHANGED <<status, asks, restart, proc, torn>>

(* main serves once RestoreFailed returned, which a timeout makes it do early *)
Recovered ==
    /\ daemon = "recovering"
    /\ daemon' = "serving"
    /\ changing' = IF changing = None THEN None
                   ELSE [changing EXCEPT !.canceled = TRUE]
    /\ UNCHANGED <<mem, disk, status, reply, asks, restart, root, copy, torn>>

(* a signal, a Shutdown request or a failed listener, or the restart token:  *)
(* main cancels every context and waits for the handlers and the change      *)
Leave(to) ==
    /\ daemon = "serving"
    /\ to = "restarting" => restart
    /\ daemon' = to
    /\ changing' = IF changing = None THEN None
                   ELSE [changing EXCEPT !.canceled = TRUE]
    /\ asks' = {} /\ restart' = FALSE
    /\ UNCHANGED <<mem, disk, status, reply, root, copy, torn>>

(* Core.Shutdown has stopped the engine; main exits or goes round its loop *)
Stopped ==
    /\ daemon = "stopping"
    /\ changing = None
    /\ daemon' = "down"
    /\ status' = None
    /\ UNCHANGED <<mem, disk, changing, reply, asks, restart, root, copy, torn>>

Restarted ==
    /\ daemon = "restarting"
    /\ changing = None
    /\ daemon' = "starting"
    /\ UNCHANGED <<root, copy>>
    /\ Load("Restore")

(* the process dies: only the state file is left *)
Crash ==
    /\ daemon # "down"
    /\ daemon' = "down"
    /\ mem' = disk
    /\ status' = None /\ changing' = None /\ reply' = "ok"
    /\ asks' = {} /\ restart' = FALSE /\ torn' = FALSE
    /\ UNCHANGED <<disk, root, copy>>

----------------------------------------------------------------------------

Client ==
    \/ \E kind \in Ops : Begin(kind)
    \/ Cancel
    \/ \E sub \in Subs : SetCollapsed(sub)
    \/ \E id \in Requests : RequestRestart(id) \/ ReplyFailed(id)

Action ==
    \/ RunCanceled
    \/ \E ref \in Nodes, mode \in BOOLEAN \cup {None} : RunConnect(ref, mode)
    \/ \E tun \in BOOLEAN : RunSetTun(tun)
    \/ RunDisconnect
    \/ \E sub \in Subs, nodes \in SUBSET Nodes :
          RunAddSubscription(sub, nodes) \/ RunRefresh(sub, nodes)
    \/ \E sub \in Subs : RunRemoveSubscription(sub)
    \/ \E node \in Nodes : RunRemoveNode(node)
    \/ RunRestore
    \/ RunRestoreFailed

Return ==
    \/ SwitchReturned
    \/ RollbackReturned
    \/ LastReturned
    \/ PendingReturned
    \/ ActiveReturned

Engine ==
    \/ EngineStarts
    \/ EngineFails
    \/ EngineNeedsElevation
    \/ \E result \in Results : EngineStops(result)

Main ==
    \/ Launch
    \/ Restored
    \/ Elevate
    \/ ElevateFails
    \/ Recovered
    \/ \E to \in {"stopping", "restarting"} : Leave(to)
    \/ Stopped
    \/ Restarted
    \/ Crash

Next == Client \/ Action \/ Return \/ Engine \/ Main

Spec == Init /\ [][Next]_vars

(* The code's own steps end: goroutines run, the engine answers within its   *)
(* start timeout, main goes on.  Nothing is assumed of clients, of whoever   *)
(* launches or stops the daemon, or of crashes.                              *)
Progress == Action \/ Return \/ Engine

Fairness ==
    /\ WF_vars(Progress)
    /\ WF_vars(Restored) /\ WF_vars(Elevate \/ ElevateFails) /\ WF_vars(Recovered)
    /\ WF_vars(Stopped) /\ WF_vars(Restarted)

FairSpec == Spec /\ Fairness

----------------------------------------------------------------------------
(* Properties *)

TypeOK ==
    /\ mem \in State /\ disk \in State
    /\ status \in Status
    /\ changing \in Change \cup {None}
    /\ reply \in Results
    /\ asks \subseteq Requests
    /\ restart \in BOOLEAN
    /\ daemon \in {"down", "starting", "elevating", "recovering", "serving",
                    "stopping", "restarting"}
    /\ root \in BOOLEAN /\ copy \in BOOLEAN /\ torn \in BOOLEAN

(* No reference to a node outlives the node, in memory or in the file:       *)
(* Active, Last and Pending name nodes some subscription still has, however  *)
(* removals and refreshes fall between switches, restarts and crashes        *)
(* (sanitizeRefs, subscriptions.go and refresh.go).                          *)
Live(s) ==
    /\ s.nodes \subseteq NodesOf(s.subs)
    /\ s.active \in s.nodes \cup {None}
    /\ s.last \in s.nodes \cup {None}
    /\ s.pending # None => s.pending.ref \in s.nodes
    /\ s.collapsed \subseteq s.subs

RefsLive == Live(mem) /\ Live(disk)

(* The engine never runs a node that is gone, except while the change that   *)
(* removed it is on its way to stop the engine (finishDisconnect, runRefresh).*)
NoOrphanConnection ==
    status # None /\ status.ref \notin mem.nodes =>
        Calling /\ changing.call = Stop("last")

(* While it serves, between changes, the live connection is the one the file *)
(* would restore, unless a rollback failed and left the engine on the other  *)
(* node (finishConnection, restore).                                         *)
ConnectionMatchesState ==
    daemon = "serving" /\ changing = None /\ status # None /\ ~torn =>
        status.ref = mem.active /\ status.tun = mem.tun

(* The process that hands over to the privileged one runs no engine, so the  *)
(* two never compete for the port or the device (Restore, main).             *)
HandoverStopped == daemon = "elevating" => status = None

(* A change leaves the collapsed set as it finds it, but for a subscription  *)
(* it removes: a group the user folded while a switch was in the engine is   *)
(* never folded back by the switch's commit (finishConnection 161).          *)
FoldsSurviveChanges ==
    [][ changing # changing' /\ mem' # mem =>
          mem'.collapsed = mem.collapsed \cap mem'.subs ]_vars

(* How a switch may end.  Reported done: the engine runs exactly what was    *)
(* stored.  Sent to elevation: the old connection is untouched and the       *)
(* request is stored.  Failed, or given up by its caller before the engine   *)
(* answered: the old connection or none, unless the rollback failed too.     *)
RunsStored == status' # None => status' = [ref |-> disk'.active, tun |-> disk'.tun]

SwitchEnded ==
    /\ reply' = "ok" => /\ ~changing.canceled \/ changing.result = None
                        /\ RunsStored
    /\ reply' = "elevate" => /\ status' = changing.before /\ RunsStored
                             /\ disk'.pending # None /\ ~root
    /\ reply' = "failed" => status' \in {changing.before, None} \/ torn'

SwitchEnds ==
    [][ /\ changing # None /\ changing.kind \in {"Connect", "SetTun"}
        /\ changing' = None /\ daemon' = daemon
        => SwitchEnded ]_vars

(* The connection a record asks for, and the one a state holds *)
Made(c)   == [ref |-> c.ref, tun |-> c.tun]
Chosen(s) == [ref |-> s.active, tun |-> s.tun]
Asking(s) == IF s.pending = None THEN None ELSE Made(s.pending)

(* What the file keeps of the connection is forgotten only by the user's own *)
(* commands, or with its node.  Every other change leaves Active, Last,      *)
(* Pending and Tun alone, but for the request that a start settles: it is    *)
(* taken out, and taken over only when the engine runs it.  A refresh that   *)
(* brings the node back, an edit of another subscription, a fold, an engine  *)
(* that fails to restore what is stored, a restart and a crash cost the user *)
(* nothing (sanitizeRefs, runRefresh, Restore, RestoreFailed).               *)
KeptOrGone(s, t) ==
    /\ t.active # s.active => t.active = None /\ s.active \notin t.nodes
    /\ t.last # s.last => t.last = None /\ s.last \notin t.nodes
    /\ t.pending # s.pending => t.pending = None /\ s.pending.ref \notin t.nodes
    /\ t.tun = s.tun

Settles(s, t) ==
    /\ changing # None /\ changing.kind \in {"Restore", "RestoreFailed"}
    /\ t.pending = None
    /\ \/ Chosen(t) = Chosen(s)
       \/ changing.kind = "Restore" /\ Chosen(t) = Asking(s) /\ status = Chosen(t)

KeptUnlessGone ==
    [][ changing = None \/ changing.kind \notin {"Connect", "SetTun", "Disconnect"} =>
          KeptOrGone(disk, disk') \/ Settles(disk, disk') ]_vars

(* A refused elevation costs the proxy nothing: when RestoreFailed ends the  *)
(* proxy connection is back, unless the engine failed to start it, TUN was   *)
(* what ran, or nothing did (startup_test.go).                               *)
ProxySurvivesRefusal ==
    [][ /\ changing # None /\ changing.kind = "RestoreFailed"
        /\ changing' = None /\ daemon' = daemon
        /\ status' = None
        =>
        changing.canceled \/ changing.result = "failed"
            \/ mem.tun \/ mem.active = None ]_vars

(* Every change ends, whatever happens to its caller: Busy is not for ever.  *)
ChangesEnd == changing # None ~> changing = None

(* Startup ends in a serving or an exited daemon: no loop of elevations.     *)
StartupEnds == daemon = "starting" ~> daemon \in {"serving", "down"}

(* A stop or restart gets the daemon out, though a change may be under way.  *)
StopEnds == daemon \in {"stopping", "restarting"} ~> daemon \in {"down", "starting"}

(* To its user all this is one connection that is switched, forgotten and   *)
(* brought back: see Service.  A switch is under way from its engine call to *)
(* the end of its change; the call of restore undoes it, and the call of a   *)
(* refresh, to start the connection again, goes as one.                      *)
Renews(c) == c.call.then = "last" /\ c.call.ref # None /\ c.kind = "Refresh"

Shown(c) ==
    IF c = None \/ c.call = None THEN None
    ELSE IF c.call.then = "switch"
    THEN [step |-> "switch", before |-> c.before, goal |-> Made(c.call)]
    ELSE IF c.call.then = "rollback"
    THEN [step |-> "rollback", before |-> c.before, goal |-> c.before]
    ELSE IF Renews(c)
    THEN [step |-> "renew", before |-> c.before, goal |-> Made(c.call)]
    ELSE None

Up == daemon \notin {"down", "starting", "elevating"}

Promise == INSTANCE Service WITH
    live <- status, stored <- Chosen(disk), asked <- Asking(disk),
    switch <- Shown(changing), up <- Up

(* A switch is done in the engine and in the file, or waits for the          *)
(* privilege, or is undone; a stored connection runs until it is switched or *)
(* forgotten, and a start brings back what is stored (connection.go).        *)
ImplementsService == Promise!Spec
=============================================================================
