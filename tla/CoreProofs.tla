----------------------------- MODULE CoreProofs -----------------------------
(***************************************************************************)
(* Proofs about Core.  The inductive invariant IInv says three things: what  *)
(* is stored is well formed and in the file; a change in progress works on   *)
(* the nodes that are still there; the engine runs one of them, or is about  *)
(* to be stopped.                                                           *)
(***************************************************************************)
EXTENDS Core, TLAPS

(* The state and the file: well formed, equal, and without dangling refs *)
StoreInv == /\ mem \in State /\ disk \in State
            /\ disk = Stored(mem)
            /\ Live(mem)

(* A state a change keeps across an engine call: its references still hold *)
FrameLive(s) == /\ s.nodes = mem.nodes /\ s.subs = mem.subs
                /\ s.active \in s.nodes \cup {None}
                /\ s.last \in s.nodes \cup {None}
                /\ s.pending # None => s.pending.ref \in s.nodes

CallLive(c) ==
    c.call # None =>
        /\ c.call.ref \in mem.nodes \cup {None}
        /\ c.call.then = "switch" => c.next.active \in mem.nodes
        /\ c.call.then = "pending" => c.prev.pending # None

ChangeInv == /\ changing \in Change \cup {None}
             /\ changing # None => /\ FrameLive(changing.prev)
                                   /\ FrameLive(changing.next)
                                   /\ CallLive(changing)

EngineInv == status \in Status /\ NoOrphanConnection

RestInv == /\ reply \in Results
           /\ asks \subseteq Requests
           /\ restart \in BOOLEAN
           /\ daemon \in {"down", "starting", "elevating", "recovering",
                          "serving", "stopping", "restarting"}
           /\ root \in BOOLEAN /\ copy \in BOOLEAN /\ torn \in BOOLEAN

(* Where main is: no change while it hands over or is gone, and while it     *)
(* restores, an engine runs only once a call answered that it does           *)
PhaseInv ==
    /\ daemon \in {"down", "elevating"} => changing = None /\ status = None
    /\ daemon = "starting" /\ changing = None /\ reply = "elevate" => status = None
    /\ daemon = "starting" /\ changing # None =>
          /\ changing.kind = "Restore" /\ ~changing.canceled
          /\ changing.call # None => changing.call.then \in {"pending", "active"}
          /\ changing.call = None \/ changing.result \in {None, "elevate"} =>
                status = None

IInv == StoreInv /\ ChangeInv /\ EngineInv /\ RestInv

----------------------------------------------------------------------------
(* Lemmas about the operators *)

(* What is read back from the file differs only in the identity of Pending *)
LEMMA StoredKeeps ==
    ASSUME NEW s \in State
    PROVE  /\ Stored(s) \in State
           /\ Stored(Stored(s)) = Stored(s)
           /\ Live(s) => Live(Stored(s))
<1> USE NoneAssumption
<1>1. CASE s.pending = None
    BY <1>1 DEF Stored
<1>2. CASE s.pending # None
    <2> DEFINE p == [ref |-> s.pending.ref, tun |-> s.pending.tun, id |-> None]
    <2>1. s.pending \in Pending
        BY <1>2 DEF State
    <2>2. p \in Pending /\ p # None
        BY <2>1 DEF Pending
    <2>3. Stored(s) = [s EXCEPT !.pending = p]
        BY <1>2 DEF Stored
    <2>4. /\ Stored(s) \in State /\ Stored(s).pending = p
          /\ Stored(s).nodes = s.nodes /\ Stored(s).subs = s.subs
          /\ Stored(s).active = s.active /\ Stored(s).last = s.last
          /\ Stored(s).collapsed = s.collapsed
        BY <2>2, <2>3 DEF State
    <2>5. Stored(Stored(s)) = [Stored(s) EXCEPT !.pending = p]
        BY <2>2, <2>4 DEF Stored
    <2>6. Stored(Stored(s)) = Stored(s)
        BY <2>3, <2>5 DEF State
    <2> QED BY <1>2, <2>4, <2>6 DEF Live
<1> QED BY <1>1, <1>2

(* A commit of a well-formed state without dangling references keeps the     *)
(* stored state in order                                                    *)
LEMMA SavedKeeps ==
    ASSUME NEW s \in State, Live(s), Saved(s)
    PROVE  StoreInv'
BY StoredKeeps DEF Saved, StoreInv, Live, Stored

(* sanitizeRefs leaves a state without dangling references, if only nodes of *)
(* the one subscription have gone                                           *)
LEMMA SanitizedKeeps ==
    ASSUME NEW s \in State, NEW sub \in Subs,
           s.nodes \subseteq NodesOf(s.subs), s.collapsed \subseteq s.subs,
           s.pending # None => s.pending.ref # None,
           \A ref \in Nodes \ s.nodes :
               \/ SubOf[ref] = sub
               \/ /\ ref # s.active /\ ref # s.last
                  /\ s.pending # None => ref # s.pending.ref
    PROVE  /\ Sanitized(s, sub) \in State /\ Live(Sanitized(s, sub))
           /\ Sanitized(s, sub).nodes = s.nodes /\ Sanitized(s, sub).subs = s.subs
<1> USE NoneAssumption, CoreAssumption
<1> DEFINE gone(ref) == ref # None /\ SubOf[ref] = sub /\ ref \notin s.nodes
           a == IF gone(s.active) THEN None ELSE s.active
           l == IF gone(s.last) THEN None ELSE s.last
           p == IF s.pending # None /\ gone(s.pending.ref) THEN None ELSE s.pending
<1>1. Sanitized(s, sub) = [s EXCEPT !.active = a, !.last = l, !.pending = p]
    BY DEF Sanitized
<1>2. /\ a \in s.nodes \cup {None} /\ l \in s.nodes \cup {None}
      /\ p # None => p.ref \in s.nodes
      /\ a \in Ref /\ l \in Ref /\ p \in Pending \cup {None}
    BY DEF State, Ref, Pending
<1> HIDE DEF a, l, p
<1> QED BY <1>1, <1>2 DEF State, Live

(* A commit of a frame of the change keeps the stored state in order *)
LEMMA CollapseKeeps ==
    ASSUME StoreInv, NEW s \in State, FrameLive(s)
    PROVE  /\ Collapse(s) \in State /\ FrameLive(Collapse(s))
           /\ Live(Collapse(s)) /\ Collapse(s).nodes = mem.nodes
           /\ Collapse(s).active = s.active
BY DEF Collapse, State, FrameLive, Live, StoreInv

(* The four ways a step hands the change on, none of which moves the engine *)
LEMMA FinishKeeps ==
    ASSUME IInv, ~Calling, status' = status,
           \/ mem'.nodes = mem.nodes
           \/ status # None => status.ref \in mem'.nodes,
           NEW err \in Results, Finish(err)
    PROVE  ChangeInv' /\ EngineInv' /\ reply' \in Results
BY DEF Finish, ChangeInv, EngineInv, NoOrphanConnection, IInv, Calling

(* Another engine call of the same change keeps the change well formed *)
LEMMA ContinueKeeps ==
    ASSUME IInv, changing # None, ~Calling, status' = status,
           NEW p \in State, NEW q \in State, NEW c \in Call,
           FrameLive(p)', FrameLive(q)', c.ref \in mem'.nodes \cup {None},
           c.then = "switch" => q.active \in mem'.nodes,
           c.then = "pending" => p.pending # None,
           \/ mem'.nodes = mem.nodes
           \/ status # None /\ status.ref \notin mem'.nodes => c = Stop("last"),
           Continue(p, q, c)
    PROVE  ChangeInv' /\ EngineInv' /\ reply' \in Results
<1> USE NoneAssumption
<1>1. changing \in Change /\ changing' \in Change
    BY DEF IInv, ChangeInv, Continue, Change, Results
<1>2. /\ changing'.prev = p /\ changing'.next = q /\ changing'.call = c
      /\ changing'.result = None /\ changing' # None
    BY <1>1 DEF Continue, Change
<1>3. ChangeInv'
    BY <1>1, <1>2 DEF ChangeInv, CallLive
<1>4. Calling'
    BY <1>2 DEF Calling
<1>5. NoOrphanConnection'
    BY <1>2, <1>4 DEF IInv, EngineInv, NoOrphanConnection, Calling
<1> QED BY <1>3, <1>5 DEF IInv, EngineInv, RestInv, Continue

(* restore keeps a commit's store and leaves the change well formed *)
LEMMA RollbackKeeps ==
    ASSUME IInv, changing # None, ~Calling, status' = status,
           mem'.nodes = mem.nodes, mem'.subs = mem.subs,
           NEW p \in State, NEW q \in State, FrameLive(p), FrameLive(q),
           Rollback(p, q)
    PROVE  ChangeInv' /\ EngineInv' /\ reply' \in Results
<1> USE NoneAssumption, CoreAssumption
<1> DEFINE b == changing.before
<1>1. b \in Status
    BY DEF IInv, ChangeInv, Change
<1>2. "failed" \in Results /\ FrameLive(p)' /\ FrameLive(q)'
    BY DEF Results, FrameLive
<1>3. CASE Finish("failed")
    BY <1>2, <1>3, FinishKeeps
<1>4. CASE Continue(p, q, Stop("rollback"))
    <2> Stop("rollback") \in Call /\ Stop("rollback").ref = None
        /\ Stop("rollback").then = "rollback"
        BY DEF Stop, Call, Steps, Ref
    <2> HIDE DEF Stop
    <2> QED BY <1>2, <1>4, ContinueKeeps
<1>5. CASE /\ b # None /\ Found(p, b.ref)
           /\ Continue(p, q, Start(b.ref, b.tun, "rollback"))
    <2> DEFINE c == Start(b.ref, b.tun, "rollback")
    <2>1. c \in Call /\ c.ref \in mem'.nodes /\ c.then = "rollback"
        BY <1>1, <1>5 DEF Start, Call, Steps, Ref, Status, Running, Found, FrameLive
    <2>2. Continue(p, q, c)
        BY <1>5
    <2> HIDE DEF c
    <2> QED BY <1>2, <2>1, <2>2, ContinueKeeps
<1> QED BY <1>3, <1>4, <1>5 DEF Rollback

(* finishConnection keeps the invariant in each of its five outcomes *)
LEMMA FinishConnectionKeeps ==
    ASSUME IInv, changing # None, ~Calling, status' = status,
           NEW p \in State, NEW q \in State, FrameLive(p), FrameLive(q),
           NEW result \in Results,
           result = "elevate" => q.active \in mem.nodes,
           FinishConnection(p, q, result)
    PROVE  /\ StoreInv' /\ ChangeInv' /\ EngineInv' /\ reply' \in Results
           /\ asks' \subseteq Requests /\ torn' \in BOOLEAN
<1> USE NoneAssumption, CoreAssumption
<1> DEFINE prev == Collapse(p)
           next == Collapse(q)
           held == IF mem.pending = None THEN asks ELSE asks \cup {mem.pending.id}
<1>1. /\ prev \in State /\ FrameLive(prev) /\ Live(prev) /\ prev.nodes = mem.nodes
      /\ next \in State /\ FrameLive(next) /\ Live(next) /\ next.nodes = mem.nodes
      /\ next.active = q.active
    BY CollapseKeeps DEF IInv
<1>2. prev.subs = mem.subs /\ next.subs = mem.subs
    BY <1>1 DEF FrameLive
<1>3. StoreInv /\ asks \subseteq Requests /\ torn \in BOOLEAN
    BY DEF IInv, RestInv
<1>4. "ok" \in Results /\ "elevate" \in Results
    BY DEF Results
<1>5. CASE Saved(next) /\ Finish("ok") /\ torn' = FALSE /\ UNCHANGED asks
    <2>1. StoreInv' /\ mem'.nodes = mem.nodes
        BY <1>1, <1>5, SavedKeeps DEF Saved
    <2> QED BY <1>3, <1>4, <1>5, <2>1, FinishKeeps
<1>6. CASE (Saved(prev) \/ SaveFailed) /\ Rollback(prev, next) /\ UNCHANGED <<asks, torn>>
    <2>1. StoreInv' /\ mem'.nodes = mem.nodes /\ mem'.subs = mem.subs
        <3>1. CASE Saved(prev)
            BY <1>1, <1>2, <3>1, SavedKeeps DEF Saved
        <3>2. CASE SaveFailed
            BY <1>3, <3>2 DEF SaveFailed, StoreInv, Live
        <3> QED BY <1>6, <3>1, <3>2
    <2>2. ChangeInv' /\ EngineInv' /\ reply' \in Results
        BY <1>1, <1>6, <2>1, RollbackKeeps
    <2> QED BY <1>3, <1>6, <2>1, <2>2
<1>7. ASSUME q.active \in mem.nodes, NEW id \in Requests \ held,
             Saved([prev EXCEPT !.pending =
                       [ref |-> next.active, tun |-> next.tun, id |-> id]]),
             asks' = asks \cup {id}, Finish("elevate"), torn' = FALSE
      PROVE  /\ StoreInv' /\ ChangeInv' /\ EngineInv' /\ reply' \in Results
             /\ asks' \subseteq Requests /\ torn' \in BOOLEAN
    <2> DEFINE w == [ref |-> next.active, tun |-> next.tun, id |-> id]
               s == [prev EXCEPT !.pending = w]
    <2>1. w \in Pending /\ w.ref = q.active
        BY <1>1, <1>7 DEF Pending, State
    <2> HIDE DEF w
    <2>2. s \in State /\ Live(s) /\ s.nodes = mem.nodes
        BY <1>1, <1>7, <2>1 DEF State, Live
    <2>3. Saved(s)
        BY <1>7 DEF w
    <2> HIDE DEF s
    <2>4. StoreInv' /\ mem'.nodes = mem.nodes
        BY <2>2, <2>3, SavedKeeps DEF Saved
    <2> QED BY <1>3, <1>4, <1>7, <2>4, FinishKeeps
<1>8. Verdict(result) = "elevate" => q.active \in mem.nodes
    BY DEF Verdict
<1> HIDE DEF prev, next, held
<1>9. CASE Verdict(result) = "elevate" /\ ~(SaveFailed /\ Rollback(prev, next) /\ UNCHANGED <<asks, torn>>)
    <2>1. PICK id \in Requests \ held :
              /\ Saved([prev EXCEPT !.pending =
                           [ref |-> next.active, tun |-> next.tun, id |-> id]])
              /\ asks' = asks \cup {id} /\ Finish("elevate") /\ torn' = FALSE
        BY <1>9 DEF FinishConnection, prev, next, held
    <2> QED BY <1>7, <1>8, <1>9, <2>1
<1>10. \/ Saved(next) /\ Finish("ok") /\ torn' = FALSE /\ UNCHANGED asks
       \/ (Saved(prev) \/ SaveFailed) /\ Rollback(prev, next) /\ UNCHANGED <<asks, torn>>
       \/ Verdict(result) = "elevate" /\ ~(SaveFailed /\ Rollback(prev, next) /\ UNCHANGED <<asks, torn>>)
    BY DEF FinishConnection, prev, next, held
<1> QED BY <1>5, <1>6, <1>9, <1>10

(* finishDisconnect after a commit: a connection that lost its node is       *)
(* stopped                                                                  *)
LEMMA FinishDropKeeps ==
    ASSUME IInv, changing # None, ~Calling, status' = status,
           NEW s \in State, Live(s), mem' = s, NEW drop \in BOOLEAN,
           status # None /\ status.ref \notin s.nodes => drop,
           FinishDrop(s, drop)
    PROVE  ChangeInv' /\ EngineInv' /\ reply' \in Results
<1>1. FrameLive(s)' /\ "ok" \in Results
    BY DEF FrameLive, Live, Results
<1>2. CASE drop
    <2>1. /\ Stop("last") \in Call /\ Stop("last").ref = None
          /\ Stop("last").then = "last"
        BY DEF Stop, Call, Steps, Ref
    <2>2. Continue(s, s, Stop("last"))
        BY <1>2 DEF FinishDrop
    <2> QED BY <1>1, <2>1, <2>2, ContinueKeeps
<1>3. CASE ~drop
    BY <1>1, <1>3, FinishKeeps DEF FinishDrop
<1> QED BY <1>2, <1>3

(* A refused or failed change that commits nothing and ends *)
LEMMA FailedKeeps ==
    ASSUME IInv, ~Calling, UNCHANGED <<mem, disk, status>>,
           NEW err \in Results, Finish(err)
    PROVE  StoreInv' /\ ChangeInv' /\ EngineInv' /\ reply' \in Results
<1>1. StoreInv'
    BY DEF IInv, StoreInv, Live
<1> QED BY <1>1, FinishKeeps

(* begin: the new change works on the state as it is *)
LEMMA NewChangeKeeps ==
    ASSUME StoreInv', status' \in Status, NEW kind \in Kinds,
           changing' = NewChange(kind, status', mem')
    PROVE  ChangeInv' /\ ~Calling'
<1> USE NoneAssumption
<1>1. NewChange(kind, status', mem') \in Change
    BY DEF NewChange, Change, StoreInv
<1>2. /\ changing'.prev = mem' /\ changing'.next = mem' /\ changing'.call = None
      /\ changing' # None
    BY <1>1 DEF NewChange
<1> QED BY <1>1, <1>2 DEF ChangeInv, StoreInv, Live, FrameLive, CallLive, Calling

(* The dead context of a change moves nothing *)
LEMMA CanceledKeeps ==
    ASSUME IInv, UNCHANGED <<mem, disk, status>>,
           changing' = IF changing = None THEN None
                       ELSE [changing EXCEPT !.canceled = TRUE]
    PROVE  StoreInv' /\ ChangeInv' /\ EngineInv'
<1> USE NoneAssumption
<1>1. StoreInv'
    BY DEF IInv, StoreInv, Live
<1>2. changing # None => /\ changing' \in Change /\ changing \in Change
    BY DEF IInv, ChangeInv, Change
<1>3. changing # None => /\ changing' # None
                         /\ changing'.prev = changing.prev
                         /\ changing'.next = changing.next
                         /\ changing'.call = changing.call
                         /\ changing'.result = changing.result
    BY <1>2 DEF Change
<1>4. ChangeInv'
    BY <1>2, <1>3 DEF IInv, ChangeInv, FrameLive, CallLive
<1>5. Calling => Calling' /\ changing'.call = changing.call
    BY <1>3 DEF Calling
<1>6. EngineInv'
    BY <1>5 DEF IInv, EngineInv, NoOrphanConnection
<1> QED BY <1>1, <1>4, <1>6

----------------------------------------------------------------------------
(* Every step keeps the invariant *)

(* begin, a caller giving up, SetCollapsed and RequestRestart keep it *)
LEMMA ClientStep == ASSUME IInv, Client PROVE IInv'
<1> USE NoneAssumption, CoreAssumption
<1>1. ASSUME NEW kind \in Ops, Begin(kind) PROVE IInv'
    <2>1. StoreInv' /\ EngineInv'
        BY <1>1 DEF Begin, IInv, StoreInv, Live, EngineInv, NoOrphanConnection, Calling
    <2>2. kind \in Kinds
        BY DEF Kinds
    <2>3. changing' = NewChange(kind, status', mem') /\ status' \in Status
        BY <1>1, <2>1 DEF Begin, EngineInv
    <2>4. ChangeInv'
        BY <2>1, <2>2, <2>3, NewChangeKeeps
    <2> QED BY <1>1, <2>1, <2>4 DEF IInv, RestInv, Begin, proc
<1>2. CASE Cancel
    <2>1. StoreInv' /\ ChangeInv' /\ EngineInv'
        BY <1>2, CanceledKeeps DEF Cancel
    <2> QED BY <1>2, <2>1 DEF IInv, RestInv, Cancel, proc
<1>3. ASSUME NEW sub \in Subs, SetCollapsed(sub) PROVE IInv'
    <2> DEFINE c == IF sub \in mem.collapsed THEN mem.collapsed \ {sub}
                    ELSE mem.collapsed \cup {sub}
               s == [mem EXCEPT !.collapsed = c]
    <2>1. s \in State /\ Live(s) /\ s.nodes = mem.nodes /\ s.subs = mem.subs
        BY <1>3 DEF SetCollapsed, IInv, StoreInv, State, Live
    <2>2. Saved(s)
        BY <1>3 DEF SetCollapsed
    <2> HIDE DEF s
    <2>3. StoreInv' /\ mem' = s
        BY <2>1, <2>2, SavedKeeps DEF Saved
    <2>4. ChangeInv' /\ EngineInv'
        BY <1>3, <2>1, <2>3
           DEF SetCollapsed, IInv, ChangeInv, FrameLive, CallLive, EngineInv,
               NoOrphanConnection, Calling
    <2> QED BY <1>3, <2>3, <2>4 DEF IInv, RestInv, SetCollapsed, proc
<1>4. ASSUME NEW id \in Requests, RequestRestart(id) \/ ReplyFailed(id) PROVE IInv'
    <2>1. /\ UNCHANGED <<mem, disk, status, changing, reply, daemon, root, copy, torn>>
          /\ asks' \subseteq asks
        BY <1>4 DEF RequestRestart, ReplyFailed, proc
    <2>2. restart' \in BOOLEAN
        BY <1>4, Zenon DEF RequestRestart, ReplyFailed, IInv, RestInv
    <2>3. StoreInv' /\ ChangeInv' /\ EngineInv'
        BY <2>1 DEF IInv, StoreInv, Live, ChangeInv, FrameLive, CallLive,
            EngineInv, NoOrphanConnection, Calling
    <2> QED BY <2>1, <2>2, <2>3 DEF IInv, RestInv
<1> QED BY <1>1, <1>2, <1>3, <1>4 DEF Client

(* Whatever the engine answers, the invariant is kept *)
LEMMA EngineStep == ASSUME IInv, Engine PROVE IInv'
<1> USE NoneAssumption, CoreAssumption
<1>1. Calling /\ UNCHANGED <<mem, disk, reply, asks, restart, proc>>
      /\ torn' \in BOOLEAN
    BY DEF Engine, EngineStarts, EngineFails, EngineNeedsElevation, EngineStops,
        Tears, IInv, RestInv
<1>2. PICK result \in Results : Answer(result)
    BY DEF Engine, EngineStarts, EngineFails, EngineNeedsElevation, EngineStops,
        Results
<1>3. StoreInv'
    BY <1>1 DEF IInv, StoreInv, Live
<1>4. changing \in Change /\ changing' \in Change
    BY <1>1, <1>2 DEF IInv, ChangeInv, Calling, Answer, Change
<1>5. /\ changing'.prev = changing.prev /\ changing'.next = changing.next
      /\ changing'.call = changing.call /\ changing'.result = result
      /\ changing' # None
    BY <1>2, <1>4 DEF Answer, Change
<1>6. ChangeInv'
    BY <1>1, <1>4, <1>5 DEF IInv, ChangeInv, Calling, FrameLive, CallLive
<1>7. /\ changing.call \in Call
      /\ changing.call.ref \in mem.nodes \cup {None}
    BY <1>1, <1>4 DEF Calling, Change, IInv, ChangeInv, CallLive
<1>8. /\ status' \in Status
      /\ status' # None => status'.ref \in mem.nodes
    <2>1. CASE EngineStarts
        BY <1>7, <2>1 DEF EngineStarts, Status, Running, Call, Ref
    <2>2. CASE EngineFails
        BY <1>1, <1>7, <2>2 DEF EngineFails, IInv, EngineInv, NoOrphanConnection,
            Status, Stop, Calling
    <2>3. CASE EngineNeedsElevation
        BY <1>1, <1>7, <2>3 DEF EngineNeedsElevation, IInv, EngineInv,
            NoOrphanConnection, Status, Stop, Calling
    <2>4. CASE \E r \in Results : EngineStops(r)
        BY <2>4 DEF EngineStops, Status
    <2> QED BY <2>1, <2>2, <2>3, <2>4 DEF Engine
<1> QED BY <1>1, <1>3, <1>6, <1>8 DEF IInv, EngineInv, NoOrphanConnection, RestInv, proc

(* Restore goes on to the active connection, or is done *)
LEMMA RestoreActiveKeeps ==
    ASSUME IInv, changing # None, ~Calling, status' = status,
           NEW s \in State, Live(s), mem' = s, s.nodes = mem.nodes,
           RestoreActive(s)
    PROVE  ChangeInv' /\ EngineInv' /\ reply' \in Results
<1> DEFINE c == Start(s.active, s.tun, "active")
<1>1. FrameLive(s)' /\ "ok" \in Results
    BY DEF FrameLive, Live, Results
<1>2. CASE Found(s, s.active) /\ Continue(s, s, c)
    <2>1. c \in Call /\ c.ref \in s.nodes /\ c.then = "active"
        BY <1>2 DEF Found, Start, Call, Steps, State
    <2> HIDE DEF c
    <2> QED BY <1>1, <1>2, <2>1, ContinueKeeps
<1>3. CASE Finish("ok")
    BY <1>1, <1>3, FinishKeeps
<1> QED BY <1>2, <1>3 DEF RestoreActive

(* The part of an operation after its engine call keeps it *)
LEMMA ReturnStep == ASSUME IInv, Return PROVE IInv'
<1> USE NoneAssumption, CoreAssumption
<1>1. /\ changing # None /\ ~Calling /\ status' = status
      /\ UNCHANGED <<restart, proc>> /\ changing \in Change
      /\ changing.result \in Results
    BY DEF Return, SwitchReturned, RollbackReturned, LastReturned, PendingReturned,
        ActiveReturned, Returned, Calling, IInv, ChangeInv, Change
<1>2. /\ changing.prev \in State /\ FrameLive(changing.prev)
      /\ changing.next \in State /\ FrameLive(changing.next)
      /\ CallLive(changing)
    BY <1>1 DEF Change, IInv, ChangeInv
<1>3. CASE SwitchReturned
    <2>1. changing.next.active \in mem.nodes
        BY <1>2, <1>3 DEF SwitchReturned, Returned, CallLive
    <2>2. FinishConnection(changing.prev, changing.next, changing.result)
        BY <1>3 DEF SwitchReturned
    <2>3. /\ StoreInv' /\ ChangeInv' /\ EngineInv' /\ reply' \in Results
          /\ asks' \subseteq Requests /\ torn' \in BOOLEAN
        BY <1>1, <1>2, <2>1, <2>2, FinishConnectionKeeps
    <2> QED BY <1>1, <2>3 DEF IInv, RestInv, proc
<1>4. CASE RollbackReturned \/ LastReturned \/ ActiveReturned
    <2>1. PICK err \in Results : Finish(err)
        BY <1>1, <1>4 DEF RollbackReturned, LastReturned, ActiveReturned, Results
    <2>2. UNCHANGED <<mem, disk, asks, torn>>
        BY <1>4 DEF RollbackReturned, LastReturned, ActiveReturned
    <2>3. StoreInv' /\ ChangeInv' /\ EngineInv' /\ reply' \in Results
        BY <1>1, <2>1, <2>2, FailedKeeps
    <2> QED BY <1>1, <2>2, <2>3 DEF IInv, RestInv, proc
<1>5. CASE PendingReturned
    <2> DEFINE p == changing.prev
               s == Resolved(p)
    <2>1. UNCHANGED <<asks, torn>>
        BY <1>5 DEF PendingReturned
    <2>2. CASE UNCHANGED <<mem, disk>> /\ (Finish("elevate") \/ Finish("failed"))
        <3>1. "elevate" \in Results /\ "failed" \in Results
            BY DEF Results
        <3>2. StoreInv' /\ ChangeInv' /\ EngineInv' /\ reply' \in Results
            BY <1>1, <2>2, <3>1, FailedKeeps
        <3> QED BY <1>1, <2>1, <3>2 DEF IInv, RestInv, proc
    <2>3. CASE Saved(s) /\ RestoreActive(mem')
        <3> DEFINE live == IF status = [ref |-> p.pending.ref, tun |-> p.pending.tun]
                           THEN [p EXCEPT !.active = p.pending.ref,
                                          !.last = p.pending.ref, !.tun = p.pending.tun]
                           ELSE p
                   l == [live EXCEPT !.pending = None]
        <3>1. p.pending # None
            BY <1>2, <1>5 DEF PendingReturned, Returned, CallLive
        <3>2. p.pending \in Pending /\ p.pending.ref \in p.nodes
            BY <1>2, <3>1 DEF State, FrameLive
        <3>3. live \in State /\ FrameLive(live)
            BY <1>2, <3>2 DEF State, FrameLive, Pending
        <3> HIDE DEF live
        <3>4. l \in State /\ FrameLive(l)
            BY <3>3 DEF State, FrameLive
        <3>5. s = Collapse(l)
            BY DEF Resolved, live
        <3> HIDE DEF l, s
        <3>6. s \in State /\ Live(s) /\ s.nodes = mem.nodes
            BY <3>4, <3>5, CollapseKeeps DEF IInv
        <3>7. StoreInv' /\ mem' = s
            BY <2>3, <3>6, SavedKeeps DEF Saved
        <3>8. ChangeInv' /\ EngineInv' /\ reply' \in Results
            BY <1>1, <2>3, <3>6, <3>7, RestoreActiveKeeps
        <3> QED BY <1>1, <2>1, <3>7, <3>8 DEF IInv, RestInv, proc
    <2> QED BY <1>5, <2>2, <2>3 DEF PendingReturned, SaveFailed
<1> QED BY <1>3, <1>4, <1>5 DEF Return

(* launch, elevation, serving, stop, restart and crash keep it *)
LEMMA MainStep == ASSUME IInv, PhaseInv, Main PROVE IInv'
<1> USE NoneAssumption, CoreAssumption
<1>1. ASSUME NEW kind \in Kinds, Load(kind)
      PROVE  StoreInv' /\ ChangeInv' /\ EngineInv' /\ reply' \in Results
             /\ asks' \subseteq Requests /\ restart' \in BOOLEAN /\ torn' \in BOOLEAN
    <2>1. StoreInv' /\ status' = None
        BY <1>1, StoredKeeps DEF Load, IInv, StoreInv
    <2>2. changing' = NewChange(kind, status', mem') /\ status' \in Status
        BY <1>1 DEF Load, Status
    <2>3. ChangeInv'
        BY <2>1, <2>2, NewChangeKeeps
    <2> QED BY <1>1, <2>1, <2>3 DEF Load, EngineInv, NoOrphanConnection, Status, Results
<1>2. "Restore" \in Kinds /\ "RestoreFailed" \in Kinds /\ "ok" \in Results
    BY DEF Kinds, Results
<1>3. CASE Launch \/ Elevate \/ Restarted
    <2>1. Load("Restore") /\ daemon' = "starting" /\ root' \in BOOLEAN /\ copy' \in BOOLEAN
        BY <1>3 DEF Launch, Elevate, Restarted, IInv, RestInv
    <2> QED BY <1>1, <1>2, <2>1 DEF IInv, RestInv
<1>4. CASE Restored \/ Stopped
    <2>1. /\ UNCHANGED <<mem, disk, changing, reply, asks, restart, root, copy, torn>>
          /\ status' = status \/ status' = None
          /\ changing = None
        BY <1>4 DEF Restored, Stopped
    <2>2. daemon' \in {"serving", "elevating", "down"}
        BY <1>4 DEF Restored, Stopped, IInv, RestInv, Results
    <2>3. StoreInv' /\ ChangeInv' /\ EngineInv'
        BY <2>1 DEF IInv, StoreInv, Live, ChangeInv, EngineInv, NoOrphanConnection,
            Calling, Status
    <2> QED BY <2>1, <2>2, <2>3 DEF IInv, RestInv
<1>5. CASE ElevateFails
    <2>1. StoreInv' /\ status' \in Status
        BY <1>5 DEF ElevateFails, IInv, StoreInv, Live, EngineInv
    <2>2. changing' = NewChange("RestoreFailed", status', mem')
        BY <1>5 DEF ElevateFails
    <2>3. ChangeInv'
        BY <1>2, <2>1, <2>2, NewChangeKeeps
    <2> QED BY <1>5, <2>1, <2>3
           DEF ElevateFails, PhaseInv, IInv, RestInv, EngineInv, NoOrphanConnection
<1>6. CASE Recovered \/ \E to \in {"stopping", "restarting"} : Leave(to)
    <2>1. /\ UNCHANGED <<mem, disk, status, reply, root, copy, torn>>
          /\ changing' = IF changing = None THEN None
                         ELSE [changing EXCEPT !.canceled = TRUE]
          /\ daemon' \in {"serving", "stopping", "restarting"}
          /\ asks' \subseteq Requests /\ restart' \in BOOLEAN
        BY <1>6 DEF Recovered, Leave, IInv, RestInv
    <2>2. StoreInv' /\ ChangeInv' /\ EngineInv'
        BY <2>1, CanceledKeeps
    <2> QED BY <2>1, <2>2 DEF IInv, RestInv
<1>7. CASE Crash
    <2>1. StoreInv' /\ ChangeInv' /\ EngineInv'
        BY <1>7, StoredKeeps
           DEF Crash, IInv, StoreInv, ChangeInv, EngineInv, NoOrphanConnection, Status
    <2> QED BY <1>2, <1>7, <2>1 DEF Crash, IInv, RestInv
<1> QED BY <1>3, <1>4, <1>5, <1>6, <1>7 DEF Main

(* What a switch starts from is well formed: the live node is still there *)
LEMMA PreviousKeeps ==
    ASSUME IInv, ~Calling
    PROVE  /\ Previous \in State /\ FrameLive(Previous) /\ Previous.pending = None
           /\ Previous.active \in mem.nodes \cup {None}
<1> USE NoneAssumption
<1> DEFINE live == IF status = None THEN mem
                   ELSE [mem EXCEPT !.active = status.ref, !.last = status.ref,
                                    !.tun = status.tun]
<1>1. status # None => status \in Running /\ status.ref \in mem.nodes
    BY DEF IInv, EngineInv, NoOrphanConnection, Status
<1>2. live \in State /\ FrameLive(live)
    BY <1>1 DEF IInv, StoreInv, State, Live, FrameLive, Running, Ref
<1>3. Previous = [live EXCEPT !.pending = None]
    BY DEF Previous
<1> HIDE DEF live
<1> QED BY <1>2, <1>3 DEF State, FrameLive

(* Connect and SetTun hand their states and the engine call to the switch *)
LEMMA SwitchKeeps ==
    ASSUME IInv, changing # None, ~Calling, UNCHANGED <<mem, disk, status, reply>>,
           NEW p \in State, NEW q \in State, NEW c \in Call,
           FrameLive(p), FrameLive(q), q.active \in mem.nodes,
           c.ref \in mem.nodes, c.then = "switch",
           NEW b \in Status,
           changing' = [changing EXCEPT !.before = b, !.prev = p, !.next = q,
                                        !.call = c]
    PROVE  StoreInv' /\ ChangeInv' /\ EngineInv' /\ reply' \in Results
<1> USE NoneAssumption
<1>1. changing \in Change /\ changing' \in Change
    BY DEF IInv, ChangeInv, Change
<1>2. /\ changing'.prev = p /\ changing'.next = q /\ changing'.call = c
      /\ changing' # None
    BY <1>1 DEF Change
<1>3. StoreInv' /\ reply' \in Results
    BY DEF IInv, StoreInv, Live, RestInv
<1>4. ChangeInv'
    BY <1>1, <1>2 DEF ChangeInv, FrameLive, CallLive
<1>5. EngineInv'
    BY DEF IInv, EngineInv, NoOrphanConnection
<1> QED BY <1>3, <1>4, <1>5

(* Connect and SetTun up to their engine call keep it *)
LEMMA SwitchStep ==
    ASSUME IInv,
           \/ \E ref \in Nodes, mode \in BOOLEAN \cup {None} : RunConnect(ref, mode)
           \/ \E tun \in BOOLEAN : RunSetTun(tun)
    PROVE  IInv'
<1> USE NoneAssumption, CoreAssumption
<1>1. changing # None /\ ~Calling
    BY DEF RunConnect, RunSetTun, Runs, Calling
<1>2. /\ Previous \in State /\ FrameLive(Previous)
      /\ Previous.active \in mem.nodes \cup {None}
    BY <1>1, PreviousKeeps
<1>3. "failed" \in Results /\ "ok" \in Results /\ "elevate" # "ok"
    BY DEF Results
<1>4. status # None => status \in Running /\ status.ref \in mem.nodes
    BY <1>1 DEF IInv, EngineInv, NoOrphanConnection, Status
<1> USE <1>1
<1>5. ASSUME UNCHANGED <<mem, disk, status, asks, restart, proc, torn>>,
             Finish("failed")
      PROVE  IInv'
    <2>1. StoreInv' /\ ChangeInv' /\ EngineInv' /\ reply' \in Results
        BY <1>3, <1>5, FailedKeeps
    <2> QED BY <1>5, <2>1 DEF IInv, RestInv, proc
<1>6. ASSUME NEW ref \in Nodes, NEW mode \in BOOLEAN \cup {None}, RunConnect(ref, mode)
      PROVE  IInv'
    <2> DEFINE tun  == IF mode = None THEN Previous.tun ELSE mode
               next == [Previous EXCEPT !.active = ref, !.last = ref, !.tun = tun]
               c    == Start(ref, tun, "switch")
    <2>1. UNCHANGED <<mem, disk, status, asks, restart, proc, torn>>
        BY <1>6 DEF RunConnect
    <2>2. CASE ~Found(mem, ref)
        BY <1>5, <1>6, <2>1, <2>2 DEF RunConnect
    <2>3. CASE Found(mem, ref)
        <3>1. tun \in BOOLEAN
            BY <1>2 DEF State
        <3>2. /\ changing' = [changing EXCEPT !.before = status, !.prev = Previous,
                                              !.next = next, !.call = c]
              /\ UNCHANGED reply
            BY <1>6, <2>3 DEF RunConnect
        <3> HIDE DEF tun
        <3>3. ref \in mem.nodes
            BY <2>3 DEF Found
        <3>4. next \in State /\ FrameLive(next) /\ next.active \in mem.nodes
            BY <1>2, <3>1, <3>3 DEF State, FrameLive, Ref
        <3>5. c \in Call /\ c.ref \in mem.nodes /\ c.then = "switch"
            BY <3>1, <3>3 DEF Start, Call, Steps, Ref
        <3> HIDE DEF next, c
        <3>6. status \in Status
            BY DEF IInv, EngineInv
        <3>7. StoreInv' /\ ChangeInv' /\ EngineInv' /\ reply' \in Results
            BY <1>2, <2>1, <3>2, <3>4, <3>5, <3>6, SwitchKeeps
        <3> QED BY <2>1, <3>7 DEF IInv, RestInv, proc
    <2> QED BY <2>2, <2>3
<1>7. ASSUME NEW tun \in BOOLEAN, RunSetTun(tun) PROVE IInv'
    <2> DEFINE next == [Previous EXCEPT !.tun = tun]
               c    == Start(status.ref, tun, "switch")
    <2>1. next \in State /\ FrameLive(next) /\ next.active = Previous.active
        BY <1>2 DEF State, FrameLive
    <2>2. UNCHANGED <<status, restart, proc>>
        BY <1>7 DEF RunSetTun
    <2>3. CASE FinishConnection(Previous, next, "ok")
        <3> HIDE DEF next
        <3>1. /\ StoreInv' /\ ChangeInv' /\ EngineInv' /\ reply' \in Results
              /\ asks' \subseteq Requests /\ torn' \in BOOLEAN
            BY <1>2, <1>3, <2>1, <2>2, <2>3, FinishConnectionKeeps
        <3> QED BY <2>2, <3>1 DEF IInv, RestInv, proc
    <2>4. CASE Finish("failed") /\ UNCHANGED <<mem, disk, asks, torn>>
        BY <1>5, <2>2, <2>4
    <2>5. CASE /\ status # None /\ UNCHANGED <<mem, disk, reply, asks, torn>>
               /\ changing' = [changing EXCEPT !.before = status, !.prev = Previous,
                                               !.next = next, !.call = c]
        <3>1. c \in Call /\ c.ref \in mem.nodes /\ c.then = "switch"
            BY <1>4, <2>5 DEF Start, Call, Steps, Ref, Running
        <3>2. next.active \in mem.nodes
            BY <1>4, <2>1, <2>5 DEF Previous, IInv, StoreInv, State
        <3>3. status \in Status
            BY DEF IInv, EngineInv
        <3> HIDE DEF next, c
        <3>4. StoreInv' /\ ChangeInv' /\ EngineInv' /\ reply' \in Results
            BY <1>2, <2>1, <2>2, <2>5, <3>1, <3>2, <3>3, SwitchKeeps
        <3> QED BY <2>2, <2>5, <3>4 DEF IInv, RestInv, proc
    <2> QED BY <1>7, <2>3, <2>4, <2>5 DEF RunSetTun
<1> QED BY <1>6, <1>7

(* RemoveSubscription and RemoveNode: the new state is well formed but for   *)
(* references to nodes of the one subscription                              *)
LEMMA RemoveKeeps ==
    ASSUME IInv, changing # None, ~Calling, status' = status,
           NEW s \in State, NEW sub \in Subs,
           s.nodes \subseteq mem.nodes, mem.nodes \ s.nodes \subseteq NodesOf({sub}),
           s.nodes \subseteq NodesOf(s.subs), s.collapsed \subseteq s.subs,
           s.active = mem.active, s.last = mem.last, s.pending = mem.pending,
           Remove(s, sub)
    PROVE  StoreInv' /\ ChangeInv' /\ EngineInv' /\ reply' \in Results
<1> USE NoneAssumption, CoreAssumption
<1> DEFINE kept == Sanitized(s, sub)
           drop == DropsConnection(s, sub)
<1>1. \A ref \in Nodes \ s.nodes :
          \/ SubOf[ref] = sub
          \/ /\ ref # s.active /\ ref # s.last
             /\ s.pending # None => ref # s.pending.ref
    BY DEF IInv, StoreInv, Live, NodesOf
<1>2. s.pending # None => s.pending.ref # None
    BY DEF IInv, StoreInv, Live, State
<1>3. kept \in State /\ Live(kept) /\ kept.nodes = s.nodes
    BY <1>1, <1>2, SanitizedKeeps
<1>4. /\ drop \in BOOLEAN
      /\ status # None /\ status.ref \notin s.nodes => drop
    BY DEF DropsConnection, IInv, EngineInv, NoOrphanConnection, NodesOf
<1> HIDE DEF kept, drop
<1>5. CASE Saved(kept) /\ FinishDrop(mem', drop)
    <2>1. StoreInv' /\ mem' = kept
        BY <1>3, <1>5, SavedKeeps DEF Saved
    <2>2. ChangeInv' /\ EngineInv' /\ reply' \in Results
        BY <1>3, <1>4, <1>5, <2>1, FinishDropKeeps
    <2> QED BY <2>1, <2>2
<1>6. CASE SaveFailed /\ Finish("failed")
    BY <1>6, FailedKeeps DEF SaveFailed, Results
<1> QED BY <1>5, <1>6 DEF Remove, kept, drop

(* Disconnect, the edits of the list and a refresh keep it *)
LEMMA EditStep ==
    ASSUME IInv,
           \/ RunCanceled \/ RunDisconnect
           \/ \E sub \in Subs, nodes \in SUBSET Nodes :
                 RunAddSubscription(sub, nodes) \/ RunRefresh(sub, nodes)
           \/ \E sub \in Subs : RunRemoveSubscription(sub)
           \/ \E node \in Nodes : RunRemoveNode(node)
    PROVE  IInv'
<1> USE NoneAssumption, CoreAssumption
<1>1. /\ changing # None /\ ~Calling
      /\ UNCHANGED <<status, asks, restart, proc, torn>>
    BY DEF RunCanceled, RunDisconnect, RunAddSubscription, RunRefresh,
        RunRemoveSubscription, RunRemoveNode, Runs, Calling
<1>2. "failed" \in Results /\ "ok" \in Results
    BY DEF Results
<1> USE <1>1, <1>2
<1>3. mem \in State /\ Live(mem) /\ (status # None => status.ref \in mem.nodes)
    BY DEF IInv, StoreInv, EngineInv, NoOrphanConnection
<1> SUFFICES StoreInv' /\ ChangeInv' /\ EngineInv' /\ reply' \in Results
    BY DEF IInv, RestInv, proc
<1>4. CASE UNCHANGED <<mem, disk>> /\ Finish("failed")
    BY <1>4, FailedKeeps
<1>5. CASE RunCanceled
    BY <1>4, <1>5 DEF RunCanceled
<1>6. CASE RunDisconnect
    <2> DEFINE s == [mem EXCEPT !.active = None, !.pending = None]
    <2>1. s \in State /\ Live(s) /\ s.nodes = mem.nodes
        BY <1>3 DEF State, Live, Ref
    <2>2. (Saved(s) /\ FinishDrop(mem', TRUE)) \/ (SaveFailed /\ Finish("failed"))
        BY <1>6 DEF RunDisconnect
    <2> HIDE DEF s
    <2>3. CASE Saved(s) /\ FinishDrop(mem', TRUE)
        <3>1. StoreInv' /\ mem' = s
            BY <2>1, <2>3, SavedKeeps DEF Saved
        <3> QED BY <2>1, <2>3, <3>1, FinishDropKeeps
    <2> QED BY <1>4, <2>2, <2>3 DEF SaveFailed
<1>7. ASSUME NEW sub \in Subs, NEW nodes \in SUBSET Nodes,
             RunAddSubscription(sub, nodes)
      PROVE  StoreInv' /\ ChangeInv' /\ EngineInv' /\ reply' \in Results
    <2> DEFINE s == [mem EXCEPT !.subs = @ \cup {sub}, !.nodes = @ \cup nodes]
    <2>1. s \in State /\ Live(s) /\ mem.nodes \subseteq s.nodes
        BY <1>3, <1>7 DEF State, Live, NodesOf, RunAddSubscription
    <2>2. (Saved(s) /\ Finish("ok")) \/ (SaveFailed /\ Finish("failed"))
        BY <1>7 DEF RunAddSubscription
    <2> HIDE DEF s
    <2>3. CASE Saved(s) /\ Finish("ok")
        <3>1. StoreInv' /\ mem' = s
            BY <2>1, <2>3, SavedKeeps DEF Saved
        <3>2. status # None => status.ref \in mem'.nodes
            BY <1>3, <2>1, <3>1
        <3> QED BY <2>3, <3>1, <3>2, FinishKeeps
    <2> QED BY <1>4, <2>2, <2>3 DEF SaveFailed
<1>8. ASSUME NEW sub \in Subs, RunRemoveSubscription(sub)
      PROVE  StoreInv' /\ ChangeInv' /\ EngineInv' /\ reply' \in Results
    <2> DEFINE s == [mem EXCEPT !.subs = @ \ {sub}, !.nodes = @ \ NodesOf({sub}),
                                !.collapsed = @ \ {sub}]
    <2>1. /\ s \in State /\ s.nodes = mem.nodes \ NodesOf({sub})
          /\ s.subs = mem.subs \ {sub} /\ s.collapsed = mem.collapsed \ {sub}
          /\ s.active = mem.active /\ s.last = mem.last /\ s.pending = mem.pending
        BY <1>3 DEF State
    <2>2. Remove(s, sub) \/ (UNCHANGED <<mem, disk>> /\ Finish("failed"))
        BY <1>8 DEF RunRemoveSubscription
    <2> HIDE DEF s
    <2>3. /\ s.nodes \subseteq mem.nodes /\ mem.nodes \ s.nodes \subseteq NodesOf({sub})
          /\ s.nodes \subseteq NodesOf(s.subs) /\ s.collapsed \subseteq s.subs
        BY <1>3, <2>1 DEF Live, NodesOf
    <2> QED BY <1>4, <2>1, <2>2, <2>3, RemoveKeeps
<1>9. ASSUME NEW node \in Nodes, RunRemoveNode(node)
      PROVE  StoreInv' /\ ChangeInv' /\ EngineInv' /\ reply' \in Results
    <2> DEFINE s == [mem EXCEPT !.nodes = @ \ {node}]
    <2>1. /\ s \in State /\ s.nodes = mem.nodes \ {node}
          /\ s.subs = mem.subs /\ s.collapsed = mem.collapsed
          /\ s.active = mem.active /\ s.last = mem.last /\ s.pending = mem.pending
        BY <1>3 DEF State
    <2>2. Remove(s, SubOf[node]) \/ (UNCHANGED <<mem, disk>> /\ Finish("failed"))
        BY <1>9 DEF RunRemoveNode
    <2> HIDE DEF s
    <2>3. /\ s.nodes \subseteq mem.nodes /\ SubOf[node] \in Subs
          /\ mem.nodes \ s.nodes \subseteq NodesOf({SubOf[node]})
          /\ s.nodes \subseteq NodesOf(s.subs) /\ s.collapsed \subseteq s.subs
        BY <1>3, <2>1 DEF Live, NodesOf
    <2> QED BY <1>4, <2>1, <2>2, <2>3, RemoveKeeps
<1>10. ASSUME NEW sub \in Subs, NEW nodes \in SUBSET Nodes, RunRefresh(sub, nodes)
       PROVE  StoreInv' /\ ChangeInv' /\ EngineInv' /\ reply' \in Results
    <2> DEFINE fetched == [mem EXCEPT !.nodes = (@ \ NodesOf({sub})) \cup nodes]
               next    == Sanitized(fetched, sub)
               drop    == DropsConnection(fetched, sub)
               c       == Start(status.ref, status.tun, "last")
    <2>1. CASE SaveFailed /\ Finish("failed")
        BY <1>4, <2>1 DEF SaveFailed
    <2>2. CASE /\ sub \in mem.subs /\ Saved(next)
               /\ IF ~drop /\ status # None /\ SubOf[status.ref] = sub
                  THEN Continue(next, next, c)
                  ELSE FinishDrop(next, drop)
        <3>1. /\ fetched \in State
              /\ fetched.nodes = (mem.nodes \ NodesOf({sub})) \cup nodes
              /\ fetched.subs = mem.subs /\ fetched.collapsed = mem.collapsed
              /\ fetched.active = mem.active /\ fetched.last = mem.last
              /\ fetched.pending = mem.pending
            BY <1>3 DEF State
        <3> HIDE DEF fetched
        <3>2. nodes \subseteq NodesOf({sub})
            BY <1>10 DEF RunRefresh
        <3>3. /\ fetched.nodes \subseteq NodesOf(fetched.subs)
              /\ fetched.collapsed \subseteq fetched.subs
              /\ fetched.pending # None => fetched.pending.ref # None
              /\ \A ref \in Nodes \ fetched.nodes :
                    \/ SubOf[ref] = sub
                    \/ /\ ref # fetched.active /\ ref # fetched.last
                       /\ fetched.pending # None => ref # fetched.pending.ref
            BY <1>3, <2>2, <3>1, <3>2 DEF Live, NodesOf
        <3>4. next \in State /\ Live(next) /\ next.nodes = fetched.nodes
            BY <3>1, <3>3, SanitizedKeeps
        <3>5. /\ drop \in BOOLEAN
              /\ status # None /\ status.ref \notin fetched.nodes => drop
            BY <1>3, <3>1 DEF DropsConnection, NodesOf, IInv, EngineInv, Status, Running
        <3> HIDE DEF next, drop
        <3>6. StoreInv' /\ mem' = next
            BY <2>2, <3>4, SavedKeeps DEF Saved
        <3>7. CASE /\ ~drop /\ status # None
                   /\ Continue(next, next, c)
            <4>1. c \in Call /\ c.ref \in next.nodes /\ c.then = "last"
                BY <3>4, <3>5, <3>7 DEF Start, Call, Steps, Ref, IInv, EngineInv,
                    Status, Running
            <4> PICK n \in State : n = next
                BY <3>4
            <4>2. FrameLive(n)'
                BY <3>4, <3>6 DEF FrameLive, Live
            <4>3. ~(status # None /\ status.ref \notin mem'.nodes)
                BY <3>4, <3>5, <3>6, <3>7
            <4>4. Continue(n, n, c)
                BY <3>7
            <4> HIDE DEF c
            <4>5. ChangeInv' /\ EngineInv' /\ reply' \in Results
                BY <3>4, <3>6, <4>1, <4>2, <4>3, <4>4, ContinueKeeps
            <4> QED BY <3>6, <4>5
        <3>8. CASE FinishDrop(next, drop)
            BY <3>4, <3>5, <3>6, <3>8, FinishDropKeeps
        <3> QED BY <2>2, <3>6, <3>7, <3>8
    <2> QED BY <1>10, <2>1, <2>2 DEF RunRefresh
<1> QED BY <1>5, <1>6, <1>7, <1>8, <1>9, <1>10

(* Restore and RestoreFailed up to their engine call keep it *)
LEMMA RestoreStep == ASSUME IInv, RunRestore \/ RunRestoreFailed PROVE IInv'
<1> USE NoneAssumption, CoreAssumption
<1>1. /\ changing # None /\ ~Calling
      /\ UNCHANGED <<status, asks, restart, proc, torn>>
    BY DEF RunRestore, RunRestoreFailed, Runs, Calling
<1>2. "failed" \in Results /\ "ok" \in Results
    BY DEF Results
<1> USE <1>1, <1>2
<1>3. /\ mem \in State /\ Live(mem) /\ FrameLive(mem)
      /\ status # None => status.ref \in mem.nodes
    BY DEF IInv, StoreInv, EngineInv, NoOrphanConnection, Live, FrameLive
<1> SUFFICES StoreInv' /\ ChangeInv' /\ EngineInv' /\ reply' \in Results
    BY DEF IInv, RestInv, proc
<1> DEFINE s == [mem EXCEPT !.pending = None]
<1>4. /\ s \in State /\ Live(s) /\ s.nodes = mem.nodes /\ s.subs = mem.subs
    BY <1>3 DEF State, Live
<1> HIDE DEF s
<1>5. Saved(s) => StoreInv'
    BY <1>4, SavedKeeps
<1>6. SaveFailed \/ UNCHANGED <<mem, disk>> => StoreInv'
    BY DEF SaveFailed, IInv, StoreInv, Live
<1>7. CASE RunRestore
    <2>1. CASE (UNCHANGED <<mem, disk>> \/ SaveFailed) /\ (Finish("failed") \/ Finish("ok"))
        BY <2>1, FailedKeeps DEF SaveFailed
    <2>2. CASE UNCHANGED <<mem, disk>> /\ RestoreActive(mem)
        <3> PICK m \in State : m = mem
            BY <1>3
        <3>1. RestoreActive(m) /\ Live(m) /\ mem' = m
            BY <1>3, <2>2
        <3> QED BY <1>6, <2>2, <3>1, RestoreActiveKeeps
    <2>3. CASE Saved(s) /\ RestoreActive(mem')
        <3>1. mem' = s
            BY <2>3 DEF Saved
        <3>2. RestoreActive(s)
            BY <2>3, <3>1
        <3> QED BY <1>4, <1>5, <2>3, <3>1, <3>2, RestoreActiveKeeps
    <2>4. CASE /\ mem.pending # None /\ Found(mem, mem.pending.ref)
               /\ UNCHANGED <<mem, disk>>
               /\ Continue(mem, mem,
                           Start(mem.pending.ref, mem.pending.tun, "pending"))
        <3> PICK m \in State : m = mem
            BY <1>3
        <3> DEFINE c == Start(m.pending.ref, m.pending.tun, "pending")
        <3>1. c \in Call /\ c.ref \in mem.nodes /\ c.then = "pending"
            BY <1>3, <2>4 DEF Start, Call, Steps, Found, State, Pending
        <3>2. Continue(m, m, c) /\ FrameLive(m)'
            BY <1>3, <2>4 DEF FrameLive
        <3> HIDE DEF c
        <3> QED BY <1>6, <2>4, <3>1, <3>2, ContinueKeeps
    <2> QED BY <1>7, <2>1, <2>2, <2>3, <2>4 DEF RunRestore, s
<1>8. CASE RunRestoreFailed
    <2>1. CASE Finish("ok") /\ UNCHANGED <<mem, disk>>
        BY <2>1, FailedKeeps
    <2>2. CASE /\ Saved(s) \/ SaveFailed
               /\ \/ /\ Found(mem, mem.active)
                     /\ Continue(mem, mem, Start(mem.active, FALSE, "last"))
                  \/ Finish("ok")
        <3>1. mem'.nodes = mem.nodes /\ mem'.subs = mem.subs /\ StoreInv'
            BY <1>4, <1>5, <1>6, <2>2 DEF Saved, SaveFailed
        <3>2. CASE Finish("ok")
            BY <3>1, <3>2, FinishKeeps
        <3>3. CASE /\ Found(mem, mem.active)
                   /\ Continue(mem, mem, Start(mem.active, FALSE, "last"))
            <4> PICK m \in State : m = mem
                BY <1>3
            <4> DEFINE c == Start(m.active, FALSE, "last")
            <4>1. c \in Call /\ c.ref \in mem.nodes /\ c.then = "last"
                BY <1>3, <3>3 DEF Start, Call, Steps, Found, State
            <4>2. Continue(m, m, c) /\ FrameLive(m)'
                BY <1>3, <3>1, <3>3 DEF FrameLive
            <4> HIDE DEF c
            <4> QED BY <3>1, <4>1, <4>2, ContinueKeeps
        <3> QED BY <2>2, <3>2, <3>3
    <2> QED BY <1>8, <2>1, <2>2 DEF RunRestoreFailed, s
<1> QED BY <1>7, <1>8

(* What main and Restore do keeps the engine idle where PhaseInv says so *)
LEMMA PhaseStep == ASSUME IInv, PhaseInv, Next PROVE PhaseInv'
<1> USE NoneAssumption
<1>1. changing # None => changing \in Change
    BY DEF IInv, ChangeInv
<1>2. CASE daemon' \notin {"down", "elevating", "starting"}
    BY <1>2 DEF PhaseInv
<1>3. CASE Main
    <2>1. ASSUME Load("Restore"), daemon' = "starting" PROVE PhaseInv'
        BY <2>1 DEF Load, NewChange, PhaseInv
    <2>2. CASE Launch \/ Elevate \/ Restarted
        BY <2>1, <2>2 DEF Launch, Elevate, Restarted
    <2>3. CASE Restored
        BY <2>3 DEF Restored, PhaseInv, IInv, RestInv, Results
    <2>4. CASE Stopped \/ Crash
        BY <2>4 DEF Stopped, Crash, PhaseInv
    <2> QED BY <1>2, <1>3, <2>2, <2>3, <2>4 DEF Main, ElevateFails, Recovered, Leave
<1>4. CASE Client
    BY <1>2, <1>4 DEF Client, Begin, Cancel, SetCollapsed, RequestRestart, ReplyFailed,
        proc, PhaseInv
<1>5. ASSUME Action \/ Return \/ Engine, daemon' \in {"down", "elevating", "starting"}
      PROVE  PhaseInv'
    <2>1. daemon' = daemon /\ changing # None
        BY <1>5 DEF Action, RunCanceled, RunConnect, RunSetTun, RunDisconnect,
            RunAddSubscription, RunRefresh, RunRemoveSubscription, RunRemoveNode,
            RunRestore, RunRestoreFailed, Runs, Return, SwitchReturned, RollbackReturned,
            LastReturned, PendingReturned, ActiveReturned, Returned, Engine,
            EngineStarts, EngineFails, EngineNeedsElevation, EngineStops, Calling, proc
    <2>2. /\ daemon = "starting" /\ daemon' = "starting" /\ changing \in Change
          /\ changing.kind = "Restore" /\ ~changing.canceled
          /\ changing.call # None => changing.call.then \in {"pending", "active"}
          /\ changing.call = None \/ changing.result \in {None, "elevate"} =>
                status = None
        BY <1>1, <1>5, <2>1 DEF PhaseInv
    <2>a. ASSUME NEW p, NEW q, NEW c, status = None, status' = status,
                 c.then \in {"pending", "active"}, Continue(p, q, c)
          PROVE  PhaseInv'
        <3>1. /\ changing'.kind = changing.kind /\ changing'.result = None
              /\ changing'.canceled = changing.canceled /\ changing'.call = c
            BY <2>2, <2>a DEF Continue, Change
        <3> QED BY <2>2, <2>a, <3>1 DEF PhaseInv
    <2>b. ASSUME NEW err, err # "elevate" \/ status = None, status' = status, Finish(err)
          PROVE  PhaseInv'
        BY <2>2, <2>b DEF Finish, PhaseInv
    <2>c. ASSUME NEW s, status' = status, RestoreActive(s) PROVE PhaseInv'
        <3> DEFINE c == Start(s.active, s.tun, "active")
        <3>1. c.then = "active"
            BY DEF Start
        <3>2. \/ status = None /\ Continue(s, s, c)
              \/ Finish("ok")
            BY <2>c DEF RestoreActive
        <3> HIDE DEF c
        <3> QED BY <2>a, <2>b, <2>c, <3>1, <3>2
    <2>3. CASE RunRestore
        <3> DEFINE c == Start(mem.pending.ref, mem.pending.tun, "pending")
        <3>1. c.then = "pending"
            BY DEF Start
        <3>2. status = None /\ status' = status
            BY <2>2, <2>3 DEF RunRestore, Runs
        <3>3. \/ RestoreActive(mem) \/ RestoreActive(mem')
              \/ Continue(mem, mem, c) \/ Finish("failed")
            BY <2>3 DEF RunRestore
        <3> HIDE DEF c
        <3> QED BY <2>a, <2>b, <2>c, <3>1, <3>2, <3>3
    <2>4. CASE PendingReturned
        <3>1. status' = status
            BY <2>4 DEF PendingReturned
        <3>2. \/ changing.result = "elevate" /\ Finish("elevate")
              \/ RestoreActive(mem') \/ Finish("failed")
            BY <2>4 DEF PendingReturned
        <3> QED BY <2>2, <2>b, <2>c, <3>1, <3>2
    <2>5. CASE ActiveReturned
        BY <2>2, <2>5 DEF ActiveReturned, Returned, Finish, PhaseInv, Results
    <2>6. CASE Engine
        BY <2>2, <2>6 DEF Engine, EngineStarts, EngineFails, EngineNeedsElevation,
            EngineStops, Calling, Answer, Change, Results, PhaseInv
    <2>7. Action => RunRestore
        BY <2>2 DEF Action, RunCanceled, RunConnect, RunSetTun, RunDisconnect,
            RunAddSubscription, RunRefresh, RunRemoveSubscription, RunRemoveNode,
            RunRestoreFailed, Runs
    <2>8. Return => PendingReturned \/ ActiveReturned
        BY <2>2 DEF Return, SwitchReturned, RollbackReturned, LastReturned, Returned
    <2> QED BY <1>5, <2>3, <2>4, <2>5, <2>6, <2>7, <2>8
<1> QED BY <1>2, <1>3, <1>4, <1>5 DEF Next

----------------------------------------------------------------------------
(* Theorems *)

(* A first start satisfies the invariant *)
LEMMA Initially == Init => IInv /\ PhaseInv
<1> SUFFICES ASSUME Init PROVE IInv /\ PhaseInv
    OBVIOUS
<1> USE NoneAssumption, CoreAssumption
<1>1. PICK subs \in {{}, Subs} : mem = Empty(subs) /\ disk = Empty(subs)
    BY DEF Init
<1>2. Empty(subs) \in State /\ Live(Empty(subs)) /\ Empty(subs).pending = None
    BY DEF Empty, State, Live, NodesOf, Ref
<1>3. StoreInv
    BY <1>1, <1>2 DEF StoreInv, Stored
<1> QED BY <1>3 DEF Init, IInv, ChangeInv, EngineInv, NoOrphanConnection, RestInv,
    PhaseInv, Results, Status

(* The invariant is inductive *)
THEOREM Invariant == Spec => [](IInv /\ PhaseInv)
<1>1. IInv /\ PhaseInv /\ [Next]_vars => (IInv /\ PhaseInv)'
    <2> SUFFICES ASSUME IInv, PhaseInv, [Next]_vars PROVE (IInv /\ PhaseInv)'
        OBVIOUS
    <2>1. CASE Next
        <3>1. Action => IInv'
            BY SwitchStep, EditStep, RestoreStep DEF Action
        <3>2. IInv'
            BY <2>1, <3>1, ClientStep, ReturnStep, EngineStep, MainStep DEF Next
        <3> QED BY <2>1, <3>2, PhaseStep
    <2>2. CASE UNCHANGED vars
        <3> USE <2>2 DEF vars
        <3>1. StoreInv' /\ RestInv' /\ PhaseInv'
            BY DEF IInv, StoreInv, Live, RestInv, PhaseInv
        <3>2. ChangeInv' /\ EngineInv'
            BY DEF IInv, ChangeInv, FrameLive, CallLive, EngineInv,
                NoOrphanConnection, Calling
        <3> QED BY <3>1, <3>2 DEF IInv
    <2> QED BY <2>1, <2>2
<1> QED BY Initially, <1>1, PTL DEF Spec

(* Every variable keeps its type *)
THEOREM TypeCorrect == Spec => []TypeOK
<1>1. IInv => TypeOK
    BY DEF IInv, StoreInv, ChangeInv, EngineInv, RestInv, TypeOK
<1> QED BY Invariant, <1>1, PTL

(* No stored reference names a node that is gone, in memory or in the file *)
THEOREM ReferencesLive == Spec => []RefsLive
<1>1. IInv => RefsLive
    BY StoredKeeps DEF IInv, StoreInv, RefsLive
<1> QED BY Invariant, <1>1, PTL

(* The engine runs no node that is gone, but on the way to being stopped *)
THEOREM ConnectionHasNode == Spec => []NoOrphanConnection
<1>1. IInv => NoOrphanConnection
    BY DEF IInv, EngineInv
<1> QED BY Invariant, <1>1, PTL

(* The process that hands over to the privileged one runs no engine *)
THEOREM HandoverIsClean == Spec => []HandoverStopped
<1>1. PhaseInv => HandoverStopped
    BY DEF PhaseInv, HandoverStopped
<1> QED BY Invariant, <1>1, PTL

(* Committing a state with the collapsed set of memory folds nothing back *)
LEMMA FoldsKept ==
    ASSUME IInv,
           \/ mem' = mem \/ mem' = disk
           \/ mem'.collapsed = mem.collapsed /\ mem.subs \subseteq mem'.subs
    PROVE  mem'.collapsed = mem.collapsed \cap mem'.subs
BY DEF IInv, StoreInv, Live, Stored, State

(* finishConnection commits the collapsed set that memory has now, not the *)
(* one the switch started with                                              *)
LEMMA FoldsInSwitch ==
    ASSUME IInv, NEW p \in State, NEW q \in State, FrameLive(p), FrameLive(q),
           NEW result, FinishConnection(p, q, result)
    PROVE  mem'.collapsed = mem.collapsed /\ mem.subs \subseteq mem'.subs
<1> DEFINE prev == Collapse(p)
           next == Collapse(q)
<1>1. /\ prev.collapsed = mem.collapsed /\ prev.subs = mem.subs /\ prev \in State
      /\ next.collapsed = mem.collapsed /\ next.subs = mem.subs
    BY CollapseKeeps DEF IInv, FrameLive, Collapse, State
<1> HIDE DEF prev, next
<1>2. ASSUME NEW w, Saved([prev EXCEPT !.pending = w])
      PROVE  mem'.collapsed = mem.collapsed /\ mem'.subs = mem.subs
    BY <1>1, <1>2 DEF Saved, State
<1>3. \/ Saved(next) \/ Saved(prev) \/ mem' = mem
      \/ \E id \in Requests : Saved([prev EXCEPT !.pending =
             [ref |-> next.active, tun |-> next.tun, id |-> id]])
    BY DEF FinishConnection, SaveFailed, prev, next
<1> QED BY <1>1, <1>2, <1>3 DEF Saved

(* Whatever a change commits, only the group of a removed subscription       *)
(* leaves the collapsed set                                                  *)
THEOREM FoldsSurvive == Spec => FoldsSurviveChanges
<1> DEFINE Kept == mem'.collapsed = mem.collapsed \cap mem'.subs
<1>1. ASSUME IInv, Next, changing # changing', mem' # mem PROVE Kept
    <2> USE <1>1
    <2>1. mem \in State /\ Live(mem)
        BY DEF IInv, StoreInv
    <2>2. CASE UNCHANGED mem \/ Client \/ Engine \/ Main
        <3>1. mem' = mem \/ mem' = disk
            BY <2>2 DEF Client, Begin, Cancel, SetCollapsed, RequestRestart, ReplyFailed,
                Engine, EngineStarts, EngineFails, EngineNeedsElevation, EngineStops,
                Main, Launch, Restored, Elevate, ElevateFails, Recovered, Leave,
                Stopped, Restarted, Crash, Load
        <3> QED BY <3>1, FoldsKept
    <2>3. CASE SwitchReturned
        <3>1. /\ changing.prev \in State /\ FrameLive(changing.prev)
              /\ changing.next \in State /\ FrameLive(changing.next)
              /\ FinishConnection(changing.prev, changing.next, changing.result)
            BY <2>3 DEF SwitchReturned, Returned, IInv, ChangeInv, Change
        <3>2. mem'.collapsed = mem.collapsed /\ mem.subs \subseteq mem'.subs
            BY <3>1, FoldsInSwitch
        <3> QED BY <3>2, FoldsKept
    <2>4. ASSUME NEW tun \in BOOLEAN, RunSetTun(tun) PROVE Kept
        <3> DEFINE next == [Previous EXCEPT !.tun = tun]
        <3>1. ~Calling
            BY <2>4 DEF RunSetTun, Runs, Calling
        <3>2. Previous \in State /\ FrameLive(Previous)
            BY <3>1, PreviousKeeps
        <3>3. next \in State /\ FrameLive(next)
            BY <3>2 DEF State, FrameLive
        <3>4. FinishConnection(Previous, next, "ok")
            BY <2>4 DEF RunSetTun
        <3> HIDE DEF next
        <3>5. mem'.collapsed = mem.collapsed /\ mem.subs \subseteq mem'.subs
            BY <3>2, <3>3, <3>4, FoldsInSwitch
        <3> QED BY <3>5, FoldsKept
    <2>5. CASE PendingReturned
        <3>1. Saved(Resolved(changing.prev)) /\ changing.prev \in State
              /\ FrameLive(changing.prev)
            BY <2>5 DEF PendingReturned, SaveFailed, Returned, IInv, ChangeInv, Change
        <3>2. mem'.collapsed = mem.collapsed /\ mem'.subs = changing.prev.subs
            BY <3>1 DEF Saved, Resolved, Collapse, State
        <3> QED BY <3>1, <3>2, FoldsKept DEF FrameLive
    <2>6. CASE RunRestore \/ RunRestoreFailed \/ RunDisconnect
        <3>1. mem'.collapsed = mem.collapsed /\ mem'.subs = mem.subs
            BY <2>1, <2>6 DEF RunRestore, RunRestoreFailed, RunDisconnect, Saved,
                SaveFailed, State
        <3> QED BY <3>1, FoldsKept
    <2>7. ASSUME NEW sub \in Subs, NEW nodes \in SUBSET Nodes,
                 RunAddSubscription(sub, nodes) \/ RunRefresh(sub, nodes)
          PROVE  Kept
        <3>1. mem'.collapsed = mem.collapsed /\ mem.subs \subseteq mem'.subs
            BY <2>1, <2>7 DEF RunAddSubscription, RunRefresh, Sanitized, Saved,
                SaveFailed, State
        <3> QED BY <3>1, FoldsKept
    <2>8. ASSUME NEW sub \in Subs, RunRemoveSubscription(sub) PROVE Kept
        <3>1. /\ mem'.subs = mem.subs \ {sub}
              /\ mem'.collapsed = mem.collapsed \ {sub}
            BY <2>1, <2>8 DEF RunRemoveSubscription, Remove, Sanitized, Saved,
                SaveFailed, State
        <3> QED BY <2>1, <3>1 DEF Live
    <2>9. ASSUME NEW node \in Nodes, RunRemoveNode(node) PROVE Kept
        <3>1. mem'.collapsed = mem.collapsed /\ mem'.subs = mem.subs
            BY <2>1, <2>9 DEF RunRemoveNode, Remove, Sanitized, Saved, SaveFailed, State
        <3> QED BY <3>1, FoldsKept
    <2>10. RunCanceled \/ RollbackReturned \/ LastReturned \/ ActiveReturned
             \/ (\E ref \in Nodes, mode \in BOOLEAN \cup {None} : RunConnect(ref, mode))
             => UNCHANGED mem
        BY DEF RunCanceled, RollbackReturned, LastReturned, ActiveReturned, RunConnect
    <2> QED BY <2>2, <2>3, <2>4, <2>5, <2>6, <2>7, <2>8, <2>9, <2>10
            DEF Next, Action, Return
<1>2. IInv /\ [Next]_vars =>
          [changing # changing' /\ mem' # mem => Kept]_vars
    BY <1>1 DEF vars
<1> QED BY Invariant, <1>2, PTL DEF FoldsSurviveChanges, Spec
-----------------------------------------------------------------------------
(* The live connection and the stored one agree between changes, and a switch *)
(* ends in one of the ways the code promises.  The strengthening MatchInv     *)
(* follows each engine call from the moment it is made to the moment its      *)
(* answer is used.                                                           *)

Agrees(run, s) == run # None => run.ref = s.active /\ run.tun = s.tun

(* before its engine call a change has moved nothing *)
QuietInv == /\ status = changing.before /\ changing.result = None
            /\ ~torn => Agrees(status, mem)

SwitchInv(c) ==
    /\ Made(c) = [ref |-> changing.next.active, tun |-> changing.next.tun]
    /\ Agrees(changing.before, changing.prev)
    /\ ~torn => Agrees(changing.before, mem)
    /\ changing.result \in {None, "elevate"} => status = changing.before
    /\ changing.result = "elevate" => ~root
    /\ changing.result = "ok" => status = Made(c)
    /\ changing.result = "failed" => status \in {changing.before, None}

RollbackInv(c) ==
    /\ c.ref # None => changing.before = Made(c)
    /\ ~torn => Agrees(changing.before, mem)
    /\ changing.result # None /\ ~torn => status \in {changing.before, None}

LastInv(c) ==
    /\ changing.result # None \/ c.ref # None => (~torn => Agrees(status, mem))
    /\ c.ref # None /\ ~torn => c.ref = mem.active /\ c.tun = mem.tun

PendingInv(c) ==
    /\ Made(c) = [ref |-> changing.prev.pending.ref, tun |-> changing.prev.pending.tun]
    /\ status = IF changing.result = "ok" THEN Made(c) ELSE None

ActiveInv(c) ==
    /\ Made(c) = [ref |-> mem.active, tun |-> mem.tun]
    /\ status # None => status = Made(c)

CallInv(c) ==
    /\ changing.kind \in {"Connect", "SetTun"} => c.then \in {"switch", "rollback"}
    /\ c.then = "switch" => SwitchInv(c)
    /\ c.then = "rollback" => RollbackInv(c)
    /\ c.then = "last" => LastInv(c)
    /\ c.then = "pending" => PendingInv(c) /\ changing.kind = "Restore"
    /\ c.then = "active" => ActiveInv(c)

MatchInv ==
    /\ status # None /\ status.tun => root
    /\ changing = None /\ ~torn /\ (daemon = "starting" => reply = "ok") =>
          Agrees(status, mem)
    /\ changing # None =>
          /\ changing.before # None /\ changing.before.tun => root
          /\ changing.kind = "Restore" => daemon = "starting"
          /\ changing.call = None => QuietInv
          /\ changing.call # None => CallInv(changing.call)

----------------------------------------------------------------------------
(* How the steps of a change hand the agreement on *)

(* A change that ends with the engine on what is stored *)
LEMMA FinishMatches ==
    ASSUME MatchInv, NEW err, Finish(err), UNCHANGED <<status, root, daemon>>,
           ~torn' /\ (daemon = "starting" => err = "ok") => Agrees(status, mem')
    PROVE  MatchInv'
BY DEF MatchInv, Finish, Agrees

(* A change that goes on to another engine call, by the call it makes *)
LEMMA ContinueMatches ==
    ASSUME IInv, MatchInv, changing # None, UNCHANGED <<status, root, daemon>>,
           NEW p \in State, NEW q \in State, NEW c \in Call, Continue(p, q, c),
           c.then # "switch",
           changing.kind \in {"Connect", "SetTun"} => c.then = "rollback",
           c.then = "rollback" =>
              /\ c.ref # None => changing.before = Made(c)
              /\ ~torn' => Agrees(changing.before, mem'),
           c.then = "last" /\ c.ref # None /\ ~torn' =>
              c.ref = mem'.active /\ c.tun = mem'.tun /\ Agrees(status, mem'),
           c.then = "pending" =>
              /\ Made(c) = [ref |-> p.pending.ref, tun |-> p.pending.tun]
              /\ status = None /\ changing.kind = "Restore",
           c.then = "active" =>
              Made(c) = [ref |-> mem'.active, tun |-> mem'.tun] /\ status = None
    PROVE  MatchInv'
<1> USE NoneAssumption
<1>1. /\ changing' # None /\ changing'.call = c /\ changing'.prev = p
      /\ changing'.next = q /\ changing'.result = None
      /\ changing'.before = changing.before /\ changing'.kind = changing.kind
      /\ c # None
    <2>1. changing \in Change
        BY DEF IInv, ChangeInv
    <2>2. changing' \in Change
        BY <2>1 DEF Change, Continue, Results
    <2> QED BY <2>1, <2>2 DEF Change, Continue
<1>2. c.then = "rollback" => RollbackInv(c)'
    BY <1>1 DEF RollbackInv, Agrees, Made
<1>3. c.then = "last" => LastInv(c)'
    BY <1>1 DEF LastInv, Agrees
<1>4. c.then = "pending" => PendingInv(c)'
    BY <1>1 DEF PendingInv, Made, Results
<1>5. c.then = "active" => ActiveInv(c)'
    BY <1>1 DEF ActiveInv, Made
<1>6. CallInv(c)'
    BY <1>1, <1>2, <1>3, <1>4, <1>5 DEF CallInv
<1> QED BY <1>1, <1>6 DEF MatchInv

(* restore either finds the old connection or calls the engine for it *)
LEMMA RollbackMatches ==
    ASSUME IInv, MatchInv, changing # None,
           UNCHANGED <<status, root, daemon>>,
           NEW p \in State, NEW q \in State, FrameLive(p), Agrees(changing.before, p),
           ~torn' => Agrees(changing.before, mem'),
           Rollback(p, q)
    PROVE  MatchInv'
<1> USE NoneAssumption, CoreAssumption
<1> DEFINE b == changing.before
<1>1. b # None => b \in Running /\ Found(p, b.ref)
    BY DEF IInv, ChangeInv, Change, Status, Running, Found, FrameLive, Agrees
<1>2. CASE status = b /\ Finish("failed")
    BY <1>2, FinishMatches
<1>3. CASE b = None /\ Continue(p, q, Stop("rollback"))
    <2> DEFINE c == Stop("rollback")
    <2>1. c \in Call /\ c.ref = None /\ c.then = "rollback"
        BY DEF Stop, Call, Steps, Ref
    <2>2. Continue(p, q, c)
        BY <1>3
    <2> HIDE DEF c
    <2> QED BY <2>1, <2>2, ContinueMatches
<1>4. CASE b # None /\ Continue(p, q, Start(b.ref, b.tun, "rollback"))
    <2> DEFINE c == Start(b.ref, b.tun, "rollback")
    <2>1. c \in Call /\ c.then = "rollback" /\ b = Made(c)
        BY <1>1, <1>4 DEF Start, Call, Steps, Ref, Running, Made
    <2>2. Continue(p, q, c)
        BY <1>4
    <2> HIDE DEF c
    <2> QED BY <2>1, <2>2, ContinueMatches
<1> QED BY <1>1, <1>2, <1>3, <1>4 DEF Rollback

(* finishConnection, whichever way it goes *)
LEMMA FinishConnectionMatches ==
    ASSUME IInv, MatchInv, changing # None,
           UNCHANGED <<status, root, daemon>>,
           NEW p \in State, NEW q \in State, FrameLive(p), FrameLive(q),
           Agrees(changing.before, p), ~torn => Agrees(changing.before, mem),
           NEW result,
           Verdict(result) = "ok" => Agrees(status, q),
           Verdict(result) = "elevate" => status = changing.before,
           FinishConnection(p, q, result)
    PROVE  MatchInv'
<1> DEFINE prev == Collapse(p)
           next == Collapse(q)
<1>1. /\ prev \in State /\ FrameLive(prev) /\ Agrees(changing.before, prev)
      /\ prev.active = p.active /\ prev.tun = p.tun
      /\ next.active = q.active /\ next.tun = q.tun /\ next \in State
    BY CollapseKeeps DEF IInv, Agrees, Collapse, State
<1> HIDE DEF prev, next
<1>2. CASE Verdict(result) = "ok" /\ Saved(next) /\ Finish("ok")
    BY <1>1, <1>2, FinishMatches DEF Saved, Agrees
<1>3. CASE (Saved(prev) \/ SaveFailed) /\ Rollback(prev, next) /\ UNCHANGED torn
    BY <1>1, <1>3, RollbackMatches DEF Saved, SaveFailed
<1>4. ASSUME Verdict(result) = "elevate", NEW w,
             Saved([prev EXCEPT !.pending = w]), Finish("elevate")
      PROVE  MatchInv'
    <2>1. mem'.active = prev.active /\ mem'.tun = prev.tun
        BY <1>1, <1>4 DEF Saved, State
    <2> QED BY <1>1, <1>4, <2>1, FinishMatches DEF Agrees
<1> QED BY <1>2, <1>3, <1>4 DEF FinishConnection, prev, next

(* MatchInv reads the stored connection, not the rest of the state, and of a *)
(* change nothing that a cancellation writes                                *)
LEMMA SameMatches ==
    ASSUME MatchInv, UNCHANGED <<status, torn, reply, root>>,
           mem'.active = mem.active, mem'.tun = mem.tun,
           (changing = None) <=> (changing' = None),
           changing # None =>
              /\ changing'.kind = changing.kind /\ changing'.before = changing.before
              /\ changing'.prev = changing.prev /\ changing'.next = changing.next
              /\ changing'.call = changing.call /\ changing'.result = changing.result,
           daemon # "starting", daemon' # "starting"
    PROVE  MatchInv'
<1>1. ASSUME changing # None, QuietInv PROVE QuietInv'
    BY <1>1 DEF QuietInv, Agrees
<1>2. ASSUME changing # None, NEW c, CallInv(c) PROVE CallInv(c)'
    BY <1>2 DEF CallInv, SwitchInv, RollbackInv, LastInv, PendingInv, ActiveInv,
        Agrees, Made
<1> QED BY <1>1, <1>2 DEF MatchInv, Agrees

(* Clients touch neither the engine nor the stored connection *)
LEMMA ClientMatches == ASSUME IInv, MatchInv, Client PROVE MatchInv'
<1> USE NoneAssumption, CoreAssumption
<1>0. daemon = "serving" /\ mem \in State
    BY DEF Client, Begin, Cancel, SetCollapsed, RequestRestart, ReplyFailed, IInv, StoreInv
<1>1. ASSUME NEW kind \in Ops, Begin(kind) PROVE MatchInv'
    <2>1. changing' = NewChange(kind, status, mem)
          /\ UNCHANGED <<mem, status, torn, root>> /\ changing = None
        BY <1>1 DEF Begin, proc
    <2>2. /\ changing'.before = status /\ changing'.call = None
          /\ changing'.kind # "Restore" /\ changing'.result = None
        BY <2>1 DEF NewChange, ClientOps
    <2> QED BY <1>0, <2>1, <2>2 DEF MatchInv, QuietInv, Agrees
<1>2. CASE Cancel
    <2>1. /\ changing # None /\ changing' = [changing EXCEPT !.canceled = TRUE]
          /\ UNCHANGED <<mem, status, torn, reply, root, daemon>>
        BY <1>2 DEF Cancel, proc
    <2>2. changing \in Change /\ changing' \in Change
        BY <2>1 DEF IInv, ChangeInv, Change
    <2>3. changing' # None
        BY <2>2
    <2> QED BY <1>0, <2>1, <2>2, <2>3, SameMatches DEF Change
<1>3. ASSUME NEW sub \in Subs, SetCollapsed(sub) PROVE MatchInv'
    <2>1. mem'.active = mem.active /\ mem'.tun = mem.tun
        BY <1>0, <1>3 DEF SetCollapsed, Saved, State
    <2>2. UNCHANGED <<status, changing, torn, reply, root, daemon>>
        BY <1>3 DEF SetCollapsed, proc
    <2> QED BY <1>0, <2>1, <2>2, SameMatches
<1>4. ASSUME NEW id \in Requests, RequestRestart(id) \/ ReplyFailed(id) PROVE MatchInv'
    <2>1. UNCHANGED <<mem, status, changing, torn, reply, root, daemon>>
        BY <1>4 DEF RequestRestart, ReplyFailed, proc
    <2> QED BY <1>0, <2>1, SameMatches
<1> QED BY <1>1, <1>2, <1>3, <1>4 DEF Client

(* What begin records of the connection a change finds *)
LEMMA NewChangeFacts ==
    ASSUME NEW kind \in Kinds, NEW b \in Status, NEW s \in State
    PROVE  /\ NewChange(kind, b, s) # None /\ NewChange(kind, b, s).before = b
           /\ NewChange(kind, b, s).call = None /\ NewChange(kind, b, s).kind = kind
           /\ NewChange(kind, b, s).result = None
<1>1. NewChange(kind, b, s) \in Change
    BY DEF NewChange, Change
<1> QED BY <1>1, NoneAssumption DEF NewChange

(* main's own steps load a state without a connection, or leave it alone *)
LEMMA MainMatches == ASSUME IInv, PhaseInv, MatchInv, Main PROVE MatchInv'
<1> USE NoneAssumption
<1>1. CASE Launch \/ Elevate \/ Restarted
    <2>1. /\ status' = None /\ changing' # None /\ changing'.before = None
          /\ changing'.call = None /\ changing'.result = None /\ daemon' = "starting"
        <3>1. /\ status' = None /\ changing' = NewChange("Restore", None, disk)
              /\ disk \in State /\ None \in Status /\ "Restore" \in Kinds
              /\ daemon' = "starting"
            BY <1>1 DEF Launch, Elevate, Restarted, Load, IInv, StoreInv, Status, Kinds
        <3> QED BY <3>1, NewChangeFacts
    <2> QED BY <2>1 DEF MatchInv, QuietInv, Agrees
<1>2. CASE Crash \/ Stopped
    BY <1>2 DEF Crash, Stopped, MatchInv, Agrees
<1>3. CASE Restored
    BY <1>3 DEF Restored, PhaseInv, MatchInv, Agrees, IInv, RestInv, Results
<1>4. CASE ElevateFails
    <2>1. /\ status = None /\ changing'.before = None /\ changing'.call = None
          /\ status' = None /\ changing' # None /\ changing'.kind = "RestoreFailed"
          /\ changing'.result = None
        <3>1. /\ status' = None /\ changing' = NewChange("RestoreFailed", None, mem)
              /\ status = None /\ None \in Status /\ "RestoreFailed" \in Kinds
              /\ mem \in State
            BY <1>4 DEF ElevateFails, PhaseInv, Kinds, IInv, StoreInv, Status
        <3> QED BY <3>1, NewChangeFacts
    <2> QED BY <2>1 DEF MatchInv, QuietInv, Agrees
<1>5. CASE Recovered \/ \E to \in {"stopping", "restarting"} : Leave(to)
    <2>1. /\ changing' = IF changing = None THEN None
                         ELSE [changing EXCEPT !.canceled = TRUE]
          /\ UNCHANGED <<mem, status, torn, reply, root>>
          /\ daemon # "starting" /\ daemon' # "starting"
        BY <1>5 DEF Recovered, Leave
    <2>2. changing # None => changing \in Change /\ changing' \in Change
        BY <2>1 DEF IInv, ChangeInv, Change
    <2>3. (changing = None) <=> (changing' = None)
        BY <2>1, <2>2
    <2> QED BY <2>1, <2>2, <2>3, SameMatches DEF Change
<1> QED BY <1>1, <1>2, <1>3, <1>4, <1>5 DEF Main

(* The engine's answers: one step per kind of call *)
LEMMA EngineMatches == ASSUME IInv, MatchInv, Engine PROVE MatchInv'
<1> USE NoneAssumption, CoreAssumption
<1>1. /\ Calling /\ changing # None /\ changing.call # None /\ changing.result = None
      /\ UNCHANGED <<mem, root, daemon>> /\ changing \in Change
    BY DEF Engine, EngineStarts, EngineFails, EngineNeedsElevation, EngineStops,
        Calling, proc, IInv, ChangeInv
<1>c. PICK c \in Call : c = changing.call
    BY <1>1 DEF Change
<1> USE <1>c
<1>2. PICK result \in Results : Answer(result)
    BY DEF Engine, EngineStarts, EngineFails, EngineNeedsElevation, EngineStops,
        Results
<1>3. /\ changing' # None /\ changing'.call = c /\ changing'.result = result
      /\ changing'.before = changing.before /\ changing'.kind = changing.kind
      /\ changing'.prev = changing.prev /\ changing'.next = changing.next
    <2>1. changing' \in Change
        BY <1>1, <1>2 DEF Answer, Change
    <2> QED BY <1>1, <1>2, <2>1 DEF Answer, Change
<1>4. CallInv(c) /\ (changing.before # None /\ changing.before.tun => root)
    BY <1>1 DEF Change, MatchInv
<1>5. c.then \in {"switch", "pending"} => c.ref # None
    <2>1. /\ CallLive(changing) /\ FrameLive(changing.prev)
          /\ changing.prev.nodes \subseteq Nodes
        BY <1>1 DEF IInv, ChangeInv, Change, State
    <2>2. c.then = "switch" => c.ref = changing.next.active
        BY <1>4 DEF CallInv, SwitchInv, Made
    <2>3. c.then = "pending" => c.ref = changing.prev.pending.ref
        BY <1>4 DEF CallInv, PendingInv, Made
    <2> QED BY <1>1, <2>1, <2>2, <2>3 DEF CallLive, FrameLive
<1>6. \/ /\ c.ref # None /\ (c.tun => root) /\ status' = Made(c)
         /\ result = "ok" /\ torn' = torn
      \/ /\ c.ref # None /\ status' \in {status, None} /\ result = "failed"
         /\ c.then # "rollback" => torn' = torn
         /\ c.then = "rollback" /\ status' # None => torn'
         /\ ~torn' => ~torn
      \/ /\ c.ref # None /\ c.tun /\ ~root /\ status' = status
         /\ result = "elevate" /\ torn' = torn
      \/ /\ c.ref = None /\ status' = None /\ result # "elevate" /\ torn' = torn
    <2>1. CASE EngineStarts
        BY <1>1, <1>2, <1>3, <2>1 DEF Change, EngineStarts, Answer, Made
    <2>2. CASE EngineFails
        BY <1>1, <1>2, <1>3, <2>2 DEF Change, EngineFails, Answer, Tears, IInv, RestInv
    <2>3. CASE EngineNeedsElevation
        BY <1>1, <1>2, <1>3, <2>3 DEF Change, EngineNeedsElevation, Answer
    <2>4. CASE \E r \in Results : EngineStops(r)
        BY <1>1, <1>2, <1>3, <2>4 DEF Change, EngineStops, Answer
    <2> QED BY <2>1, <2>2, <2>3, <2>4 DEF Engine
<1>7. status' # None /\ status'.tun => root
    BY <1>6 DEF MatchInv, Made
<1>8. c.then = "switch" => SwitchInv(c)'
    BY <1>1, <1>3, <1>4, <1>5, <1>6 DEF CallInv, SwitchInv, Agrees, Made, Results
<1>9. c.then = "rollback" => RollbackInv(c)'
    <2> SUFFICES ASSUME c.then = "rollback" PROVE RollbackInv(c)'
        OBVIOUS
    <2>1. RollbackInv(c)
        BY <1>4 DEF CallInv
    <2>2. c.ref # None /\ c.tun => root
        <3>1. c.ref # None => Made(c) \in Running /\ Made(c).tun = c.tun
            BY DEF Made, Running, Call, Ref
        <3> QED BY <1>4, <2>1, <3>1 DEF RollbackInv
    <2>3. ~torn' => status' \in {changing.before, None}
        BY <1>6, <2>1, <2>2 DEF RollbackInv
    <2>4. ~torn' => ~torn
        BY <1>6
    <2> QED BY <1>1, <1>3, <2>1, <2>3, <2>4 DEF RollbackInv, Agrees, Made
<1>10. c.then = "last" => LastInv(c)'
    BY <1>1, <1>3, <1>4, <1>6 DEF CallInv, LastInv, Agrees, Made, Results
<1>11. c.then = "pending" => PendingInv(c)'
    BY <1>1, <1>3, <1>4, <1>5, <1>6 DEF CallInv, PendingInv, Made, Results
<1>12. c.then = "active" => ActiveInv(c)'
    BY <1>1, <1>3, <1>4, <1>6 DEF CallInv, ActiveInv, Made, Results
<1>13. CallInv(c)'
    BY <1>1, <1>3, <1>4, <1>8, <1>9, <1>10, <1>11, <1>12 DEF CallInv
<1> QED BY <1>1, <1>3, <1>4, <1>7, <1>13 DEF MatchInv

(* The part of an operation after its engine call *)
LEMMA ReturnMatches == ASSUME IInv, MatchInv, Return PROVE MatchInv'
<1> USE NoneAssumption, CoreAssumption
<1>1. /\ changing # None /\ changing.call # None /\ changing.result \in Results
      /\ UNCHANGED <<status, root, daemon>> /\ changing \in Change
    BY DEF Return, SwitchReturned, RollbackReturned, LastReturned, PendingReturned,
        ActiveReturned, Returned, IInv, ChangeInv, Change, proc
<1>2. /\ changing.prev \in State /\ FrameLive(changing.prev)
      /\ changing.next \in State /\ FrameLive(changing.next)
      /\ CallLive(changing)
    BY <1>1 DEF Change, IInv, ChangeInv
<1>c. PICK c \in Call : c = changing.call
    BY <1>1 DEF Change
<1>3. CallInv(c) /\ (changing.kind = "Restore" => daemon = "starting")
    BY <1>1, <1>c DEF MatchInv
<1>4. CASE SwitchReturned
    <2>1. SwitchInv(c)
        BY <1>3, <1>4, <1>c DEF SwitchReturned, Returned, CallInv
    <2>2. Verdict(changing.result) = "ok" => Agrees(status, changing.next)
        BY <2>1 DEF Verdict, SwitchInv, Agrees, Made
    <2>3. Verdict(changing.result) = "elevate" => status = changing.before
        BY <2>1 DEF Verdict, SwitchInv
    <2>4. /\ Agrees(changing.before, changing.prev)
          /\ ~torn => Agrees(changing.before, mem)
        BY <2>1 DEF SwitchInv
    <2>5. FinishConnection(changing.prev, changing.next, changing.result)
        BY <1>4 DEF SwitchReturned
    <2> QED BY <1>1, <1>2, <2>2, <2>3, <2>4, <2>5, FinishConnectionMatches
<1>5. CASE RollbackReturned
    <2>1. ~torn' => Agrees(status, mem')
        BY <1>1, <1>3, <1>5, <1>c DEF RollbackReturned, Returned, CallInv, RollbackInv, Agrees,
            Results
    <2> QED BY <1>1, <1>5, <2>1, FinishMatches DEF RollbackReturned
<1>6. CASE LastReturned
    <2>1. ~torn' => Agrees(status, mem')
        BY <1>1, <1>3, <1>6, <1>c DEF LastReturned, Returned, CallInv, LastInv, Agrees, Results
    <2> QED BY <1>1, <1>6, <2>1, FinishMatches DEF LastReturned
<1>7. CASE ActiveReturned
    <2>1. Agrees(status, mem')
        BY <1>1, <1>3, <1>7, <1>c DEF ActiveReturned, Returned, CallInv, ActiveInv, Agrees, Made
    <2> QED BY <1>1, <1>7, <2>1, FinishMatches DEF ActiveReturned
<1>8. CASE PendingReturned
    <2> DEFINE p == changing.prev
    <2>1. PendingInv(c) /\ daemon = "starting" /\ p.pending # None
          /\ changing.kind = "Restore"
        BY <1>2, <1>3, <1>8, <1>c DEF PendingReturned, Returned, CallInv, CallLive
    <2>2. CASE Finish("elevate") \/ Finish("failed")
        BY <1>1, <2>1, <2>2, FinishMatches
    <2>3. CASE Saved(Resolved(p)) /\ RestoreActive(mem')
        <3> PICK m \in State : m = mem'
            <4>1. Resolved(p) \in State
                BY <1>2, <2>1 DEF Resolved, Collapse, State, Pending, IInv, StoreInv
            <4> QED BY <2>3, <4>1 DEF Saved
        <3>1. status # None => m.active = status.ref /\ m.tun = status.tun
            BY <1>2, <2>1, <2>3 DEF PendingInv, Saved, Resolved, Collapse, State, Made
        <3>2. CASE Finish("ok")
            BY <1>1, <3>1, <3>2, FinishMatches DEF Agrees
        <3>3. CASE status = None /\ Continue(m, m, Start(m.active, m.tun, "active"))
                   /\ Found(m, m.active)
            <4> DEFINE d == Start(m.active, m.tun, "active")
            <4>1. /\ d \in Call /\ d.then = "active"
                  /\ Made(d) = [ref |-> m.active, tun |-> m.tun]
                BY <3>3 DEF Start, Call, Steps, Found, State, Made
            <4>2. Continue(m, m, d)
                BY <3>3
            <4> HIDE DEF d
            <4> QED BY <1>1, <2>1, <3>3, <4>1, <4>2, ContinueMatches
        <3> QED BY <2>3, <3>2, <3>3 DEF RestoreActive
    <2> QED BY <1>8, <2>2, <2>3 DEF PendingReturned
<1> QED BY <1>4, <1>5, <1>6, <1>7, <1>8 DEF Return

(* The actions that make their first engine call, or end without one *)
LEMMA SwitchMatches ==
    ASSUME IInv, MatchInv,
           \/ \E ref \in Nodes, mode \in BOOLEAN \cup {None} : RunConnect(ref, mode)
           \/ \E tun \in BOOLEAN : RunSetTun(tun)
    PROVE  MatchInv'
<1> USE NoneAssumption, CoreAssumption
<1>1. /\ changing # None /\ ~Calling /\ changing \in Change /\ changing.call = None
      /\ changing.kind \in {"Connect", "SetTun"} /\ ~changing.canceled
      /\ UNCHANGED <<status, root, daemon>>
    BY DEF RunConnect, RunSetTun, Runs, Calling, IInv, ChangeInv, proc
<1>2. QuietInv
    BY <1>1 DEF MatchInv
<1>3. Previous \in State /\ FrameLive(Previous) /\ Agrees(status, Previous)
    <2>1. Agrees(status, Previous)
        BY DEF Previous, Agrees, IInv, StoreInv, State
    <2> QED BY <1>1, <2>1, PreviousKeeps
<1>4. ASSUME Finish("failed"), UNCHANGED <<mem, torn>> PROVE MatchInv'
    BY <1>1, <1>2, <1>4, FinishMatches DEF QuietInv
<1>5. ASSUME NEW p \in State, NEW q \in State, NEW c \in Call, c.then = "switch",
             Made(c) = [ref |-> q.active, tun |-> q.tun], Agrees(status, p),
             UNCHANGED <<mem, torn>>,
             changing' = [changing EXCEPT !.before = status, !.prev = p, !.next = q,
                                          !.call = c]
      PROVE  MatchInv'
    <2>1. status \in Status /\ changing.result = None
        BY <1>1, <1>2 DEF IInv, EngineInv, MatchInv, QuietInv
    <2>2. changing' \in Change
        BY <1>1, <1>5, <2>1 DEF Change
    <2>3. /\ changing' # None /\ changing'.before = status /\ changing'.prev = p
          /\ changing'.next = q /\ changing'.call = c /\ changing'.result = None
          /\ changing'.kind = changing.kind
        BY <1>1, <1>5, <2>1, <2>2 DEF Change
    <2>4. SwitchInv(c)'
        BY <1>1, <1>2, <1>5, <2>3 DEF SwitchInv, QuietInv, Agrees, Made, Results
    <2>5. CallInv(c)'
        BY <1>1, <1>5, <2>3, <2>4 DEF CallInv
    <2> QED BY <1>1, <2>3, <2>5 DEF MatchInv
<1>6. ASSUME NEW ref \in Nodes, NEW mode \in BOOLEAN \cup {None}, RunConnect(ref, mode)
      PROVE  MatchInv'
    <2> DEFINE tun  == IF mode = None THEN Previous.tun ELSE mode
               next == [Previous EXCEPT !.active = ref, !.last = ref, !.tun = tun]
               c    == Start(ref, tun, "switch")
    <2>1. UNCHANGED <<mem, torn>>
        BY <1>6 DEF RunConnect
    <2>2. CASE ~Found(mem, ref)
        BY <1>4, <1>6, <2>1, <2>2 DEF RunConnect
    <2>3. CASE Found(mem, ref)
        <3>1. tun \in BOOLEAN
            BY <1>3 DEF State
        <3>2. changing' = [changing EXCEPT !.before = status, !.prev = Previous,
                                           !.next = next, !.call = c]
            BY <1>6, <2>3 DEF RunConnect
        <3> HIDE DEF tun
        <3>3. next \in State /\ next.active = ref /\ next.tun = tun
            BY <1>3, <3>1 DEF State, Ref
        <3>4. /\ c \in Call /\ c.then = "switch"
              /\ Made(c) = [ref |-> next.active, tun |-> next.tun]
            BY <3>1, <3>3 DEF Start, Call, Steps, Ref, Made
        <3> HIDE DEF next, c
        <3> QED BY <1>3, <1>5, <2>1, <3>2, <3>3, <3>4
    <2> QED BY <2>2, <2>3
<1>7. ASSUME NEW tun \in BOOLEAN, RunSetTun(tun) PROVE MatchInv'
    <2> DEFINE next == [Previous EXCEPT !.tun = tun]
               c    == Start(status.ref, tun, "switch")
    <2>1. /\ next \in State /\ FrameLive(next)
          /\ next.active = Previous.active /\ next.tun = tun
        BY <1>3 DEF State, FrameLive
    <2>2. CASE /\ status = None \/ status.tun = tun
               /\ FinishConnection(Previous, next, "ok")
        <3>1. Agrees(status, next)
            BY <1>3, <2>1, <2>2 DEF Agrees
        <3>2. Agrees(changing.before, Previous) /\ (~torn => Agrees(changing.before, mem))
            BY <1>2, <1>3 DEF QuietInv
        <3>3. Verdict("ok") # "elevate"
            BY DEF Verdict
        <3> HIDE DEF next
        <3> QED BY <1>1, <1>3, <2>1, <2>2, <3>1, <3>2, <3>3, FinishConnectionMatches
    <2>3. CASE Finish("failed") /\ UNCHANGED <<mem, torn>>
        BY <1>4, <2>3
    <2>4. CASE /\ status # None /\ UNCHANGED <<mem, torn>>
               /\ changing' = [changing EXCEPT !.before = status, !.prev = Previous,
                                               !.next = next, !.call = c]
        <3>1. status \in Running
            BY <2>4 DEF IInv, EngineInv, Status
        <3>2. /\ c \in Call /\ c.then = "switch"
              /\ Made(c) = [ref |-> next.active, tun |-> next.tun]
            BY <1>3, <2>1, <2>4, <3>1 DEF Start, Call, Steps, Ref, Running, Made, Agrees
        <3> HIDE DEF next, c
        <3> QED BY <1>3, <1>5, <2>1, <2>4, <3>2
    <2> QED BY <1>7, <2>2, <2>3, <2>4 DEF RunSetTun
<1> QED BY <1>6, <1>7

(* A commit that ends the change or drops the connection *)
LEMMA DropMatches ==
    ASSUME IInv, MatchInv, changing # None, UNCHANGED <<status, root, daemon, torn>>,
           changing.kind \notin {"Connect", "SetTun"},
           NEW s \in State, mem' = s, NEW drop \in BOOLEAN,
           ~drop /\ ~torn => Agrees(status, s),
           FinishDrop(s, drop)
    PROVE  MatchInv'
<1>1. CASE drop
    <2> DEFINE c == Stop("last")
    <2>1. c \in Call /\ c.ref = None /\ c.then = "last"
        BY DEF Stop, Call, Steps, Ref
    <2>2. Continue(s, s, c)
        BY <1>1 DEF FinishDrop
    <2> HIDE DEF c
    <2> QED BY <2>1, <2>2, ContinueMatches
<1>2. CASE ~drop
    <2>1. Finish("ok") /\ (~torn' => Agrees(status, mem'))
        BY <1>2 DEF FinishDrop, Agrees
    <2> QED BY <2>1, FinishMatches
<1> QED BY <1>1, <1>2

(* A removal that leaves the live connection alone leaves the stored one *)
LEMMA SanitizedMatches ==
    ASSUME IInv, ~Calling, NEW s \in State, NEW sub \in Subs,
           mem.nodes \ NodesOf({sub}) \subseteq s.nodes,
           Agrees(status, s), ~DropsConnection(s, sub)
    PROVE  Agrees(status, Sanitized(s, sub)) /\ (status # None => status.ref \in s.nodes)
<1> USE NoneAssumption, CoreAssumption
<1>1. status # None => status.ref \in s.nodes
    BY DEF DropsConnection, IInv, EngineInv, NoOrphanConnection, Status, Running, NodesOf
<1> QED BY <1>1 DEF Sanitized, Agrees, State

(* Disconnect, the edits of the list and a refresh *)
LEMMA EditMatches ==
    ASSUME IInv, MatchInv,
           \/ RunCanceled \/ RunDisconnect
           \/ \E sub \in Subs, nodes \in SUBSET Nodes :
                 RunAddSubscription(sub, nodes) \/ RunRefresh(sub, nodes)
           \/ \E sub \in Subs : RunRemoveSubscription(sub)
           \/ \E node \in Nodes : RunRemoveNode(node)
    PROVE  MatchInv'
<1> USE NoneAssumption, CoreAssumption
<1>1. /\ changing # None /\ ~Calling /\ changing.call = None
      /\ UNCHANGED <<status, root, daemon, torn>>
    BY DEF RunCanceled, RunDisconnect, RunAddSubscription, RunRefresh,
        RunRemoveSubscription, RunRemoveNode, Runs, Calling, proc
<1> USE <1>1
<1>2. mem \in State /\ (~torn => Agrees(status, mem))
    BY DEF IInv, StoreInv, MatchInv, QuietInv
<1>3. ASSUME NEW err, Finish(err), Agrees(status, mem) => Agrees(status, mem')
      PROVE  MatchInv'
    BY <1>2, <1>3, FinishMatches
<1>4. CASE RunCanceled
    BY <1>3, <1>4 DEF RunCanceled
<1>5. CASE RunDisconnect
    <2> DEFINE s == [mem EXCEPT !.active = None, !.pending = None]
    <2>1. s \in State
        BY <1>2 DEF State, Ref
    <2>2. \/ mem' = s /\ FinishDrop(mem', TRUE)
          \/ UNCHANGED mem /\ Finish("failed")
        BY <1>5 DEF RunDisconnect, Saved, SaveFailed
    <2>3. changing.kind \notin {"Connect", "SetTun"}
        BY <1>5 DEF RunDisconnect, Runs
    <2> HIDE DEF s
    <2>4. CASE mem' = s /\ FinishDrop(mem', TRUE)
        BY <2>1, <2>3, <2>4, DropMatches
    <2> QED BY <1>3, <2>2, <2>4
<1>6. ASSUME NEW sub \in Subs, NEW nodes \in SUBSET Nodes,
             RunAddSubscription(sub, nodes)
      PROVE  MatchInv'
    <2>1. Agrees(status, mem) => Agrees(status, mem')
        BY <1>2, <1>6 DEF RunAddSubscription, Saved, SaveFailed, State, Agrees
    <2>2. Finish("ok") \/ Finish("failed")
        BY <1>6 DEF RunAddSubscription
    <2> QED BY <1>3, <2>1, <2>2
<1>7. ASSUME NEW s \in State, NEW sub \in Subs, Remove(s, sub), Live(mem),
             changing.kind \notin {"Connect", "SetTun"},
             mem.nodes \ s.nodes \subseteq NodesOf({sub}),
             s.nodes \subseteq NodesOf(s.subs), s.collapsed \subseteq s.subs,
             s.active = mem.active, s.last = mem.last, s.pending = mem.pending,
             s.tun = mem.tun
      PROVE  MatchInv'
    <2> DEFINE kept == Sanitized(s, sub)
               drop == DropsConnection(s, sub)
    <2>1. kept \in State
        <3>1. s.pending # None => s.pending.ref # None
            BY <1>2, <1>7 DEF Live, State
        <3>2. \A ref \in Nodes \ s.nodes :
                 \/ SubOf[ref] = sub
                 \/ /\ ref # s.active /\ ref # s.last
                    /\ s.pending # None => ref # s.pending.ref
            BY <1>7 DEF Live, NodesOf
        <3> QED BY <1>7, <3>1, <3>2, SanitizedKeeps
    <2>2. ~drop /\ ~torn => Agrees(status, kept)
        BY <1>2, <1>7, SanitizedMatches DEF Agrees, NodesOf
    <2>3. drop \in BOOLEAN
        BY DEF DropsConnection
    <2>4. \/ mem' = kept /\ FinishDrop(mem', drop)
          \/ UNCHANGED mem /\ Finish("failed")
        BY <1>7 DEF Remove, Saved, SaveFailed
    <2> HIDE DEF kept, drop
    <2>5. CASE mem' = kept /\ FinishDrop(mem', drop)
        <3> PICK k \in State : k = kept
            BY <2>1
        <3> QED BY <1>7, <2>2, <2>3, <2>5, DropMatches
    <2> QED BY <1>3, <2>4, <2>5
<1>8. ASSUME NEW sub \in Subs, RunRemoveSubscription(sub) PROVE MatchInv'
    <2> DEFINE s == [mem EXCEPT !.subs = @ \ {sub}, !.nodes = @ \ NodesOf({sub}),
                                !.collapsed = @ \ {sub}]
    <2>1. /\ s \in State /\ s.nodes = mem.nodes \ NodesOf({sub})
          /\ s.subs = mem.subs \ {sub} /\ s.collapsed = mem.collapsed \ {sub}
          /\ s.active = mem.active /\ s.last = mem.last /\ s.pending = mem.pending
          /\ s.tun = mem.tun
        BY <1>2 DEF State
    <2>2. /\ Remove(s, sub) \/ (UNCHANGED mem /\ Finish("failed"))
          /\ changing.kind \notin {"Connect", "SetTun"}
        BY <1>8 DEF RunRemoveSubscription, Runs
    <2> HIDE DEF s
    <2>3. Live(mem) /\ mem.nodes \ s.nodes \subseteq NodesOf({sub})
          /\ s.nodes \subseteq NodesOf(s.subs) /\ s.collapsed \subseteq s.subs
        BY <2>1 DEF IInv, StoreInv, Live, NodesOf
    <2> QED BY <1>3, <1>7, <2>1, <2>2, <2>3
<1>9. ASSUME NEW node \in Nodes, RunRemoveNode(node) PROVE MatchInv'
    <2> DEFINE s == [mem EXCEPT !.nodes = @ \ {node}]
    <2>1. /\ s \in State /\ s.nodes = mem.nodes \ {node}
          /\ s.subs = mem.subs /\ s.collapsed = mem.collapsed
          /\ s.active = mem.active /\ s.last = mem.last /\ s.pending = mem.pending
          /\ s.tun = mem.tun
        BY <1>2 DEF State
    <2>2. /\ Remove(s, SubOf[node]) \/ (UNCHANGED mem /\ Finish("failed"))
          /\ changing.kind \notin {"Connect", "SetTun"}
        BY <1>9 DEF RunRemoveNode, Runs
    <2> HIDE DEF s
    <2>3. Live(mem) /\ mem.nodes \ s.nodes \subseteq NodesOf({SubOf[node]})
          /\ s.nodes \subseteq NodesOf(s.subs) /\ s.collapsed \subseteq s.subs
          /\ SubOf[node] \in Subs
        BY <2>1 DEF IInv, StoreInv, Live, NodesOf
    <2> QED BY <1>3, <1>7, <2>1, <2>2, <2>3
<1>10. ASSUME NEW sub \in Subs, NEW nodes \in SUBSET Nodes, RunRefresh(sub, nodes)
       PROVE  MatchInv'
    <2> DEFINE fetched == [mem EXCEPT !.nodes = (@ \ NodesOf({sub})) \cup nodes]
               next    == Sanitized(fetched, sub)
               drop    == DropsConnection(fetched, sub)
               c       == Start(status.ref, status.tun, "last")
    <2>1. changing.kind \notin {"Connect", "SetTun"}
        BY <1>10 DEF RunRefresh, Runs
    <2>2. CASE UNCHANGED mem /\ Finish("failed")
        BY <1>3, <2>2
    <2>3. CASE /\ mem' = next
               /\ IF ~drop /\ status # None /\ SubOf[status.ref] = sub
                  THEN Continue(next, next, c)
                  ELSE FinishDrop(next, drop)
        <3>1. /\ fetched \in State /\ fetched.active = mem.active
              /\ fetched.tun = mem.tun
              /\ mem.nodes \ NodesOf({sub}) \subseteq fetched.nodes
            BY <1>2 DEF State
        <3>2. Agrees(status, mem) => Agrees(status, fetched)
            BY <3>1 DEF Agrees
        <3>3. drop \in BOOLEAN
            BY DEF DropsConnection
        <3>4. ~drop /\ ~torn => Agrees(status, next)
            BY <1>2, <3>1, <3>2, SanitizedMatches
        <3>5. next \in State
            BY <3>1 DEF Sanitized, State, Ref
        <3> HIDE DEF next, drop
        <3> PICK n \in State : n = next
            BY <3>5
        <3>6. CASE ~drop /\ status # None /\ Continue(n, n, c)
            <4>1. c \in Call /\ c.then = "last" /\ c.ref = status.ref /\ c.tun = status.tun
                BY <3>6 DEF Start, Call, Steps, Ref, IInv, EngineInv, Status, Running
            <4>2. ~torn' => /\ c.ref = mem'.active /\ c.tun = mem'.tun
                            /\ Agrees(status, mem')
                BY <2>3, <3>4, <3>6, <4>1 DEF Agrees
            <4> HIDE DEF c
            <4> QED BY <2>1, <3>6, <4>1, <4>2, ContinueMatches
        <3>7. CASE FinishDrop(n, drop)
            BY <2>1, <2>3, <3>3, <3>4, <3>7, DropMatches
        <3> QED BY <2>3, <3>6, <3>7
    <2> QED BY <1>10, <2>2, <2>3 DEF RunRefresh, Saved, SaveFailed
<1> QED BY <1>4, <1>5, <1>6, <1>8, <1>9, <1>10

(* Restore and RestoreFailed up to their engine call *)
LEMMA RestoreMatches ==
    ASSUME IInv, PhaseInv, MatchInv, RunRestore \/ RunRestoreFailed PROVE MatchInv'
<1> USE NoneAssumption, CoreAssumption
<1>1. /\ changing # None /\ ~Calling /\ changing.call = None
      /\ UNCHANGED <<status, root, daemon, torn>>
      /\ changing.kind = "Restore" \/ changing.kind = "RestoreFailed"
    BY DEF RunRestore, RunRestoreFailed, Runs, Calling, proc
<1> USE <1>1
<1>2. mem \in State /\ (~torn => Agrees(status, mem))
    BY DEF IInv, StoreInv, MatchInv, QuietInv
<1>3. ASSUME NEW err, Finish(err), mem'.active = mem.active, mem'.tun = mem.tun
      PROVE  MatchInv'
    BY <1>2, <1>3, FinishMatches DEF Agrees
<1> DEFINE s == [mem EXCEPT !.pending = None]
<1>4. s \in State /\ s.active = mem.active /\ s.tun = mem.tun
    BY <1>2 DEF State
<1> HIDE DEF s
<1>5. ASSUME NEW m \in State, mem'.active = m.active, mem'.tun = m.tun,
             m.active = mem.active, m.tun = mem.tun, RestoreActive(m)
      PROVE  MatchInv'
    <2> DEFINE c == Start(m.active, m.tun, "active")
    <2>1. CASE status = None /\ Found(m, m.active) /\ Continue(m, m, c)
        <3>1. /\ c \in Call /\ c.then = "active"
              /\ Made(c) = [ref |-> m.active, tun |-> m.tun]
            BY <2>1 DEF Start, Call, Steps, Found, State, Made
        <3>2. changing.kind \notin {"Connect", "SetTun"}
            OBVIOUS
        <3> HIDE DEF c
        <3> QED BY <1>5, <2>1, <3>1, <3>2, ContinueMatches
    <2>2. CASE Finish("ok")
        BY <1>3, <1>5, <2>2
    <2> QED BY <1>5, <2>1, <2>2 DEF RestoreActive
<1>6. CASE RunRestore
    <2>1. CASE UNCHANGED mem /\ (Finish("failed") \/ RestoreActive(mem))
        <3> PICK m \in State : m = mem
            BY <1>2
        <3> QED BY <1>3, <1>5, <2>1
    <2>2. CASE mem' = s /\ RestoreActive(mem')
        BY <1>4, <1>5, <2>2
    <2>3. CASE /\ mem.pending # None /\ Found(mem, mem.pending.ref) /\ UNCHANGED mem
               /\ Continue(mem, mem,
                           Start(mem.pending.ref, mem.pending.tun, "pending"))
        <3> PICK m \in State : m = mem
            BY <1>2
        <3> DEFINE c == Start(m.pending.ref, m.pending.tun, "pending")
        <3>1. /\ c \in Call /\ c.then = "pending"
              /\ Made(c) = [ref |-> m.pending.ref, tun |-> m.pending.tun]
            BY <1>2, <2>3 DEF Start, Call, Steps, Found, State, Pending, Made
        <3>2. Continue(m, m, c)
            BY <2>3
        <3>3. status = None /\ changing.kind = "Restore"
            BY <1>6 DEF RunRestore, Runs, MatchInv, PhaseInv
        <3> HIDE DEF c
        <3> QED BY <3>1, <3>2, <3>3, ContinueMatches
    <2> QED BY <1>6, <2>1, <2>2, <2>3 DEF RunRestore, Saved, SaveFailed, s
<1>7. CASE RunRestoreFailed
    <2>1. mem' = mem \/ mem' = s
        BY <1>7 DEF RunRestoreFailed, Saved, SaveFailed, s
    <2>2. mem'.active = mem.active /\ mem'.tun = mem.tun
        BY <1>4, <2>1
    <2>3. CASE ~mem.tun /\ Continue(mem, mem, Start(mem.active, FALSE, "last"))
        <3> PICK m \in State : m = mem
            BY <1>2
        <3> DEFINE c == Start(m.active, FALSE, "last")
        <3>1. c \in Call /\ c.then = "last" /\ c.ref = m.active /\ c.tun = FALSE
            BY DEF Start, Call, Steps, State
        <3>2. Continue(m, m, c)
            BY <2>3
        <3>3. m.tun = FALSE
            BY <2>3 DEF State
        <3>4. c.ref # None /\ ~torn' =>
                  c.ref = mem'.active /\ c.tun = mem'.tun /\ Agrees(status, mem')
            BY <1>2, <2>2, <3>1, <3>3 DEF Agrees
        <3> HIDE DEF c
        <3> QED BY <3>1, <3>2, <3>4, ContinueMatches
    <2> QED BY <1>3, <1>7, <2>2, <2>3 DEF RunRestoreFailed
<1> QED BY <1>6, <1>7

----------------------------------------------------------------------------
(* Theorems *)

(* What each engine call may have done is inductive, given the rest *)
THEOREM SwitchInvariant == Spec => [](IInv /\ PhaseInv /\ MatchInv)
<1>1. Init => MatchInv
    BY DEF Init, MatchInv, Agrees
<1>2. IInv /\ PhaseInv /\ MatchInv /\ [Next]_vars => MatchInv'
    <2> SUFFICES ASSUME IInv, PhaseInv, MatchInv, [Next]_vars PROVE MatchInv'
        OBVIOUS
    <2>1. CASE Next
        <3>1. Action => MatchInv'
            BY SwitchMatches, EditMatches, RestoreMatches DEF Action
        <3> QED BY <2>1, <3>1, ClientMatches, ReturnMatches, EngineMatches, MainMatches
                DEF Next
    <2>2. CASE UNCHANGED vars
        <3> USE <2>2 DEF vars
        <3>1. QuietInv => QuietInv'
            BY DEF QuietInv, Agrees
        <3>2. ASSUME NEW c, CallInv(c) PROVE CallInv(c)'
            BY <3>2 DEF CallInv, SwitchInv, RollbackInv, LastInv, PendingInv, ActiveInv,
                Agrees, Made
        <3> QED BY <3>1, <3>2 DEF MatchInv, Agrees
    <2> QED BY <2>1, <2>2
<1> QED BY Invariant, <1>1, <1>2, PTL DEF Spec

(* While it serves, between changes, what runs is what the file would        *)
(* restore, unless a rollback failed                                        *)
THEOREM ConnectionMatches == Spec => []ConnectionMatchesState
<1>1. MatchInv => ConnectionMatchesState
    BY DEF MatchInv, Agrees, ConnectionMatchesState
<1> QED BY SwitchInvariant, <1>1, PTL

(* finishConnection, when it ends the change, ends it as promised *)
LEMMA FinishConnectionEnds ==
    ASSUME IInv, changing # None, status' = status, changing' = None,
           NEW p \in State, NEW q \in State, FrameLive(p), FrameLive(q),
           Agrees(changing.before, p), NEW result,
           Verdict(result) = "ok" => Agrees(status, q),
           Verdict(result) = "elevate" => status = changing.before /\ ~root,
           FinishConnection(p, q, result)
    PROVE  SwitchEnded
<1> USE NoneAssumption, CoreAssumption
<1> DEFINE prev == Collapse(p)
           next == Collapse(q)
<1>1. /\ prev \in State /\ FrameLive(prev) /\ Agrees(changing.before, prev)
      /\ next \in State /\ (Agrees(status, q) => Agrees(status, next))
    BY CollapseKeeps DEF IInv, Agrees, Collapse, State
<1> HIDE DEF prev, next
<1>2. ASSUME NEW s \in State, Saved(s), Agrees(status, s) PROVE RunsStored
    <2>1. disk'.active = s.active /\ disk'.tun = s.tun
        BY <1>2 DEF Saved, Stored, State
    <2> QED BY <1>2, <2>1 DEF RunsStored, Agrees, IInv, EngineInv, Status, Running
<1>3. CASE Verdict(result) = "ok" /\ Saved(next) /\ Finish("ok")
    BY <1>1, <1>2, <1>3 DEF SwitchEnded, Finish, Verdict
<1>4. CASE Rollback(prev, next)
    <2>1. changing.before # None => Found(prev, changing.before.ref)
        BY <1>1 DEF Found, FrameLive, Agrees, IInv, ChangeInv, Change, Status, Running
    <2>2. ASSUME NEW c \in Call, Continue(prev, next, c) PROVE FALSE
        <3>1. changing \in Change
            BY DEF IInv, ChangeInv
        <3>2. changing' \in Change
            BY <1>1, <2>2, <3>1 DEF Continue, Change
        <3> QED BY <3>2
    <2>3. Stop("rollback") \in Call
        BY DEF Stop, Call, Steps, Ref
    <2>4. changing.before # None =>
              Start(changing.before.ref, changing.before.tun, "rollback") \in Call
        BY DEF Start, Call, Steps, Ref, IInv, ChangeInv, Change, Status, Running
    <2>5. Finish("failed") /\ status = changing.before
        BY <1>4, <2>1, <2>2, <2>3, <2>4 DEF Rollback
    <2> QED BY <2>5 DEF SwitchEnded, Finish
<1>5. ASSUME Verdict(result) = "elevate", Finish("elevate"),
             NEW id \in Requests,
             Saved([prev EXCEPT !.pending =
                       [ref |-> next.active, tun |-> next.tun, id |-> id]])
      PROVE  SwitchEnded
    <2> DEFINE w == [ref |-> next.active, tun |-> next.tun, id |-> id]
               s == [prev EXCEPT !.pending = w]
    <2>1. w \in Pending
        BY <1>1 DEF Pending, State
    <2> HIDE DEF w
    <2>2. /\ s \in State /\ s.pending # None /\ s.active = prev.active
          /\ s.tun = prev.tun
        BY <1>1, <2>1 DEF State
    <2>3. Saved(s)
        BY <1>5 DEF w
    <2> HIDE DEF s
    <2>4. disk'.pending # None
        <3>1. s.pending \in Pending
            BY <2>2 DEF State
        <3> DEFINE d == [ref |-> s.pending.ref, tun |-> s.pending.tun, id |-> None]
        <3>2. d \in Pending
            BY <3>1 DEF Pending
        <3>3. disk' = [s EXCEPT !.pending = d]
            BY <2>2, <2>3 DEF Saved, Stored
        <3> QED BY <2>2, <3>2, <3>3 DEF State
    <2>5. RunsStored
        BY <1>1, <1>2, <1>5, <2>2, <2>3 DEF Agrees
    <2> QED BY <1>5, <2>4, <2>5 DEF SwitchEnded, Finish
<1> QED BY <1>3, <1>4, <1>5 DEF FinishConnection, prev, next

(* Connect and SetTun that reached the engine have not ended *)
LEMMA SwitchStarts ==
    ASSUME IInv, changing # None, NEW p \in State, NEW q \in State,
           NEW call \in Call,
           changing' = [changing EXCEPT !.before = status, !.prev = p, !.next = q,
                                        !.call = call]
    PROVE  changing' # None
<1>1. status \in Status /\ changing \in Change
    BY DEF IInv, ChangeInv, EngineInv
<1>2. changing' \in Change
    BY <1>1 DEF Change
<1> QED BY <1>2, NoneAssumption

(* Every step that ends a switch ends it in one of the promised ways *)
THEOREM SwitchEnding == Spec => SwitchEnds
<1> DEFINE Ends == /\ changing # None /\ changing.kind \in {"Connect", "SetTun"}
                   /\ changing' = None /\ daemon' = daemon
<1>1. ASSUME IInv, PhaseInv, MatchInv, Next, Ends PROVE SwitchEnded
    <2> USE <1>1, NoneAssumption, CoreAssumption
    <2>1. /\ changing \in Change
          /\ changing.call = None => QuietInv
          /\ changing.call # None => CallInv(changing.call)
        BY DEF IInv, ChangeInv, MatchInv
    <2>2. CASE Finish("failed") /\ status' = status /\ changing.call = None
        BY <2>1, <2>2 DEF QuietInv, SwitchEnded, Finish
    <2>3. CASE RunCanceled
        BY <2>2, <2>3 DEF RunCanceled
    <2>4. ASSUME NEW ref \in Nodes, NEW mode \in BOOLEAN \cup {None},
                 RunConnect(ref, mode)
          PROVE  SwitchEnded
        <3> DEFINE tun  == IF mode = None THEN Previous.tun ELSE mode
                   next == [Previous EXCEPT !.active = ref, !.last = ref, !.tun = tun]
        <3>1. Previous \in State
            BY <2>4, PreviousKeeps DEF RunConnect, Runs, Calling
        <3>2. tun \in BOOLEAN /\ next \in State
            BY <3>1 DEF State, Ref
        <3>3. \/ Finish("failed") /\ status' = status /\ changing.call = None
              \/ changing' = [changing EXCEPT !.before = status, !.prev = Previous,
                                   !.next = next, !.call = Start(ref, tun, "switch")]
            BY <2>4 DEF RunConnect, Runs
        <3>4. Start(ref, tun, "switch") \in Call
            BY <3>2 DEF Start, Call, Steps, Ref
        <3> HIDE DEF next, tun
        <3> QED BY <2>2, <3>1, <3>2, <3>3, <3>4, SwitchStarts
    <2>5. ASSUME NEW tun \in BOOLEAN, RunSetTun(tun) PROVE SwitchEnded
        <3> DEFINE next == [Previous EXCEPT !.tun = tun]
        <3>1. Previous \in State /\ FrameLive(Previous)
            BY <2>5, PreviousKeeps DEF RunSetTun, Runs, Calling
        <3>2. next \in State /\ FrameLive(next)
            BY <3>1 DEF State, FrameLive
        <3>3. Agrees(status, Previous)
            BY DEF Previous, Agrees, IInv, StoreInv, State
        <3>4. changing.call = None /\ ~changing.canceled /\ status' = status
            BY <2>5 DEF RunSetTun, Runs
        <3>5. CASE /\ status = None \/ status.tun = tun
                   /\ FinishConnection(Previous, next, "ok")
            <4>1. Agrees(status, next)
                BY <3>1, <3>3, <3>5 DEF Agrees, State
            <4>2. Agrees(changing.before, Previous)
                BY <2>1, <3>3, <3>4 DEF QuietInv
            <4>3. Verdict("ok") # "elevate"
                BY DEF Verdict
            <4> HIDE DEF next
            <4> QED BY <3>1, <3>2, <3>4, <3>5, <4>1, <4>2, <4>3, FinishConnectionEnds
        <3>6. CASE /\ status # None
                   /\ changing' = [changing EXCEPT !.before = status, !.prev = Previous,
                                        !.next = next,
                                        !.call = Start(status.ref, tun, "switch")]
            <4>1. status.ref \in Nodes
                BY <3>6 DEF IInv, EngineInv, Status, Running
            <4>2. Start(status.ref, tun, "switch") \in Call
                BY <4>1 DEF Start, Call, Steps, Ref
            <4> HIDE DEF next
            <4>3. changing' # None
                BY <3>1, <3>2, <3>6, <4>2, SwitchStarts
            <4> QED BY <4>3
        <3> QED BY <2>2, <2>5, <3>4, <3>5, <3>6 DEF RunSetTun
    <2>6. CASE SwitchReturned
        <3>1. SwitchInv(changing.call) /\ changing.call # None /\ status' = status
            BY <2>1, <2>6 DEF SwitchReturned, Returned, CallInv
        <3>2. /\ changing.prev \in State /\ FrameLive(changing.prev)
              /\ changing.next \in State /\ FrameLive(changing.next)
            BY <2>1 DEF Change, IInv, ChangeInv
        <3>3. Verdict(changing.result) = "ok" => Agrees(status, changing.next)
            BY <3>1 DEF Verdict, SwitchInv, Agrees, Made
        <3>4. Verdict(changing.result) = "elevate" => status = changing.before /\ ~root
            BY <3>1 DEF Verdict, SwitchInv
        <3>5. Agrees(changing.before, changing.prev)
            BY <3>1 DEF SwitchInv
        <3>6. FinishConnection(changing.prev, changing.next, changing.result)
            BY <2>6 DEF SwitchReturned
        <3> QED BY <3>1, <3>2, <3>3, <3>4, <3>5, <3>6, FinishConnectionEnds
    <2>7. CASE RollbackReturned
        <3>1. RollbackInv(changing.call) /\ changing.result # None
            BY <2>1, <2>7 DEF RollbackReturned, Returned, CallInv
        <3>2. Finish("failed") /\ UNCHANGED <<status, torn>>
            BY <2>7 DEF RollbackReturned
        <3> QED BY <3>1, <3>2 DEF RollbackInv, SwitchEnded, Finish
    <2>8. Next => \/ RunCanceled \/ SwitchReturned \/ RollbackReturned
                  \/ \E ref \in Nodes, mode \in BOOLEAN \cup {None} : RunConnect(ref, mode)
                  \/ \E tun \in BOOLEAN : RunSetTun(tun)
        <3>1. ~(LastReturned \/ PendingReturned \/ ActiveReturned)
            BY <2>1 DEF LastReturned, PendingReturned, ActiveReturned, Returned, CallInv
        <3>2. Action => \/ RunCanceled
                        \/ \E ref \in Nodes, mode \in BOOLEAN \cup {None} :
                              RunConnect(ref, mode)
                        \/ \E tun \in BOOLEAN : RunSetTun(tun)
            BY DEF Action, RunDisconnect, RunAddSubscription, RunRefresh,
                RunRemoveSubscription, RunRemoveNode, RunRestore, RunRestoreFailed, Runs
        <3>3. ~Main
            BY DEF Main, Launch, Restored, Elevate, ElevateFails, Recovered, Leave,
                Stopped, Restarted, Crash
        <3>4. ~Engine
            <4>1. ASSUME NEW result \in Results, Answer(result) PROVE FALSE
                <5>1. changing' \in Change
                    BY <2>1, <4>1 DEF Answer, Change
                <5> QED BY <5>1
            <4> QED BY <4>1 DEF Engine, EngineStarts, EngineFails, EngineNeedsElevation,
                        EngineStops, Results
        <3>5. ~Cancel
            <4>1. ASSUME changing' = [changing EXCEPT !.canceled = TRUE] PROVE FALSE
                <5>1. changing' \in Change
                    BY <2>1, <4>1 DEF Change
                <5> QED BY <5>1
            <4> QED BY <4>1 DEF Cancel
        <3>6. ~Client
            BY <3>5 DEF Client, Begin, SetCollapsed, RequestRestart, ReplyFailed
        <3> QED BY <3>1, <3>2, <3>3, <3>4, <3>6 DEF Next, Return
    <2> QED BY <2>3, <2>4, <2>5, <2>6, <2>7, <2>8
<1>2. IInv /\ PhaseInv /\ MatchInv /\ [Next]_vars => [Ends => SwitchEnded]_vars
    BY <1>1 DEF vars
<1> QED BY SwitchInvariant, <1>2, PTL DEF SwitchEnds, Spec

----------------------------------------------------------------------------
(* Refusals *)

(* Somebody has asked for the TUN mode, by a request or by what is stored *)
TunWanted == mem.pending # None \/ mem.tun

(* Main only tries to elevate, and so only calls RestoreFailed, when the TUN  *)
(* mode is wanted, and RestoreFailed only ever starts a proxy                 *)
RefusalInv ==
    /\ daemon = "elevating" => TunWanted
    /\ daemon = "starting" /\ changing = None /\ reply = "elevate" => TunWanted
    /\ changing # None /\ changing.call # None =>
          /\ changing.result = "elevate" => changing.call.tun
          /\ changing.call.then = "pending" => mem.pending # None
    /\ changing # None /\ changing.kind = "RestoreFailed" =>
          /\ changing.call = None => TunWanted
          /\ changing.call # None =>
                /\ changing.call.then = "last" /\ changing.call.ref # None
                /\ ~changing.call.tun
                /\ changing.result = "ok" => status # None

(* The fields of a change that is handed another engine call *)
LEMMA ContinueFields ==
    ASSUME IInv, changing # None, NEW p, NEW q, NEW c, Continue(p, q, c)
    PROVE  /\ changing'.kind = changing.kind /\ changing'.call = c
           /\ changing'.result = None
BY DEF IInv, ChangeInv, Change, Continue

(* A step of a client's change can only end it or call the engine for it *)
LEMMA OthersRefuse ==
    ASSUME PhaseInv, RefusalInv, changing # None, daemon' = daemon,
           changing.kind \notin {"Restore", "RestoreFailed"},
           \/ changing' = None
           \/ /\ changing'.kind = changing.kind
              /\ changing'.result = None /\ changing'.call.then # "pending"
    PROVE  RefusalInv'
BY NoneAssumption DEF PhaseInv, RefusalInv, TunWanted, Results

LEMMA RollbackGoes ==
    ASSUME IInv, changing # None, NEW p, NEW q, Rollback(p, q)
    PROVE  \/ changing' = None
           \/ /\ changing'.kind = changing.kind
              /\ changing'.result = None /\ changing'.call.then # "pending"
<1>1. ASSUME NEW c, Continue(p, q, c), c.then = "rollback"
      PROVE  /\ changing'.kind = changing.kind
             /\ changing'.result = None /\ changing'.call.then # "pending"
    BY <1>1, ContinueFields
<1>2. /\ Stop("rollback").then = "rollback"
      /\ Start(changing.before.ref, changing.before.tun, "rollback").then = "rollback"
    BY DEF Stop, Start
<1> QED BY <1>1, <1>2 DEF Rollback, Finish

LEMMA FinishConnectionGoes ==
    ASSUME IInv, changing # None, NEW p, NEW q, NEW result, FinishConnection(p, q, result)
    PROVE  \/ changing' = None
           \/ /\ changing'.kind = changing.kind
              /\ changing'.result = None /\ changing'.call.then # "pending"
BY RollbackGoes DEF FinishConnection, Finish

LEMMA FinishDropGoes ==
    ASSUME IInv, changing # None, NEW s, NEW drop, FinishDrop(s, drop)
    PROVE  \/ changing' = None
           \/ /\ changing'.kind = changing.kind
              /\ changing'.result = None /\ changing'.call.then # "pending"
<1>1. Stop("last").then = "last"
    BY DEF Stop
<1> QED BY <1>1, ContinueFields DEF FinishDrop, Finish

(* The operations of clients *)
LEMMA OperationRefuses ==
    ASSUME IInv, PhaseInv, MatchInv, RefusalInv,
           \/ \E ref \in Nodes, mode \in BOOLEAN \cup {None} : RunConnect(ref, mode)
           \/ \E tun \in BOOLEAN : RunSetTun(tun)
           \/ RunDisconnect
           \/ \E sub \in Subs, nodes \in SUBSET Nodes :
                 RunAddSubscription(sub, nodes) \/ RunRefresh(sub, nodes)
           \/ \E sub \in Subs : RunRemoveSubscription(sub)
           \/ \E node \in Nodes : RunRemoveNode(node)
    PROVE  RefusalInv'
<1> DEFINE Goes == \/ changing' = None
                   \/ /\ changing'.kind = changing.kind
                      /\ changing'.result = None /\ changing'.call.then # "pending"
<1>1. /\ changing # None /\ changing \in Change /\ daemon' = daemon
      /\ changing.kind \notin {"Restore", "RestoreFailed"} /\ changing.result = None
    BY DEF RunConnect, RunSetTun, RunDisconnect, RunAddSubscription, RunRefresh,
        RunRemoveSubscription, RunRemoveNode, Runs, IInv, ChangeInv, MatchInv, QuietInv,
        proc
<1> USE <1>1
<1>2. ASSUME NEW ref, NEW tun, NEW b, NEW p, NEW q,
             changing' = [changing EXCEPT !.before = b, !.prev = p, !.next = q,
                                          !.call = Start(ref, tun, "switch")]
      PROVE  Goes
    <2>1. Start(ref, tun, "switch").then = "switch"
        BY DEF Start
    <2>2. /\ changing'.kind = changing.kind /\ changing'.result = None
          /\ changing'.call = Start(ref, tun, "switch")
        BY <1>2 DEF Change
    <2> QED BY <2>1, <2>2
<1>3. ASSUME NEW ref \in Nodes, NEW mode \in BOOLEAN \cup {None}, RunConnect(ref, mode)
      PROVE  Goes
    <2> DEFINE tun  == IF mode = None THEN Previous.tun ELSE mode
               next == [Previous EXCEPT !.active = ref, !.last = ref, !.tun = tun]
    <2>1. \/ Finish("failed")
          \/ changing' = [changing EXCEPT !.before = status, !.prev = Previous,
                               !.next = next, !.call = Start(ref, tun, "switch")]
        BY <1>3 DEF RunConnect
    <2> HIDE DEF next, tun, Goes
    <2>2. CASE changing' = [changing EXCEPT !.before = status, !.prev = Previous,
                                 !.next = next, !.call = Start(ref, tun, "switch")]
        BY <1>2, <2>2
    <2> QED BY <2>1, <2>2 DEF Finish, Goes
<1>4. ASSUME NEW tun \in BOOLEAN, RunSetTun(tun) PROVE Goes
    <2> DEFINE next == [Previous EXCEPT !.tun = tun]
    <2>1. \/ Finish("failed")
          \/ FinishConnection(Previous, next, "ok")
          \/ changing' = [changing EXCEPT !.before = status, !.prev = Previous,
                               !.next = next, !.call = Start(status.ref, tun, "switch")]
        BY <1>4 DEF RunSetTun
    <2> HIDE DEF next, Goes
    <2>2. CASE FinishConnection(Previous, next, "ok")
        BY <2>2, FinishConnectionGoes DEF Goes
    <2>3. CASE changing' = [changing EXCEPT !.before = status, !.prev = Previous,
                                 !.next = next, !.call = Start(status.ref, tun, "switch")]
        BY <1>2, <2>3
    <2> QED BY <2>1, <2>2, <2>3 DEF Finish, Goes
<1>5. RunDisconnect => Goes
    BY FinishDropGoes DEF RunDisconnect, Finish
<1>6. ASSUME NEW sub \in Subs, NEW nodes \in SUBSET Nodes, RunAddSubscription(sub, nodes)
      PROVE  Goes
    BY <1>6 DEF RunAddSubscription, Finish
<1>7. ASSUME NEW sub \in Subs, NEW nodes \in SUBSET Nodes, RunRefresh(sub, nodes)
      PROVE  Goes
    <2> DEFINE c == Start(status.ref, status.tun, "last")
    <2>1. c.then = "last"
        BY DEF Start
    <2> HIDE DEF c
    <2>2. \/ Finish("failed")
          \/ \E s : Continue(s, s, c)
          \/ \E s, drop : FinishDrop(s, drop)
        BY <1>7 DEF RunRefresh, c
    <2> QED BY <2>1, <2>2, ContinueFields, FinishDropGoes DEF Finish
<1>8. ASSUME NEW s, NEW sub, Remove(s, sub) PROVE Goes
    BY <1>8, FinishDropGoes DEF Remove, Finish
<1>9. ASSUME NEW sub \in Subs, RunRemoveSubscription(sub) PROVE Goes
    BY <1>8, <1>9 DEF RunRemoveSubscription, Finish
<1>10. ASSUME NEW node \in Nodes, RunRemoveNode(node) PROVE Goes
    BY <1>8, <1>10 DEF RunRemoveNode, Finish
<1> HIDE DEF Goes
<1>11. Goes
    BY <1>3, <1>4, <1>5, <1>6, <1>7, <1>9, <1>10
<1> QED BY <1>11, OthersRefuse DEF Goes

(* Restore and RestoreFailed up to their engine call *)
LEMMA RestoreRefuses ==
    ASSUME IInv, PhaseInv, MatchInv, RefusalInv,
           RunCanceled \/ RunRestore \/ RunRestoreFailed
    PROVE  RefusalInv'
<1> USE NoneAssumption, CoreAssumption
<1>1. changing # None /\ changing.call = None /\ daemon' = daemon /\ mem \in State
    BY DEF RunCanceled, RunRestore, RunRestoreFailed, Runs, proc, IInv, StoreInv
<1> USE <1>1
<1>2. ASSUME Finish("ok") \/ Finish("failed") PROVE RefusalInv'
    BY <1>2 DEF Finish, RefusalInv, PhaseInv
<1>3. ASSUME changing.kind = "Restore", NEW p \in State, NEW q \in State, NEW c \in Call,
             Continue(p, q, c), c.then = "pending" => mem'.pending # None
      PROVE  RefusalInv'
    <2>1. /\ changing'.kind = "Restore" /\ changing'.call = c /\ changing'.result = None
          /\ changing' \in Change
        BY <1>3 DEF Continue, IInv, ChangeInv, Change
    <2>2. daemon = "starting" /\ None # "elevate"
        BY <1>3 DEF MatchInv, Results
    <2> QED BY <1>3, <2>1, <2>2 DEF RefusalInv
<1>4. ASSUME changing.kind = "Restore", NEW m \in State, RestoreActive(m)
      PROVE  RefusalInv'
    <2> DEFINE c == Start(m.active, m.tun, "active")
    <2>1. c \in Call /\ c.then = "active"
        BY DEF Start, Call, Steps, State
    <2>2. Continue(m, m, c) \/ Finish("ok")
        BY <1>4 DEF RestoreActive
    <2> HIDE DEF c
    <2> QED BY <1>2, <1>3, <1>4, <2>1, <2>2
<1>5. CASE RunCanceled
    BY <1>2, <1>5 DEF RunCanceled
<1>6. CASE RunRestore
    <2>1. changing.kind = "Restore"
        BY <1>6 DEF RunRestore, Runs
    <2> DEFINE s == [mem EXCEPT !.pending = None]
               c == Start(mem.pending.ref, mem.pending.tun, "pending")
    <2>2. s \in State
        BY DEF State
    <2>3. mem.pending # None => c \in Call /\ c.then = "pending"
        BY DEF Start, Call, Steps, State, Pending
    <2>4. \/ RestoreActive(mem) \/ RestoreActive(s) \/ Finish("failed")
          \/ mem.pending # None /\ UNCHANGED mem /\ Continue(mem, mem, c)
        BY <1>6 DEF RunRestore, Saved
    <2> HIDE DEF s, c
    <2>5. CASE mem.pending # None /\ UNCHANGED mem /\ Continue(mem, mem, c)
        BY <1>3, <2>1, <2>3, <2>5
    <2> QED BY <1>2, <1>4, <2>1, <2>2, <2>4, <2>5
<1>7. CASE RunRestoreFailed
    <2> DEFINE c == Start(mem.active, FALSE, "last")
    <2>1. changing.kind = "RestoreFailed"
        BY <1>7 DEF RunRestoreFailed, Runs
    <2>2. \/ Finish("ok")
          \/ Found(mem, mem.active) /\ Continue(mem, mem, c)
        BY <1>7 DEF RunRestoreFailed
    <2>3. CASE Found(mem, mem.active) /\ Continue(mem, mem, c)
        <3>1. /\ c.ref # None /\ ~c.tun /\ c.then = "last" /\ c \in Call
            BY <2>3 DEF Start, Found, State, Call, Steps
        <3> HIDE DEF c
        <3>2. /\ changing'.kind = "RestoreFailed" /\ changing'.call = c
              /\ changing'.result = None /\ changing' \in Change
            BY <2>1, <2>3, <3>1 DEF Continue, IInv, ChangeInv, Change
        <3>3. None # "elevate" /\ None # "ok" /\ c # None
            BY <3>1 DEF Results
        <3>4. daemon # "starting" /\ daemon # "elevating"
            BY <2>1 DEF PhaseInv
        <3> QED BY <3>1, <3>2, <3>3, <3>4 DEF RefusalInv
    <2> QED BY <1>2, <2>2, <2>3
<1> QED BY <1>5, <1>6, <1>7

(* The answers of the engine, once they are used *)
LEMMA ReturnRefuses ==
    ASSUME IInv, PhaseInv, MatchInv, RefusalInv, Return PROVE RefusalInv'
<1> USE NoneAssumption, CoreAssumption
<1>1. /\ changing # None /\ changing.call # None /\ daemon' = daemon
      /\ changing \in Change /\ CallInv(changing.call)
    BY DEF Return, SwitchReturned, RollbackReturned, LastReturned, PendingReturned,
        ActiveReturned, Returned, proc, IInv, ChangeInv, MatchInv
<1> USE <1>1
<1>2. ASSUME NEW err, Finish(err), daemon = "starting" /\ err = "elevate" => TunWanted'
      PROVE  RefusalInv'
    BY <1>2 DEF Finish, RefusalInv, PhaseInv
<1>3. CASE SwitchReturned
    <2>1. changing.call.then = "switch"
        BY <1>3 DEF SwitchReturned, Returned
    <2>2. changing.kind \notin {"Restore", "RestoreFailed"}
        BY <2>1 DEF RefusalInv, MatchInv, PhaseInv
    <2>3. FinishConnection(changing.prev, changing.next, changing.result)
        BY <1>3 DEF SwitchReturned
    <2> QED BY <2>2, <2>3, FinishConnectionGoes, OthersRefuse
<1>4. CASE RollbackReturned \/ LastReturned
    <2>1. daemon # "starting"
        BY <1>4 DEF RollbackReturned, LastReturned, Returned, PhaseInv
    <2>2. \E err : Finish(err)
        BY <1>4 DEF RollbackReturned, LastReturned
    <2> QED BY <1>2, <2>1, <2>2
<1>5. CASE ActiveReturned
    <2>1. changing.result = "elevate" => mem.tun
        BY <1>5 DEF ActiveReturned, Returned, RefusalInv, CallInv, ActiveInv, Made
    <2>2. /\ UNCHANGED mem
          /\ Finish(IF changing.result = "elevate" THEN "elevate" ELSE "ok")
        BY <1>5 DEF ActiveReturned
    <2> QED BY <1>2, <2>1, <2>2 DEF TunWanted
<1>6. CASE PendingReturned
    <2>1. changing.kind = "Restore" /\ mem.pending # None
        BY <1>6 DEF PendingReturned, Returned, RefusalInv, CallInv
    <2>2. CASE changing.result = "elevate" /\ Finish("elevate") /\ UNCHANGED mem
        BY <1>2, <2>1, <2>2 DEF TunWanted
    <2>3. CASE Finish("failed")
        BY <1>2, <2>3
    <2>4. CASE /\ Saved(Resolved(changing.prev)) /\ RestoreActive(mem')
               /\ changing.result # "elevate"
        <3>1. PICK m \in State : m = Resolved(changing.prev)
            <4>1. changing.prev \in State /\ changing.prev.pending \in Pending
                BY <1>6 DEF PendingReturned, Returned, IInv, ChangeInv, CallLive, Change, State
            <4>2. Resolved(changing.prev) \in State
                BY <4>1 DEF Resolved, Collapse, State, Pending, IInv, StoreInv
            <4> QED BY <4>2
        <3>2. RestoreActive(m)
            BY <2>4, <3>1 DEF Saved
        <3> DEFINE c == Start(m.active, m.tun, "active")
        <3>3. c \in Call /\ c.then = "active"
            BY DEF Start, Call, Steps, State
        <3>4. Continue(m, m, c) \/ Finish("ok")
            BY <3>2 DEF RestoreActive
        <3> HIDE DEF c
        <3>5. CASE Continue(m, m, c)
            <4>1. /\ changing'.kind = "Restore" /\ changing'.call = c
                  /\ changing'.result = None /\ changing' \in Change
                BY <2>1, <3>3, <3>5 DEF Continue, Change
            <4>2. daemon = "starting" /\ None # "elevate"
                BY <2>1 DEF MatchInv, Results
            <4> QED BY <3>3, <4>1, <4>2 DEF RefusalInv
        <3> QED BY <1>2, <3>4, <3>5
    <2> QED BY <1>6, <2>2, <2>3, <2>4 DEF PendingReturned
<1> QED BY <1>3, <1>4, <1>5, <1>6 DEF Return

(* Clients, which have no part in it *)
LEMMA ClientRefuses ==
    ASSUME IInv, PhaseInv, MatchInv, RefusalInv, Client PROVE RefusalInv'
<1> USE NoneAssumption, CoreAssumption
<1>1. ASSUME NEW kind \in Ops, Begin(kind) PROVE RefusalInv'
    <2>1. /\ changing'.kind # "RestoreFailed" /\ changing'.call = None
          /\ daemon' = "serving"
        BY <1>1 DEF Begin, NewChange, ClientOps, proc
    <2> QED BY <2>1 DEF RefusalInv
<1>2. CASE Cancel
    <2>1. /\ changing \in Change /\ changing # None
          /\ changing'.kind = changing.kind /\ changing'.call = changing.call
          /\ changing'.result = changing.result /\ daemon' = "serving"
          /\ UNCHANGED <<mem, status>>
        BY <1>2 DEF Cancel, IInv, ChangeInv, Change, proc
    <2> QED BY <2>1 DEF RefusalInv, TunWanted
<1>3. ASSUME NEW sub \in Subs, SetCollapsed(sub) PROVE RefusalInv'
    <2>1. /\ mem'.pending = mem.pending /\ mem'.tun = mem.tun
          /\ UNCHANGED <<status, changing, reply, daemon>>
        BY <1>3 DEF SetCollapsed, Saved, proc, IInv, StoreInv, State
    <2> QED BY <2>1 DEF RefusalInv, TunWanted
<1>4. ASSUME NEW id \in Requests, RequestRestart(id) \/ ReplyFailed(id) PROVE RefusalInv'
    BY <1>4 DEF RequestRestart, ReplyFailed, RefusalInv, TunWanted, proc
<1> QED BY <1>1, <1>2, <1>3, <1>4 DEF Client

(* The engine asks for the privilege only for TUN, and runs what it started *)
LEMMA EngineRefuses ==
    ASSUME IInv, PhaseInv, MatchInv, RefusalInv, Engine PROVE RefusalInv'
<1> USE NoneAssumption, CoreAssumption
<1>1. ASSUME NEW result \in Results, Calling, Answer(result), UNCHANGED <<mem, reply, daemon>>,
             result = "elevate" => changing.call.tun,
             result = "ok" /\ changing.call.ref # None => status' # None
      PROVE  RefusalInv'
    <2>1. /\ changing # None /\ changing.call # None
          /\ changing' \in Change /\ changing'.kind = changing.kind
          /\ changing'.call = changing.call /\ changing'.result = result
        BY <1>1 DEF Calling, Answer, IInv, ChangeInv, Change
    <2> QED BY <1>1, <2>1 DEF RefusalInv, TunWanted, PhaseInv
<1>2. "ok" \in Results /\ "failed" \in Results /\ "elevate" \in Results
    BY DEF Results
<1>3. CASE EngineStarts
    <2>1. status' \in Running
        BY <1>3 DEF EngineStarts, Calling, Running, IInv, ChangeInv, Change, Call, Ref
    <2> QED BY <1>1, <1>2, <1>3, <2>1 DEF EngineStarts, proc
<1>4. CASE EngineFails
    BY <1>1, <1>2, <1>4 DEF EngineFails, proc
<1>5. CASE EngineNeedsElevation
    BY <1>1, <1>2, <1>5 DEF EngineNeedsElevation, proc
<1>6. ASSUME NEW result \in Results, EngineStops(result) PROVE RefusalInv'
    BY <1>1, <1>6 DEF EngineStops, proc
<1> QED BY <1>3, <1>4, <1>5, <1>6 DEF Engine

(* Main: only a Restore that asked for the privilege leads to RestoreFailed *)
LEMMA MainRefuses ==
    ASSUME IInv, PhaseInv, MatchInv, RefusalInv, Main PROVE RefusalInv'
<1> USE NoneAssumption, CoreAssumption
<1>1. CASE Launch \/ Elevate \/ Restarted
    <2>1. /\ changing' = NewChange("Restore", None, disk) /\ daemon' = "starting"
        BY <1>1 DEF Launch, Elevate, Restarted, Load
    <2>2. /\ changing'.kind = "Restore" /\ changing'.call = None /\ changing' # None
        <3>1. disk \in State
            BY DEF IInv, StoreInv
        <3>2. NewChange("Restore", None, disk) \in Change
            BY <3>1 DEF NewChange, Change, Kinds, Status
        <3> QED BY <2>1, <3>2 DEF NewChange
    <2> QED BY <2>1, <2>2 DEF RefusalInv
<1>2. CASE Restored
    BY <1>2 DEF Restored, RefusalInv, TunWanted, IInv, RestInv, Results
<1>3. CASE ElevateFails
    <2>1. TunWanted /\ UNCHANGED mem /\ changing'.call = None /\ daemon' = "recovering"
        BY <1>3 DEF ElevateFails, NewChange, RefusalInv
    <2> QED BY <2>1 DEF RefusalInv, TunWanted
<1>4. CASE Recovered \/ \E to \in {"stopping", "restarting"} : Leave(to)
    <2>1. /\ daemon' \notin {"elevating", "starting"} /\ UNCHANGED <<mem, status>>
          /\ changing' = IF changing = None THEN None
                         ELSE [changing EXCEPT !.canceled = TRUE]
        BY <1>4 DEF Recovered, Leave
    <2>2. changing # None => /\ changing'.kind = changing.kind
                             /\ changing'.call = changing.call
                             /\ changing'.result = changing.result
        BY <2>1 DEF IInv, ChangeInv, Change
    <2> QED BY <2>1, <2>2 DEF RefusalInv, TunWanted
<1>5. CASE Stopped \/ Crash
    BY <1>5 DEF Stopped, Crash, RefusalInv
<1> QED BY <1>1, <1>2, <1>3, <1>4, <1>5 DEF Main

(* The TUN mode is wanted whenever RestoreFailed runs, and what it starts is *)
(* a proxy                                                                   *)
THEOREM RefusalInvariant == Spec => [](IInv /\ PhaseInv /\ MatchInv /\ RefusalInv)
<1>1. Init => RefusalInv
    BY DEF Init, RefusalInv
<1>2. IInv /\ PhaseInv /\ MatchInv /\ RefusalInv /\ [Next]_vars => RefusalInv'
    <2> SUFFICES ASSUME IInv, PhaseInv, MatchInv, RefusalInv, [Next]_vars
                 PROVE  RefusalInv'
        OBVIOUS
    <2>1. CASE Next
        <3>1. Action => RefusalInv'
            BY OperationRefuses, RestoreRefuses DEF Action
        <3> QED BY <2>1, <3>1, ClientRefuses, ReturnRefuses, EngineRefuses, MainRefuses
                DEF Next
    <2>2. CASE UNCHANGED vars
        BY <2>2 DEF vars, RefusalInv, TunWanted
    <2> QED BY <2>1, <2>2
<1> QED BY SwitchInvariant, <1>1, <1>2, PTL DEF Spec

(* A refused elevation gives the proxy connection back, unless the engine    *)
(* cannot start it, or there was none                                        *)
THEOREM ProxySurvives == Spec => ProxySurvivesRefusal
<1> DEFINE Ends == /\ changing # None /\ changing.kind = "RestoreFailed"
                   /\ changing' = None /\ daemon' = daemon /\ status' = None
           Back == \/ changing.canceled \/ changing.result = "failed"
                   \/ mem.tun \/ mem.active = None
<1>1. ASSUME IInv, PhaseInv, MatchInv, RefusalInv, Next, Ends PROVE Back
    <2> USE <1>1, NoneAssumption, CoreAssumption
    <2>1. /\ changing \in Change /\ mem \in State /\ Live(mem)
        BY DEF IInv, ChangeInv, StoreInv
    <2>2. CASE RunCanceled
        BY <2>2 DEF RunCanceled
    <2>3. CASE RunRestoreFailed
        <3>1. changing.call = None /\ TunWanted
            BY <2>3 DEF RunRestoreFailed, Runs, RefusalInv
        <3>2. CASE mem.pending # None /\ ~mem.tun /\ Found(mem, mem.active)
            <4> DEFINE c == Start(mem.active, FALSE, "last")
            <4>1. c \in Call
                BY <2>1 DEF Start, Call, Steps, State
            <4>2. Continue(mem, mem, c)
                BY <2>3, <3>2 DEF RunRestoreFailed
            <4> HIDE DEF c
            <4>3. changing' \in Change
                BY <2>1, <4>1, <4>2 DEF Continue, Change
            <4> QED BY <4>3
        <3>3. ~Found(mem, mem.active) => mem.active = None
            BY <2>1 DEF Found, Live
        <3> QED BY <3>1, <3>2, <3>3 DEF TunWanted
    <2>4. CASE LastReturned
        <3>1. /\ changing.call # None /\ changing.result # None /\ status' = status
            BY <2>4 DEF LastReturned, Returned
        <3>2. changing.result # "elevate" /\ changing.result # "ok"
            BY <3>1 DEF RefusalInv
        <3> QED BY <2>1, <3>1, <3>2 DEF Change, Results
    <2>5. Next => RunCanceled \/ RunRestoreFailed \/ LastReturned
        <3>1. ~(SwitchReturned \/ RollbackReturned \/ PendingReturned \/ ActiveReturned)
            BY DEF SwitchReturned, RollbackReturned, PendingReturned, ActiveReturned,
                Returned, RefusalInv
        <3>2. Action => RunCanceled \/ RunRestoreFailed
            BY DEF Action, RunConnect, RunSetTun, RunDisconnect, RunAddSubscription,
                RunRefresh, RunRemoveSubscription, RunRemoveNode, RunRestore, Runs
        <3>3. ~Main
            BY DEF Main, Launch, Restored, Elevate, ElevateFails, Recovered, Leave,
                Stopped, Restarted, Crash
        <3>4. ~Engine
            <4>1. ASSUME NEW result \in Results, Answer(result) PROVE FALSE
                <5>1. changing' \in Change
                    BY <2>1, <4>1 DEF Answer, Change
                <5> QED BY <5>1
            <4> QED BY <4>1 DEF Engine, EngineStarts, EngineFails, EngineNeedsElevation,
                        EngineStops, Results
        <3>5. ~Client
            <4>1. ASSUME changing' = [changing EXCEPT !.canceled = TRUE] PROVE FALSE
                <5>1. changing' \in Change
                    BY <2>1, <4>1 DEF Change
                <5> QED BY <5>1
            <4> QED BY <4>1 DEF Client, Cancel, Begin, SetCollapsed, RequestRestart,
                        ReplyFailed
        <3> QED BY <3>1, <3>2, <3>3, <3>4, <3>5 DEF Next, Return
    <2> QED BY <2>2, <2>3, <2>4, <2>5
<1>2. IInv /\ PhaseInv /\ MatchInv /\ RefusalInv /\ [Next]_vars => [Ends => Back]_vars
    BY <1>1 DEF vars
<1> QED BY RefusalInvariant, <1>2, PTL DEF ProxySurvivesRefusal, Spec
----------------------------------------------------------------------------
(* Core keeps the promise of Service.  PromiseInv adds to what is known of a *)
(* change how the state it commits or goes back to stands to the file, and   *)
(* that the engine is only stopped for a connection that is not the stored   *)
(* one.  Each group of actions has one lemma, for the invariant and the step *)
(* of Service.                                                               *)

(* What a change knows of the file while the engine works for it *)
FileInv(c) ==
    /\ c.then = "switch" =>
          /\ changing.kind \in {"Connect", "SetTun"}
          /\ changing.prev.pending = None /\ changing.next.pending = None
          /\ changing.before = None => Chosen(changing.prev) = Chosen(mem)
    /\ c.then = "pending" =>
          changing.prev.pending = mem.pending /\ Chosen(changing.prev) = Chosen(mem)
    /\ c.then = "active" => changing.kind = "Restore"
    /\ c.then = "last" /\ c.ref = None /\ changing.result = None /\ status # None =>
          status.ref # mem.active
    /\ c.then = "last" /\ c.ref # None /\ changing.kind = "Refresh" =>
          /\ changing.before = Made(c)
          /\ status = Made(c) \/ (status = None /\ changing.result # None)
    /\ c.then = "last" /\ c.ref # None /\ changing.kind # "Refresh" =>
          changing.kind = "RestoreFailed" /\ Made(c) = Chosen(mem)

PromiseInv ==
    changing # None =>
        /\ changing.kind = "RestoreFailed" /\ (changing.call = None \/ changing.result = None) =>
              status = None
        /\ changing.call # None => FileInv(changing.call)

Serve == [Promise!Next]_(Promise!vars)

(* What Service sees of a state is the same in memory and in the file *)
LEMMA StoredShows ==
    ASSUME NEW s \in State
    PROVE  Chosen(Stored(s)) = Chosen(s) /\ Asking(Stored(s)) = Asking(s)
<1> USE NoneAssumption
<1>1. CASE s.pending = None
    BY <1>1 DEF Stored
<1>2. CASE s.pending # None
    <2> DEFINE p == [ref |-> s.pending.ref, tun |-> s.pending.tun, id |-> None]
    <2>1. p \in Pending
        BY <1>2 DEF State, Pending
    <2>2. p # None /\ Made(p) = Made(s.pending)
        BY <2>1 DEF Made
    <2>3. Stored(s) = [s EXCEPT !.pending = p]
        BY <1>2 DEF Stored
    <2> HIDE DEF p
    <2>4. /\ Stored(s).pending = p /\ Stored(s).active = s.active /\ Stored(s).tun = s.tun
        BY <2>3 DEF State
    <2> QED BY <1>2, <2>2, <2>4 DEF Chosen, Asking
<1> QED BY <1>1, <1>2

LEMMA FileShows ==
    ASSUME StoreInv, StoreInv'
    PROVE  /\ Chosen(disk) = Chosen(mem) /\ Asking(disk) = Asking(mem)
           /\ Chosen(disk)' = Chosen(mem') /\ Asking(disk)' = Asking(mem')
<1>1. mem \in State /\ disk = Stored(mem) /\ mem' \in State /\ disk' = Stored(mem')
    BY DEF StoreInv
<1>2. Chosen(disk)' = Chosen(disk') /\ Asking(disk)' = Asking(disk')
    BY DEF Chosen, Asking
<1> QED BY <1>1, <1>2, StoredShows

(* What it sees of a change *)
LEMMA ShownKinds ==
    ASSUME NEW c
    PROVE  /\ c = None \/ c.call = None => Shown(c) = None
           /\ c # None /\ c.call # None =>
                 /\ c.call.then = "switch" =>
                       Shown(c) = [step |-> "switch", before |-> c.before, goal |-> Made(c.call)]
                 /\ c.call.then = "rollback" =>
                       Shown(c) = [step |-> "rollback", before |-> c.before, goal |-> c.before]
                 /\ c.call.then \in {"pending", "active"} => Shown(c) = None
                 /\ c.call.then = "last" /\ (c.call.ref = None \/ c.kind # "Refresh") =>
                       Shown(c) = None
                 /\ c.call.then = "last" /\ c.call.ref # None /\ c.kind = "Refresh" =>
                       Shown(c) = [step |-> "renew", before |-> c.before, goal |-> Made(c.call)]
BY DEF Shown, Renews

LEMMA ShownIsRecord ==
    ASSUME NEW step \in {"switch", "rollback", "renew"}, NEW before \in Status,
           NEW goal \in Status \cup [ref : Ref, tun : BOOLEAN]
    PROVE  [step |-> step, before |-> before, goal |-> goal] # None
<1>1. [step |-> step, before |-> before, goal |-> goal]
          \in [step : {"switch", "rollback", "renew"}, before : Status,
                goal : Status \cup [ref : Ref, tun : BOOLEAN]]
    OBVIOUS
<1> QED BY <1>1, NoneAssumption

(* A change of a client is one of a daemon that is done with its start *)
LEMMA UpInChange ==
    ASSUME PhaseInv, changing # None, changing.kind # "Restore"
    PROVE  Up
BY DEF PhaseInv, Up

(* A step that Service does not see *)
LEMMA Unseen ==
    ASSUME UNCHANGED <<status, torn>>, Chosen(disk)' = Chosen(disk),
           Asking(disk)' = Asking(disk), Shown(changing)' = Shown(changing), Up' = Up
    PROVE  Serve
BY DEF Serve, Promise!vars

(* A commit that at most forgets the connection, and the one that waits *)
LEMMA ForgettingSteps ==
    ASSUME StoreInv, StoreInv',
           mem'.active = mem.active \/ (Up /\ mem'.active = None), mem'.tun = mem.tun,
           mem'.pending = mem.pending \/ mem'.pending = None
    PROVE  Promise!Forgetting
<1>1. /\ Chosen(mem') = Chosen(mem) \/ (Up /\ Chosen(mem') = [Chosen(mem) EXCEPT !.ref = None])
      /\ Asking(mem') = Asking(mem) \/ Asking(mem') = None
    BY DEF Chosen, Asking
<1> QED BY <1>1, FileShows DEF Promise!Forgetting

(* A step that does no more than that *)
LEMMA Forgotten ==
    ASSUME StoreInv, StoreInv', UNCHANGED <<status, torn>>, Up' = Up,
           Shown(changing) = None, Shown(changing)' = None,
           mem'.active = mem.active \/ (Up /\ mem'.active = None), mem'.tun = mem.tun,
           mem'.pending = mem.pending \/ mem'.pending = None
    PROVE  Serve
<1>1. Promise!Forgetting
    BY ForgettingSteps
<1> QED BY <1>1 DEF Serve, Promise!Next, Promise!Forgets

(* A step that changes nothing of what the lemmas speak of *)
LEMMA SameServes ==
    ASSUME IInv, IInv', PromiseInv, UNCHANGED <<status, torn>>, Up' = Up,
           mem'.active = mem.active, mem'.tun = mem.tun, mem'.pending = mem.pending,
           (changing = None) <=> (changing' = None),
           changing # None =>
              /\ changing'.kind = changing.kind /\ changing'.before = changing.before
              /\ changing'.prev = changing.prev /\ changing'.next = changing.next
              /\ changing'.call = changing.call /\ changing'.result = changing.result
    PROVE  PromiseInv' /\ Serve
<1>0. StoreInv /\ StoreInv'
    BY DEF IInv
<1>1. Chosen(mem') = Chosen(mem) /\ Asking(mem') = Asking(mem)
    BY DEF Chosen, Asking
<1>2. Shown(changing)' = Shown(changing)
    BY DEF Shown, Renews
<1>3. Serve
    BY <1>0, <1>1, <1>2, FileShows, Unseen
<1>4. ASSUME changing # None, NEW c, FileInv(c) PROVE FileInv(c)'
    BY <1>1, <1>4 DEF FileInv
<1>5. PromiseInv'
    BY <1>4 DEF PromiseInv
<1> QED BY <1>3, <1>5

LEMMA CanceledServes ==
    ASSUME IInv, IInv', PromiseInv, UNCHANGED <<status, torn, mem>>, Up' = Up,
           changing' = IF changing = None THEN None
                       ELSE [changing EXCEPT !.canceled = TRUE]
    PROVE  PromiseInv' /\ Serve
<1>1. CASE changing = None
    BY <1>1, SameServes
<1>2. CASE changing # None
    <2>1. changing \in Change /\ changing' \in Change
        BY <1>2 DEF IInv, ChangeInv, Change
    <2>2. /\ changing'.kind = changing.kind /\ changing'.before = changing.before
          /\ changing'.prev = changing.prev /\ changing'.next = changing.next
          /\ changing'.call = changing.call /\ changing'.result = changing.result
        BY <1>2, <2>1 DEF Change
    <2>3. changing' # None
        BY <2>1, NoneAssumption
    <2> QED BY <1>2, <2>2, <2>3, SameServes
<1> QED BY <1>1, <1>2

(* A change that ends without another call has nothing left to know *)
LEMMA NothingLeft == changing' = None => PromiseInv'
BY DEF PromiseInv

(* The steps of clients, none of which is more than a beginning *)
LEMMA ClientServes ==
    ASSUME IInv, IInv', PhaseInv, PromiseInv, Client
    PROVE  PromiseInv' /\ Serve
<1> USE NoneAssumption, CoreAssumption
<1>0. StoreInv /\ StoreInv'
    BY DEF IInv
<1>1. ASSUME NEW kind \in Ops, Begin(kind) PROVE PromiseInv' /\ Serve
    <2>1. /\ changing = None /\ changing'.call = None /\ changing'.kind # "RestoreFailed"
          /\ UNCHANGED <<mem, disk, status, torn, daemon>>
        BY <1>1 DEF Begin, NewChange, ClientOps, proc
    <2>2. Shown(changing) = None /\ Shown(changing)' = None
        BY <2>1, ShownKinds
    <2>3. Up' = Up /\ Chosen(disk)' = Chosen(disk) /\ Asking(disk)' = Asking(disk)
        BY <2>1 DEF Up, Chosen, Asking
    <2> QED BY <2>1, <2>2, <2>3, Unseen DEF PromiseInv
<1>3. CASE Cancel
    <2>1. UNCHANGED <<status, torn, mem>> /\ Up' = Up /\ changing # None
          /\ changing' = [changing EXCEPT !.canceled = TRUE]
        BY <1>3 DEF Cancel, proc, Up
    <2> QED BY <2>1, CanceledServes
<1>4. ASSUME NEW sub \in Subs, SetCollapsed(sub) PROVE PromiseInv' /\ Serve
    <2>1. /\ mem'.active = mem.active /\ mem'.tun = mem.tun /\ mem'.pending = mem.pending
          /\ UNCHANGED <<status, torn, daemon, changing>>
        BY <1>4 DEF SetCollapsed, Saved, proc, IInv, StoreInv, State
    <2>2. Up' = Up
        BY <2>1 DEF Up
    <2> QED BY <2>1, <2>2, SameServes
<1>5. ASSUME NEW id \in Requests, RequestRestart(id) \/ ReplyFailed(id)
      PROVE  PromiseInv' /\ Serve
    <2>1. UNCHANGED <<status, torn, daemon, changing, mem>>
        BY <1>5 DEF RequestRestart, ReplyFailed, proc
    <2>2. Up' = Up
        BY <2>1 DEF Up
    <2> QED BY <2>1, <2>2, SameServes
<1> QED BY <1>1, <1>3, <1>4, <1>5 DEF Client

(* The engine goes where it is called to, or stops what is not stored *)
LEMMA EngineServes ==
    ASSUME IInv, IInv', PhaseInv, MatchInv, RefusalInv, PromiseInv, Engine
    PROVE  PromiseInv' /\ Serve
<1> USE NoneAssumption, CoreAssumption
<1>0. PICK c : c = changing.call
    OBVIOUS
<1>1. /\ Calling /\ changing # None /\ c # None /\ changing \in Change /\ c \in Call
      /\ changing.result = None /\ CallInv(c) /\ FileInv(c)
      /\ UNCHANGED <<mem, disk, daemon>>
    BY <1>0 DEF Engine, EngineStarts, EngineFails, EngineNeedsElevation, EngineStops, Calling,
        IInv, ChangeInv, Change, MatchInv, PromiseInv, proc
<1>2. PICK result \in Results : Answer(result)
    BY DEF Engine, EngineStarts, EngineFails, EngineNeedsElevation, EngineStops, Results
<1>3. /\ changing' # None /\ changing'.kind = changing.kind
      /\ changing'.before = changing.before /\ changing'.prev = changing.prev
      /\ changing'.next = changing.next /\ changing'.call = c
      /\ changing'.result = result /\ result # None
    <2>1. changing' \in Change
        BY <1>1, <1>2 DEF Answer, Change
    <2> QED BY <1>0, <1>1, <1>2, <2>1 DEF Answer, Change
<1>4. /\ Shown(changing)' = Shown(changing) /\ Up' = Up
      /\ Chosen(disk)' = Chosen(disk) /\ Asking(disk)' = Asking(disk)
      /\ Chosen(mem)' = Chosen(mem)
    BY <1>0, <1>1, <1>3 DEF Shown, Renews, Up, Chosen, Asking
<1>5. StoreInv /\ StoreInv' /\ status \in Status /\ mem \in State /\ torn \in BOOLEAN
    BY DEF IInv, StoreInv, EngineInv, RestInv
<1>6. /\ Chosen(disk) = Chosen(mem) /\ Asking(disk) = Asking(mem)
    BY <1>5, FileShows
(* where it may go *)
<1>7. \/ status' = status
      \/ status' = None
      \/ status' = Made(c) /\ c.ref # None /\ Made(c) \in Running
    BY <1>0, <1>1 DEF Engine, EngineStarts, EngineFails, EngineNeedsElevation, EngineStops,
        Made, Call, Ref, Running
<1>8. \/ torn' = torn
      \/ torn' = TRUE /\ status' = status /\ status # None /\ c.then = "rollback"
    <2>1. UNCHANGED torn \/ EngineFails
        BY DEF Engine, EngineStarts, EngineNeedsElevation, EngineStops
    <2>2. EngineFails => /\ torn' = (torn \/ Tears("failed", status'))
                         /\ status' \in {status, None}
        BY DEF EngineFails
    <2>3. Tears("failed", status') => c.then = "rollback" /\ status' # None
        BY <1>0 DEF Tears
    <2>4. CASE ~Tears("failed", status')
        BY <1>5, <2>1, <2>2, <2>4
    <2>5. CASE Tears("failed", status')
        BY <1>5, <2>1, <2>2, <2>3, <2>5
    <2> QED BY <2>4, <2>5
<1>9. ASSUME UNCHANGED <<status, torn>> PROVE Serve
    BY <1>4, <1>9, Unseen
<1>10. PromiseInv'
    <2>1. c.then = "last" /\ c.ref # None /\ changing.kind = "Refresh" =>
              status' = Made(c) \/ status' = None
        BY <1>1, <1>7 DEF FileInv
    <2>2. FileInv(c)'
        BY <1>1, <1>3, <1>4, <2>1 DEF FileInv
    <2> QED BY <1>1, <1>3, <2>2 DEF PromiseInv
<1> SUFFICES Serve
    BY <1>10
<1>11. CASE c.then = "rollback" /\ ~UNCHANGED <<status, torn>>
    <2>1. Shown(changing) = [step |-> "rollback", before |-> changing.before,
                             goal |-> changing.before]
        BY <1>0, <1>1, <1>11, ShownKinds
    <2>2. Shown(changing) # None
        <3>1. changing.before \in Status
            BY <1>1 DEF Change
        <3>2. [step |-> "rollback", before |-> changing.before, goal |-> changing.before] # None
            BY <3>1, ShownIsRecord
        <3> QED BY <2>1, <3>2
    <2>3. c.ref # None => changing.before = Made(c)
        BY <1>1, <1>11 DEF CallInv, RollbackInv
    <2>4. CASE torn' = torn /\ status' \in {changing.before, None}
        <3>1. Promise!Moves
            BY <1>4, <2>1, <2>2, <2>4 DEF Promise!Moves
        <3> QED BY <3>1 DEF Serve, Promise!Next
    <2>5. CASE torn' = TRUE /\ status' = status /\ status # None
        <3>1. Promise!UndoingFails
            BY <1>4, <2>1, <2>2, <2>5 DEF Promise!UndoingFails
        <3> QED BY <3>1 DEF Serve, Promise!Next
    <2> QED BY <1>7, <1>8, <1>11, <2>3, <2>4, <2>5
<1>12. CASE \/ c.then = "switch"
            \/ c.then = "last" /\ c.ref # None /\ changing.kind = "Refresh"
    <2>1. PICK step \in {"switch", "renew"} :
              Shown(changing) = [step |-> step, before |-> changing.before, goal |-> Made(c)]
        BY <1>1, <1>12, <1>0, ShownKinds
    <2>2. Shown(changing) # None
        <3>1. Made(c) \in [ref : Ref, tun : BOOLEAN] /\ changing.before \in Status
            BY <1>1 DEF Made, Call, Change
        <3>2. [step |-> step, before |-> changing.before, goal |-> Made(c)] # None
            BY <3>1, ShownIsRecord
        <3> QED BY <2>1, <3>2
    <2>3. torn' = torn
        BY <1>8, <1>12
    <2>4. status' = status \/ status' \in {Made(c), None}
        BY <1>7
    <2>5. CASE status' \in {Made(c), None}
        <3>1. Promise!Moves
            BY <1>4, <2>1, <2>2, <2>3, <2>5 DEF Promise!Moves
        <3> QED BY <3>1 DEF Serve, Promise!Next
    <2> QED BY <1>9, <2>3, <2>4, <2>5
<1>13. CASE c.then = "last" /\ c.ref = None
    <2>1. Shown(changing) = None /\ torn' = torn
        BY <1>1, <1>8, <1>13, <1>0, ShownKinds
    <2>2. status # None => status # Chosen(mem)
        BY <1>1, <1>13 DEF FileInv, Chosen
    <2>3. Up
        BY <1>0, <1>1, <1>13 DEF PhaseInv, Up
    <2>4. status' = None \/ status' = status
        BY <1>7, <1>13
    <2>5. CASE status' = None /\ status # None
        <3>1. Promise!Closes
            BY <1>4, <1>6, <2>1, <2>2, <2>3, <2>5 DEF Promise!Closes
        <3> QED BY <3>1 DEF Serve, Promise!Next
    <2> QED BY <1>9, <2>1, <2>4, <2>5
<1>14. ASSUME Shown(changing) = None, status = None, torn' = torn,
              c.ref # None => Made(c) \in {Chosen(mem), Asking(mem)},
              Up /\ c.ref # None => Made(c) = Chosen(mem)
       PROVE  Serve
    <2>1. CASE status' = None
        BY <1>9, <1>14, <2>1
    <2>2. CASE status' = Made(c) /\ c.ref # None /\ Made(c) \in Running
        <3>1. Promise!Connects
            BY <1>4, <1>6, <1>14, <2>2 DEF Promise!Connects, Promise!Running, Running
        <3> QED BY <3>1 DEF Serve, Promise!Next
    <2> QED BY <1>7, <1>14, <2>1, <2>2
<1>15. CASE c.then = "last" /\ c.ref # None /\ changing.kind # "Refresh"
    <2>1. Shown(changing) = None /\ torn' = torn /\ Made(c) = Chosen(mem)
        BY <1>1, <1>8, <1>15, <1>0, ShownKinds DEF FileInv
    <2>2. status = None
        BY <1>1, <1>15 DEF PromiseInv, FileInv
    <2> QED BY <1>14, <2>1, <2>2
<1>16. CASE c.then \in {"pending", "active"}
    <2>1. Shown(changing) = None /\ torn' = torn
        BY <1>1, <1>8, <1>16, <1>0, ShownKinds
    <2>2. changing.kind = "Restore" => ~Up
        BY <1>1 DEF MatchInv, Up
    <2>3. CASE c.then = "pending"
        <3>1. /\ Made(c) = Asking(mem) /\ changing.kind = "Restore" /\ status = None
            BY <1>0, <1>1, <2>3 DEF CallInv, PendingInv, FileInv, RefusalInv, Asking, Made, Results
        <3> QED BY <1>14, <2>1, <2>2, <3>1
    <2>4. CASE c.then = "active"
        <3>1. Made(c) = Chosen(mem) /\ changing.kind = "Restore"
            BY <1>1, <2>4 DEF CallInv, ActiveInv, FileInv, Chosen, Made
        <3>2. status = None
            BY <1>1, <3>1 DEF PhaseInv, MatchInv
        <3> QED BY <1>14, <2>1, <3>1, <3>2
    <2> QED BY <1>16, <2>3, <2>4
<1>17. c.then \in Steps
    BY <1>1 DEF Call
<1> QED BY <1>9, <1>11, <1>12, <1>13, <1>15, <1>16, <1>17 DEF Steps

(* Main brings the daemon up and down, with nothing under way *)
LEMMA MainServes ==
    ASSUME IInv, IInv', PhaseInv, PromiseInv, Main
    PROVE  PromiseInv' /\ Serve
<1> USE NoneAssumption
<1>1. ASSUME ~Up', status' = None, torn' \in {torn, FALSE}, disk' = disk,
             changing' = None \/ (changing'.call = None /\ changing'.kind = "Restore")
      PROVE  PromiseInv' /\ Serve
    <2>1. Shown(changing)' = None
        BY <1>1, ShownKinds
    <2>2. Chosen(disk)' = Chosen(disk) /\ Asking(disk)' = Asking(disk)
        BY <1>1 DEF Chosen, Asking
    <2>3. Promise!Ends
        BY <1>1, <2>1, <2>2 DEF Promise!Ends, Up
    <2>4. PromiseInv'
        BY <1>1 DEF PromiseInv
    <2> QED BY <2>3, <2>4 DEF Serve, Promise!Next
<1>2. ASSUME changing = None, UNCHANGED <<status, torn, disk>>, ~Up, Up',
             changing' = None \/ (changing'.call = None /\ status = None)
      PROVE  PromiseInv' /\ Serve
    <2>1. Shown(changing) = None /\ Shown(changing)' = None
        BY <1>2, ShownKinds
    <2>2. Chosen(disk)' = Chosen(disk) /\ Asking(disk)' = Asking(disk)
        BY <1>2 DEF Chosen, Asking
    <2>3. Promise!Serves
        BY <1>2, <2>1, <2>2 DEF Promise!Serves, Up
    <2>4. PromiseInv'
        BY <1>2 DEF PromiseInv
    <2> QED BY <2>3, <2>4 DEF Serve, Promise!Next
<1>3. CASE Launch \/ Elevate \/ Restarted
    <2>1. /\ changing' = NewChange("Restore", None, disk) /\ daemon' = "starting"
          /\ status' = None /\ torn' = FALSE /\ disk' = disk
        BY <1>3 DEF Launch, Elevate, Restarted, Load
    <2>2. changing'.call = None /\ changing'.kind = "Restore" /\ ~Up'
        BY <2>1 DEF NewChange, Up
    <2> QED BY <1>1, <2>1, <2>2
<1>4. CASE Restored
    <2>1. /\ daemon = "starting" /\ changing = None /\ changing' = None
          /\ UNCHANGED <<torn, disk, mem>> /\ reply \in Results
          /\ daemon' = CASE reply = "ok" -> "serving" [] reply = "elevate" -> "elevating"
                         [] reply = "failed" -> "down"
          /\ status' = IF reply = "failed" THEN None ELSE status
        BY <1>4 DEF Restored, IInv, RestInv
    <2>2. ~Up
        BY <2>1 DEF Up
    <2>3. CASE reply = "ok"
        <3>1. Up' /\ status' = status
            BY <2>1, <2>3 DEF Up
        <3> QED BY <1>2, <2>1, <2>2, <3>1
    <2>4. CASE reply = "elevate"
        <3>1. ~Up' /\ status' = status
            BY <2>1, <2>4 DEF Up
        <3> QED BY <2>1, <2>2, <3>1, CanceledServes DEF Up
    <2>5. CASE reply = "failed"
        <3>1. ~Up' /\ status' = None
            BY <2>1, <2>5 DEF Up
        <3> QED BY <1>1, <2>1, <3>1
    <2> QED BY <2>1, <2>3, <2>4, <2>5 DEF Results
<1>5. CASE ElevateFails
    <2>1. /\ daemon = "elevating" /\ daemon' = "recovering" /\ UNCHANGED <<status, torn, disk>>
          /\ changing'.call = None
        BY <1>5 DEF ElevateFails, NewChange
    <2>2. changing = None /\ status = None /\ ~Up /\ Up'
        BY <2>1 DEF PhaseInv, Up
    <2> QED BY <1>2, <2>1, <2>2
<1>6. CASE Recovered \/ \E to \in {"stopping", "restarting"} : Leave(to)
    <2>1. /\ UNCHANGED <<mem, status, torn>> /\ Up' = Up
          /\ changing' = IF changing = None THEN None
                         ELSE [changing EXCEPT !.canceled = TRUE]
        BY <1>6 DEF Recovered, Leave, Up
    <2> QED BY <2>1, CanceledServes
<1>7. CASE Stopped \/ Crash
    <2>1. /\ changing' = None /\ daemon' = "down" /\ status' = None /\ disk' = disk
          /\ torn' \in {torn, FALSE}
        BY <1>7 DEF Stopped, Crash
    <2>2. ~Up'
        BY <2>1 DEF Up
    <2> QED BY <1>1, <2>1, <2>2
<1> QED BY <1>3, <1>4, <1>5, <1>6, <1>7 DEF Main

(* The fields of a change that is handed another engine call *)
LEMMA ContinueShows ==
    ASSUME IInv, changing # None, NEW p \in State, NEW q \in State, NEW c \in Call,
           Continue(p, q, c)
    PROVE  /\ changing' # None /\ changing'.kind = changing.kind
           /\ changing'.before = changing.before /\ changing'.prev = p
           /\ changing'.next = q /\ changing'.call = c /\ changing'.result = None
           /\ c # None
<1>1. changing \in Change
    BY DEF IInv, ChangeInv
<1>2. changing' \in Change
    BY <1>1 DEF Continue, Change
<1> QED BY <1>1, <1>2, NoneAssumption DEF Continue, Change

(* restore ends the switch, or undoes it *)
LEMMA RollbackServes ==
    ASSUME IInv, MatchInv, RefusalInv, changing # None, changing.call # None => 
              changing.call.then = "switch",
           changing.kind # "RestoreFailed",
           NEW p \in State, NEW q \in State, FrameLive(p), Agrees(changing.before, p),
           Rollback(p, q)
    PROVE  /\ PromiseInv'
           /\ \/ status = changing.before /\ changing' = None
              \/ /\ status # changing.before
                 /\ Shown(changing)' = [step |-> "rollback", before |-> changing.before,
                                        goal |-> changing.before]
<1> USE NoneAssumption, CoreAssumption
<1> DEFINE b == changing.before
<1>1. b \in Status /\ (b # None => Found(p, b.ref))
    <2>1. changing \in Change
        BY DEF IInv, ChangeInv
    <2>2. b \in Status
        BY <2>1 DEF Change
    <2> QED BY <2>2 DEF Status, Running, Found, FrameLive, Agrees
<1>2. CASE status = b /\ Finish("failed")
    BY <1>2, NothingLeft DEF Finish
<1>3. ASSUME NEW c \in Call, c.then = "rollback", Continue(p, q, c), status # b
      PROVE  /\ PromiseInv'
             /\ Shown(changing)' = [step |-> "rollback", before |-> b, goal |-> b]
    <2>1. /\ changing' # None /\ changing'.kind = changing.kind /\ changing'.before = b
          /\ changing'.call = c /\ c # None
        BY <1>3, ContinueShows
    <2>2. FileInv(c)'
        BY <1>3 DEF FileInv
    <2>3. PromiseInv'
        BY <2>1, <2>2 DEF PromiseInv
    <2> QED BY <1>3, <2>1, <2>3, ShownKinds
<1>4. CASE status # b /\ b = None /\ Continue(p, q, Stop("rollback"))
    <2>1. Stop("rollback") \in Call /\ Stop("rollback").then = "rollback"
        BY DEF Stop, Call, Steps, Ref
    <2> QED BY <1>3, <1>4, <2>1
<1>5. CASE status # b /\ b # None /\ Continue(p, q, Start(b.ref, b.tun, "rollback"))
    <2>1. /\ Start(b.ref, b.tun, "rollback") \in Call
          /\ Start(b.ref, b.tun, "rollback").then = "rollback"
        BY <1>1, <1>5 DEF Start, Call, Steps, Ref, Status, Running
    <2> QED BY <1>3, <1>5, <2>1
<1> QED BY <1>1, <1>2, <1>4, <1>5 DEF Rollback

(* finishConnection, once the engine has answered a switch *)
LEMMA SwitchServes ==
    ASSUME IInv, IInv', PhaseInv, MatchInv, RefusalInv, PromiseInv, SwitchReturned
    PROVE  PromiseInv' /\ Serve
<1> USE NoneAssumption, CoreAssumption
<1> DEFINE b == changing.before
           c == changing.call
           prev == Collapse(changing.prev)
           next == Collapse(changing.next)
<1>1. /\ changing # None /\ changing \in Change /\ c # None /\ c \in Call
      /\ c.then = "switch" /\ UNCHANGED <<status, daemon>>
      /\ FinishConnection(changing.prev, changing.next, changing.result)
    BY DEF SwitchReturned, Returned, IInv, ChangeInv, Change, proc
<1>2. /\ SwitchInv(c) /\ FileInv(c) /\ changing.kind # "RestoreFailed"
      /\ changing.result = "elevate" => c.tun
    BY <1>1 DEF MatchInv, CallInv, PromiseInv, RefusalInv
<1>3. /\ changing.prev \in State /\ FrameLive(changing.prev)
      /\ changing.next \in State /\ FrameLive(changing.next)
      /\ b \in Status /\ status \in Status /\ StoreInv /\ StoreInv'
    BY <1>1 DEF IInv, ChangeInv, Change, EngineInv
<1>4. /\ prev \in State /\ FrameLive(prev)
      /\ prev.active = changing.prev.active /\ prev.tun = changing.prev.tun
      /\ prev.pending = changing.prev.pending
      /\ next \in State
      /\ next.active = changing.next.active /\ next.tun = changing.next.tun
      /\ next.pending = changing.next.pending
    BY <1>3, CollapseKeeps DEF Collapse, State
<1>5. /\ Chosen(prev) = Chosen(changing.prev) /\ Chosen(next) = Made(c)
      /\ prev.pending = None /\ next.pending = None
      /\ Agrees(b, prev)
    BY <1>1, <1>2, <1>4 DEF SwitchInv, FileInv, Chosen, Agrees
<1>6. Chosen(prev) = IF b = None THEN Chosen(mem) ELSE b
    BY <1>1, <1>2, <1>3, <1>5 DEF FileInv, Chosen, Agrees, Status, Running
<1>7. /\ Shown(changing) = [step |-> "switch", before |-> b, goal |-> Made(c)]
      /\ Shown(changing) # None
    <2>1. Shown(changing) = [step |-> "switch", before |-> b, goal |-> Made(c)]
        BY <1>1, ShownKinds
    <2>2. Made(c) \in [ref : Ref, tun : BOOLEAN]
        BY <1>1 DEF Made, Call
    <2>3. [step |-> "switch", before |-> b, goal |-> Made(c)] # None
        BY <1>3, <2>2, ShownIsRecord
    <2> QED BY <2>1, <2>3
<1>8. /\ Chosen(disk) = Chosen(mem) /\ Asking(disk) = Asking(mem)
      /\ Chosen(disk)' = Chosen(mem') /\ Asking(disk)' = Asking(mem')
      /\ Up' = Up
    BY <1>1, <1>3, FileShows DEF Up
<1>9. Promise!Before = Chosen(prev)
    BY <1>6, <1>7, <1>8 DEF Promise!Before
<1> HIDE DEF prev, next
<1>10. CASE Verdict(changing.result) = "ok" /\ Saved(next) /\ Finish("ok") /\ torn' = FALSE
    <2>1. status = Made(c)
        BY <1>2, <1>10 DEF Verdict, SwitchInv
    <2>2. Chosen(mem') = Made(c) /\ Asking(mem') = None
        BY <1>5, <1>10 DEF Saved, Asking
    <2>3. changing' = None /\ Shown(changing)' = None
        BY <1>10, ShownKinds DEF Finish
    <2>4. Promise!Done
        BY <1>1, <1>7, <1>8, <1>10, <2>1, <2>2, <2>3 DEF Promise!Done
    <2> QED BY <2>3, <2>4, NothingLeft DEF Serve, Promise!Next
<1>11. ASSUME Verdict(changing.result) = "elevate", Finish("elevate"), torn' = FALSE,
              NEW id \in Requests,
              Saved([prev EXCEPT !.pending =
                        [ref |-> next.active, tun |-> next.tun, id |-> id]])
       PROVE  PromiseInv' /\ Serve
    <2> DEFINE w == [ref |-> next.active, tun |-> next.tun, id |-> id]
    <2>1. w \in Pending /\ Made(w) = Made(c)
        BY <1>4, <1>5 DEF Pending, State, Made, Chosen
    <2> HIDE DEF w
    <2>2. mem' = [prev EXCEPT !.pending = w]
        BY <1>11 DEF Saved, w
    <2>3. mem'.active = prev.active /\ mem'.tun = prev.tun /\ mem'.pending = w
        BY <1>4, <2>2 DEF State
    <2>4. Chosen(mem') = Chosen(prev) /\ Asking(mem') = Made(c)
        BY <2>1, <2>3 DEF Chosen, Asking
    <2>5. changing' = None /\ Shown(changing)' = None
        BY <1>11, ShownKinds DEF Finish
    <2>6. status = b /\ Made(c).tun
        BY <1>2, <1>11 DEF Verdict, SwitchInv, Made
    <2>7. Promise!Waits
        BY <1>1, <1>7, <1>8, <1>9, <1>11, <2>4, <2>5, <2>6 DEF Promise!Waits
    <2> QED BY <2>5, <2>7, NothingLeft DEF Serve, Promise!Next
<1>12. CASE (Saved(prev) \/ SaveFailed) /\ Rollback(prev, next) /\ UNCHANGED torn
    <2>1. /\ PromiseInv'
          /\ \/ status = b /\ changing' = None
             \/ /\ status # b
                /\ Shown(changing)' = [step |-> "rollback", before |-> b, goal |-> b]
        BY <1>1, <1>2, <1>4, <1>5, <1>12, RollbackServes
    <2>2. Shown(changing)' =
              IF status = b THEN None
              ELSE [step |-> "rollback", before |-> b, goal |-> b]
        BY <2>1, ShownKinds
    <2>3. \/ UNCHANGED <<Chosen(disk), Asking(disk)>>
          \/ Chosen(disk)' = Chosen(prev) /\ Asking(disk)' = None
        BY <1>5, <1>8, <1>12 DEF Saved, SaveFailed, Asking
    <2>4. Promise!GivesUp
        BY <1>1, <1>7, <1>8, <1>9, <1>12, <2>2, <2>3 DEF Promise!GivesUp
    <2> QED BY <2>1, <2>4 DEF Serve, Promise!Next
<1> QED BY <1>1, <1>10, <1>11, <1>12 DEF FinishConnection, prev, next

(* Restore goes on to the stored connection, which is not a step by itself *)
LEMMA RestoreActiveServes ==
    ASSUME IInv, changing # None, changing.kind = "Restore",
           NEW s \in State, RestoreActive(s)
    PROVE  PromiseInv' /\ Shown(changing)' = None
<1> USE NoneAssumption, CoreAssumption
<1> DEFINE c == Start(s.active, s.tun, "active")
<1>1. c \in Call /\ c.then = "active"
    BY DEF Start, Call, Steps, State
<1>2. Finish("ok") \/ Continue(s, s, c)
    BY DEF RestoreActive
<1> HIDE DEF c
<1>3. CASE Finish("ok")
    BY <1>3, ShownKinds, NothingLeft DEF Finish
<1>4. CASE Continue(s, s, c)
    <2>1. /\ changing' # None /\ changing'.kind = "Restore" /\ changing'.call = c
          /\ c # None
        BY <1>1, <1>4, ContinueShows
    <2>2. FileInv(c)'
        BY <1>1, <2>1 DEF FileInv
    <2>3. PromiseInv'
        BY <2>1, <2>2 DEF PromiseInv
    <2> QED BY <1>1, <2>1, <2>3, ShownKinds
<1> QED BY <1>2, <1>3, <1>4

(* The other answers of the engine, once they are used *)
LEMMA ReturnServes ==
    ASSUME IInv, IInv', PhaseInv, MatchInv, RefusalInv, PromiseInv, Return
    PROVE  PromiseInv' /\ Serve
<1> USE NoneAssumption, CoreAssumption
<1> DEFINE b == changing.before
           c == changing.call
<1>1. /\ changing # None /\ changing \in Change /\ c # None /\ c \in Call
      /\ changing.result # None /\ UNCHANGED <<status, daemon>>
      /\ CallInv(c) /\ FileInv(c) /\ Up' = Up
    BY DEF Return, SwitchReturned, RollbackReturned, LastReturned, PendingReturned,
        ActiveReturned, Returned, IInv, ChangeInv, Change, proc, MatchInv, PromiseInv, Up
<1>2. ASSUME Shown(changing) = None, UNCHANGED <<mem, disk, torn>>, changing' = None
      PROVE  PromiseInv' /\ Serve
    <2>1. Shown(changing)' = None
        BY <1>2, ShownKinds
    <2>2. Chosen(disk)' = Chosen(disk) /\ Asking(disk)' = Asking(disk)
        BY <1>2 DEF Chosen, Asking
    <2> QED BY <1>1, <1>2, <2>1, <2>2, Unseen, NothingLeft
<1>3. ASSUME NEW step \in {"rollback", "renew"}, UNCHANGED <<mem, disk, torn>>,
             changing' = None, NEW goal \in Status \cup [ref : Ref, tun : BOOLEAN],
             Shown(changing) = [step |-> step, before |-> b, goal |-> goal],
             step = "rollback" => status \in {b, None} \/ torn
      PROVE  PromiseInv' /\ Serve
    <2>1. Shown(changing) # None
        <3>1. b \in Status
            BY <1>1 DEF Change
        <3>2. [step |-> step, before |-> b, goal |-> goal] # None
            BY <3>1, ShownIsRecord
        <3> QED BY <1>3, <3>2
    <2>2. Shown(changing)' = None
        BY <1>3, ShownKinds
    <2>3. Chosen(disk)' = Chosen(disk) /\ Asking(disk)' = Asking(disk)
        BY <1>3 DEF Chosen, Asking
    <2>4. Promise!Undone \/ Promise!Renewed
        BY <1>1, <1>3, <2>1, <2>2, <2>3 DEF Promise!Undone, Promise!Renewed
    <2> QED BY <1>3, <2>4, NothingLeft DEF Serve, Promise!Next
<1>4. CASE RollbackReturned
    <2>1. /\ c.then = "rollback" /\ changing' = None /\ UNCHANGED <<mem, disk, torn>>
        BY <1>4 DEF RollbackReturned, Returned, Finish
    <2>2. status \in {b, None} \/ torn
        BY <1>1, <2>1 DEF CallInv, RollbackInv
    <2>3. Shown(changing) = [step |-> "rollback", before |-> b, goal |-> b]
        BY <1>1, <2>1, ShownKinds
    <2>4. b \in Status \cup [ref : Ref, tun : BOOLEAN]
        BY <1>1 DEF Change
    <2> QED BY <1>3, <2>1, <2>2, <2>3, <2>4
<1>5. CASE LastReturned
    <2>1. c.then = "last" /\ changing' = None /\ UNCHANGED <<mem, disk, torn>>
        BY <1>5 DEF LastReturned, Returned, Finish
    <2>2. CASE c.ref # None /\ changing.kind = "Refresh"
        <3>1. Shown(changing) = [step |-> "renew", before |-> b, goal |-> Made(c)]
            BY <1>1, <2>1, <2>2, ShownKinds
        <3>2. Made(c) \in Status \cup [ref : Ref, tun : BOOLEAN]
            BY <1>1 DEF Made, Call
        <3> QED BY <1>3, <2>1, <3>1, <3>2
    <2>3. CASE c.ref = None \/ changing.kind # "Refresh"
        <3>1. Shown(changing) = None
            BY <1>1, <2>1, <2>3, ShownKinds
        <3> QED BY <1>2, <2>1, <3>1
    <2> QED BY <2>2, <2>3
<1>6. CASE ActiveReturned
    <2>1. c.then = "active" /\ changing' = None /\ UNCHANGED <<mem, disk, torn>>
        BY <1>6 DEF ActiveReturned, Returned, Finish
    <2> QED BY <1>1, <1>2, <2>1, ShownKinds
<1>7. CASE PendingReturned
    <2> DEFINE p == changing.prev
    <2>1. c.then = "pending" /\ torn' = torn
        BY <1>7 DEF PendingReturned, Returned
    <2>2. /\ PendingInv(c) /\ changing.kind = "Restore" /\ daemon = "starting"
          /\ p.pending # None /\ p.pending = mem.pending /\ Chosen(p) = Chosen(mem)
          /\ p \in State /\ mem \in State /\ StoreInv /\ StoreInv'
          /\ Shown(changing) = None
        BY <1>1, <2>1, ShownKinds
            DEF CallInv, MatchInv, FileInv, IInv, ChangeInv, CallLive, Change, StoreInv
    <2>3. CASE (UNCHANGED <<mem, disk>> \/ SaveFailed) /\ \E err : Finish(err)
        BY <1>2, <2>1, <2>2, <2>3 DEF Finish, SaveFailed
    <2>4. CASE Saved(Resolved(p)) /\ RestoreActive(mem')
        <3>1. Asking(mem) = Made(c) /\ Asking(mem) # None
            <4>1. Asking(mem) = Made(c)
                BY <2>2 DEF PendingInv, Asking, Made
            <4>2. mem.pending.ref \in mem.nodes /\ mem.pending.tun \in BOOLEAN
                BY <2>2 DEF StoreInv, Live, State, Pending
            <4>3. Asking(mem) \in Running
                BY <2>2, <4>2 DEF Asking, Made, Running, State
            <4> QED BY <4>1, <4>3
        <3>2. status \in {Made(c), None}
            BY <2>2 DEF PendingInv
        <3>3. /\ Asking(mem') = None
              /\ Chosen(mem') = IF status = Made(c) THEN Made(c) ELSE Chosen(mem)
            <4>1. mem' = Resolved(p)
                BY <2>4 DEF Saved
            <4>2. [ref |-> p.pending.ref, tun |-> p.pending.tun] = Made(c)
                BY <2>2 DEF PendingInv
            <4>3. CASE status = Made(c)
                <5>1. /\ mem'.active = p.pending.ref /\ mem'.tun = p.pending.tun
                      /\ mem'.pending = None
                    BY <2>2, <4>1, <4>2, <4>3 DEF Resolved, Collapse, State
                <5> QED BY <4>2, <4>3, <5>1 DEF Chosen, Asking
            <4>4. CASE status # Made(c)
                <5>1. /\ mem'.active = p.active /\ mem'.tun = p.tun
                      /\ mem'.pending = None
                    BY <2>2, <4>1, <4>2, <4>4 DEF Resolved, Collapse, State
                <5> QED BY <2>2, <4>4, <5>1 DEF Chosen, Asking
            <4> QED BY <4>3, <4>4
        <3>4. PromiseInv' /\ Shown(changing)' = None
            <4>1. mem' \in State
                BY <2>2 DEF StoreInv
            <4> QED BY <1>1, <2>2, <2>4, <4>1, RestoreActiveServes
        <3>5. ~Up
            BY <2>2 DEF Up
        <3>6. Promise!Tried
            BY <1>1, <2>1, <2>2, <3>1, <3>2, <3>3, <3>4, <3>5, FileShows DEF Promise!Tried
        <3> QED BY <3>4, <3>6 DEF Serve, Promise!Next
    <2> QED BY <1>7, <2>3, <2>4 DEF PendingReturned
<1> QED BY <1>4, <1>5, <1>6, <1>7, SwitchServes DEF Return

(* An action that ends without a commit *)
LEMMA EndsUnseen ==
    ASSUME Shown(changing) = None, changing' = None,
           UNCHANGED <<mem, disk, status, torn, daemon>>
    PROVE  PromiseInv' /\ Serve
<1>1. Shown(changing)' = None
    BY ShownKinds
<1>2. Chosen(disk)' = Chosen(disk) /\ Asking(disk)' = Asking(disk) /\ Up' = Up
    BY DEF Chosen, Asking, Up
<1> QED BY <1>1, <1>2, Unseen, NothingLeft

(* Connect and SetTun call the engine for a connection *)
LEMMA SwitchBegins ==
    ASSUME IInv, PhaseInv, MatchInv, changing # None, changing.call = None,
           changing.kind \in {"Connect", "SetTun"},
           UNCHANGED <<mem, disk, status, torn, daemon>>,
           NEW p \in State, NEW q \in State, NEW c \in Call,
           c.then = "switch", c.ref \in Nodes, p.pending = None, q.pending = None,
           status = None => Chosen(p) = Chosen(mem),
           changing' = [changing EXCEPT !.before = status, !.prev = p, !.next = q,
                                        !.call = c]
    PROVE  PromiseInv' /\ Serve
<1> USE NoneAssumption, CoreAssumption
<1>1. changing \in Change /\ changing.result = None /\ status \in Status
    BY DEF IInv, ChangeInv, EngineInv, MatchInv, QuietInv
<1>2. /\ changing' # None /\ changing'.kind = changing.kind
      /\ changing'.before = status /\ changing'.prev = p /\ changing'.next = q
      /\ changing'.call = c /\ c # None
    <2>1. changing' \in Change
        BY <1>1 DEF Change
    <2> QED BY <1>1, <2>1 DEF Change
<1>3. FileInv(c)'
    BY <1>2 DEF FileInv, Chosen
<1>4. PromiseInv'
    BY <1>2, <1>3 DEF PromiseInv
<1>5. Shown(changing) = None
      /\ Shown(changing)' = [step |-> "switch", before |-> status, goal |-> Made(c)]
    BY <1>2, ShownKinds
<1>6. Made(c) \in Promise!Running
    BY DEF Made, Call, Promise!Running
<1>7. Up /\ Up' = Up
    BY UpInChange DEF Up
<1>8. Chosen(disk)' = Chosen(disk) /\ Asking(disk)' = Asking(disk)
    BY DEF Chosen, Asking
<1>9. Promise!Switches
    BY <1>5, <1>6, <1>7, <1>8 DEF Promise!Switches
<1> QED BY <1>4, <1>9 DEF Serve, Promise!Next

(* Connect and SetTun up to their engine call, if they need one *)
LEMMA BeginServes ==
    ASSUME IInv, IInv', PhaseInv, MatchInv, PromiseInv,
           \/ \E ref \in Nodes, mode \in BOOLEAN \cup {None} : RunConnect(ref, mode)
           \/ \E tun \in BOOLEAN : RunSetTun(tun)
    PROVE  PromiseInv' /\ Serve
<1> USE NoneAssumption, CoreAssumption
<1>1. /\ changing # None /\ changing.call = None /\ ~changing.canceled /\ ~Calling
      /\ changing.kind \in {"Connect", "SetTun"}
      /\ UNCHANGED <<status, daemon>>
    BY DEF RunConnect, RunSetTun, Runs, Calling, proc
<1>2. /\ Previous \in State /\ FrameLive(Previous) /\ Previous.pending = None
      /\ status = None => Chosen(Previous) = Chosen(mem)
      /\ status # None => Chosen(Previous) = status
    <2>1. Previous \in State /\ FrameLive(Previous) /\ Previous.pending = None
        BY <1>1, PreviousKeeps
    <2>2. mem \in State /\ status \in Status
        BY DEF IInv, StoreInv, EngineInv
    <2>3. CASE status = None
        BY <2>1, <2>2, <2>3 DEF Previous, Chosen, State
    <2>4. CASE status # None
        <3>1. Previous.active = status.ref /\ Previous.tun = status.tun
            BY <2>2, <2>4 DEF Previous, State
        <3> QED BY <2>1, <2>2, <2>4, <3>1 DEF Chosen, Status, Running
    <2> QED BY <2>1, <2>3, <2>4
<1>3. Shown(changing) = None
    BY <1>1, ShownKinds
<1>4. ASSUME Finish("failed"), UNCHANGED <<mem, disk, torn>> PROVE PromiseInv' /\ Serve
    BY <1>1, <1>3, <1>4, EndsUnseen DEF Finish
<1>5. ASSUME NEW ref \in Nodes, NEW mode \in BOOLEAN \cup {None}, RunConnect(ref, mode)
      PROVE  PromiseInv' /\ Serve
    <2> DEFINE tun  == IF mode = None THEN Previous.tun ELSE mode
               next == [Previous EXCEPT !.active = ref, !.last = ref, !.tun = tun]
               c    == Start(ref, tun, "switch")
    <2>1. UNCHANGED <<mem, disk, status, daemon, torn>>
        BY <1>5 DEF RunConnect, proc
    <2>2. \/ Finish("failed")
          \/ changing' = [changing EXCEPT !.before = status, !.prev = Previous,
                                          !.next = next, !.call = c]
        BY <1>5 DEF RunConnect
    <2>3. tun \in BOOLEAN
        BY <1>2 DEF State
    <2> HIDE DEF tun
    <2>4. next \in State /\ next.pending = None
        BY <1>2, <2>3 DEF State, Ref
    <2>5. c \in Call /\ c.then = "switch" /\ c.ref \in Nodes
        BY <2>3 DEF Start, Call, Steps, Ref
    <2> HIDE DEF next, c
    <2>6. CASE changing' = [changing EXCEPT !.before = status, !.prev = Previous,
                                            !.next = next, !.call = c]
        BY <1>1, <1>2, <2>1, <2>4, <2>5, <2>6, SwitchBegins
    <2> QED BY <1>4, <2>1, <2>2, <2>6
<1>6. ASSUME NEW tun \in BOOLEAN, RunSetTun(tun) PROVE PromiseInv' /\ Serve
    <2> DEFINE next == [Previous EXCEPT !.tun = tun]
               c    == Start(status.ref, tun, "switch")
    <2>1. /\ next \in State /\ FrameLive(next) /\ next.pending = None
          /\ next.active = Previous.active /\ next.tun = tun
        BY <1>2 DEF State, FrameLive
    <2>2. CASE /\ status # None /\ UNCHANGED <<mem, disk, torn>>
               /\ changing' = [changing EXCEPT !.before = status, !.prev = Previous,
                                               !.next = next, !.call = c]
        <3>1. status \in Running
            BY <2>2 DEF IInv, EngineInv, Status
        <3>2. c \in Call /\ c.then = "switch" /\ c.ref \in Nodes
            BY <3>1 DEF Start, Call, Steps, Ref, Running
        <3> HIDE DEF next, c
        <3> QED BY <1>1, <1>2, <2>1, <2>2, <3>2, SwitchBegins
    <2>3. CASE (status = None \/ status.tun = tun) /\ FinishConnection(Previous, next, "ok")
        <3> DEFINE n == Collapse(next)
        <3>1. \/ Saved(n) /\ Finish("ok") /\ torn' = FALSE
              \/ SaveFailed /\ Rollback(Collapse(Previous), n) /\ torn' = torn
            BY <1>1, <2>3 DEF FinishConnection, Verdict
        <3>2. status = changing.before
            BY <1>1 DEF MatchInv, QuietInv
        <3>3. CASE Saved(n) /\ Finish("ok") /\ torn' = FALSE
            <4>1. /\ mem'.active = Previous.active /\ mem'.tun = tun /\ mem'.pending = None
                BY <2>1, <3>3 DEF Saved, Collapse, State
            <4>2. /\ Asking(mem') = None
                  /\ status = None => Chosen(mem') = [Chosen(mem) EXCEPT !.tun = tun]
                  /\ status # None => Chosen(mem') = status
                BY <1>2, <2>3, <4>1 DEF Asking, Chosen
            <4>3. changing' = None /\ Shown(changing)' = None
                BY <3>3, ShownKinds DEF Finish
            <4>4. Up /\ Up' = Up
                BY <1>1, UpInChange DEF Up
            <4>5. StoreInv /\ StoreInv'
                BY DEF IInv
            <4>6. Promise!Mode
                BY <1>1, <1>3, <3>3, <4>2, <4>3, <4>4, <4>5, FileShows DEF Promise!Mode
            <4> QED BY <4>3, <4>6, NothingLeft DEF Serve, Promise!Next
        <3> QED BY <1>4, <3>1, <3>2, <3>3 DEF Rollback, SaveFailed
    <2> QED BY <1>4, <1>6, <2>2, <2>3 DEF RunSetTun
<1> QED BY <1>5, <1>6

(* finishDisconnect: the engine is stopped for what is no longer stored *)
LEMMA DropServes ==
    ASSUME IInv, IInv', PhaseInv, PromiseInv, changing # None, changing.call = None,
           UNCHANGED <<status, torn, daemon>>,
           changing.kind \notin {"Restore", "RestoreFailed"},
           NEW s \in State, mem' = s, NEW drop, FinishDrop(s, drop),
           drop /\ status # None => status.ref # s.active,
           s.active = mem.active \/ s.active = None, s.tun = mem.tun,
           s.pending = mem.pending \/ s.pending = None
    PROVE  PromiseInv' /\ Serve
<1> USE NoneAssumption, CoreAssumption
<1>1. PromiseInv' /\ Shown(changing)' = None
    <2>1. CASE Finish("ok")
        BY <2>1, ShownKinds, NothingLeft DEF Finish
    <2>2. CASE drop /\ Continue(s, s, Stop("last"))
        <3> DEFINE c == Stop("last")
        <3>1. c \in Call /\ c.then = "last" /\ c.ref = None
            BY DEF Stop, Call, Steps, Ref
        <3>2. Continue(s, s, c)
            BY <2>2
        <3> HIDE DEF c
        <3>3. /\ changing' # None /\ changing'.kind = changing.kind
              /\ changing'.call = c /\ c # None
            BY <3>1, <3>2, ContinueShows
        <3>4. FileInv(c)'
            BY <2>2, <3>1 DEF FileInv
        <3>5. PromiseInv'
            BY <3>3, <3>4 DEF PromiseInv
        <3> QED BY <3>1, <3>3, <3>5, ShownKinds
    <2> QED BY <2>1, <2>2 DEF FinishDrop
<1>2. Up /\ Up' = Up /\ Shown(changing) = None
    BY UpInChange, ShownKinds DEF Up
<1>3. StoreInv /\ StoreInv'
    BY DEF IInv
<1> QED BY <1>1, <1>2, <1>3, Forgotten

(* sanitizeRefs only forgets *)
LEMMA SanitizedForgets ==
    ASSUME NEW s \in State, NEW sub
    PROVE  /\ Sanitized(s, sub).active \in {s.active, None}
           /\ Sanitized(s, sub).pending \in {s.pending, None}
           /\ Sanitized(s, sub).tun = s.tun /\ Sanitized(s, sub).nodes = s.nodes
BY DEF Sanitized, State

(* Disconnect, the edits of the list and a refresh *)
LEMMA EditServes ==
    ASSUME IInv, IInv', PhaseInv, MatchInv, PromiseInv,
           \/ RunCanceled \/ RunDisconnect
           \/ \E sub \in Subs, nodes \in SUBSET Nodes :
                 RunAddSubscription(sub, nodes) \/ RunRefresh(sub, nodes)
           \/ \E sub \in Subs : RunRemoveSubscription(sub)
           \/ \E node \in Nodes : RunRemoveNode(node)
    PROVE  PromiseInv' /\ Serve
<1> USE NoneAssumption, CoreAssumption
<1>1. /\ changing # None /\ changing.call = None /\ Shown(changing) = None
      /\ UNCHANGED <<status, torn, daemon>> /\ Up' = Up
      /\ mem \in State /\ Live(mem) /\ Live(mem') /\ status \in Status
      /\ StoreInv /\ StoreInv'
    BY ShownKinds DEF RunCanceled, RunDisconnect, RunAddSubscription, RunRefresh,
        RunRemoveSubscription, RunRemoveNode, Runs, proc, Up, IInv, StoreInv, EngineInv
<1>2. ASSUME UNCHANGED <<mem, disk>>, NEW err, Finish(err) PROVE PromiseInv' /\ Serve
    BY <1>1, <1>2, EndsUnseen DEF Finish
<1>3. CASE RunCanceled
    BY <1>2, <1>3 DEF RunCanceled
<1>4. CASE RunDisconnect
    <2> DEFINE s == [mem EXCEPT !.active = None, !.pending = None]
    <2>1. s \in State /\ s.active = None /\ s.pending = None /\ s.tun = mem.tun
        BY <1>1 DEF State, Ref
    <2>2. \/ mem' = s /\ FinishDrop(mem', TRUE)
          \/ UNCHANGED <<mem, disk>> /\ Finish("failed")
        BY <1>4 DEF RunDisconnect, Saved, SaveFailed
    <2>3. changing.kind \notin {"Restore", "RestoreFailed"}
        BY <1>4 DEF RunDisconnect, Runs
    <2> HIDE DEF s
    <2>4. status # None => status.ref # s.active
        BY <1>1, <2>1 DEF Status, Running
    <2>5. CASE mem' = s /\ FinishDrop(s, TRUE)
        BY <1>1, <2>1, <2>3, <2>4, <2>5, DropServes
    <2> QED BY <1>2, <2>2, <2>5
<1>5. ASSUME NEW sub \in Subs, NEW nodes \in SUBSET Nodes, RunAddSubscription(sub, nodes)
      PROVE  PromiseInv' /\ Serve
    <2>1. CASE UNCHANGED <<mem, disk>> /\ Finish("failed")
        BY <1>2, <2>1
    <2>2. CASE /\ Saved([mem EXCEPT !.subs = @ \cup {sub}, !.nodes = @ \cup nodes])
               /\ Finish("ok")
        <3>1. mem'.active = mem.active /\ mem'.tun = mem.tun /\ mem'.pending = mem.pending
            BY <1>1, <2>2 DEF Saved, State
        <3>2. changing' = None /\ Shown(changing)' = None
            BY <2>2, ShownKinds DEF Finish
        <3> QED BY <1>1, <3>1, <3>2, Forgotten, NothingLeft
    <2> QED BY <1>5, <2>1, <2>2 DEF RunAddSubscription, SaveFailed
<1>6. ASSUME NEW s \in State, NEW sub, Remove(s, sub),
             changing.kind \notin {"Restore", "RestoreFailed"},
             s.active = mem.active, s.pending = mem.pending, s.tun = mem.tun
      PROVE  PromiseInv' /\ Serve
    <2> DEFINE kept == Sanitized(s, sub)
               drop == DropsConnection(s, sub)
    <2>1. \/ mem' = kept /\ FinishDrop(kept, drop)
          \/ UNCHANGED <<mem, disk>> /\ Finish("failed")
        BY <1>6 DEF Remove, Saved, SaveFailed
    <2>2. /\ kept.active \in {mem.active, None} /\ kept.pending \in {mem.pending, None}
          /\ kept.tun = mem.tun /\ kept.nodes = s.nodes
        BY <1>6, SanitizedForgets
    <2>3. drop => status # None /\ status.ref \notin s.nodes
        BY DEF DropsConnection
    <2> HIDE DEF kept, drop
    <2>4. CASE mem' = kept /\ FinishDrop(kept, drop)
        <3>1. kept.active \in s.nodes \cup {None} /\ kept \in State
            BY <1>1, <2>2, <2>4 DEF Live, StoreInv
        <3>2. drop => status.ref # kept.active
            BY <1>1, <2>3, <3>1 DEF Status, Running
        <3> QED BY <1>1, <1>6, <2>2, <2>4, <3>1, <3>2, DropServes
    <2> QED BY <1>2, <2>1, <2>4
<1>7. ASSUME NEW sub \in Subs, RunRemoveSubscription(sub) PROVE PromiseInv' /\ Serve
    <2> DEFINE s == [mem EXCEPT !.subs = @ \ {sub}, !.nodes = @ \ NodesOf({sub}),
                                !.collapsed = @ \ {sub}]
    <2>1. /\ s \in State /\ s.active = mem.active /\ s.pending = mem.pending
          /\ s.tun = mem.tun
        BY <1>1 DEF State
    <2>2. /\ Remove(s, sub) \/ (UNCHANGED <<mem, disk>> /\ Finish("failed"))
          /\ changing.kind \notin {"Restore", "RestoreFailed"}
        BY <1>7 DEF RunRemoveSubscription, Runs
    <2> HIDE DEF s
    <2> QED BY <1>2, <1>6, <2>1, <2>2
<1>8. ASSUME NEW node \in Nodes, RunRemoveNode(node) PROVE PromiseInv' /\ Serve
    <2> DEFINE s == [mem EXCEPT !.nodes = @ \ {node}]
    <2>1. /\ s \in State /\ s.active = mem.active /\ s.pending = mem.pending
          /\ s.tun = mem.tun
        BY <1>1 DEF State
    <2>2. /\ Remove(s, SubOf[node]) \/ (UNCHANGED <<mem, disk>> /\ Finish("failed"))
          /\ changing.kind \notin {"Restore", "RestoreFailed"}
        BY <1>8 DEF RunRemoveNode, Runs
    <2> HIDE DEF s
    <2> QED BY <1>2, <1>6, <2>1, <2>2
<1>9. ASSUME NEW sub \in Subs, NEW nodes \in SUBSET Nodes, RunRefresh(sub, nodes)
      PROVE  PromiseInv' /\ Serve
    <2> DEFINE fetched == [mem EXCEPT !.nodes = (@ \ NodesOf({sub})) \cup nodes]
               next    == Sanitized(fetched, sub)
               drop    == DropsConnection(fetched, sub)
               call    == Start(status.ref, status.tun, "last")
    <2>1. changing.kind = "Refresh" /\ Up
        BY <1>1, <1>9, UpInChange DEF RunRefresh, Runs
    <2>2. /\ fetched \in State /\ fetched.active = mem.active
          /\ fetched.pending = mem.pending /\ fetched.tun = mem.tun
        BY <1>1 DEF State
    <2>3. /\ next.active \in {mem.active, None} /\ next.pending \in {mem.pending, None}
          /\ next.tun = mem.tun /\ next.nodes = fetched.nodes
        BY <2>2, SanitizedForgets
    <2>4. drop => status # None /\ status.ref \notin fetched.nodes
        BY DEF DropsConnection
    <2>5. \/ UNCHANGED <<mem, disk>> /\ Finish("failed")
          \/ mem' = next /\ FinishDrop(next, drop)
          \/ mem' = next /\ status # None /\ Continue(next, next, call)
        BY <1>9 DEF RunRefresh, Saved, SaveFailed
    <2> HIDE DEF next, drop, fetched
    <2>6. CASE mem' = next /\ FinishDrop(next, drop)
        <3>1. next.active \in fetched.nodes \cup {None} /\ next \in State
            BY <1>1, <2>3, <2>6 DEF Live, StoreInv
        <3>2. drop => status.ref # next.active
            BY <1>1, <2>4, <3>1 DEF Status, Running
        <3> QED BY <1>1, <2>1, <2>3, <2>6, <3>1, <3>2, DropServes
    <2>7. CASE mem' = next /\ status # None /\ Continue(next, next, call)
        <3>1. PICK c \in Call : /\ c = call /\ c.then = "last" /\ c.ref # None
                                /\ Made(c) = status
            BY <1>1, <2>7 DEF Start, Call, Steps, Ref, Status, Running, Made
        <3> HIDE DEF call
        <3>2. next \in State
            BY <1>1, <2>7 DEF StoreInv
        <3>3. /\ changing' # None /\ changing'.kind = "Refresh"
              /\ changing'.before = status /\ changing'.call = c /\ c # None
            <4>1. changing.before = status
                BY <1>1 DEF MatchInv, QuietInv
            <4> QED BY <1>1, <2>1, <2>7, <3>1, <3>2, <4>1, ContinueShows
        <3>4. FileInv(c)'
            BY <1>1, <3>1, <3>3 DEF FileInv, Made
        <3>5. PromiseInv'
            BY <3>3, <3>4 DEF PromiseInv
        <3>6. Shown(changing)' = [step |-> "renew", before |-> status, goal |-> status]
            BY <3>1, <3>3, ShownKinds
        <3>7. Promise!Forgetting
            BY <1>1, <2>1, <2>3, <2>7, ForgettingSteps
        <3>8. Promise!Renews
            BY <1>1, <2>1, <2>7, <3>6, <3>7 DEF Promise!Renews
        <3> QED BY <3>5, <3>8 DEF Serve, Promise!Next
    <2> QED BY <1>2, <2>5, <2>6, <2>7
<1> QED BY <1>3, <1>4, <1>5, <1>7, <1>8, <1>9

(* Restore and RestoreFailed up to their engine call *)
LEMMA RestoreServes ==
    ASSUME IInv, IInv', PhaseInv, MatchInv, PromiseInv, RunRestore \/ RunRestoreFailed
    PROVE  PromiseInv' /\ Serve
<1> USE NoneAssumption, CoreAssumption
<1>1. /\ changing # None /\ changing.call = None /\ Shown(changing) = None
      /\ UNCHANGED <<status, torn, daemon>> /\ Up' = Up
      /\ mem \in State /\ mem' \in State /\ StoreInv /\ StoreInv'
    BY ShownKinds DEF RunRestore, RunRestoreFailed, Runs, proc, Up, IInv, StoreInv
<1> DEFINE s == [mem EXCEPT !.pending = None]
<1>2. s \in State /\ s.active = mem.active /\ s.tun = mem.tun /\ s.pending = None
    BY <1>1 DEF State
<1> HIDE DEF s
<1>3. ASSUME Shown(changing)' = None, mem' = mem \/ mem' = s PROVE Serve
    BY <1>1, <1>2, <1>3, Forgotten
<1>4. ASSUME NEW err, Finish(err), mem' = mem \/ mem' = s PROVE PromiseInv' /\ Serve
    <2>1. changing' = None /\ Shown(changing)' = None
        BY <1>4, ShownKinds DEF Finish
    <2> QED BY <1>3, <1>4, <2>1, NothingLeft
<1>5. CASE RunRestore
    <2>1. changing.kind = "Restore"
        BY <1>5 DEF RunRestore, Runs
    <2> DEFINE call == Start(mem.pending.ref, mem.pending.tun, "pending")
    <2>2. \/ mem' = mem /\ Finish("failed")
          \/ (mem' = mem \/ mem' = s) /\ RestoreActive(mem')
          \/ mem' = mem /\ mem.pending # None /\ Continue(mem, mem, call)
        BY <1>5 DEF RunRestore, Saved, SaveFailed, s
    <2>3. CASE (mem' = mem \/ mem' = s) /\ RestoreActive(mem')
        <3>1. PromiseInv' /\ Shown(changing)' = None
            BY <1>1, <2>1, <2>3, RestoreActiveServes
        <3> QED BY <1>3, <2>3, <3>1
    <2>4. CASE mem' = mem /\ mem.pending # None /\ Continue(mem, mem, call)
        <3>1. PICK c \in Call : c = call /\ c.then = "pending"
            BY <1>1, <2>4 DEF Start, Call, Steps, State, Pending
        <3> HIDE DEF call
        <3>2. /\ changing' # None /\ changing'.kind = "Restore" /\ changing'.prev = mem
              /\ changing'.call = c /\ c # None
            BY <1>1, <2>1, <2>4, <3>1, ContinueShows
        <3>3. FileInv(c)'
            BY <2>4, <3>1, <3>2 DEF FileInv
        <3>4. PromiseInv'
            BY <3>2, <3>3 DEF PromiseInv
        <3>5. Shown(changing)' = None
            BY <3>1, <3>2, ShownKinds
        <3> QED BY <1>3, <2>4, <3>4, <3>5
    <2> QED BY <1>4, <2>2, <2>3, <2>4
<1>6. CASE RunRestoreFailed
    <2>1. changing.kind = "RestoreFailed" /\ status = None
        BY <1>1, <1>6 DEF RunRestoreFailed, Runs, PromiseInv
    <2> DEFINE call == Start(mem.active, FALSE, "last")
    <2>2. /\ mem' = mem \/ mem' = s
          /\ \/ Finish("ok")
             \/ ~mem.tun /\ Found(mem, mem.active) /\ Continue(mem, mem, call)
        BY <1>6 DEF RunRestoreFailed, Saved, SaveFailed, s
    <2>3. CASE ~mem.tun /\ Found(mem, mem.active) /\ Continue(mem, mem, call)
        <3>0. mem.tun = FALSE /\ call.ref = mem.active /\ call.tun = FALSE
            BY <1>1, <2>3 DEF Start, State
        <3>1. PICK c \in Call : /\ c = call /\ c.then = "last" /\ c.ref # None
                                /\ Made(c) = Chosen(mem)
            <4>1. call \in Call /\ call.then = "last" /\ call.ref # None
                BY <1>1, <2>3 DEF Start, Call, Steps, State, Found
            <4>2. Made(call) = Chosen(mem)
                BY <3>0 DEF Made, Chosen
            <4> HIDE DEF call
            <4> QED BY <4>1, <4>2
        <3> HIDE DEF call
        <3>2. /\ changing' # None /\ changing'.kind = "RestoreFailed"
              /\ changing'.call = c /\ c # None /\ changing'.result = None
            BY <1>1, <2>1, <2>3, <3>1, ContinueShows
        <3>3. Made(c)' = Made(c) /\ Chosen(mem)' = Chosen(mem)
            BY <1>2, <2>2 DEF Made, Chosen
        <3>4. FileInv(c)'
            BY <2>1, <3>1, <3>2, <3>3 DEF FileInv
        <3>5. PromiseInv'
            BY <1>1, <2>1, <3>2, <3>4 DEF PromiseInv
        <3>6. Shown(changing)' = None
            BY <3>1, <3>2, ShownKinds
        <3> QED BY <1>3, <2>2, <3>5, <3>6
    <2> QED BY <1>4, <2>2, <2>3
<1> QED BY <1>5, <1>6

(* Every step of Core keeps the invariant, and is a step of Service or none *)
LEMMA StepServes ==
    ASSUME IInv, IInv', PhaseInv, MatchInv, RefusalInv, PromiseInv, [Next]_vars
    PROVE  PromiseInv' /\ Serve
<1>1. CASE Next
    <2>1. Action => PromiseInv' /\ Serve
        BY BeginServes, EditServes, RestoreServes DEF Action
    <2> QED BY <1>1, <2>1, ClientServes, ReturnServes, EngineServes, MainServes DEF Next
<1>2. CASE UNCHANGED vars
    <2>1. Up' = Up
        BY <1>2 DEF vars, proc, Up
    <2> QED BY <1>2, <2>1, SameServes DEF vars
<1> QED BY <1>1, <1>2

(* A daemon that has not run yet has no promise to keep *)
LEMMA InitServes == Init => PromiseInv /\ Promise!Init
<1> SUFFICES ASSUME Init PROVE PromiseInv /\ Promise!Init
    OBVIOUS
<1>1. /\ changing = None /\ status = None /\ torn = FALSE /\ daemon = "down"
      /\ disk.active = None /\ disk.tun = FALSE /\ disk.pending = None
    BY DEF Init, Empty
<1>2. Shown(changing) = None
    BY <1>1, ShownKinds
<1> QED BY <1>1, <1>2 DEF PromiseInv, Promise!Init, Chosen, Asking, Up

(* What a change knows of the file while the engine works for it is          *)
(* inductive, given the rest: in particular, the engine is only stopped for  *)
(* a connection that is not the stored one (finishDisconnect), and started   *)
(* by RestoreFailed for the stored one                                       *)
THEOREM PromiseInvariant == Spec => []PromiseInv
<1>1. IInv /\ IInv' /\ PhaseInv /\ MatchInv /\ RefusalInv /\ PromiseInv /\ [Next]_vars
          => PromiseInv'
    BY StepServes
<1> QED BY RefusalInvariant, InitServes, <1>1, PTL DEF Spec

(* The daemon, with its one change at a time, its engine that may refuse or  *)
(* fail and its file, keeps the promise of Service: a switch is done in the  *)
(* engine and in the file, or waits, or is undone, and a stored connection   *)
(* runs until it is switched or forgotten (package core)                     *)
THEOREM ServiceTheorem == Spec => ImplementsService
<1>1. IInv /\ IInv' /\ PhaseInv /\ MatchInv /\ RefusalInv /\ PromiseInv /\ [Next]_vars
          => [Promise!Next]_(Promise!vars)
    BY StepServes DEF Serve
<1> QED BY RefusalInvariant, PromiseInvariant, InitServes, <1>1, PTL
        DEF Spec, ImplementsService, Promise!Spec
-----------------------------------------------------------------------------
(* What the file keeps of the connection.  Each lemma speaks of memory, where *)
(* the changes are made; the file shows the same.                            *)

LEMMA StoredKept ==
    ASSUME NEW s \in State, NEW t \in State
    PROVE  /\ KeptOrGone(s, t) => KeptOrGone(Stored(s), Stored(t))
           /\ Settles(s, t) => Settles(Stored(s), Stored(t))
<1> USE NoneAssumption
<1>1. ASSUME NEW r \in State
      PROVE  /\ Stored(r).active = r.active /\ Stored(r).last = r.last
             /\ Stored(r).tun = r.tun /\ Stored(r).nodes = r.nodes
             /\ r.pending = None => Stored(r).pending = None
             /\ r.pending # None => Stored(r).pending.ref = r.pending.ref
    BY <1>1 DEF Stored, State, Pending
<1>2. s.pending = t.pending => Stored(s).pending = Stored(t).pending
    <2>1. CASE s.pending = None
        BY <1>1, <2>1
    <2>2. CASE s.pending # None
        BY <2>2 DEF Stored, State
    <2> QED BY <2>1, <2>2
<1>3. /\ Chosen(Stored(s)) = Chosen(s) /\ Asking(Stored(s)) = Asking(s)
      /\ Chosen(Stored(t)) = Chosen(t)
    BY StoredShows
<1>4. ASSUME KeptOrGone(s, t) PROVE KeptOrGone(Stored(s), Stored(t))
    <2>1. CASE t.pending = s.pending
        BY <1>1, <1>2, <1>4, <2>1 DEF KeptOrGone
    <2>2. CASE t.pending # s.pending
        <3>1. t.pending = None /\ s.pending # None /\ s.pending.ref \notin t.nodes
            BY <1>4, <2>2 DEF KeptOrGone
        <3> QED BY <1>1, <1>4, <3>1 DEF KeptOrGone
    <2> QED BY <2>1, <2>2
<1>5. ASSUME Settles(s, t) PROVE Settles(Stored(s), Stored(t))
    BY <1>1, <1>3, <1>5 DEF Settles
<1> QED BY <1>4, <1>5

(* sanitizeRefs forgets a reference only when the node is gone *)
LEMMA SanitizedKept ==
    ASSUME NEW s \in State, NEW sub, s.active = mem.active, s.last = mem.last,
           s.pending = mem.pending, s.tun = mem.tun
    PROVE  KeptOrGone(mem, Sanitized(s, sub))
BY DEF KeptOrGone, Sanitized, State

(* The edits of the list and a refresh *)
LEMMA EditKept ==
    ASSUME IInv,
           \/ \E sub \in Subs, nodes \in SUBSET Nodes :
                 RunAddSubscription(sub, nodes) \/ RunRefresh(sub, nodes)
           \/ \E sub \in Subs : RunRemoveSubscription(sub)
           \/ \E node \in Nodes : RunRemoveNode(node)
    PROVE  KeptOrGone(mem, mem')
<1>1. mem \in State
    BY DEF IInv, StoreInv
<1>2. mem' = mem => KeptOrGone(mem, mem')
    BY DEF KeptOrGone
<1>3. ASSUME NEW sub \in Subs, NEW nodes \in SUBSET Nodes, RunAddSubscription(sub, nodes)
      PROVE  KeptOrGone(mem, mem')
    BY <1>1, <1>2, <1>3 DEF RunAddSubscription, Saved, SaveFailed, State, KeptOrGone
<1>4. ASSUME NEW s \in State, NEW sub, Remove(s, sub), s.active = mem.active,
             s.last = mem.last, s.pending = mem.pending, s.tun = mem.tun
      PROVE  KeptOrGone(mem, mem')
    BY <1>2, <1>4, SanitizedKept DEF Remove, Saved, SaveFailed
<1>5. ASSUME NEW sub \in Subs, NEW nodes \in SUBSET Nodes, RunRefresh(sub, nodes)
      PROVE  KeptOrGone(mem, mem')
    <2> DEFINE fetched == [mem EXCEPT !.nodes = (@ \ NodesOf({sub})) \cup nodes]
    <2>1. /\ fetched \in State /\ fetched.active = mem.active /\ fetched.last = mem.last
          /\ fetched.pending = mem.pending /\ fetched.tun = mem.tun
        BY <1>1 DEF State
    <2>2. mem' = Sanitized(fetched, sub) \/ mem' = mem
        BY <1>5 DEF RunRefresh, Saved, SaveFailed
    <2> HIDE DEF fetched
    <2> QED BY <1>2, <2>1, <2>2, SanitizedKept
<1>6. ASSUME NEW sub \in Subs, RunRemoveSubscription(sub) PROVE KeptOrGone(mem, mem')
    <2> DEFINE s == [mem EXCEPT !.subs = @ \ {sub}, !.nodes = @ \ NodesOf({sub}),
                                !.collapsed = @ \ {sub}]
    <2>1. /\ s \in State /\ s.active = mem.active /\ s.last = mem.last
          /\ s.pending = mem.pending /\ s.tun = mem.tun
        BY <1>1 DEF State
    <2>2. Remove(s, sub) \/ mem' = mem
        BY <1>6 DEF RunRemoveSubscription
    <2> HIDE DEF s
    <2> QED BY <1>2, <1>4, <2>1, <2>2
<1>7. ASSUME NEW node \in Nodes, RunRemoveNode(node) PROVE KeptOrGone(mem, mem')
    <2> DEFINE s == [mem EXCEPT !.nodes = @ \ {node}]
    <2>1. /\ s \in State /\ s.active = mem.active /\ s.last = mem.last
          /\ s.pending = mem.pending /\ s.tun = mem.tun
        BY <1>1 DEF State
    <2>2. Remove(s, SubOf[node]) \/ mem' = mem
        BY <1>7 DEF RunRemoveNode
    <2> HIDE DEF s
    <2> QED BY <1>2, <1>4, <2>1, <2>2
<1> QED BY <1>3, <1>5, <1>6, <1>7

(* Restore and RestoreFailed, where they settle the request *)
LEMMA StartKept ==
    ASSUME IInv, MatchInv, PromiseInv, RunRestore \/ RunRestoreFailed \/ PendingReturned
    PROVE  KeptOrGone(mem, mem') \/ Settles(mem, mem')
<1> USE NoneAssumption
<1>1. mem \in State /\ changing # None
    BY DEF IInv, StoreInv, RunRestore, RunRestoreFailed, PendingReturned, Runs, Returned
<1>2. mem' = mem => KeptOrGone(mem, mem')
    BY DEF KeptOrGone
<1>3. CASE RunRestore \/ RunRestoreFailed
    <2>1. changing.kind \in {"Restore", "RestoreFailed"}
        BY <1>3 DEF RunRestore, RunRestoreFailed, Runs
    <2>2. mem' = mem \/ mem' = [mem EXCEPT !.pending = None]
        BY <1>3 DEF RunRestore, RunRestoreFailed, Saved, SaveFailed
    <2>3. ASSUME mem' = [mem EXCEPT !.pending = None] PROVE Settles(mem, mem')
        BY <1>1, <2>1, <2>3 DEF State, Settles, Chosen
    <2> QED BY <1>2, <2>2, <2>3
<1>4. CASE PendingReturned
    <2> DEFINE p == changing.prev
    <2>1. /\ changing.call # None /\ changing.call.then = "pending" /\ p \in State
          /\ CallInv(changing.call) /\ FileInv(changing.call) /\ CallLive(changing)
        BY <1>1, <1>4 DEF PendingReturned, Returned, MatchInv, PromiseInv, IInv,
            ChangeInv, Change
    <2>2. /\ changing.kind = "Restore" /\ p.pending = mem.pending
          /\ Chosen(p) = Chosen(mem) /\ p.pending # None
        BY <2>1 DEF CallInv, FileInv, CallLive
    <2>3. mem' = mem \/ mem' = Resolved(p)
        BY <1>4 DEF PendingReturned, Saved, SaveFailed
    <2>4. ASSUME mem' = Resolved(p) PROVE Settles(mem, mem')
        <3>1. CASE status = [ref |-> p.pending.ref, tun |-> p.pending.tun]
            <4>1. /\ mem'.active = p.pending.ref /\ mem'.tun = p.pending.tun
                  /\ mem'.pending = None
                BY <2>1, <2>4, <3>1 DEF Resolved, Collapse, State
            <4>2. Chosen(mem') = Asking(mem) /\ status = Chosen(mem')
                BY <2>2, <3>1, <4>1 DEF Chosen, Asking, Made
            <4> QED BY <1>1, <2>2, <4>1, <4>2 DEF Settles
        <3>2. CASE status # [ref |-> p.pending.ref, tun |-> p.pending.tun]
            <4>1. mem'.active = p.active /\ mem'.tun = p.tun /\ mem'.pending = None
                BY <2>1, <2>4, <3>2 DEF Resolved, Collapse, State
            <4>2. Chosen(mem') = Chosen(mem)
                BY <2>2, <4>1 DEF Chosen
            <4> QED BY <1>1, <2>2, <4>1, <4>2 DEF Settles
        <3> QED BY <3>1, <3>2
    <2> QED BY <1>2, <2>3, <2>4
<1> QED BY <1>3, <1>4

(* What the file keeps of the connection is forgotten only by the user's own *)
(* commands, with its node, or when a start settles the request: not by a    *)
(* refresh that keeps the node, an engine that fails to restore, a restart   *)
(* or a crash (sanitizeRefs, Restore, RestoreFailed)                         *)
THEOREM RefsAreKept == Spec => KeptUnlessGone
<1> DEFINE Others == changing = None \/ changing.kind \notin {"Connect", "SetTun", "Disconnect"}
           Kept   == KeptOrGone(mem, mem') \/ Settles(mem, mem')
<1>1. ASSUME IInv, IInv', MatchInv, PromiseInv, Next, Others
      PROVE  KeptOrGone(disk, disk') \/ Settles(disk, disk')
    <2> USE <1>1
    <2>1. mem \in State /\ mem' \in State /\ disk = Stored(mem) /\ disk' = Stored(mem')
        BY DEF IInv, StoreInv
    <2>2. disk' = disk => KeptOrGone(disk, disk')
        BY DEF KeptOrGone
    <2>3. CASE Client
        <3>1. ASSUME NEW sub \in Subs, SetCollapsed(sub) PROVE KeptOrGone(mem, mem')
            BY <2>1, <3>1 DEF SetCollapsed, Saved, State, KeptOrGone
        <3>2. disk' = disk \/ \E sub \in Subs : SetCollapsed(sub)
            BY <2>3 DEF Client, Begin, Cancel, RequestRestart, ReplyFailed
        <3> QED BY <2>1, <2>2, <3>1, <3>2, StoredKept
    <2>4. CASE Engine \/ Main
        BY <2>2, <2>4 DEF Engine, EngineStarts, EngineFails, EngineNeedsElevation,
            EngineStops, Main, Launch, Restored, Elevate, ElevateFails, Recovered, Leave,
            Stopped, Restarted, Crash, Load
    <2>5. CASE Return
        <3>1. CASE SwitchReturned
            <4>1. changing # None /\ changing.kind \in {"Connect", "SetTun"}
                BY <3>1 DEF SwitchReturned, Returned, PromiseInv, FileInv
            <4> QED BY <4>1
        <3>2. CASE RollbackReturned \/ LastReturned \/ ActiveReturned
            BY <2>2, <3>2 DEF RollbackReturned, LastReturned, ActiveReturned
        <3>3. CASE PendingReturned
            BY <2>1, <3>3, StartKept, StoredKept
        <3> QED BY <2>5, <3>1, <3>2, <3>3 DEF Return
    <2>6. CASE Action
        <3>1. CASE RunCanceled
            BY <2>2, <3>1 DEF RunCanceled
        <3>2. CASE \/ \E ref \in Nodes, mode \in BOOLEAN \cup {None} : RunConnect(ref, mode)
                   \/ \E tun \in BOOLEAN : RunSetTun(tun)
                   \/ RunDisconnect
            <4>1. changing # None /\ changing.kind \in {"Connect", "SetTun", "Disconnect"}
                BY <3>2 DEF RunConnect, RunSetTun, RunDisconnect, Runs
            <4> QED BY <4>1
        <3>3. CASE RunRestore \/ RunRestoreFailed
            BY <2>1, <3>3, StartKept, StoredKept
        <3>4. CASE \/ \E sub \in Subs, nodes \in SUBSET Nodes :
                         RunAddSubscription(sub, nodes) \/ RunRefresh(sub, nodes)
                   \/ \E sub \in Subs : RunRemoveSubscription(sub)
                   \/ \E node \in Nodes : RunRemoveNode(node)
            BY <2>1, <3>4, EditKept, StoredKept
        <3> QED BY <2>6, <3>1, <3>2, <3>3, <3>4 DEF Action
    <2> QED BY <2>3, <2>4, <2>5, <2>6 DEF Next
<1>2. UNCHANGED vars => KeptOrGone(disk, disk')
    BY DEF vars, KeptOrGone
<1>3. IInv /\ IInv' /\ MatchInv /\ PromiseInv /\ [Next]_vars =>
          [Others => KeptOrGone(disk, disk') \/ Settles(disk, disk')]_vars
    BY <1>1
<1> QED BY RefusalInvariant, PromiseInvariant, <1>3, PTL DEF KeptUnlessGone, Spec
=============================================================================
