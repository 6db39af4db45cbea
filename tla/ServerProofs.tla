----------------------------- MODULE ServerProofs -----------------------------
(***************************************************************************)
(* Proofs about Server, for any number of connections, slots and             *)
(* subscriptions: no slot is lost or given back twice, and no subscription is *)
(* tried too early.  Then about Watch, the way of the snapshots through its   *)
(* watch connections, for any number of watchers, any buffer and any number   *)
(* of snapshots: nothing current is lost, the publisher never blocks, and     *)
(* Watch implements Latest.                                                 *)
(***************************************************************************)
EXTENDS Server, Watch, FiniteSetTheorems, TLAPS

(* A connection waits in one place, and has no handler while it waits *)
Queue ==
    /\ \A i, j \in 1..Len(backlog) : backlog[i] = backlog[j] => i = j
    /\ \A i \in 1..Len(backlog) : handler[backlog[i]] = "none" /\ backlog[i] # pending
    /\ accept = "slot" <=> pending # None
    /\ pending # None => handler[pending] = "none"

(* What AutoRefresh remembers of an attempt is no older than the attempt *)
Memory ==
    \A s \in Subs : /\ tried[s] <= failing[s]
                    /\ s \notin due => failing[s] = Pause

IInv == TypeOK /\ Queue /\ SlotsKept /\ Memory

With(kinds) == {c \in Conns : handler[c] \in kinds}

(* One handler that becomes another one is one more of these, or one less *)
LEMMA Count ==
    ASSUME NEW kinds, NEW c \in Conns, NEW pc,
           handler' = [handler EXCEPT ![c] = pc], handler \in [Conns -> Holding \cup {"none", "watch"}]
    PROVE  /\ Cardinality(With(kinds)) \in Nat
           /\ handler[c] \in kinds => Cardinality(With(kinds)) > 0
           /\ Cardinality(With(kinds)') =
                Cardinality(With(kinds)) + (IF pc \in kinds THEN 1 ELSE 0)
                                         - (IF handler[c] \in kinds THEN 1 ELSE 0)
<1> DEFINE S == With(kinds)
<1>1. IsFiniteSet(S) /\ Cardinality(S) \in Nat
    BY ConnsAssumption, FS_Subset, FS_CardinalityType DEF With
<1>2. IsFiniteSet(S \ {c})
      /\ Cardinality(S \ {c}) = IF c \in S THEN Cardinality(S) - 1 ELSE Cardinality(S)
    BY <1>1, FS_RemoveElement
<1>3. Cardinality((S \ {c}) \cup {c}) = Cardinality(S \ {c}) + 1
    BY <1>2, FS_AddElement
<1>4. With(kinds)' = IF pc \in kinds THEN (S \ {c}) \cup {c} ELSE S \ {c}
    BY DEF With
<1>5. c \in S <=> handler[c] \in kinds
    BY DEF With
<1>6. c \in S => Cardinality(S) > 0
    BY <1>1, <1>2, FS_CardinalityType
<1> HIDE DEF S
<1>7. Cardinality(S) \in Nat
    BY <1>1
<1>8. Cardinality(S \ {c}) \in Nat
    BY <1>2, FS_CardinalityType
<1>9. With(kinds) = S
    BY DEF S
<1> QED BY <1>2, <1>3, <1>4, <1>5, <1>6, <1>7, <1>8, <1>9

(* The slots are counted by the handlers that hold them *)
LEMMA Counted ==
    ASSUME SlotsKept
    PROVE  sem = Cardinality(With(Holding)) /\ watchSem = Cardinality(With(Watching))
BY DEF SlotsKept, With

Handlers == Holding \cup {"none", "watch"}

One(yes) == IF yes THEN 1 ELSE 0

(* A handler goes on, with the slots that are due to it *)
LEMMA HandlerStep ==
    ASSUME IInv, NEW c \in Conns, NEW pc \in Handlers, handler[c] # "none", Becomes(c, pc),
           pc \in Holding => handler[c] \in Holding,
           sem' = sem + One(pc \in Holding) - One(handler[c] \in Holding),
           watchSem' = watchSem + One(pc \in Watching) - One(handler[c] \in Watching),
           watchSem' <= WatchSlots, stop' \in BOOLEAN, restart' \in BOOLEAN,
           UNCHANGED <<Unserving, refresher, outside>>
    PROVE  IInv'
<1>0. TypeOK /\ UNCHANGED <<main, leaves, over, open, accept, backlog, pending, tick, updating,
                            tried, every, due, failing>>
    BY DEF IInv, Unserving, refresher, outside
<1>1. /\ handler' = [handler EXCEPT ![c] = pc]
      /\ handler \in [Conns -> Holding \cup {"none", "watch"}]
    BY <1>0 DEF Becomes, TypeOK
<1>2. /\ sem \in Nat /\ watchSem \in Nat /\ sem <= Slots
      /\ sem = Cardinality(With(Holding)) /\ watchSem = Cardinality(With(Watching))
    BY <1>0, Counted DEF IInv, TypeOK
<1>3. /\ handler[c] \in Holding => Cardinality(With(Holding)) > 0
      /\ handler[c] \in Watching => Cardinality(With(Watching)) > 0
      /\ Cardinality(With(Holding))' = sem'
      /\ Cardinality(With(Watching))' = watchSem'
    BY <1>1, <1>2, Count DEF One
<1>4. SlotsKept'
    BY <1>3 DEF SlotsKept, With
<1>5. sem' \in 0..Slots /\ watchSem' \in 0..WatchSlots
    BY <1>2, <1>3, SlotsAssumption DEF One
<1>6. handler' \in [Conns -> Handlers]
    BY <1>1 DEF Handlers
<1>7. TypeOK'
    BY <1>0, <1>5, <1>6 DEF TypeOK, Handlers
<1>8. Queue'
    <2>1. \A d \in Conns : handler[d] = "none" => handler'[d] = "none"
        BY <1>1
    <2>2. \A i \in 1..Len(backlog) : backlog[i] \in Conns
        BY <1>0 DEF TypeOK
    <2>3. pending # None => pending \in Conns
        BY <1>0 DEF TypeOK
    <2> QED BY <1>0, <2>1, <2>2, <2>3 DEF IInv, Queue
<1>9. Memory'
    BY <1>0 DEF IInv, Memory
<1> QED BY <1>4, <1>7, <1>8, <1>9 DEF IInv

(* The deferred calls give back what is held *)
LEMMA EndsStep ==
    ASSUME IInv, NEW c \in Conns, handler[c] # "none", Ends(c),
           stop' \in BOOLEAN, restart' \in BOOLEAN,
           UNCHANGED <<Unserving, refresher, outside>>
    PROVE  IInv'
<1>1. "none" \in Handlers /\ "none" \notin Holding /\ "none" \notin Watching
    BY DEF Handlers, Holding, Watching
<1>2. sem \in Int /\ watchSem \in Int /\ watchSem <= WatchSlots /\ WatchSlots \in Nat
    BY SlotsAssumption DEF IInv, TypeOK
<1>3. /\ Becomes(c, "none")
      /\ sem' = sem + One("none" \in Holding) - One(handler[c] \in Holding)
      /\ watchSem' = watchSem + One("none" \in Watching) - One(handler[c] \in Watching)
      /\ watchSem' <= WatchSlots
    BY <1>1, <1>2 DEF Ends, One
<1> QED BY <1>1, <1>3, HandlerStep

LEMMA ReadStep ==
    ASSUME IInv, NEW c \in Conns, Read(c)
    PROVE  IInv'
<1>1. /\ handler[c] = "read" /\ stop' \in BOOLEAN /\ restart' \in BOOLEAN
      /\ UNCHANGED <<Unserving, refresher, outside>>
    BY DEF Read, IInv, TypeOK
<1>2. sem \in Int /\ watchSem \in Int /\ watchSem <= WatchSlots /\ WatchSlots \in Nat
    BY SlotsAssumption DEF IInv, TypeOK
<1>3. CASE \E pc \in {"bye", "stopbye", "call"} : Becomes(c, pc) /\ UNCHANGED <<sem, watchSem>>
    <2>1. PICK pc \in {"bye", "stopbye", "call"} : Becomes(c, pc) /\ UNCHANGED <<sem, watchSem>>
        BY <1>3
    <2>2. /\ pc \in Handlers /\ pc \in Holding /\ pc \notin Watching
          /\ handler[c] \in Holding /\ handler[c] \notin Watching
        BY <1>1 DEF Handlers, Holding, Watching
    <2>3. /\ sem' = sem + One(pc \in Holding) - One(handler[c] \in Holding)
          /\ watchSem' = watchSem + One(pc \in Watching) - One(handler[c] \in Watching)
          /\ watchSem' <= WatchSlots
        BY <1>2, <2>1, <2>2 DEF One
    <2> QED BY <1>1, <2>1, <2>2, <2>3, HandlerStep
<1>4. CASE watchSem < WatchSlots /\ watchSem' = watchSem + 1 /\ Becomes(c, "swap") /\ UNCHANGED sem
    <2>2. /\ "swap" \in Handlers /\ "swap" \in Holding /\ "swap" \in Watching
          /\ handler[c] \in Holding /\ handler[c] \notin Watching
        BY <1>1 DEF Handlers, Holding, Watching
    <2>3. /\ sem' = sem + One("swap" \in Holding) - One(handler[c] \in Holding)
          /\ watchSem' = watchSem + One("swap" \in Watching) - One(handler[c] \in Watching)
          /\ watchSem' <= WatchSlots
        BY <1>2, <1>4, <2>2 DEF One
    <2> QED BY <1>1, <1>4, <2>2, <2>3, HandlerStep
<1>5. CASE Ends(c)
    BY <1>1, <1>5, EndsStep
<1> QED BY <1>3, <1>4, <1>5 DEF Read

LEMMA CalledStep ==
    ASSUME IInv, NEW c \in Conns, Called(c)
    PROVE  IInv'
<1>1. /\ handler[c] = "call" /\ stop' \in BOOLEAN /\ restart' \in BOOLEAN
      /\ UNCHANGED <<Unserving, sem, watchSem, refresher, outside>>
    BY DEF Called, IInv, TypeOK
<1>2. sem \in Int /\ watchSem \in Int /\ watchSem <= WatchSlots
    BY SlotsAssumption DEF IInv, TypeOK
<1>3. PICK pc \in {"bye", "elevate"} : Becomes(c, pc)
    BY DEF Called
<1>4. /\ pc \in Handlers /\ pc \in Holding /\ pc \notin Watching
      /\ handler[c] \in Holding /\ handler[c] \notin Watching
    BY <1>1 DEF Handlers, Holding, Watching
<1>5. /\ sem' = sem + One(pc \in Holding) - One(handler[c] \in Holding)
      /\ watchSem' = watchSem + One(pc \in Watching) - One(handler[c] \in Watching)
      /\ watchSem' <= WatchSlots
    BY <1>1, <1>2, <1>4 DEF One
<1> QED BY <1>1, <1>3, <1>4, <1>5, HandlerStep

(* A watch gives back the first slot when it has the second *)
LEMMA SwapStep ==
    ASSUME IInv, NEW c \in Conns, Swap(c)
    PROVE  IInv'
<1>1. /\ handler[c] = "swap" /\ stop' \in BOOLEAN /\ restart' \in BOOLEAN
      /\ Becomes(c, "watch") /\ sem' = sem - 1 /\ watchSem' = watchSem
      /\ UNCHANGED <<Unserving, refresher, outside>>
    BY DEF Swap, IInv, TypeOK
<1>2. sem \in Int /\ watchSem \in Int /\ watchSem <= WatchSlots
    BY SlotsAssumption DEF IInv, TypeOK
<1>3. /\ "watch" \in Handlers /\ "watch" \notin Holding /\ "watch" \in Watching
      /\ handler[c] \in Holding /\ handler[c] \in Watching
    BY <1>1 DEF Handlers, Holding, Watching
<1>4. /\ sem' = sem + One("watch" \in Holding) - One(handler[c] \in Holding)
      /\ watchSem' = watchSem + One("watch" \in Watching) - One(handler[c] \in Watching)
      /\ watchSem' <= WatchSlots
    BY <1>1, <1>2, <1>3 DEF One
<1> QED BY <1>1, <1>3, <1>4, HandlerStep

(* Any step of a handler *)
LEMMA HandleStep ==
    ASSUME IInv, NEW c \in Conns, Handle(c)
    PROVE  IInv'
<1>1. stop \in BOOLEAN /\ restart \in BOOLEAN
    BY DEF IInv, TypeOK
<1>2. CASE Read(c) \/ Called(c) \/ Swap(c)
    BY <1>2, ReadStep, CalledStep, SwapStep
<1>3. CASE Answer(c)
    <2>1. /\ handler[c] # "none" /\ Ends(c) /\ stop' \in BOOLEAN /\ restart' \in BOOLEAN
          /\ UNCHANGED <<Unserving, refresher, outside>>
        BY <1>1, <1>3 DEF Answer
    <2> QED BY <2>1, EndsStep
<1>4. CASE Elevate(c)
    <2>1. /\ handler[c] # "none" /\ Ends(c) /\ stop' \in BOOLEAN /\ restart' \in BOOLEAN
          /\ UNCHANGED <<Unserving, refresher, outside>>
        BY <1>1, <1>4 DEF Elevate
    <2> QED BY <2>1, EndsStep
<1>5. CASE WatchLost(c)
    <2>1. /\ handler[c] # "none" /\ Ends(c) /\ stop' \in BOOLEAN /\ restart' \in BOOLEAN
          /\ UNCHANGED <<Unserving, refresher, outside>>
        BY <1>1, <1>5 DEF WatchLost
    <2> QED BY <2>1, EndsStep
<1> QED BY <1>2, <1>3, <1>4, <1>5 DEF Handle

-----------------------------------------------------------------------------
(* What the other actions leave alone *)
LEMMA SlotsStay ==
    ASSUME SlotsKept, UNCHANGED <<handler, sem, watchSem>>
    PROVE  SlotsKept'
BY DEF SlotsKept

LEMMA MemoryStays ==
    ASSUME Memory, UNCHANGED <<tried, due, failing>>
    PROVE  Memory'
BY DEF Memory

LEMMA QueueStays ==
    ASSUME Queue, UNCHANGED <<accept, backlog, pending, handler>>
    PROVE  Queue'
BY DEF Queue

(* Nobody waits for Accept any more *)
LEMMA ReturnFacts ==
    ASSUME IInv, Return, pending' = None, handler' = handler
    PROVE  /\ Queue'
           /\ accept' = "wait" /\ over' = TRUE /\ open' = FALSE /\ backlog' \in Seq(Conns)
BY DEF Return, Queue

LEMMA ConnectStep ==
    ASSUME IInv, NEW c \in Conns, Connect(c)
    PROVE  IInv'
<1>1. /\ backlog' = Append(backlog, c) /\ handler[c] = "none" /\ pending # c
      /\ ~Contains(backlog, c)
      /\ UNCHANGED <<main, leaves, over, open, accept, pending, handler, sem, watchSem, stop,
                     restart, tick, updating, tried, every, due, failing>>
    BY DEF Connect, Idle, refresher, outside
<1>2. backlog \in Seq(Conns)
    BY DEF IInv, TypeOK
<1>3. /\ backlog' \in Seq(Conns) /\ Len(backlog') = Len(backlog) + 1
      /\ Len(backlog) \in Nat
      /\ \A i \in 1..Len(backlog) : backlog'[i] = backlog[i] /\ backlog[i] # c
      /\ backlog'[Len(backlog) + 1] = c
    BY <1>1, <1>2 DEF Contains
<1>4. \A i \in 1..Len(backlog') : i \in 1..Len(backlog) \/ i = Len(backlog) + 1
    BY <1>3
<1>5. TypeOK'
    BY <1>1, <1>3 DEF IInv, TypeOK
<1>6. Queue'
    <2>1. \A i, j \in 1..Len(backlog') : backlog'[i] = backlog'[j] => i = j
        BY <1>3, <1>4 DEF IInv, Queue
    <2>2. \A i \in 1..Len(backlog') : handler[backlog'[i]] = "none" /\ backlog'[i] # pending
        BY <1>1, <1>3, <1>4 DEF IInv, Queue
    <2> QED BY <1>1, <2>1, <2>2 DEF IInv, Queue
<1> QED BY <1>1, <1>5, <1>6, SlotsStay, MemoryStays DEF IInv

LEMMA AcceptStep ==
    ASSUME IInv, Accept
    PROVE  IInv'
<1>1. /\ accept = "accept" /\ accept' = "slot" /\ backlog # <<>>
      /\ pending' = Head(backlog) /\ backlog' = Tail(backlog)
      /\ UNCHANGED <<main, leaves, over, open, handler, sem, watchSem, stop, restart, tick,
                     updating, tried, every, due, failing>>
    BY DEF Accept, refresher, outside
<1>2. backlog \in Seq(Conns)
    BY DEF IInv, TypeOK
<1>3. /\ Len(backlog) \in Nat \ {0}
      /\ pending' = backlog[1] /\ pending' \in Conns
      /\ backlog' \in Seq(Conns) /\ Len(backlog') = Len(backlog) - 1
      /\ \A i \in 1..Len(backlog') : backlog'[i] = backlog[i + 1]
    BY <1>1, <1>2
<1>4. \A i \in 1..Len(backlog') : i + 1 \in 1..Len(backlog) /\ 1 \in 1..Len(backlog)
    BY <1>3
<1>5. TypeOK'
    BY <1>1, <1>3 DEF IInv, TypeOK
<1>6. Queue'
    <2>1. \A i, j \in 1..Len(backlog') : backlog'[i] = backlog'[j] => i = j
        <3> SUFFICES ASSUME NEW i \in 1..Len(backlog'), NEW j \in 1..Len(backlog'),
                            backlog'[i] = backlog'[j]
                     PROVE  i = j
            OBVIOUS
        <3>1. i + 1 = j + 1
            BY <1>3, <1>4 DEF IInv, Queue
        <3> QED BY <3>1
    <2>2. \A i \in 1..Len(backlog') : handler[backlog'[i]] = "none" /\ backlog'[i] # pending'
        <3> SUFFICES ASSUME NEW i \in 1..Len(backlog')
                     PROVE  handler[backlog'[i]] = "none" /\ backlog'[i] # pending'
            OBVIOUS
        <3>1. i + 1 # 1
            OBVIOUS
        <3> QED BY <1>3, <1>4, <3>1 DEF IInv, Queue
    <2>3. 1 \in 1..Len(backlog)
        BY <1>3
    <2>4. handler[pending'] = "none"
        BY <1>3, <2>3 DEF IInv, Queue
    <2> QED BY <1>1, <1>3, <2>1, <2>2, <2>4, NoneAssumption DEF Queue
<1> QED BY <1>1, <1>5, <1>6, SlotsStay, MemoryStays DEF IInv

(* A new handler has a slot of its own *)
LEMMA TakeSlotStep ==
    ASSUME IInv, TakeSlot
    PROVE  IInv'
<1>0. TypeOK
    BY DEF IInv
<1>1. /\ accept = "slot" /\ sem < Slots /\ sem' = sem + 1
      /\ handler' = [handler EXCEPT ![pending] = "read"]
      /\ pending' = None /\ accept' = "loop"
      /\ UNCHANGED <<main, leaves, over, open, backlog, watchSem, stop, restart, tick, updating,
                     tried, every, due, failing>>
    BY DEF TakeSlot, refresher, outside
<1>2. pending \in Conns /\ handler[pending] = "none"
    BY <1>0, <1>1 DEF IInv, Queue, TypeOK
<1>3. handler \in [Conns -> Holding \cup {"none", "watch"}]
    BY <1>0 DEF TypeOK
<1>4. /\ "read" \in Holding /\ "read" \notin Watching
      /\ "none" \notin Holding /\ "none" \notin Watching
    BY DEF Holding, Watching
<1>5. /\ sem \in Nat /\ watchSem \in Nat
      /\ sem = Cardinality(With(Holding)) /\ watchSem = Cardinality(With(Watching))
    BY <1>0, Counted DEF IInv, TypeOK
<1>6. /\ Cardinality(With(Holding))' = sem + 1
      /\ Cardinality(With(Watching))' = watchSem
    <2>1. Cardinality(With(Holding))' = Cardinality(With(Holding))
              + (IF "read" \in Holding THEN 1 ELSE 0)
              - (IF handler[pending] \in Holding THEN 1 ELSE 0)
        BY <1>1, <1>2, <1>3, Count
    <2>2. Cardinality(With(Watching))' = Cardinality(With(Watching))
              + (IF "read" \in Watching THEN 1 ELSE 0)
              - (IF handler[pending] \in Watching THEN 1 ELSE 0)
        BY <1>1, <1>2, <1>3, Count
    <2> QED BY <1>2, <1>4, <1>5, <2>1, <2>2
<1>7. SlotsKept'
    BY <1>1, <1>6 DEF SlotsKept, With
<1>8. sem' \in 0..Slots
    BY <1>1, <1>5, SlotsAssumption
<1>9. TypeOK'
    BY <1>0, <1>1, <1>3, <1>4, <1>8 DEF TypeOK
<1>10. Queue'
    <2>1. \A i \in 1..Len(backlog) : handler[backlog[i]] = "none" /\ backlog[i] \in Conns \ {pending}
        BY <1>0 DEF IInv, Queue, TypeOK
    <2>2. \A d \in Conns \ {pending} : handler'[d] = handler[d]
        BY <1>1, <1>3
    <2> QED BY <1>1, <2>1, <2>2, NoneAssumption DEF IInv, Queue
<1> QED BY <1>1, <1>7, <1>9, <1>10, MemoryStays DEF IInv

(* Any other step of Serve *)
LEMMA ServeStep ==
    ASSUME IInv, Serve
    PROVE  IInv'
<1>0. TypeOK
    BY DEF IInv
<1>1. CASE (Loop /\ over) \/ AcceptFails \/ NoSlot
    <2>1. /\ Return /\ pending' = None
          /\ UNCHANGED <<main, leaves, handler, sem, watchSem, stop, restart, tick, updating,
                         tried, every, due, failing>>
        BY <1>1 DEF Loop, AcceptFails, NoSlot, refresher, outside, IInv, Queue
    <2>2. /\ Queue'
          /\ accept' = "wait" /\ over' = TRUE /\ open' = FALSE /\ backlog' \in Seq(Conns)
        BY <2>1, ReturnFacts
    <2>3. TypeOK'
        BY <1>0, <2>1, <2>2 DEF TypeOK
    <2> QED BY <2>1, <2>2, <2>3, SlotsStay, MemoryStays DEF IInv
<1>2. CASE Loop /\ ~over
    <2>1. /\ accept = "loop" /\ accept' = "accept"
          /\ UNCHANGED <<main, leaves, over, open, backlog, pending, handler, sem, watchSem, stop,
                         restart, tick, updating, tried, every, due, failing>>
        BY <1>2 DEF Loop, refresher, outside
    <2>2. TypeOK'
        BY <1>0, <2>1 DEF TypeOK
    <2>3. Queue'
        BY <2>1 DEF IInv, Queue
    <2> QED BY <2>1, <2>2, <2>3, SlotsStay, MemoryStays DEF IInv
<1>3. CASE CloseListener
    <2>1. /\ open' = FALSE /\ backlog' = <<>>
          /\ UNCHANGED <<main, leaves, over, accept, pending, handler, sem, watchSem, stop,
                         restart, tick, updating, tried, every, due, failing>>
        BY <1>3 DEF CloseListener, refresher, outside
    <2>2. TypeOK'
        <3>1. backlog' \in Seq(Conns)
            BY <2>1
        <3> QED BY <1>0, <2>1, <3>1 DEF TypeOK
    <2>3. Queue'
        BY <2>1 DEF IInv, Queue
    <2> QED BY <2>1, <2>2, <2>3, SlotsStay, MemoryStays DEF IInv
<1>4. CASE AllHandled
    <2>1. /\ accept = "wait" /\ accept' = "done"
          /\ UNCHANGED <<main, leaves, over, open, backlog, pending, handler, sem, watchSem, stop,
                         restart, tick, updating, tried, every, due, failing>>
        BY <1>4 DEF AllHandled, refresher, outside
    <2>2. TypeOK'
        BY <1>0, <2>1 DEF TypeOK
    <2>3. Queue'
        BY <2>1 DEF IInv, Queue
    <2> QED BY <2>1, <2>2, <2>3, SlotsStay, MemoryStays DEF IInv
<1>5. CASE Accept \/ TakeSlot
    BY <1>5, AcceptStep, TakeSlotStep
<1> QED BY <1>1, <1>2, <1>3, <1>4, <1>5 DEF Serve

-----------------------------------------------------------------------------
(* A new server holds nothing *)
LEMMA EmptyFacts ==
    ASSUME NEW kinds, "none" \notin kinds, \A c \in Conns : handler'[c] = "none"
    PROVE  Cardinality({c \in Conns : handler'[c] \in kinds}) = 0
<1>1. {c \in Conns : handler'[c] \in kinds} = {}
    OBVIOUS
<1> QED BY <1>1, FS_EmptySet

LEMMA MainStep ==
    ASSUME IInv, Leave \/ Drained \/ Fatal \/ Again
    PROVE  IInv'
<1>0. TypeOK
    BY DEF IInv
<1>1. CASE Leave
    <2>1. /\ main' = "draining" /\ over' = TRUE /\ leaves' \in {"end", "restart"}
          /\ UNCHANGED <<open, accept, backlog, pending, handler, sem, watchSem, stop, restart,
                         tick, updating, tried, every, due, failing>>
        BY <1>1 DEF Leave, Unheard, refresher, outside
    <2>2. TypeOK'
        BY <1>0, <2>1 DEF TypeOK
    <2> QED BY <2>1, <2>2, SlotsStay, MemoryStays, QueueStays DEF IInv
<1>2. CASE \E where \in {"serving", "off"} : Anew(where)
    <2>1. /\ main' \in {"serving", "off"} /\ leaves' = "end"
          /\ over' = FALSE /\ open' = TRUE
          /\ accept' = "loop" /\ backlog' = <<>> /\ pending' = None
          /\ handler' = [c \in Conns |-> "none"]
          /\ sem' = 0 /\ watchSem' = 0 /\ stop' = FALSE /\ restart' = FALSE
          /\ tick' = FALSE /\ updating' = {} /\ tried' = [s \in Subs |-> Pause]
          /\ failing' = [s \in Subs |-> Pause]
          /\ UNCHANGED <<every, due>>
        BY <1>2 DEF Anew
    <2>2. TypeOK'
        <3>1. /\ handler' \in [Conns -> Holding \cup {"none", "watch"}]
              /\ backlog' \in Seq(Conns)
            BY <2>1
        <3>2. /\ 0 \in 0..Slots /\ 0 \in 0..WatchSlots /\ Pause \in 0..Pause
            BY SlotsAssumption, PauseAssumption
        <3>3. tried' \in [Subs -> 0..Pause] /\ failing' \in [Subs -> 0..Pause]
            BY <2>1, <3>2
        <3>4. every' \in BOOLEAN /\ due' \in SUBSET Subs
            BY <1>0, <2>1 DEF TypeOK
        <3> QED BY <2>1, <3>1, <3>2, <3>3, <3>4 DEF TypeOK
    <2>3. Queue'
        BY <2>1 DEF Queue
    <2>4. \A c \in Conns : handler'[c] = "none"
        BY <2>1
    <2>5. "none" \notin Holding /\ "none" \notin Watching
        BY DEF Holding, Watching
    <2>6. SlotsKept'
        BY <2>1, <2>4, <2>5, EmptyFacts DEF SlotsKept
    <2>7. Memory'
        BY <2>1, PauseAssumption DEF Memory
    <2> QED BY <2>2, <2>3, <2>6, <2>7 DEF IInv
<1> QED BY <1>1, <1>2 DEF Drained, Fatal, Again

(* The steps of AutoRefresh and of the subscriptions, and what they may try *)
LEMMA RefreshStep ==
    ASSUME IInv, Minute \/ Check \/ Refreshed \/ Outside
    PROVE  IInv' /\ \A s \in Subs : s \in updating' \ updating => failing[s] = Pause
<1>0. TypeOK /\ Memory /\ Pause \in Nat \ {0}
    BY PauseAssumption DEF IInv
<1>1. /\ UNCHANGED <<main, leaves, over, open, accept, backlog, pending, handler, sem, watchSem,
                     stop, restart>>
    BY DEF Minute, Check, Refreshed, Outside, serving
<1>2. /\ Queue' /\ SlotsKept'
    BY <1>1, QueueStays, SlotsStay DEF IInv
<1>3. ASSUME Memory', tick' \in BOOLEAN, updating' \in SUBSET Subs, tried' \in [Subs -> 0..Pause],
             every' \in BOOLEAN, due' \in SUBSET Subs, failing' \in [Subs -> 0..Pause]
      PROVE  IInv'
    BY <1>0, <1>1, <1>2, <1>3 DEF TypeOK, IInv
<1>4. CASE Minute
    <2>1. /\ tick' = TRUE /\ updating' = updating /\ every' = every /\ due' = due
          /\ tried' = [s \in Subs |-> IF tried[s] < Pause THEN tried[s] + 1 ELSE Pause]
          /\ failing' = [s \in Subs |-> IF failing[s] < Pause THEN failing[s] + 1 ELSE Pause]
        BY <1>4 DEF Minute, Older
    <2>2. tried' \in [Subs -> 0..Pause] /\ failing' \in [Subs -> 0..Pause]
        BY <1>0, <2>1 DEF TypeOK
    <2>3. Memory'
        BY <1>0, <2>1 DEF Memory, TypeOK
    <2> QED BY <1>0, <1>3, <2>1, <2>2, <2>3 DEF TypeOK
<1>5. CASE Check
    <2>1. /\ tick' = FALSE /\ updating = {} /\ every' = every /\ due' = due
        BY <1>5 DEF Check
    <2>2. CASE every
        <3>1. PICK ids \in SUBSET Subs :
                 /\ ids = {s \in due : tried[s] = Pause}
                 /\ tried' = [s \in Subs |-> IF s \in ids THEN 0
                                             ELSE IF s \in due THEN tried[s] ELSE Pause]
                 /\ updating' = ids
                 /\ failing' = [s \in Subs |-> IF s \in ids THEN 0 ELSE failing[s]]
            BY <1>0, <1>5, <2>2 DEF Check, NextTried, TypeOK
        <3>2. tried' \in [Subs -> 0..Pause] /\ failing' \in [Subs -> 0..Pause]
            BY <1>0, <3>1 DEF TypeOK
        <3>3. Memory'
            BY <1>0, <2>1, <3>1 DEF Memory, TypeOK
        <3>4. \A s \in ids : failing[s] = Pause
            BY <1>0, <3>1 DEF Memory, TypeOK
        <3> QED BY <1>0, <1>3, <2>1, <3>1, <3>2, <3>3, <3>4 DEF TypeOK
    <2>3. CASE ~every
        <3>1. UNCHANGED <<tried, updating, failing>>
            BY <1>5, <2>3 DEF Check
        <3>2. Memory'
            BY <1>0, <2>1, <3>1 DEF Memory
        <3> QED BY <1>0, <1>3, <2>1, <3>1, <3>2 DEF TypeOK
    <2> QED BY <2>2, <2>3
<1>6. CASE Refreshed \/ Outside
    <2>1. PICK dues \in SUBSET Subs : Settle(dues)
        BY <1>0, <1>6 DEF Refreshed, Outside, TypeOK
    <2>2. /\ tick' = tick /\ tried' = tried /\ updating' \in {updating, {}} /\ every' \in BOOLEAN
        BY <1>0, <1>6 DEF Refreshed, Outside, refresher, TypeOK
    <2>3. /\ due' = dues
          /\ failing' = [s \in Subs |-> IF s \in due \cap dues THEN failing[s] ELSE Pause]
        BY <2>1 DEF Settle
    <2>4. failing' \in [Subs -> 0..Pause]
        BY <1>0, <2>3 DEF TypeOK
    <2>5. Memory'
        BY <1>0, <2>2, <2>3 DEF Memory, TypeOK
    <2> QED BY <1>0, <1>3, <2>2, <2>3, <2>4, <2>5 DEF TypeOK
<1> QED BY <1>4, <1>5, <1>6

LEMMA InitFacts == Init => IInv
<1> SUFFICES ASSUME Init PROVE IInv
    OBVIOUS
<1>1. 0 \in 0..Slots /\ 0 \in 0..WatchSlots /\ Pause \in 0..Pause /\ Pause <= Pause
    BY SlotsAssumption, PauseAssumption
<1>2. handler \in [Conns -> Holding \cup {"none", "watch"}] /\ backlog \in Seq(Conns)
    BY DEF Init
<1>3. tried \in [Subs -> 0..Pause] /\ failing \in [Subs -> 0..Pause]
    BY <1>1 DEF Init
<1>4. TypeOK
    BY <1>1, <1>2, <1>3 DEF Init, TypeOK
<1>5. Queue /\ Memory
    BY <1>1 DEF Init, Queue, Memory
<1>6. "none" \notin Holding /\ "none" \notin Watching
    BY DEF Holding, Watching
<1>7. {c \in Conns : handler[c] \in Holding} = {} /\ {c \in Conns : handler[c] \in Watching} = {}
    BY <1>6 DEF Init
<1>8. SlotsKept
    BY <1>7, FS_EmptySet DEF Init, SlotsKept
<1> QED BY <1>4, <1>5, <1>8 DEF IInv

LEMMA NextFacts ==
    IInv /\ [Next]_vars =>
        IInv' /\ [\A s \in Subs : s \in updating' \ updating => failing[s] = Pause]_vars
<1> SUFFICES ASSUME IInv, [Next]_vars
             PROVE  IInv' /\ [\A s \in Subs : s \in updating' \ updating => failing[s] = Pause]_vars
    OBVIOUS
<1>1. CASE Serve \/ \E c \in Conns : Connect(c) \/ Handle(c)
    <2>1. IInv'
        BY <1>1, ServeStep, ConnectStep, HandleStep
    <2>2. updating' = updating
        BY <1>1 DEF Serve, Loop, Accept, AcceptFails, CloseListener, TakeSlot, NoSlot, AllHandled,
                    Connect, Handle, Read, Answer, Called, Elevate, Swap, WatchLost, refresher
    <2> QED BY <2>1, <2>2
<1>2. CASE Leave \/ Drained \/ Fatal \/ Again
    <2>1. IInv'
        BY <1>2, MainStep
    <2>2. updating' \in {updating, {}}
        BY <1>2 DEF Leave, Unheard, Drained, Fatal, Again, Anew, refresher
    <2> QED BY <2>1, <2>2
<1>3. CASE Minute \/ Check \/ Refreshed \/ Outside
    BY <1>3, RefreshStep
<1>4. CASE UNCHANGED vars
    <2>1. UNCHANGED <<main, leaves, over, open, accept, backlog, pending, handler, sem, watchSem,
                     stop, restart, tick, updating, tried, every, due, failing>>
        BY <1>4 DEF vars, serving, refresher, outside
    <2>2. TypeOK'
        BY <2>1 DEF IInv, TypeOK
    <2> QED BY <1>4, <2>1, <2>2, SlotsStay, MemoryStays, QueueStays DEF IInv
<1> QED BY <1>1, <1>2, <1>3, <1>4 DEF Next

(* The slots, the connections that wait and the memory of attempts agree with   *)
(* the handlers and the subscriptions, in every reachable state.             *)
THEOREM ServerInvariant == Spec => []IInv
<1> QED BY InitFacts, NextFacts, PTL DEF Spec

(* Every variable of Server has its type: no semaphore is overdrawn *)
THEOREM ServerTypes == Spec => []TypeOK
<1>1. IInv => TypeOK
    BY DEF IInv
<1> QED BY ServerInvariant, <1>1, PTL

(* A slot is held by one handler, and free when that one is gone or watches    *)
(* (Serve, handle).                                                         *)
THEOREM NoSlotLost == Spec => []SlotsKept
<1>1. IInv => SlotsKept
    BY DEF IInv
<1> QED BY ServerInvariant, <1>1, PTL

(* A subscription that keeps failing is left alone for the pause (due, next in  *)
(* AutoRefresh).                                                            *)
THEOREM RetriesAreLimited == Spec => RetryLimited
<1>1. Spec => [][\A s \in Subs : s \in updating' \ updating => failing[s] = Pause]_vars
    BY ServerInvariant, NextFacts, PTL DEF Spec
<1> QED BY <1>1 DEF RetryLimited

-----------------------------------------------------------------------------
(* Watch: the snapshots on their way to the watchers *)


(* Which snapshots are where: in the order in which they were published, from *)
(* what the client shows to what the channel holds.  Of a closing watcher    *)
(* only the client's side still matters.                                    *)
Ordered(w) ==
    /\ seen[w] <= snapshot
    /\ \A i \in 1..Len(wire[w]) :
          /\ seen[w] <= wire[w][i] /\ wire[w][i] <= snapshot
          /\ \A j \in i..Len(wire[w]) : wire[w][i] <= wire[w][j]
    /\ hand[w] # Nothing =>
          /\ seen[w] <= hand[w] /\ hand[w] <= snapshot
          /\ \A i \in 1..Len(wire[w]) : wire[w][i] <= hand[w]
    /\ conn[w] = "open" /\ chan[w] # Nothing =>
          /\ seen[w] <= chan[w] /\ chan[w] <= snapshot
          /\ hand[w] # Nothing => hand[w] <= chan[w]
          /\ \A i \in 1..Len(wire[w]) : wire[w][i] <= chan[w]

Handled(w) ==
    /\ conn[w] = "open" => w \in registered
    /\ conn[w] # "open" => hand[w] = Nothing

Sent(w) == conn[w] = "open" /\ w \notin todo => Newest(w) = snapshot

WatchInv ==
    /\ WatchTypeOK
    /\ PublisherNeverBlocks
    /\ \A w \in Watchers : Ordered(w) /\ Handled(w) /\ Sent(w)

(* The steps of other watchers and of the publisher leave a watcher alone *)
SameWatcher(w) ==
    /\ chan'[w] = chan[w] /\ conn'[w] = conn[w] /\ hand'[w] = hand[w]
    /\ wire'[w] = wire[w] /\ seen'[w] = seen[w]
    /\ (w \in registered) <=> (w \in registered')
    /\ (w \in todo) <=> (w \in todo')

LEMMA SameWatcherKeeps ==
    ASSUME NEW w \in Watchers, SameWatcher(w), snapshot' = snapshot,
           Ordered(w) /\ Handled(w) /\ Sent(w)
    PROVE  (Ordered(w) /\ Handled(w) /\ Sent(w))'
BY DEF SameWatcher, Ordered, Handled, Sent, Newest

(* WatchInitially nobody watches *)
LEMMA WatchInitially == WatchInit => WatchInv
<1> SUFFICES ASSUME WatchInit PROVE WatchInv
    OBVIOUS
<1> USE WatchAssumption
<1>1. WatchTypeOK
    <2>1. <<>> \in Seq(Nat)
        OBVIOUS
    <2> QED BY <2>1 DEF WatchInit, WatchTypeOK
<1>2. PublisherNeverBlocks
    BY DEF WatchInit, PublisherNeverBlocks
<1>3. ASSUME NEW w \in Watchers PROVE Ordered(w) /\ Handled(w) /\ Sent(w)
    BY DEF WatchInit, Ordered, Handled, Sent
<1> QED BY <1>1, <1>2, <1>3 DEF WatchInv

(* Every step keeps the type invariant *)
LEMMA WatchTypeStep == ASSUME WatchTypeOK, WatchNext PROVE WatchTypeOK'
<1> USE WatchAssumption DEF WatchTypeOK, publisher
<1>1. CASE Publish
    BY <1>1 DEF Publish, Unlocked
<1>2. ASSUME NEW w \in Watchers, Offer(w) PROVE WatchTypeOK'
    <2>1. CASE chan[w] = Nothing
        BY <1>2, <2>1 DEF Offer
    <2>2. CASE chan[w] # Nothing
        <3>1. /\ full' = w /\ w \in todo' /\ drained' = FALSE
              /\ UNCHANGED <<snapshot, todo, chan, registered, conn, hand, wire, seen>>
            BY <1>2, <2>2 DEF Offer
        <3> QED BY <3>1
    <2> QED BY <2>1, <2>2
<1>3. ASSUME NEW w \in Watchers, Drain(w) PROVE WatchTypeOK'
    BY <1>3 DEF Drain
<1>4. ASSUME NEW w \in Watchers, Put(w) PROVE WatchTypeOK'
    BY <1>4 DEF Put
<1>5. ASSUME NEW w \in Watchers, Open(w) PROVE WatchTypeOK'
    BY <1>5 DEF Open, Unlocked
<1>6. ASSUME NEW w \in Watchers, Take(w) PROVE WatchTypeOK'
    BY <1>6 DEF Take
<1>7. ASSUME NEW w \in Watchers, Write(w) PROVE WatchTypeOK'
    <2>1. Append(wire[w], hand[w]) \in Seq(Nat)
        BY <1>7 DEF Write
    <2> QED BY <1>7, <2>1 DEF Write
<1>8. ASSUME NEW w \in Watchers, Drop(w) PROVE WatchTypeOK'
    <2>1. [wire EXCEPT ![w] = <<>>] \in [Watchers -> Seq(Nat)]
        OBVIOUS
    <2> QED BY <1>8, <2>1 DEF Drop
<1>9. ASSUME NEW w \in Watchers, Unregister(w) PROVE WatchTypeOK'
    BY <1>9 DEF Unregister, Unlocked
<1>10. ASSUME NEW w \in Watchers, Receive(w) PROVE WatchTypeOK'
    <2>1. Head(wire[w]) \in Nat /\ Tail(wire[w]) \in Seq(Nat)
        BY <1>10 DEF Receive
    <2> QED BY <1>10, <2>1 DEF Receive
<1> HIDE DEF WatchTypeOK
<1> QED BY <1>1, <1>2, <1>3, <1>4, <1>5, <1>6, <1>7, <1>8, <1>9, <1>10
        DEF WatchNext, Publisher, Handler

(* Only the publisher fills a channel that it has emptied *)
LEMMA WatchBlockStep == ASSUME WatchInv, WatchNext PROVE PublisherNeverBlocks'
<1> USE WatchAssumption DEF WatchInv, WatchTypeOK, publisher, PublisherNeverBlocks
<1>1. CASE Publish
    BY <1>1 DEF Publish
<1>2. ASSUME NEW w \in Watchers, Offer(w) \/ Drain(w) \/ Put(w)
      PROVE  PublisherNeverBlocks'
    <2>1. CASE Offer(w)
        BY <2>1 DEF Offer
    <2>2. CASE Drain(w)
        BY <2>2 DEF Drain
    <2>3. CASE Put(w)
        BY <2>3 DEF Put
    <2> QED BY <1>2, <2>1, <2>2, <2>3
<1>3. ASSUME NEW w \in Watchers, Open(w) PROVE PublisherNeverBlocks'
    BY <1>3 DEF Open, Unlocked
<1>4. ASSUME NEW w \in Watchers, Take(w) PROVE PublisherNeverBlocks'
    BY <1>4 DEF Take
<1>5. ASSUME NEW w \in Watchers, Write(w) \/ Drop(w) \/ Unregister(w) \/ Receive(w)
      PROVE  PublisherNeverBlocks'
    BY <1>5 DEF Write, Drop, Unregister, Receive
<1> QED BY <1>1, <1>2, <1>3, <1>4, <1>5 DEF WatchNext, Publisher, Handler

(* Every watcher keeps its place in the order, and its newest snapshot *)
LEMMA WatchOrderStep ==
    ASSUME WatchInv, WatchNext, NEW v \in Watchers
    PROVE  (Ordered(v) /\ Handled(v) /\ Sent(v))'
<1> USE WatchAssumption
<1> DEFINE Fine == Ordered(v) /\ Handled(v) /\ Sent(v)
<1>0. WatchTypeOK /\ Fine /\ PublisherNeverBlocks
    BY DEF WatchInv
<1>1. CASE Publish
    BY <1>0, <1>1 DEF Publish, Ordered, Handled, Sent, WatchTypeOK
<1>2. ASSUME NEW w \in Watchers, Offer(w) PROVE Fine'
    <2>1. CASE w # v \/ chan[w] # Nothing
        <3>1. SameWatcher(v) /\ snapshot' = snapshot
            BY <1>0, <1>2, <2>1 DEF Offer, SameWatcher, WatchTypeOK
        <3> QED BY <1>0, <3>1, SameWatcherKeeps
    <2>2. CASE w = v /\ chan[w] = Nothing
        BY <1>0, <1>2, <2>2 DEF Offer, Ordered, Handled, Sent, Newest, WatchTypeOK
    <2> QED BY <2>1, <2>2
<1>3. ASSUME NEW w \in Watchers, Drain(w) PROVE Fine'
    <2>1. CASE w # v
        <3>1. SameWatcher(v) /\ snapshot' = snapshot
            BY <1>0, <1>3, <2>1 DEF Drain, SameWatcher, WatchTypeOK
        <3> QED BY <1>0, <3>1, SameWatcherKeeps
    <2>2. CASE w = v
        BY <1>0, <1>3, <2>2 DEF Drain, Ordered, Handled, Sent, WatchTypeOK
    <2> QED BY <2>1, <2>2
<1>4. ASSUME NEW w \in Watchers, Put(w) PROVE Fine'
    <2>1. CASE w # v
        <3>1. SameWatcher(v) /\ snapshot' = snapshot
            BY <1>0, <1>4, <2>1 DEF Put, SameWatcher, WatchTypeOK
        <3> QED BY <1>0, <3>1, SameWatcherKeeps
    <2>2. CASE w = v
        BY <1>0, <1>4, <2>2 DEF Put, Ordered, Handled, Sent, Newest, WatchTypeOK
    <2> QED BY <2>1, <2>2
<1>5. ASSUME NEW w \in Watchers,
             Open(w) \/ Take(w) \/ Write(w) \/ Drop(w) \/ Unregister(w) \/ Receive(w),
             w # v
      PROVE  Fine'
    <2>1. SameWatcher(v) /\ snapshot' = snapshot
        BY <1>0, <1>5
        DEF Open, Take, Write, Drop, Unregister, Receive, SameWatcher, WatchTypeOK, publisher
    <2> QED BY <1>0, <2>1, SameWatcherKeeps
<1>6. CASE Open(v)
    BY <1>0, <1>6 DEF Open, Ordered, Handled, Sent, Newest, WatchTypeOK, publisher
<1>7. CASE Take(v)
    BY <1>0, <1>7 DEF Take, Ordered, Handled, Sent, Newest, WatchTypeOK, publisher
<1>8. CASE Write(v)
    <2> DEFINE q == wire[v]
               r == wire'[v]
    <2>1. /\ q \in Seq(Nat) /\ hand[v] \in Nat /\ r = Append(q, hand[v])
          /\ hand'[v] = Nothing /\ seen'[v] = seen[v] /\ chan'[v] = chan[v]
          /\ conn'[v] = conn[v] /\ seen[v] \in Nat /\ snapshot \in Nat
          /\ UNCHANGED <<snapshot, todo, registered>>
        BY <1>0, <1>8 DEF Write, WatchTypeOK, publisher
    <2>2. /\ Len(q) \in Nat /\ Len(r) = Len(q) + 1 /\ r[Len(r)] = hand[v]
          /\ \A i \in 1..Len(q) : r[i] = q[i]
        BY <2>1
    <2>3. \A i \in 1..Len(r) : i = Len(r) \/ i \in 1..Len(q)
        BY <2>2
    <2>4. \A i \in 1..Len(q) : q[i] \in Nat
        BY <2>1
    <2>5. \A i \in 1..Len(r) :
             /\ seen[v] <= r[i] /\ r[i] <= snapshot /\ r[i] <= hand[v]
             /\ \A j \in i..Len(r) : r[i] <= r[j]
        BY <1>0, <1>8, <2>1, <2>2, <2>3, <2>4 DEF Ordered, Write
    <2>6. Ordered(v)'
        BY <1>0, <1>8, <2>1, <2>5, <2>4, <2>2 DEF Ordered, WatchTypeOK, Write
    <2>7. r # <<>>
        <3>1. r \in Seq(Nat) /\ Len(r) # 0
            BY <2>1, <2>2
        <3> QED BY <3>1
    <2>8. Sent(v)'
        BY <1>0, <1>8, <2>1, <2>2, <2>7 DEF Sent, Newest, Write
    <2> QED BY <1>0, <1>8, <2>1, <2>6, <2>8 DEF Handled, Write
<1>9. CASE Drop(v)
    BY <1>0, <1>9 DEF Drop, Ordered, Handled, Sent, WatchTypeOK, publisher
<1>10. CASE Unregister(v)
    BY <1>0, <1>10 DEF Unregister, Ordered, Handled, Sent, WatchTypeOK, publisher
<1>11. CASE Receive(v)
    <2> DEFINE q == wire[v]
               r == wire'[v]
    <2>1. /\ q \in Seq(Nat) /\ q # <<>> /\ r = Tail(q) /\ seen'[v] = Head(q)
          /\ hand'[v] = hand[v] /\ chan'[v] = chan[v] /\ conn'[v] = conn[v]
          /\ snapshot \in Nat /\ UNCHANGED <<snapshot, todo, registered>>
        BY <1>0, <1>11 DEF Receive, WatchTypeOK, publisher
    <2>2. /\ Len(q) \in Nat \ {0} /\ Len(r) = Len(q) - 1 /\ Head(q) = q[1]
          /\ \A i \in 1..Len(r) : r[i] = q[i + 1]
        BY <2>1
    <2>3. \A i \in 1..Len(q) : q[i] \in Nat /\ q[1] <= q[i] /\ q[i] <= snapshot
        BY <1>0, <2>1, <2>2 DEF Ordered
    <2>4. \A i \in 1..Len(r) :
             /\ seen'[v] <= r[i] /\ r[i] <= snapshot
             /\ \A j \in i..Len(r) : r[i] <= r[j]
        BY <1>0, <2>1, <2>2, <2>3 DEF Ordered
    <2>5. Ordered(v)'
        BY <1>0, <2>1, <2>2, <2>3, <2>4 DEF Ordered
    <2>6. IF r # <<>> THEN r[Len(r)] = q[Len(q)] ELSE q[1] = q[Len(q)]
        <3>1. r \in Seq(Nat)
            BY <2>1
        <3>2. CASE r # <<>>
            <4>1. Len(r) \in 1..Len(r)
                BY <3>1, <3>2
            <4> QED BY <2>2, <3>2, <4>1
        <3>3. CASE r = <<>>
            <4>1. Len(r) = 0
                BY <3>3
            <4> QED BY <2>2, <3>3, <4>1
        <3> QED BY <3>2, <3>3
    <2>7. Sent(v)'
        BY <1>0, <2>1, <2>2, <2>6 DEF Sent, Newest
    <2> QED BY <1>0, <2>1, <2>5, <2>7 DEF Handled
<1> QED BY <1>1, <1>2, <1>3, <1>4, <1>5, <1>6, <1>7, <1>8, <1>9, <1>10, <1>11
        DEF WatchNext, Publisher, Handler

(* A step that changes nothing keeps the invariant *)
LEMMA WatchStutter == ASSUME WatchInv, UNCHANGED watchVars PROVE WatchInv'
BY DEF WatchInv, watchVars, WatchTypeOK, PublisherNeverBlocks, Ordered, Handled, Sent, Newest

(* The snapshots are in order, and the newest is on its way, in every state *)
THEOREM WatchInvariant == WatchSpec => []WatchInv
<1>1. WatchInv /\ [WatchNext]_watchVars => WatchInv'
    BY WatchTypeStep, WatchBlockStep, WatchOrderStep, WatchStutter DEF WatchInv
<1> QED BY WatchInitially, <1>1, PTL DEF WatchSpec

(* Everything has its type, and whoever is being served is registered *)
THEOREM WatchTypes == WatchSpec => []WatchTypeOK
<1>1. WatchInv => WatchTypeOK
    BY DEF WatchInv
<1> QED BY WatchInvariant, <1>1, PTL

(* The current snapshot is never lost on the way to a watcher *)
THEOREM NothingIsLost == WatchSpec => []NothingLost
<1>1. WatchInv => NothingLost
    BY DEF WatchInv, NothingLost, Sent
<1> QED BY WatchInvariant, <1>1, PTL

(* The publisher never waits for a watcher while it holds the state lock *)
THEOREM NeverBlocks == WatchSpec => []PublisherNeverBlocks
<1>1. WatchInv => PublisherNeverBlocks
    BY DEF WatchInv
<1> QED BY WatchInvariant, <1>1, PTL

(* Every watcher sees a register that only moves forward: Watch implements   *)
(* Latest, where Publish is Publish and Receive is Show                     *)
THEOREM Implements == WatchSpec => ImplementsLatest
<1>1. WatchInit => Promise!Init
    BY DEF WatchInit, Promise!Init
<1>2. WatchInv /\ [WatchNext]_watchVars => [Promise!Next]_(Promise!vars)
    <2> SUFFICES ASSUME WatchInv, [WatchNext]_watchVars PROVE [Promise!Next]_(Promise!vars)
        OBVIOUS
    <2>1. CASE Publish
        BY <2>1 DEF Publish, Promise!Next, Promise!Publish
    <2>2. ASSUME NEW w \in Watchers, Receive(w) PROVE Promise!Next
        <3>1. /\ wire[w] \in Seq(Nat) /\ wire[w] # <<>> /\ seen[w] \in Nat
              /\ snapshot \in Nat
            BY <2>2 DEF WatchInv, WatchTypeOK, Receive
        <3>2. Head(wire[w]) = wire[w][1] /\ 1 \in 1..Len(wire[w]) /\ wire[w][1] \in Nat
            BY <3>1
        <3>3. Head(wire[w]) \in seen[w]..snapshot
            BY <3>1, <3>2 DEF WatchInv, Ordered
        <3> QED BY <2>2, <3>3 DEF Receive, Promise!Next, Promise!Show, publisher
    <2>3. ASSUME NEW w \in Watchers,
                 \/ Offer(w) \/ Drain(w) \/ Put(w) \/ Open(w) \/ Take(w)
                 \/ Write(w) \/ Drop(w) \/ Unregister(w)
          PROVE  UNCHANGED Promise!vars
        BY <2>3 DEF Offer, Drain, Put, Open, Take, Write, Drop, Unregister,
                    publisher, Promise!vars
    <2>4. CASE UNCHANGED watchVars
        BY <2>4 DEF watchVars, Promise!vars
    <2> QED BY <2>1, <2>2, <2>3, <2>4 DEF WatchNext, Publisher, Handler
<1> QED BY <1>1, <1>2, WatchInvariant, PTL DEF WatchSpec, ImplementsLatest, Promise!Spec
=============================================================================
