---------------------------- MODULE RefreshProofs ----------------------------
(***************************************************************************)
(* Proofs about Refresh, for any clients, subscriptions, calls and workers:  *)
(* a subscription is fetched once at a time, a call runs for somebody, nobody *)
(* gets the cancellation that another one caused, and what was removed stays *)
(* removed.                                                                *)
(***************************************************************************)
EXTENDS Refresh, FiniteSetTheorems, TLAPS

(* The map holds calls that run, each under its subscription *)
Mapped ==
    \A s \in Subs : refreshes[s] # None =>
        /\ Running(refreshes[s])
        /\ call[refreshes[s]].sub = s

Counted == \A i \in Calls : call[i].waiters = Cardinality(JoinedTo(i))

(* what a worker may be doing *)
WorkerInv ==
    /\ \A c \in Clients, s \in Subs :
          worker[c][s].at = "joined" => worker[c][s].on \in Calls
    /\ \A c \in Clients : client[c].at = "idle" => client[c].todo = {} /\ Busy(c) = {}
    /\ \A c \in Clients, s \in Subs :
          s \in client[c].todo => worker[c][s].at = "none"

IInv == TypeOK /\ Mapped /\ OneRefresh /\ Counted /\ Owned /\ WorkerInv

(* The workers that have joined a call are finitely many *)
LEMMA JoinedFinite ==
    ASSUME NEW i \in Calls
    PROVE  IsFiniteSet(JoinedTo(i)) /\ Cardinality(JoinedTo(i)) \in Nat
<1>1. IsFiniteSet(Clients \X Subs)
    BY RefreshAssumption, FS_Product
<1>2. JoinedTo(i) \subseteq Clients \X Subs
    BY DEF JoinedTo
<1> QED BY <1>1, <1>2, FS_Subset, FS_CardinalityType

(* A worker that goes somewhere leaves the others where they are *)
LEMMA GoesFacts ==
    ASSUME worker \in [Clients -> [Subs -> WorkerStates]],
           NEW c \in Clients, NEW s \in Subs, NEW at, NEW i,
           [at |-> at, on |-> i] \in WorkerStates, Goes(c, s, at, i)
    PROVE  /\ worker' \in [Clients -> [Subs -> WorkerStates]]
           /\ worker'[c][s].at = at /\ worker'[c][s].on = i
           /\ \A d \in Clients, t \in Subs : d # c \/ t # s => worker'[d][t] = worker[d][t]
<1>1. worker' = [worker EXCEPT ![c] = [worker[c] EXCEPT ![s] = [at |-> at, on |-> i]]]
    BY DEF Goes
<1>2. worker'[c] = [worker[c] EXCEPT ![s] = [at |-> at, on |-> i]]
    BY <1>1
<1> QED BY <1>1, <1>2

(* ... and, unless it joins or has joined, the calls their waiters *)
LEMMA AsideJoined ==
    ASSUME NEW c \in Clients, NEW s \in Subs,
           worker[c][s].at # "joined", worker'[c][s].at # "joined",
           \A d \in Clients, t \in Subs : d # c \/ t # s => worker'[d][t] = worker[d][t]
    PROVE  \A i : JoinedTo(i)' = JoinedTo(i)
<1> SUFFICES ASSUME NEW i, NEW w \in Clients \X Subs
             PROVE  w \in JoinedTo(i)' <=> w \in JoinedTo(i)
    BY DEF JoinedTo
<1>1. w[1] \in Clients /\ w[2] \in Subs
    OBVIOUS
<1> QED BY <1>1 DEF JoinedTo

(* One more worker joins *)
LEMMA OneJoins ==
    ASSUME NEW c \in Clients, NEW s \in Subs, NEW i,
           worker[c][s].at # "joined", worker'[c][s].at = "joined", worker'[c][s].on = i,
           \A d \in Clients, t \in Subs : d # c \/ t # s => worker'[d][t] = worker[d][t]
    PROVE  /\ <<c, s>> \notin JoinedTo(i)
           /\ JoinedTo(i)' = JoinedTo(i) \cup {<<c, s>>}
           /\ \A j : j # i => JoinedTo(j)' = JoinedTo(j)
<1>1. <<c, s>> \notin JoinedTo(i)
    BY DEF JoinedTo
<1>2. ASSUME NEW j, NEW w \in Clients \X Subs
      PROVE  w \in JoinedTo(j)' <=> w \in JoinedTo(j) \/ (j = i /\ w = <<c, s>>)
    <2>1. w[1] \in Clients /\ w[2] \in Subs /\ w = <<w[1], w[2]>>
        OBVIOUS
    <2> QED BY <2>1 DEF JoinedTo
<1>3. \A j : JoinedTo(j) \subseteq Clients \X Subs /\ JoinedTo(j)' \subseteq Clients \X Subs
    BY DEF JoinedTo
<1>4. ASSUME NEW j, j # i PROVE JoinedTo(j)' = JoinedTo(j)
    <2>1. \A w \in Clients \X Subs : w \in JoinedTo(j)' <=> w \in JoinedTo(j)
        BY <1>2, <1>4
    <2>2. JoinedTo(j) \subseteq Clients \X Subs /\ JoinedTo(j)' \subseteq Clients \X Subs
        BY <1>3
    <2> QED BY <2>1, <2>2
<1>5. JoinedTo(i)' = JoinedTo(i) \cup {<<c, s>>}
    <2>1. \A w \in Clients \X Subs :
             w \in JoinedTo(i)' <=> w \in JoinedTo(i) \cup {<<c, s>>}
        BY <1>2
    <2>2. /\ JoinedTo(i) \subseteq Clients \X Subs /\ JoinedTo(i)' \subseteq Clients \X Subs
          /\ <<c, s>> \in Clients \X Subs
        BY <1>3
    <2> QED BY <2>1, <2>2
<1> QED BY <1>1, <1>4, <1>5

(* One worker leaves *)
LEMMA OneLeaves ==
    ASSUME NEW c \in Clients, NEW s \in Subs, NEW i,
           worker[c][s].at = "joined", worker[c][s].on = i, worker'[c][s].at # "joined",
           \A d \in Clients, t \in Subs : d # c \/ t # s => worker'[d][t] = worker[d][t]
    PROVE  /\ <<c, s>> \in JoinedTo(i)
           /\ JoinedTo(i)' = JoinedTo(i) \ {<<c, s>>}
           /\ \A j : j # i => JoinedTo(j)' = JoinedTo(j)
<1>1. <<c, s>> \in JoinedTo(i)
    BY DEF JoinedTo
<1>2. ASSUME NEW j, NEW w \in Clients \X Subs
      PROVE  w \in JoinedTo(j)' <=> w \in JoinedTo(j) /\ (j # i \/ w # <<c, s>>)
    <2>1. w[1] \in Clients /\ w[2] \in Subs /\ w = <<w[1], w[2]>>
        OBVIOUS
    <2> QED BY <2>1 DEF JoinedTo
<1>3. \A j : JoinedTo(j) \subseteq Clients \X Subs /\ JoinedTo(j)' \subseteq Clients \X Subs
    BY DEF JoinedTo
<1>4. ASSUME NEW j, j # i PROVE JoinedTo(j)' = JoinedTo(j)
    <2>1. \A w \in Clients \X Subs : w \in JoinedTo(j)' <=> w \in JoinedTo(j)
        BY <1>2, <1>4
    <2>2. JoinedTo(j) \subseteq Clients \X Subs /\ JoinedTo(j)' \subseteq Clients \X Subs
        BY <1>3
    <2> QED BY <2>1, <2>2
<1>5. JoinedTo(i)' = JoinedTo(i) \ {<<c, s>>}
    <2>1. \A w \in Clients \X Subs :
             w \in JoinedTo(i)' <=> w \in JoinedTo(i) \ {<<c, s>>}
        BY <1>2
    <2>2. /\ JoinedTo(i) \subseteq Clients \X Subs /\ JoinedTo(i)' \subseteq Clients \X Subs
          /\ <<c, s>> \in Clients \X Subs
        BY <1>3
    <2> QED BY <2>1, <2>2
<1> QED BY <1>1, <1>4, <1>5

(* Initially nothing is refreshed *)
LEMMA Initially == Init => IInv
<1> SUFFICES ASSUME Init PROVE IInv
    OBVIOUS
<1> USE RefreshAssumption DEF Init
<1>1. TypeOK
    BY DEF TypeOK, CallStates, NoCall, ClientStates, Idle, WorkerStates, NoWorker
<1>2. \A i \in Calls : JoinedTo(i) = {}
    <2> SUFFICES ASSUME NEW i \in Calls, NEW w \in JoinedTo(i) PROVE FALSE
        OBVIOUS
    <2>1. w[1] \in Clients /\ w[2] \in Subs /\ worker[w[1]][w[2]].at = "joined"
        BY DEF JoinedTo
    <2> QED BY <2>1 DEF NoWorker
<1>3. Counted
    BY <1>2, FS_EmptySet DEF Counted, NoCall
<1>4. Mapped /\ OneRefresh /\ Owned
    BY DEF Mapped, OneRefresh, Owned, Running, NoCall
<1>5. WorkerInv
    BY DEF WorkerInv, Busy, Idle, NoWorker
<1> QED BY <1>1, <1>3, <1>4, <1>5 DEF IInv

(* What neither a call nor its waiters feel *)
LEMMA CallsAside ==
    ASSUME IInv, UNCHANGED <<refreshes, call>>, TypeOK', WorkerInv',
           \A i \in Calls : JoinedTo(i)' = JoinedTo(i)
    PROVE  IInv'
<1>1. Mapped' /\ OneRefresh'
    BY DEF IInv, Mapped, OneRefresh, Running
<1>2. Counted' /\ Owned'
    BY DEF IInv, Counted, Owned, Running
<1> QED BY <1>1, <1>2 DEF IInv

(* Steps of a client, outside its workers *)
LEMMA ClientStep ==
    ASSUME IInv, NEW c \in Clients, ClientSteps(c)
    PROVE  IInv'
<1>1. client \in [Clients -> ClientStates] /\ subs \subseteq Subs
    BY DEF IInv, TypeOK
<1>2. UNCHANGED <<subs, refreshes, call, changing, worker, serving>>
    BY DEF ClientSteps, Ask, Die, StopDispatch, Reply
<1>3. /\ client' \in [Clients -> ClientStates]
      /\ \A d \in Clients \ {c} : client'[d] = client[d]
      /\ client'[c].at = "idle" => client'[c].todo = {} /\ Busy(c) = {}
      /\ client'[c].todo \subseteq client[c].todo \/ client[c].at = "idle"
    <2>1. CASE Ask(c)
        <3>1. PICK wanted \in SUBSET subs : client' =
                  [client EXCEPT ![c] = [at |-> "running", todo |-> wanted, dead |-> FALSE]]
            BY <2>1 DEF Ask
        <3>2. [at |-> "running", todo |-> wanted, dead |-> FALSE] \in ClientStates
            BY <1>1 DEF ClientStates
        <3>3. client'[c].at = "running" /\ client[c].at = "idle"
            BY <1>1, <2>1, <3>1 DEF Ask
        <3> QED BY <1>1, <3>1, <3>2, <3>3
    <2>2. CASE Die(c)
        BY <1>1, <2>2 DEF Die, ClientStates
    <2>3. CASE StopDispatch(c)
        <3>1. client[c].at # "idle"
            BY <2>3 DEF StopDispatch, IInv, WorkerInv
        <3> QED BY <1>1, <2>3, <3>1 DEF StopDispatch, ClientStates
    <2>4. CASE Reply(c)
        <3>1. Idle \in ClientStates /\ Idle.todo = {}
            BY DEF Idle, ClientStates
        <3> QED BY <1>1, <2>4, <3>1 DEF Reply
    <2> QED BY <2>1, <2>2, <2>3, <2>4 DEF ClientSteps
<1>4. TypeOK'
    BY <1>2, <1>3 DEF IInv, TypeOK
<1>5. WorkerInv'
    BY <1>2, <1>3 DEF IInv, WorkerInv, Busy
<1>6. \A i \in Calls : JoinedTo(i)' = JoinedTo(i)
    BY <1>2 DEF JoinedTo
<1> QED BY <1>2, <1>4, <1>5, <1>6, CallsAside

(* A worker that was busy, or was just given work, keeps WorkerInv *)
LEMMA WorkerKeeps ==
    ASSUME IInv, NEW c \in Clients, NEW s \in Subs, NEW at, NEW i,
           [at |-> at, on |-> i] \in WorkerStates, Goes(c, s, at, i),
           at = "joined" => i \in Calls,
           worker[c][s].at # "none",
           UNCHANGED client
    PROVE  /\ worker' \in [Clients -> [Subs -> WorkerStates]]
           /\ WorkerInv'
<1>1. /\ worker' \in [Clients -> [Subs -> WorkerStates]]
      /\ worker'[c][s].at = at /\ worker'[c][s].on = i
      /\ \A d \in Clients, t \in Subs : d # c \/ t # s => worker'[d][t] = worker[d][t]
    BY GoesFacts DEF IInv, TypeOK
<1>2. \A d \in Clients, t \in Subs :
          worker'[d][t].at = "joined" => worker'[d][t].on \in Calls
    BY <1>1 DEF IInv, WorkerInv
<1>3. \A d \in Clients : Busy(d)' \subseteq Busy(d)
    BY <1>1 DEF Busy
<1> QED BY <1>1, <1>2, <1>3 DEF IInv, WorkerInv

(* Steps of a worker that has not joined a call *)
LEMMA WorkerStep ==
    ASSUME IInv, NEW c \in Clients, NEW s \in Subs,
           \/ Dispatch(c, s) \/ Check(c, s) \/ WaitFor(c, s)
           \/ NotFound(c, s) \/ Woken(c, s)
    PROVE  IInv'
<1>1. /\ refreshes \in [Subs -> Calls \cup {None}]
      /\ worker \in [Clients -> [Subs -> WorkerStates]]
      /\ client \in [Clients -> ClientStates]
    BY DEF IInv, TypeOK
<1>2. PICK at \in {"none", "asking", "entering", "waiting"}, i \in Calls \cup {None} :
          Goes(c, s, at, i)
    BY <1>1 DEF Dispatch, Check, WaitFor, NotFound, Woken
<1>3. [at |-> at, on |-> i] \in WorkerStates
    BY DEF WorkerStates
<1>4. /\ worker' \in [Clients -> [Subs -> WorkerStates]]
      /\ worker'[c][s].at = at /\ worker'[c][s].on = i
      /\ \A d \in Clients, t \in Subs : d # c \/ t # s => worker'[d][t] = worker[d][t]
    BY <1>1, <1>2, <1>3, GoesFacts
<1>5. UNCHANGED <<subs, refreshes, call, changing, serving>>
    BY DEF Dispatch, Check, WaitFor, NotFound, Woken
<1>6. CASE Dispatch(c, s)
    <2>1. /\ client' \in [Clients -> ClientStates]
          /\ client[c].todo # {}
          /\ \A d \in Clients : client'[d].at = client[d].at
          /\ \A d \in Clients \ {c} : client'[d] = client[d]
        BY <1>1, <1>6 DEF Dispatch, ClientStates
    <2>2. client[c].at # "idle"
        BY <2>1 DEF IInv, WorkerInv
    <2>3. worker[c][s].at = "none" /\ at = "asking"
        BY <1>4, <1>6, <1>1 DEF Dispatch, IInv, WorkerInv, Goes
    <2>4. WorkerInv'
        <3>1. \A d \in Clients : client'[d].at = "idle" =>
                  client'[d].todo = {} /\ Busy(d)' = {}
            BY <1>4, <2>1, <2>2 DEF IInv, WorkerInv, Busy
        <3>2. \A d \in Clients, t \in Subs :
                  t \in client'[d].todo => worker'[d][t].at = "none"
            BY <1>1, <1>4, <1>6, <2>1 DEF Dispatch, IInv, WorkerInv, ClientStates
        <3>3. \A d \in Clients, t \in Subs :
                  worker'[d][t].at = "joined" => worker'[d][t].on \in Calls
            BY <1>4 DEF IInv, WorkerInv
        <3> QED BY <3>1, <3>2, <3>3 DEF WorkerInv
    <2>5. TypeOK'
        BY <1>4, <1>5, <2>1 DEF IInv, TypeOK
    <2>6. \A j : JoinedTo(j)' = JoinedTo(j)
        BY <1>4, <2>3, AsideJoined
    <2> QED BY <1>5, <2>4, <2>5, <2>6, CallsAside
<1>7. CASE ~Dispatch(c, s)
    <2>1. UNCHANGED client /\ worker[c][s].at \notin {"none", "joined"}
        BY <1>7 DEF Check, WaitFor, NotFound, Woken
    <2>2. WorkerInv'
        BY <1>2, <1>3, <2>1, WorkerKeeps
    <2>3. TypeOK'
        BY <1>4, <1>5, <2>1 DEF IInv, TypeOK
    <2>4. \A j : JoinedTo(j)' = JoinedTo(j)
        BY <1>4, <2>1, AsideJoined
    <2> QED BY <1>5, <2>2, <2>3, <2>4, CallsAside
<1> QED BY <1>6, <1>7

(* A call that starts is new, runs for its subscription, and for its worker *)
LEMMA StartStep ==
    ASSUME IInv, NEW c \in Clients, NEW s \in Subs, Start(c, s)
    PROVE  IInv'
<1>1. PICK i \in Calls :
          /\ Unused(i)
          /\ call' = [call EXCEPT ![i] = [at |-> "fetching", sub |-> s, waiters |-> 1,
                                          ended |-> IF serving THEN "no" ELSE "expired"]]
          /\ refreshes' = [refreshes EXCEPT ![s] = i]
          /\ Goes(c, s, "joined", i)
    BY DEF Start, Launch
<1>2. /\ worker[c][s].at = "entering" /\ refreshes[s] = None
      /\ UNCHANGED <<subs, changing, client, serving>>
    BY DEF Start, Launch
<1>3. /\ call \in [Calls -> CallStates] /\ refreshes \in [Subs -> Calls \cup {None}]
      /\ worker \in [Clients -> [Subs -> WorkerStates]]
    BY DEF IInv, TypeOK
<1>4. [at |-> "joined", on |-> i] \in WorkerStates
    BY DEF WorkerStates
<1>5. /\ worker' \in [Clients -> [Subs -> WorkerStates]]
      /\ worker'[c][s].at = "joined" /\ worker'[c][s].on = i
      /\ \A d \in Clients, t \in Subs : d # c \/ t # s => worker'[d][t] = worker[d][t]
    BY <1>1, <1>3, <1>4, GoesFacts
<1>6. WorkerInv'
    BY <1>1, <1>2, <1>4, WorkerKeeps
<1>7. /\ call' \in [Calls -> CallStates] /\ call'[i].at = "fetching" /\ call'[i].sub = s
      /\ call'[i].waiters = 1 /\ call'[i].ended # "left"
      /\ \A j \in Calls \ {i} : call'[j] = call[j]
    BY <1>1, <1>3 DEF CallStates
<1>8. TypeOK'
    BY <1>1, <1>2, <1>3, <1>5, <1>7 DEF IInv, TypeOK
<1>9. JoinedTo(i) = {} /\ JoinedTo(i)' = {<<c, s>>} /\ \A j : j # i => JoinedTo(j)' = JoinedTo(j)
    <2>1. JoinedTo(i) = {}
        <3> SUFFICES ASSUME NEW w \in JoinedTo(i) PROVE FALSE
            OBVIOUS
        <3>1. w[1] \in Clients /\ w[2] \in Subs /\ worker[w[1]][w[2]].on = i
            BY DEF JoinedTo
        <3> QED BY <1>1, <3>1 DEF Unused
    <2>2. /\ JoinedTo(i)' = JoinedTo(i) \cup {<<c, s>>}
          /\ \A j : j # i => JoinedTo(j)' = JoinedTo(j)
        <3>1. worker[c][s].at # "joined"
            BY <1>2
        <3>2. worker'[c][s].at = "joined" /\ worker'[c][s].on = i
            BY <1>5
        <3>3. \A d \in Clients, t \in Subs :
                  d # c \/ t # s => worker'[d][t] = worker[d][t]
            BY <1>5
        <3> QED BY <3>1, <3>2, <3>3, OneJoins DEF JoinedTo
    <2> QED BY <2>1, <2>2
<1>10. ~Running(i)
    BY <1>1 DEF Unused
<1>11. Mapped'
    <2> SUFFICES ASSUME NEW t \in Subs, refreshes'[t] # None
                 PROVE  call'[refreshes'[t]].at # "done" /\ call'[refreshes'[t]].sub = t
        BY DEF Mapped, Running
    <2>1. CASE t = s
        BY <1>1, <1>3, <1>7, <2>1
    <2>2. CASE t # s
        <3>1. refreshes'[t] = refreshes[t] /\ refreshes[t] \in Calls
            BY <1>1, <1>3, <2>2
        <3>2. refreshes[t] # i
            BY <1>10, <3>1 DEF IInv, Mapped
        <3> QED BY <1>7, <3>1, <3>2 DEF IInv, Mapped, Running
    <2> QED BY <2>1, <2>2
<1>12. OneRefresh'
    <2> SUFFICES ASSUME NEW j \in Calls, call'[j].at # "done"
                 PROVE  refreshes'[call'[j].sub] = j
        BY DEF OneRefresh, Running
    <2>1. CASE j = i
        BY <1>1, <1>3, <1>7, <2>1
    <2>2. CASE j # i
        <3>1. call'[j] = call[j] /\ refreshes[call[j].sub] = j
            BY <1>7, <2>2 DEF IInv, OneRefresh, Running
        <3>2. call[j].sub # s
            BY <1>2, <3>1, RefreshAssumption
        <3> QED BY <1>1, <1>3, <3>1, <3>2
    <2> QED BY <2>1, <2>2
<1>13. Counted'
    BY <1>7, <1>9, FS_Singleton DEF IInv, Counted
<1>14. Owned'
    BY <1>7, <1>9 DEF IInv, Owned, Running
<1> QED BY <1>6, <1>8, <1>11, <1>12, <1>13, <1>14 DEF IInv

(* Nothing of a call but its waiters, its end and its place changes *)
LEMMA CallKept ==
    ASSUME IInv, UNCHANGED refreshes,
           \A j \in Calls : /\ call'[j].sub = call[j].sub
                            /\ call'[j].at = "done" <=> call[j].at = "done"
    PROVE  Mapped' /\ OneRefresh'
<1>1. Mapped'
    <2> SUFFICES ASSUME NEW t \in Subs, refreshes[t] # None
                 PROVE  call'[refreshes[t]].at # "done" /\ call'[refreshes[t]].sub = t
        BY DEF Mapped, Running
    <2>1. refreshes[t] \in Calls
        BY DEF IInv, TypeOK
    <2> QED BY <2>1 DEF IInv, Mapped, Running
<1>2. OneRefresh'
    BY DEF IInv, OneRefresh, Running
<1> QED BY <1>1, <1>2

(* One more waiter for a call that is not cancelled *)
LEMMA JoinStep ==
    ASSUME IInv, NEW c \in Clients, NEW s \in Subs, Join(c, s)
    PROVE  IInv'
<1>0. PICK i : i = refreshes[s]
    OBVIOUS
<1>1. /\ worker[c][s].at = "entering" /\ i # None /\ call[i].ended = "no"
      /\ call' = [call EXCEPT ![i].waiters = @ + 1]
      /\ Goes(c, s, "joined", i)
      /\ UNCHANGED <<subs, refreshes, changing, client, serving>>
    BY <1>0 DEF Join, Dead
<1>2. /\ call \in [Calls -> CallStates] /\ i \in Calls
      /\ worker \in [Clients -> [Subs -> WorkerStates]]
    BY <1>0, <1>1 DEF IInv, TypeOK
<1>3. [at |-> "joined", on |-> i] \in WorkerStates
    BY <1>2 DEF WorkerStates
<1>4. /\ worker' \in [Clients -> [Subs -> WorkerStates]]
      /\ worker'[c][s].at = "joined" /\ worker'[c][s].on = i
      /\ \A d \in Clients, t \in Subs : d # c \/ t # s => worker'[d][t] = worker[d][t]
    BY <1>1, <1>2, <1>3, GoesFacts
<1>5. WorkerInv'
    BY <1>1, <1>2, <1>3, WorkerKeeps
<1>6. /\ call' \in [Calls -> CallStates] /\ call'[i].waiters = call[i].waiters + 1
      /\ \A j \in Calls : /\ call'[j].sub = call[j].sub /\ call'[j].at = call[j].at
                          /\ call'[j].ended = call[j].ended
      /\ \A j \in Calls \ {i} : call'[j] = call[j]
    BY <1>1, <1>2 DEF CallStates
<1>7. TypeOK'
    BY <1>1, <1>4, <1>6 DEF IInv, TypeOK
<1>8. /\ <<c, s>> \notin JoinedTo(i) /\ JoinedTo(i)' = JoinedTo(i) \cup {<<c, s>>}
      /\ \A j : j # i => JoinedTo(j)' = JoinedTo(j)
    <2>1. worker[c][s].at # "joined"
        BY <1>1
    <2> QED BY <1>4, <2>1, OneJoins
<1>9. Mapped' /\ OneRefresh'
    BY <1>1, <1>6, CallKept
<1>10. Counted'
    <2>1. Cardinality(JoinedTo(i) \cup {<<c, s>>}) = Cardinality(JoinedTo(i)) + 1
        BY <1>2, <1>8, JoinedFinite, FS_AddElement
    <2> QED BY <1>6, <1>8, <2>1 DEF IInv, Counted
<1>11. Owned'
    BY <1>1, <1>2, <1>6, <1>8 DEF IInv, Owned, Running
<1> QED BY <1>5, <1>7, <1>9, <1>10, <1>11 DEF IInv

(* What leaving does to a call *)
LEMMA WithoutOneFacts ==
    ASSUME NEW k \in CallStates
    PROVE  /\ WithoutOne(k) \in CallStates
           /\ WithoutOne(k).waiters = k.waiters - 1
           /\ WithoutOne(k).ended = IF k.waiters = 1 /\ k.ended = "no"
                                    THEN "left" ELSE k.ended
           /\ WithoutOne(k).sub = k.sub /\ WithoutOne(k).at = k.at
<1> DEFINE e == IF k.waiters = 1 /\ k.ended = "no" THEN "left" ELSE k.ended
<1>1. e \in {"no", "left", "expired"} /\ k.waiters - 1 \in Int
    BY DEF CallStates
<1>2. WithoutOne(k) = [k EXCEPT !.waiters = k.waiters - 1, !.ended = e]
    BY DEF WithoutOne
<1> HIDE DEF e
<1>3. /\ WithoutOne(k) \in CallStates
      /\ WithoutOne(k).waiters = k.waiters - 1 /\ WithoutOne(k).ended = e
      /\ WithoutOne(k).sub = k.sub /\ WithoutOne(k).at = k.at
    BY <1>1, <1>2 DEF CallStates
<1> QED BY <1>3 DEF e

(* The last waiter that leaves cancels a call that runs, another does not *)
LEMMA LeaveStep ==
    ASSUME IInv, NEW c \in Clients, NEW s \in Subs, Leave(c, s)
    PROVE  IInv'
<1>0. PICK i : i = worker[c][s].on
    OBVIOUS
<1>1. /\ worker[c][s].at = "joined"
      /\ call' = [call EXCEPT ![i] = WithoutOne(call[i])]
      /\ Goes(c, s, "none", None)
      /\ UNCHANGED <<subs, refreshes, changing, client, serving>>
    BY <1>0 DEF Leave
<1>2. /\ call \in [Calls -> CallStates] /\ i \in Calls
      /\ worker \in [Clients -> [Subs -> WorkerStates]]
    BY <1>0, <1>1 DEF IInv, TypeOK, WorkerInv
<1>3. [at |-> "none", on |-> None] \in WorkerStates
    BY DEF WorkerStates
<1>4. /\ worker' \in [Clients -> [Subs -> WorkerStates]]
      /\ worker'[c][s].at = "none"
      /\ \A d \in Clients, t \in Subs : d # c \/ t # s => worker'[d][t] = worker[d][t]
    BY <1>1, <1>2, <1>3, GoesFacts
<1>5. WorkerInv'
    BY <1>1, <1>3, WorkerKeeps
<1>6. /\ <<c, s>> \in JoinedTo(i) /\ JoinedTo(i)' = JoinedTo(i) \ {<<c, s>>}
      /\ \A j : j # i => JoinedTo(j)' = JoinedTo(j)
    <2>1. worker[c][s].at = "joined" /\ worker[c][s].on = i
        BY <1>0, <1>1
    <2>2. worker'[c][s].at # "joined"
        BY <1>4
    <2>3. \A d \in Clients, t \in Subs : d # c \/ t # s => worker'[d][t] = worker[d][t]
        BY <1>4
    <2> QED BY <2>1, <2>2, <2>3, OneLeaves DEF JoinedTo
<1>7. /\ call' \in [Calls -> CallStates] /\ call'[i].waiters = call[i].waiters - 1
      /\ call'[i].ended = IF call[i].waiters = 1 /\ call[i].ended = "no"
                          THEN "left" ELSE call[i].ended
      /\ \A j \in Calls : call'[j].sub = call[j].sub /\ call'[j].at = call[j].at
      /\ \A j \in Calls \ {i} : call'[j] = call[j]
    BY <1>1, <1>2, WithoutOneFacts
<1>8. TypeOK'
    BY <1>1, <1>4, <1>7 DEF IInv, TypeOK
<1>9. Mapped' /\ OneRefresh'
    BY <1>1, <1>7, CallKept
<1>10. /\ IsFiniteSet(JoinedTo(i)') /\ call[i].waiters = Cardinality(JoinedTo(i))
       /\ Cardinality(JoinedTo(i)') = call[i].waiters - 1
       /\ call[i].waiters \in Nat
    <2>1. /\ IsFiniteSet(JoinedTo(i)) /\ Cardinality(JoinedTo(i)) \in Nat
          /\ call[i].waiters = Cardinality(JoinedTo(i))
        BY <1>2, JoinedFinite DEF IInv, Counted
    <2>2. /\ IsFiniteSet(JoinedTo(i) \ {<<c, s>>})
          /\ Cardinality(JoinedTo(i) \ {<<c, s>>}) = Cardinality(JoinedTo(i)) - 1
        BY <1>6, <2>1, FS_RemoveElement
    <2> QED BY <1>6, <2>1, <2>2
<1>11. Counted'
    BY <1>6, <1>7, <1>10 DEF IInv, Counted
<1>12. JoinedTo(i)' = {} <=> call[i].waiters = 1
    BY <1>10, FS_EmptySet
<1>13. Owned'
    BY <1>2, <1>6, <1>7, <1>12 DEF IInv, Owned, Running
<1> QED BY <1>5, <1>8, <1>9, <1>11, <1>13 DEF IInv

(* A call that only moves on, or whose context dies *)
LEMMA CallMoves ==
    ASSUME IInv, NEW i \in Calls, NEW k \in CallStates,
           call[i].at # "done", k.at # "done",
           call' = [call EXCEPT ![i] = k],
           k.sub = call[i].sub, k.waiters = call[i].waiters,
           k.ended = call[i].ended \/ k.ended = "expired",
           subs' \subseteq Subs, changing' \in Calls \cup {Other, None},
           UNCHANGED <<refreshes, client, worker, serving>>
    PROVE  IInv'
<1>1. call \in [Calls -> CallStates]
    BY DEF IInv, TypeOK
<1>2. /\ call' \in [Calls -> CallStates]
      /\ \A j \in Calls : /\ call'[j].sub = call[j].sub
                          /\ call'[j].at = "done" <=> call[j].at = "done"
                          /\ call'[j].waiters = call[j].waiters
                          /\ call'[j].ended = call[j].ended \/ call'[j].ended = "expired"
    BY <1>1
<1>3. TypeOK'
    BY <1>2 DEF IInv, TypeOK
<1>4. Mapped' /\ OneRefresh'
    BY <1>2, CallKept
<1>5. \A j \in Calls : JoinedTo(j)' = JoinedTo(j)
    BY DEF JoinedTo
<1>6. Counted'
    BY <1>2, <1>5 DEF IInv, Counted
<1>7. Owned'
    <2> SUFFICES ASSUME NEW j \in Calls, call'[j].at # "done"
                 PROVE  /\ call'[j].ended = "no" => JoinedTo(j)' # {}
                        /\ call'[j].ended = "left" => JoinedTo(j)' = {}
        BY DEF Owned, Running
    <2>1. call[j].at # "done"
        BY <1>2
    <2>2. /\ call[j].ended = "no" => JoinedTo(j) # {}
          /\ call[j].ended = "left" => JoinedTo(j) = {}
        BY <2>1 DEF IInv, Owned, Running
    <2> QED BY <1>2, <1>5, <2>2
<1>8. WorkerInv'
    BY DEF IInv, WorkerInv, Busy
<1> QED BY <1>3, <1>4, <1>6, <1>7, <1>8 DEF IInv

(* Moving on changes nothing else of a call *)
LEMMA MovesFacts ==
    ASSUME call \in [Calls -> CallStates], NEW i \in Calls,
           NEW at \in {"fetching", "queued", "begun", "acting", "closing"}, Moves(i, at)
    PROVE  \E k \in CallStates :
              /\ call' = [call EXCEPT ![i] = k]
              /\ k.at # "done" /\ k.sub = call[i].sub
              /\ k.waiters = call[i].waiters /\ k.ended = call[i].ended
<1>1. call[i] \in CallStates
    OBVIOUS
<1>2. [call[i] EXCEPT !.at = at] \in CallStates
    BY <1>1 DEF CallStates
<1>3. call' = [call EXCEPT ![i] = [call[i] EXCEPT !.at = at]]
    BY DEF Moves
<1>4. /\ [call[i] EXCEPT !.at = at].at = at
      /\ [call[i] EXCEPT !.at = at].sub = call[i].sub
      /\ [call[i] EXCEPT !.at = at].waiters = call[i].waiters
      /\ [call[i] EXCEPT !.at = at].ended = call[i].ended
    BY <1>1 DEF CallStates
<1> QED BY <1>2, <1>3, <1>4

(* Steps of the goroutine of a call, but the last *)
LEMMA JobStep ==
    ASSUME IInv, NEW i \in Calls,
           \/ Fetched(i) \/ FetchFails(i) \/ Begin(i) \/ GiveUp(i)
           \/ Commit(i) \/ EndChange(i)
    PROVE  IInv'
<1>1. call \in [Calls -> CallStates] /\ subs \subseteq Subs
      /\ changing \in Calls \cup {Other, None}
    BY DEF IInv, TypeOK
<1>2. PICK at \in {"fetching", "queued", "begun", "acting", "closing"} : Moves(i, at)
    BY DEF Fetched, FetchFails, Begin, GiveUp, Commit, EndChange
<1>3. call[i].at # "done"
    BY DEF Fetched, FetchFails, Begin, GiveUp, Commit, EndChange
<1>4. /\ subs' \subseteq Subs /\ changing' \in Calls \cup {Other, None}
      /\ UNCHANGED <<refreshes, client, worker, serving>>
    BY <1>1 DEF Fetched, FetchFails, Begin, GiveUp, Commit, EndChange
<1>5. PICK k \in CallStates : /\ call' = [call EXCEPT ![i] = k]
                              /\ k.at # "done" /\ k.sub = call[i].sub
                              /\ k.waiters = call[i].waiters /\ k.ended = call[i].ended
    BY <1>1, <1>2, MovesFacts
<1> QED BY <1>3, <1>4, <1>5, CallMoves

(* The deadline of a call *)
LEMMA ExpireStep ==
    ASSUME IInv, NEW i \in Calls, Expire(i)
    PROVE  IInv'
<1>1. /\ call \in [Calls -> CallStates] /\ subs \subseteq Subs
      /\ changing \in Calls \cup {Other, None} /\ call[i] \in CallStates
    BY DEF IInv, TypeOK
<1> DEFINE k == [call[i] EXCEPT !.ended = "expired"]
<1>2. /\ k \in CallStates /\ k.at = call[i].at /\ k.sub = call[i].sub
      /\ k.waiters = call[i].waiters /\ k.ended = "expired"
    BY <1>1 DEF CallStates
<1>3. call' = [call EXCEPT ![i] = k]
    BY DEF Expire
<1>4. call[i].at # "done"
    BY DEF Expire, Running
<1>5. /\ subs' \subseteq Subs /\ changing' \in Calls \cup {Other, None}
      /\ UNCHANGED <<refreshes, client, worker, serving>>
    BY <1>1 DEF Expire
<1> HIDE DEF k
<1> QED BY <1>2, <1>3, <1>4, <1>5, CallMoves

(* The last step of a call takes it out of the map, and no other call *)
LEMMA CloseStep ==
    ASSUME IInv, NEW i \in Calls, Close(i)
    PROVE  IInv'
<1>1. /\ call \in [Calls -> CallStates] /\ call[i] \in CallStates
      /\ refreshes \in [Subs -> Calls \cup {None}]
    BY DEF IInv, TypeOK
<1>2. /\ call[i].at = "closing"
      /\ call' = [call EXCEPT ![i] = [NoCall EXCEPT !.waiters = call[i].waiters]]
      /\ refreshes' = [refreshes EXCEPT ![call[i].sub] = None]
      /\ UNCHANGED <<subs, changing, client, worker, serving>>
    BY DEF Close
<1>3. call[i].waiters \in Int
    BY <1>1 DEF CallStates
<1>4. [NoCall EXCEPT !.waiters = call[i].waiters] =
          [at |-> "done", sub |-> None, ended |-> "expired", waiters |-> call[i].waiters]
    BY DEF NoCall
<1>5. /\ call' \in [Calls -> CallStates] /\ call'[i].at = "done"
      /\ call'[i].waiters = call[i].waiters
      /\ \A j \in Calls \ {i} : call'[j] = call[j]
    BY <1>1, <1>2, <1>3, <1>4 DEF CallStates
<1>6. refreshes[call[i].sub] = i
    BY <1>2 DEF IInv, OneRefresh, Running
<1>7. refreshes' \in [Subs -> Calls \cup {None}]
    BY <1>1, <1>2
<1>8. TypeOK'
    BY <1>2, <1>5, <1>7 DEF IInv, TypeOK
<1>9. Mapped'
    <2> SUFFICES ASSUME NEW t \in Subs, refreshes'[t] # None
                 PROVE  call'[refreshes'[t]].at # "done" /\ call'[refreshes'[t]].sub = t
        BY DEF Mapped, Running
    <2>1. t # call[i].sub /\ refreshes'[t] = refreshes[t] /\ refreshes[t] \in Calls
        BY <1>1, <1>2
    <2>2. call[refreshes[t]].at # "done" /\ call[refreshes[t]].sub = t
        BY <2>1 DEF IInv, Mapped, Running
    <2> QED BY <1>5, <2>1, <2>2
<1>10. OneRefresh'
    <2> SUFFICES ASSUME NEW j \in Calls, call'[j].at # "done"
                 PROVE  refreshes'[call'[j].sub] = j
        BY DEF OneRefresh, Running
    <2>1. j # i /\ call'[j] = call[j] /\ refreshes[call[j].sub] = j
        BY <1>5 DEF IInv, OneRefresh, Running
    <2>2. call[j].sub # call[i].sub
        BY <1>6, <2>1
    <2> QED BY <1>1, <1>2, <2>1, <2>2
<1>11. \A j \in Calls : JoinedTo(j)' = JoinedTo(j)
    BY <1>2 DEF JoinedTo
<1>12. Counted'
    BY <1>5, <1>11 DEF IInv, Counted
<1>13. Owned'
    BY <1>5, <1>11 DEF IInv, Owned, Running
<1>14. WorkerInv'
    BY <1>2 DEF IInv, WorkerInv, Busy
<1> QED BY <1>8, <1>9, <1>10, <1>12, <1>13, <1>14 DEF IInv

(* Steps of other changes *)
LEMMA OtherSteps ==
    ASSUME IInv, OtherBegins \/ OtherRemoves \/ OtherEnds
    PROVE  IInv'
<1>1. /\ UNCHANGED <<refreshes, call, client, worker, serving>>
      /\ subs' \subseteq Subs /\ changing' \in Calls \cup {Other, None}
    BY DEF OtherBegins, OtherRemoves, OtherEnds, IInv, TypeOK
<1>2. TypeOK'
    BY <1>1 DEF IInv, TypeOK
<1>3. WorkerInv'
    BY <1>1 DEF IInv, WorkerInv, Busy
<1>4. \A j \in Calls : JoinedTo(j)' = JoinedTo(j)
    BY <1>1 DEF JoinedTo
<1> QED BY <1>1, <1>2, <1>3, <1>4, CallsAside

(* Everything that runs is told to end *)
LEMMA StopStep ==
    ASSUME IInv, Stop
    PROVE  IInv'
<1>1. /\ call \in [Calls -> CallStates] /\ client \in [Clients -> ClientStates]
      /\ UNCHANGED <<subs, refreshes, changing, worker>> /\ serving' \in BOOLEAN
    BY DEF IInv, TypeOK, Stop
<1>2. ASSUME NEW j \in Calls
      PROVE  /\ call'[j] \in CallStates
             /\ call'[j].at = call[j].at /\ call'[j].sub = call[j].sub
             /\ call'[j].waiters = call[j].waiters
             /\ call'[j].ended = IF call[j].ended = "no" THEN "expired" ELSE call[j].ended
    <2> DEFINE e == IF call[j].ended = "no" THEN "expired" ELSE call[j].ended
    <2>1. call[j] \in CallStates
        BY <1>1
    <2>2. e \in {"no", "left", "expired"}
        BY <2>1 DEF CallStates
    <2>3. call'[j] = [call[j] EXCEPT !.ended = e]
        BY DEF Stop
    <2> HIDE DEF e
    <2>4. /\ call'[j] \in CallStates /\ call'[j].ended = e
          /\ call'[j].at = call[j].at /\ call'[j].sub = call[j].sub
          /\ call'[j].waiters = call[j].waiters
        BY <2>1, <2>2, <2>3 DEF CallStates
    <2> QED BY <2>4 DEF e
<1>3. call' \in [Calls -> CallStates]
    <2>1. call' = [j \in Calls |-> call'[j]]
        BY DEF Stop
    <2> QED BY <1>2, <2>1
<1>4. ASSUME NEW c \in Clients
      PROVE  /\ client'[c] \in ClientStates
             /\ client'[c].at = client[c].at /\ client'[c].todo = client[c].todo
    BY <1>1 DEF Stop, ClientStates
<1>5. client' \in [Clients -> ClientStates]
    <2>1. client' = [c \in Clients |-> client'[c]]
        BY DEF Stop
    <2> QED BY <1>4, <2>1
<1>6. TypeOK'
    BY <1>1, <1>3, <1>5 DEF IInv, TypeOK
<1>7. Mapped' /\ OneRefresh'
    BY <1>1, <1>2, CallKept
<1>8. \A j \in Calls : JoinedTo(j)' = JoinedTo(j)
    BY <1>1 DEF JoinedTo
<1>9. Counted'
    BY <1>2, <1>8 DEF IInv, Counted
<1>10. Owned'
    BY <1>2, <1>8 DEF IInv, Owned, Running
<1>11. WorkerInv'
    BY <1>1, <1>4 DEF IInv, WorkerInv, Busy
<1> QED BY <1>6, <1>7, <1>9, <1>10, <1>11 DEF IInv

(* The process starts over when no handler is left *)
LEMMA RestartStep ==
    ASSUME IInv, Restart
    PROVE  IInv'
<1>1. /\ UNCHANGED <<subs, changing>>
      /\ serving' = TRUE
      /\ refreshes' = [s \in Subs |-> None]
      /\ call' = [j \in Calls |-> NoCall]
      /\ client' = [c \in Clients |-> Idle]
      /\ worker' = [c \in Clients |-> [s \in Subs |-> NoWorker]]
    BY DEF Restart
<1>2. NoCall \in CallStates /\ Idle \in ClientStates /\ NoWorker \in WorkerStates
    BY DEF NoCall, CallStates, Idle, ClientStates, NoWorker, WorkerStates
<1>3. TypeOK'
    BY <1>1, <1>2 DEF IInv, TypeOK
<1>4. \A c \in Clients, s \in Subs : worker'[c][s].at = "none"
    BY <1>1 DEF NoWorker
<1>5. \A j \in Calls : JoinedTo(j)' = {}
    <2> SUFFICES ASSUME NEW w \in Clients \X Subs PROVE worker'[w[1]][w[2]].at # "joined"
        BY DEF JoinedTo
    <2>1. w[1] \in Clients /\ w[2] \in Subs
        OBVIOUS
    <2> QED BY <1>4, <2>1
<1>6. \A j \in Calls : call'[j].at = "done" /\ call'[j].waiters = 0
    BY <1>1 DEF NoCall
<1>7. Mapped'
    BY <1>1 DEF Mapped
<1>8. OneRefresh' /\ Owned'
    BY <1>6 DEF OneRefresh, Owned, Running
<1>9. Counted'
    BY <1>5, <1>6, FS_EmptySet DEF Counted
<1>10. WorkerInv'
    BY <1>1, <1>4 DEF WorkerInv, Busy, Idle
<1> QED BY <1>3, <1>7, <1>8, <1>9, <1>10 DEF IInv

(* ... and without a step *)
LEMMA StutterStep ==
    ASSUME IInv, UNCHANGED vars
    PROVE  IInv'
<1>1. UNCHANGED <<subs, refreshes, call, changing, client, worker, serving>>
    BY DEF vars
<1>2. TypeOK' /\ WorkerInv'
    BY <1>1 DEF IInv, TypeOK, WorkerInv, Busy
<1>3. \A j \in Calls : JoinedTo(j)' = JoinedTo(j)
    BY <1>1 DEF JoinedTo
<1> QED BY <1>1, <1>2, <1>3, CallsAside

(* The calls, the map and the workers agree with each other, always *)
THEOREM RefreshInvariant == Spec => []IInv
<1>1. IInv /\ [Next]_vars => IInv'
    <2> SUFFICES ASSUME IInv, [Next]_vars PROVE IInv'
        OBVIOUS
    <2>1. ASSUME NEW c \in Clients, ClientSteps(c) PROVE IInv'
        BY <2>1, ClientStep
    <2>2. ASSUME NEW c \in Clients, NEW s \in Subs, WorkerSteps(c, s) PROVE IInv'
        BY <2>2, WorkerStep, StartStep, JoinStep, LeaveStep DEF WorkerSteps
    <2>3. ASSUME NEW i \in Calls, Job(i) \/ Expire(i) PROVE IInv'
        BY <2>3, JobStep, CloseStep, ExpireStep DEF Job
    <2>4. CASE OtherBegins \/ OtherRemoves \/ OtherEnds
        BY <2>4, OtherSteps
    <2>5. CASE Stop
        BY <2>5, StopStep
    <2>6. CASE Restart
        BY <2>6, RestartStep
    <2>7. CASE UNCHANGED vars
        BY <2>7, StutterStep
    <2> QED BY <2>1, <2>2, <2>3, <2>4, <2>5, <2>6, <2>7 DEF Next
<1> QED BY Initially, <1>1, PTL DEF Spec

(* Every variable keeps its type *)
THEOREM RefreshTypes == Spec => []TypeOK
<1>1. IInv => TypeOK
    BY DEF IInv
<1> QED BY RefreshInvariant, <1>1, PTL

(* However many clients ask, and however they come and go, a subscription is *)
(* fetched by one call at a time (refresh, runRefresh)                       *)
THEOREM OneAtATime == Spec => []OneRefresh
<1>1. IInv => OneRefresh
    BY DEF IInv
<1> QED BY RefreshInvariant, <1>1, PTL

(* A call runs for somebody or is cancelled, and nobody waits for one that   *)
(* another client's leaving cancelled (refresh)                              *)
THEOREM OwnedAlways == Spec => []Owned
<1>1. IInv => Owned
    BY DEF IInv
<1> QED BY RefreshInvariant, <1>1, PTL
=============================================================================
