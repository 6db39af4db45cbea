------------------------------- MODULE Refresh -------------------------------
(***************************************************************************)
(* Refreshes of subscriptions.  A client asks for several, its workers take  *)
(* them one by one, and clients that ask for the same subscription share one *)
(* call: it fetches the subscription, queues for the change that stores it,  *)
(* and answers everybody.  It is cancelled when the last of them leaves;     *)
(* whoever comes then waits until it is gone and starts another one.         *)
(***************************************************************************)
EXTENDS Integers, FiniteSets

CONSTANTS
    Clients,   \* callers of RefreshSubscriptions: handlers and AutoRefresh
    Refresher, \* AutoRefresh
    Subs,      \* the subscriptions there are at first
    Calls,     \* refreshCall objects, used again when nobody holds them
    Workers,   \* workers of one client
    Other,     \* a change that is no refresh
    None       \* no call, no change

ASSUME RefreshAssumption ==
    /\ IsFiniteSet(Clients) /\ IsFiniteSet(Subs)
    /\ Workers \in Nat \ {0}
    /\ None \notin Subs
    /\ None \notin Calls /\ Other \notin Calls /\ Other # None

VARIABLES
    subs,       \* the subscriptions in Core.state
    refreshes,  \* Core.refreshes
    call,       \* the calls
    changing,   \* Core.changing: a call, Other or None
    client,     \* where each client is
    worker,     \* where its worker for a subscription is
    serving     \* FALSE once main has cancelled the context of everything

vars == <<subs, refreshes, call, changing, client, worker, serving>>

(* ended: why its context is dead, "no" while it is not *)
CallStates == [at : {"fetching", "queued", "begun", "acting", "closing", "done"},
               sub : Subs \cup {None}, ended : {"no", "left", "expired"}, waiters : Int]

NoCall == [at |-> "done", sub |-> None, ended |-> "expired", waiters |-> 0]

ClientStates == [at : {"idle", "running"}, todo : SUBSET Subs, dead : BOOLEAN]

(* on: the call it has joined, or waits for *)
WorkerStates == [at : {"none", "asking", "entering", "waiting", "joined"},
                 on : Calls \cup {None}]

Idle == [at |-> "idle", todo |-> {}, dead |-> FALSE]

NoWorker == [at |-> "none", on |-> None]

Init ==
    /\ subs = Subs
    /\ refreshes = [s \in Subs |-> None]
    /\ call = [i \in Calls |-> NoCall]
    /\ changing = None
    /\ client = [c \in Clients |-> Idle]
    /\ worker = [c \in Clients |-> [s \in Subs |-> NoWorker]]
    /\ serving = TRUE

----------------------------------------------------------------------------
(* Helpers *)

Running(i) == call[i].at # "done"

Dead(i) == call[i].ended # "no"

(* the workers that have joined a call *)
JoinedTo(i) == {w \in Clients \X Subs :
                   worker[w[1]][w[2]].at = "joined" /\ worker[w[1]][w[2]].on = i}

(* nobody has a pointer to it any more *)
Unused(i) == /\ ~Running(i)
             /\ \A c \in Clients, s \in Subs : worker[c][s].on # i

(* a call that one waiter leaves; the last one cancels it *)
WithoutOne(k) ==
    [k EXCEPT !.waiters = k.waiters - 1,
              !.ended = IF k.waiters = 1 /\ k.ended = "no" THEN "left" ELSE k.ended]

Goes(c, s, at, i) == worker' = [worker EXCEPT ![c][s] = [at |-> at, on |-> i]]

Busy(c) == {s \in Subs : worker[c][s].at # "none"}

----------------------------------------------------------------------------
(* RefreshSubscriptions *)

Ask(c) ==
    /\ serving
    /\ client[c].at = "idle"
    /\ \E wanted \in SUBSET subs \ {{}} :
          client' = [client EXCEPT ![c] = [at |-> "running", todo |-> wanted, dead |-> FALSE]]
    /\ UNCHANGED <<subs, refreshes, call, changing, worker, serving>>

(* the client hangs up, or the call times out *)
Die(c) ==
    /\ client[c].at = "running" /\ ~client[c].dead
    /\ client' = [client EXCEPT ![c].dead = TRUE]
    /\ UNCHANGED <<subs, refreshes, call, changing, worker, serving>>

Dispatch(c, s) ==
    /\ s \in client[c].todo
    /\ Cardinality(Busy(c)) < Workers
    /\ client' = [client EXCEPT ![c].todo = @ \ {s}]
    /\ Goes(c, s, "asking", None)
    /\ UNCHANGED <<subs, refreshes, call, changing, serving>>

StopDispatch(c) ==
    /\ client[c].dead /\ client[c].todo # {}
    /\ client' = [client EXCEPT ![c].todo = {}]
    /\ UNCHANGED <<subs, refreshes, call, changing, worker, serving>>

Reply(c) ==
    /\ client[c].at = "running"
    /\ client[c].todo = {} /\ Busy(c) = {}
    /\ client' = [client EXCEPT ![c] = Idle]
    /\ UNCHANGED <<subs, refreshes, call, changing, worker, serving>>

----------------------------------------------------------------------------
(* refresh: the loop until the worker has joined a call *)

Check(c, s) ==
    /\ worker[c][s].at = "asking"
    /\ IF client[c].dead THEN Goes(c, s, "none", None) ELSE Goes(c, s, "entering", None)
    /\ UNCHANGED <<subs, refreshes, call, changing, client, serving>>

(* the call in the map is dead, its goroutine not yet done with it *)
WaitFor(c, s) ==
    /\ worker[c][s].at = "entering"
    /\ refreshes[s] # None
    /\ Dead(refreshes[s])
    /\ Goes(c, s, "waiting", refreshes[s])
    /\ UNCHANGED <<subs, refreshes, call, changing, client, serving>>

NotFound(c, s) ==
    /\ worker[c][s].at = "entering"
    /\ refreshes[s] = None /\ s \notin subs
    /\ Goes(c, s, "none", None)
    /\ UNCHANGED <<subs, refreshes, call, changing, client, serving>>

Launch(c, s) ==
    /\ s \in subs
    /\ \E i \in Calls :
          /\ Unused(i)
          /\ call' = [call EXCEPT ![i] = [at |-> "fetching", sub |-> s, waiters |-> 1,
                                          ended |-> IF serving THEN "no" ELSE "expired"]]
          /\ refreshes' = [refreshes EXCEPT ![s] = i]
          /\ Goes(c, s, "joined", i)
    /\ UNCHANGED <<subs, changing, client, serving>>

(* Sensitivity: a dead call is replaced at once *)
StartOverDead(c, s) ==
    /\ worker[c][s].at = "entering"
    /\ refreshes[s] = None \/ (refreshes[s] # None /\ Dead(refreshes[s]))
    /\ Launch(c, s)

Start(c, s) ==
    /\ worker[c][s].at = "entering"
    /\ refreshes[s] = None
    /\ Launch(c, s)

Join(c, s) ==
    /\ worker[c][s].at = "entering"
    /\ refreshes[s] # None /\ ~Dead(refreshes[s])
    /\ call' = [call EXCEPT ![refreshes[s]].waiters = @ + 1]
    /\ Goes(c, s, "joined", refreshes[s])
    /\ UNCHANGED <<subs, refreshes, changing, client, serving>>

(* the dead call is gone, or the client gave up waiting for that *)
Woken(c, s) ==
    /\ worker[c][s].at = "waiting"
    /\ \/ ~Running(worker[c][s].on) /\ Goes(c, s, "asking", None)
       \/ client[c].dead /\ Goes(c, s, "none", None)
    /\ UNCHANGED <<subs, refreshes, call, changing, client, serving>>

(* Sensitivity: a call goes on for nobody *)
LeaveRunning(c, s) ==
    /\ worker[c][s].at = "joined"
    /\ ~Running(worker[c][s].on) \/ client[c].dead
    /\ call' = [call EXCEPT ![worker[c][s].on].waiters = @ - 1]
    /\ Goes(c, s, "none", None)
    /\ UNCHANGED <<subs, refreshes, changing, client, serving>>

(* answered, or given up: the last one out cancels the call *)
Leave(c, s) ==
    /\ worker[c][s].at = "joined"
    /\ LET i == worker[c][s].on
       IN  /\ ~Running(i) \/ client[c].dead
           /\ call' = [call EXCEPT ![i] = WithoutOne(@)]
    /\ Goes(c, s, "none", None)
    /\ UNCHANGED <<subs, refreshes, changing, client, serving>>

----------------------------------------------------------------------------
(* runRefresh *)

Moves(i, at) == call' = [call EXCEPT ![i].at = at]

Fetched(i) ==
    /\ call[i].at = "fetching"
    /\ Moves(i, "queued")
    /\ UNCHANGED <<subs, refreshes, changing, client, worker, serving>>

FetchFails(i) ==
    /\ call[i].at = "fetching"
    /\ Moves(i, "closing")
    /\ UNCHANGED <<subs, refreshes, changing, client, worker, serving>>

(* begin with wait: the lock is free, or its context is gone *)
Begin(i) ==
    /\ call[i].at = "queued" /\ ~Dead(i)
    /\ changing = None
    /\ changing' = i
    /\ Moves(i, "begun")
    /\ UNCHANGED <<subs, refreshes, client, worker, serving>>

(* Sensitivity: only the end of the other change is waited for *)
GiveUpFirst(i) ==
    /\ call[i].at = "queued" /\ Dead(i)
    /\ changing = None
    /\ Moves(i, "closing")
    /\ UNCHANGED <<subs, refreshes, changing, client, worker, serving>>

GiveUp(i) ==
    /\ call[i].at = "queued" /\ Dead(i)
    /\ Moves(i, "closing")
    /\ UNCHANGED <<subs, refreshes, changing, client, worker, serving>>

(* the change stores the subscription, then turns to the engine *)
Commit(i) ==
    /\ call[i].at = "begun" /\ ~Dead(i)
    /\ call[i].sub \in subs
    /\ Moves(i, "acting")
    /\ UNCHANGED <<subs, refreshes, changing, client, worker, serving>>

(* done; or nothing to do: dead, removed meanwhile, or the save failed *)
EndChange(i) ==
    /\ call[i].at \in {"begun", "acting"}
    /\ changing' = None
    /\ Moves(i, "closing")
    /\ UNCHANGED <<subs, refreshes, client, worker, serving>>

(* the deferred function *)
Close(i) ==
    /\ call[i].at = "closing"
    /\ call' = [call EXCEPT ![i] = [NoCall EXCEPT !.waiters = call[i].waiters]]
    /\ refreshes' = [refreshes EXCEPT ![call[i].sub] = None]
    /\ UNCHANGED <<subs, changing, client, worker, serving>>

(* the deadline of the call *)
Expire(i) ==
    /\ Running(i) /\ ~Dead(i)
    /\ call' = [call EXCEPT ![i].ended = "expired"]
    /\ UNCHANGED <<subs, refreshes, changing, client, worker, serving>>

----------------------------------------------------------------------------
(* Other changes, and main *)

OtherBegins ==
    /\ serving /\ changing = None
    /\ changing' = Other
    /\ UNCHANGED <<subs, refreshes, call, client, worker, serving>>

OtherRemoves ==
    /\ changing = Other
    /\ \E s \in subs : subs' = subs \ {s}
    /\ UNCHANGED <<refreshes, call, changing, client, worker, serving>>

OtherEnds ==
    /\ changing = Other
    /\ changing' = None
    /\ UNCHANGED <<subs, refreshes, call, client, worker, serving>>

Stop ==
    /\ serving
    /\ serving' = FALSE
    /\ call' = [i \in Calls |->
                  [call[i] EXCEPT !.ended = IF @ = "no" THEN "expired" ELSE @]]
    /\ client' = [c \in Clients |-> [client[c] EXCEPT !.dead = client[c].at = "running"]]
    /\ UNCHANGED <<subs, refreshes, changing, worker>>

(* the handlers are gone and no change is left: main starts over.  A call    *)
(* and an AutoRefresh that are left have a dead context and a Core that      *)
(* nobody uses any more.                                                    *)
Restart ==
    /\ ~serving /\ changing = None
    /\ \A c \in Clients \ {Refresher} : client[c].at = "idle"
    /\ serving' = TRUE
    /\ refreshes' = [s \in Subs |-> None]
    /\ call' = [i \in Calls |-> NoCall]
    /\ client' = [c \in Clients |-> Idle]
    /\ worker' = [c \in Clients |-> [s \in Subs |-> NoWorker]]
    /\ UNCHANGED <<subs, changing>>

----------------------------------------------------------------------------

ClientSteps(c) == Ask(c) \/ Die(c) \/ StopDispatch(c) \/ Reply(c)

WorkerSteps(c, s) ==
    \/ Dispatch(c, s) \/ Check(c, s) \/ WaitFor(c, s) \/ NotFound(c, s) \/ Start(c, s)
    \/ Join(c, s) \/ Woken(c, s) \/ Leave(c, s)

Job(i) ==
    \/ Fetched(i) \/ FetchFails(i) \/ Begin(i) \/ GiveUp(i) \/ Commit(i)
    \/ EndChange(i) \/ Close(i)

Next ==
    \/ \E c \in Clients : ClientSteps(c)
    \/ \E c \in Clients, s \in Subs : WorkerSteps(c, s)
    \/ \E i \in Calls : Job(i) \/ Expire(i)
    \/ OtherBegins \/ OtherRemoves \/ OtherEnds
    \/ Stop \/ Restart

Spec == Init /\ [][Next]_vars

(* Fetches have timeouts, the goroutine of a call runs on, and so does its   *)
(* deadline.  It is not assumed that a call in the queue ever gets the lock. *)
FairSpec ==
    /\ Spec
    /\ \A i \in Calls : WF_vars(Job(i)) /\ WF_vars(Expire(i))

----------------------------------------------------------------------------
(* Properties *)

TypeOK ==
    /\ subs \subseteq Subs
    /\ refreshes \in [Subs -> Calls \cup {None}]
    /\ call \in [Calls -> CallStates]
    /\ changing \in Calls \cup {Other, None}
    /\ client \in [Clients -> ClientStates]
    /\ worker \in [Clients -> [Subs -> WorkerStates]]
    /\ serving \in BOOLEAN

(* A subscription is fetched once at a time: every call that runs is the one *)
(* that its subscription has in the map (refresh, runRefresh).               *)
OneRefresh ==
    \A i \in Calls : Running(i) => refreshes[call[i].sub] = i

(* A call that is not cancelled has somebody waiting for it, and nobody      *)
(* waits for one that was cancelled because somebody else left.              *)
Owned ==
    \A i \in Calls :
        Running(i) => CASE call[i].ended = "no"   -> JoinedTo(i) # {}
                        [] call[i].ended = "left" -> JoinedTo(i) = {}
                        [] OTHER                  -> TRUE

(* A refresh ends, also when other changes keep it waiting (begin). *)
RefreshesEnd ==
    \A i \in Calls : Running(i) ~> ~Running(i)
=============================================================================
