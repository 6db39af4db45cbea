-------------------------------- MODULE Probe --------------------------------
(***************************************************************************)
(* Latency probes beside changes.  Callers who ask for the same target share *)
(* one running probe, a caller with another target preempts it, a change     *)
(* preempts it as well and waits until the engine is out of it.  The last    *)
(* caller that leaves cancels it.                                           *)
(*                                                                         *)
(* The lock stMu protects all of this; an action is one critical section, or one      *)
(* step of a goroutine between two of them.                                 *)
(***************************************************************************)
EXTENDS Integers, FiniteSets

CONSTANTS
    Callers,   \* handlers that call Core.Probe
    Nodes,     \* the nodes there ever are
    Targets,   \* what a caller may name: a subscription, a node, everything
    Match,     \* the nodes that a target names, if they exist
    NoTarget   \* the target of no probe

ASSUME ProbeAssumption ==
    /\ IsFiniteSet(Callers)
    /\ Match \in [Targets -> SUBSET Nodes]
    /\ NoTarget \notin Targets

VARIABLES
    nodes,     \* the nodes in Core.state.Subscriptions
    probing,   \* Core.probing
    probes,    \* the keys of Core.probes
    changing,  \* Core.changing
    shown,     \* the probe columns of Core.snapshot
    caller,    \* where each caller is
    phase      \* "serving", "stopping" (every context is cancelled), "stopped"

vars == <<nodes, probing, probes, changing, shown, caller, phase>>

(* job: where conn.Probe is, "none" without a probe *)
Probings == [job : {"none", "running", "returned"}, target : Targets \cup {NoTarget},
             refs : SUBSET Nodes, pending : SUBSET Nodes, dead : BOOLEAN,
             waiters : Int, changed : BOOLEAN]

NoProbe == [job |-> "none", target |-> NoTarget, refs |-> {}, pending |-> {},
            dead |-> TRUE, waiters |-> 0, changed |-> FALSE]

(* waits: for the done channel of the probe that ran when it began;          *)
(* before: the nodes of the state it shows                                  *)
Changings == [at : {"none", "begun", "acting"}, waits : BOOLEAN, dead : BOOLEAN,
              before : SUBSET Nodes]

NoChange == [at |-> "none", waits |-> FALSE, dead |-> FALSE, before |-> {}]

(* "asking": about to take stMu; "waiting": for another probe to be done;    *)
(* "joined": for its own                                                    *)
CallerStates == [at : {"idle", "asking", "waiting", "joined"},
                 target : Targets \cup {NoTarget}, dead : BOOLEAN]

Idle == [at |-> "idle", target |-> NoTarget, dead |-> FALSE]

Init ==
    /\ nodes \in SUBSET Nodes
    /\ probing = NoProbe
    /\ probes = {}
    /\ changing = NoChange
    /\ shown = [probed |-> {}, probing |-> {}]
    /\ caller = [c \in Callers |-> Idle]
    /\ phase = "serving"

----------------------------------------------------------------------------
(* Helpers *)

(* probeTargets *)
Named(target) == Match[target] \cap nodes

(* publishLocked and nodes, given the probe, the change and the results that *)
(* are current from now on                                                  *)
Publish(probe, change, results) ==
    LET live == IF change.at # "none" THEN change.before ELSE nodes
    IN  /\ shown' = [probed  |-> results \cap live,
                     probing |-> IF probe.dead THEN {} ELSE probe.pending \cap live]
        /\ probes' = IF change.at # "none" THEN results ELSE results \cap nodes

Canceled == [probing EXCEPT !.dead = TRUE]

Joined == {c \in Callers : caller[c].at = "joined"}

Returns(c) == caller' = [caller EXCEPT ![c] = Idle]

----------------------------------------------------------------------------
(* Core.Probe *)

Ask(c) ==
    /\ phase = "serving"
    /\ caller[c].at = "idle"
    /\ \E t \in Targets :
          caller' = [caller EXCEPT ![c] = [at |-> "asking", target |-> t, dead |-> FALSE]]
    /\ UNCHANGED <<nodes, probing, probes, changing, shown, phase>>

(* the client hangs up, or the call times out *)
Die(c) ==
    /\ caller[c].at # "idle" /\ ~caller[c].dead
    /\ caller' = [caller EXCEPT ![c].dead = TRUE]
    /\ UNCHANGED <<nodes, probing, probes, changing, shown, phase>>

(* is another probe in the way of this caller?  A dying one always is *)
InTheWay(c) ==
    /\ probing.job # "none"
    /\ probing.target # caller[c].target \/ probing.dead

Refuse(c) ==
    /\ caller[c].at = "asking"
    /\ \/ caller[c].dead
       \/ Named(caller[c].target) = {} /\ (InTheWay(c) \/ probing.job = "none")
       \/ ~InTheWay(c) /\ changing.at # "none"
    /\ Returns(c)
    /\ UNCHANGED <<nodes, probing, probes, changing, shown, phase>>

Preempt(c) ==
    /\ caller[c].at = "asking" /\ ~caller[c].dead
    /\ InTheWay(c) /\ Named(caller[c].target) # {}
    /\ probing' = Canceled
    /\ caller' = [caller EXCEPT ![c].at = "waiting"]
    /\ UNCHANGED <<nodes, probes, changing, shown, phase>>

Launch(c) ==
    /\ caller[c].at = "asking" /\ ~caller[c].dead
    /\ probing.job = "none" /\ Named(caller[c].target) # {}
    /\ LET call == [job |-> "running", target |-> caller[c].target,
                    refs |-> Named(caller[c].target),
                    pending |-> Named(caller[c].target),
                    dead |-> FALSE, waiters |-> 1, changed |-> FALSE]
       IN  probing' = call /\ Publish(call, changing, probes)
    /\ caller' = [caller EXCEPT ![c].at = "joined"]
    /\ UNCHANGED <<nodes, changing, phase>>

(* Sensitivity: whether a change is under way is not looked at once the      *)
(* probe in the way is gone                                                 *)
StartUnchecked(c) == Launch(c)

Start(c) == changing.at = "none" /\ Launch(c)

Join(c) ==
    /\ caller[c].at = "asking" /\ ~caller[c].dead
    /\ changing.at = "none"
    /\ probing.job # "none" /\ ~InTheWay(c)
    /\ probing' = [probing EXCEPT !.waiters = @ + 1]
    /\ caller' = [caller EXCEPT ![c].at = "joined"]
    /\ UNCHANGED <<nodes, probes, changing, shown, phase>>

(* waiting for another probe, it needs no lock to give up *)
GiveUp(c) ==
    /\ caller[c].at = "waiting" /\ caller[c].dead
    /\ Returns(c)
    /\ UNCHANGED <<nodes, probing, probes, changing, shown, phase>>

(* Sensitivity: whoever leaves lets the probe run on *)
LeaveRunning(c) ==
    /\ caller[c].at = "joined" /\ caller[c].dead
    /\ probing' = [probing EXCEPT !.waiters = @ - 1]
    /\ Returns(c)
    /\ UNCHANGED <<nodes, probes, changing, shown, phase>>

(* the deferred function of a caller whose probe is still running *)
Leave(c) ==
    /\ caller[c].at = "joined" /\ caller[c].dead
    /\ IF probing.waiters = 1
       THEN LET call == [Canceled EXCEPT !.waiters = 0]
            IN  probing' = call /\ Publish(call, changing, probes)
       ELSE /\ probing' = [probing EXCEPT !.waiters = @ - 1]
            /\ UNCHANGED <<probes, shown>>
    /\ Returns(c)
    /\ UNCHANGED <<nodes, changing, phase>>

----------------------------------------------------------------------------
(* runProbe, and conn.Probe in its goroutine *)

(* onResult; a result of a cancelled probe is dropped *)
Result(n) ==
    /\ probing.job = "running" /\ ~probing.dead
    /\ n \in probing.pending
    /\ probes' = probes \cup {n}
    /\ probing' = [probing EXCEPT !.pending = @ \ {n}, !.changed = TRUE]
    /\ UNCHANGED <<nodes, changing, shown, caller, phase>>

(* all results are in, it was cancelled, or nothing could be started *)
JobReturns ==
    /\ probing.job = "running"
    /\ probing.pending \in {{}, probing.refs} \/ probing.dead
    /\ probing' = [probing EXCEPT !.job = "returned"]
    /\ UNCHANGED <<nodes, probes, changing, shown, caller, phase>>

JobExpires ==
    /\ probing.job # "none" /\ ~probing.dead
    /\ probing' = Canceled
    /\ UNCHANGED <<nodes, probes, changing, shown, caller, phase>>

Tick ==
    /\ probing.job # "none" /\ probing.changed
    /\ probing' = [probing EXCEPT !.changed = FALSE]
    /\ Publish(probing, changing, probes)
    /\ UNCHANGED <<nodes, changing, caller, phase>>

(* closing done answers whoever joined, and wakes whoever waits for it *)
Answered(c) ==
    CASE caller[c].at = "joined"  -> Idle
      [] caller[c].at = "waiting" -> [caller[c] EXCEPT !.at = "asking"]
      [] OTHER                    -> caller[c]

(* Sensitivity: the change is not told *)
CloseSilently ==
    /\ probing.job = "returned"
    /\ probing' = NoProbe
    /\ Publish(NoProbe, changing, probes)
    /\ caller' = [c \in Callers |-> Answered(c)]
    /\ UNCHANGED <<nodes, changing, phase>>

Close ==
    /\ probing.job = "returned"
    /\ probing' = NoProbe
    /\ changing' = [changing EXCEPT !.waits = FALSE]
    /\ Publish(NoProbe, changing, probes)
    /\ caller' = [c \in Callers |-> Answered(c)]
    /\ UNCHANGED <<nodes, phase>>

----------------------------------------------------------------------------
(* Changes, as far as probes are concerned *)

Begin ==
    /\ phase = "serving" /\ changing.at = "none"
    /\ changing' = [at |-> "begun", waits |-> probing.job # "none", dead |-> FALSE,
                    before |-> nodes]
    /\ probing' = Canceled
    /\ UNCHANGED <<nodes, probes, shown, caller, phase>>

(* the deadline of its caller *)
ChangeDies ==
    /\ changing.at # "none" /\ ~changing.dead
    /\ changing' = [changing EXCEPT !.dead = TRUE]
    /\ UNCHANGED <<nodes, probing, probes, shown, caller, phase>>

Act ==
    /\ changing.at = "begun" /\ ~changing.waits /\ ~changing.dead
    /\ changing' = [changing EXCEPT !.at = "acting"]
    /\ UNCHANGED <<nodes, probing, probes, shown, caller, phase>>

(* whatever it does to the subscriptions, beside the engine *)
Commit ==
    /\ changing.at = "acting"
    /\ nodes' \in SUBSET Nodes
    /\ UNCHANGED <<probing, probes, changing, shown, caller, phase>>

(* it has acted, or its context is gone before it could *)
Over == \/ changing.at = "acting"
        \/ changing.at = "begun" /\ changing.dead

(* Sensitivity: its end is published while it still hides the new state *)
FinishLate ==
    /\ Over
    /\ changing' = NoChange
    /\ Publish(probing, changing, probes)
    /\ UNCHANGED <<nodes, probing, caller, phase>>

Finish ==
    /\ Over
    /\ changing' = NoChange
    /\ Publish(probing, NoChange, probes)
    /\ UNCHANGED <<nodes, probing, caller, phase>>

(* the 50 ms timer of a change; refreshes that start or end *)
Republish ==
    /\ phase # "stopped"
    /\ Publish(probing, changing, probes)
    /\ UNCHANGED <<nodes, probing, changing, caller, phase>>

----------------------------------------------------------------------------
(* Main *)

Stop ==
    /\ phase = "serving"
    /\ phase' = "stopping"
    /\ probing' = Canceled
    /\ changing' = [changing EXCEPT !.dead = changing.at # "none"]
    /\ caller' = [c \in Callers |-> [caller[c] EXCEPT !.dead = caller[c].at # "idle"]]
    /\ UNCHANGED <<nodes, probes, shown>>

(* Core.Shutdown, once the handlers are gone: the engine stops last *)
Shutdown ==
    /\ phase = "stopping"
    /\ \A c \in Callers : caller[c].at = "idle"
    /\ changing.at = "none" /\ probing.job = "none"
    /\ phase' = "stopped"
    /\ Publish(probing, changing, probes)
    /\ UNCHANGED <<nodes, probing, changing, caller>>

Restart ==
    /\ phase = "stopped"
    /\ phase' = "serving"
    /\ probes' = {} /\ shown' = [probed |-> {}, probing |-> {}]
    /\ UNCHANGED <<nodes, probing, changing, caller>>

----------------------------------------------------------------------------

Calls(c) ==
    \/ Ask(c) \/ Die(c) \/ Refuse(c) \/ Preempt(c) \/ Start(c) \/ Join(c)
    \/ GiveUp(c) \/ Leave(c)

Job == JobReturns \/ Close \/ \E n \in Nodes : Result(n)

Change == Begin \/ ChangeDies \/ Act \/ Commit \/ Finish

Next ==
    \/ \E c \in Callers : Calls(c)
    \/ Job \/ JobExpires \/ Tick
    \/ Change \/ Republish
    \/ Stop \/ Shutdown \/ Restart

Spec == Init /\ [][Next]_vars

(* A probe that is out of results or cancelled comes back from the engine    *)
(* (each request has its timeout), its goroutine and that of a change run.   *)
(* Nothing is assumed of callers, nor of how long a change acts.             *)
FairSpec ==
    /\ Spec
    /\ WF_vars(Job)
    /\ WF_vars(Act \/ (changing.at = "begun" /\ Finish))

----------------------------------------------------------------------------
(* Properties *)

TypeOK ==
    /\ nodes \subseteq Nodes
    /\ probing \in Probings
    /\ probes \subseteq Nodes
    /\ changing \in Changings
    /\ shown \in [probed : SUBSET Nodes, probing : SUBSET Nodes]
    /\ caller \in [Callers -> CallerStates]
    /\ phase \in {"serving", "stopping", "stopped"}

(* No probe is in the engine while a change uses it, or when it is stopped:  *)
(* Service.eng has no lock of its own (connection/service.go:80).           *)
EngineAlone ==
    changing.at = "acting" \/ phase = "stopped" => probing.job = "none"

(* A probe that is not cancelled is somebody's, and covers what its target   *)
(* names now: whoever joins it gets what it asked for (Probe, begin).        *)
ProbeCurrent ==
    probing.job # "none" /\ ~probing.dead =>
        /\ probing.refs = Named(probing.target)
        /\ \E c \in Callers : caller[c].at = "joined"
        /\ \A c \in Callers :
              caller[c].at = "joined" => caller[c].target = probing.target

(* At rest the snapshot has every result of a node that exists, no result of *)
(* a node that is gone, and no spinner (publishLocked at the end of a probe  *)
(* and of a change).                                                        *)
ShownAtRest ==
    changing.at = "none" /\ probing.job = "none" =>
        /\ shown = [probed |-> probes, probing |-> {}]
        /\ probes \subseteq nodes

(* A probe holds up a change only until it is out of the engine, however     *)
(* many callers come and go meanwhile (begin, runProbe).                     *)
ChangesGetTheirTurn ==
    changing.at = "begun" ~> changing.at # "begun"
=============================================================================
