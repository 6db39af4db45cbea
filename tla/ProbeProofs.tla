---------------------------- MODULE ProbeProofs ----------------------------
(***************************************************************************)
(* Proofs about Probe, for any callers, nodes and targets: probes and        *)
(* changes never share the engine, whoever joins a probe gets what it asked  *)
(* for, and at rest the snapshot shows the results there are.                *)
(***************************************************************************)
EXTENDS Probe, FiniteSetTheorems, TLAPS

(* waiters counts the callers that have joined *)
Counted == probing.waiters = Cardinality(Joined)

(* what is known of the probe *)
ProbeInv ==
    /\ probing.job = "none" => probing = NoProbe
    /\ \A c \in Joined : /\ probing.job # "none"
                         /\ caller[c].target = probing.target
    /\ probing.job # "none" /\ ~probing.dead =>
          /\ probing.refs = Named(probing.target)
          /\ changing.at = "none"
          /\ Joined # {}

(* who may be in the engine *)
TurnInv ==
    /\ changing.at = "begun" => changing.waits \/ probing.job = "none"
    /\ changing.at = "acting" => probing.job = "none"
    /\ changing.at = "none" => changing = NoChange

(* after main has cancelled every context *)
StopInv ==
    /\ phase # "serving" => \A c \in Callers : caller[c].at = "idle" \/ caller[c].dead
    /\ phase = "stopped" => /\ probing.job = "none" /\ changing.at = "none"
                            /\ \A c \in Callers : caller[c].at = "idle"

IInv == TypeOK /\ Counted /\ ProbeInv /\ TurnInv /\ StopInv /\ ShownAtRest

(* What a published snapshot may hold *)
LEMMA PublishType ==
    ASSUME NEW probe \in Probings, NEW change \in Changings, NEW results \in SUBSET Nodes,
           nodes \subseteq Nodes, Publish(probe, change, results)
    PROVE  /\ shown' \in [probed : SUBSET Nodes, probing : SUBSET Nodes]
           /\ probes' \subseteq Nodes
BY DEF Publish, Probings, Changings

(* The probe in the way, once cancelled, is still a probe *)
LEMMA CanceledType == TypeOK => Canceled \in Probings
BY DEF TypeOK, Canceled, Probings

(* What is cancelled, or nothing, stays as it is *)
LEMMA DeadStays ==
    ASSUME NEW p \in Probings, p.dead
    PROVE  [p EXCEPT !.dead = TRUE] = p
BY DEF Probings

(* ... and so does a change that waits for nothing and has its context *)
LEMMA NoneStays ==
    ASSUME NEW ch \in Changings
    PROVE  /\ ~ch.waits => [ch EXCEPT !.waits = FALSE] = ch
           /\ ~ch.dead => [ch EXCEPT !.dead = FALSE] = ch
BY DEF Changings

(* The callers of a probe are finitely many *)
LEMMA JoinedFinite == IsFiniteSet(Joined) /\ Cardinality(Joined) \in Nat
<1>1. Joined \subseteq Callers
    BY DEF Joined
<1> QED BY <1>1, ProbeAssumption, FS_Subset, FS_CardinalityType

(* Initially there is no probe, no change and nobody *)
LEMMA Initially == Init => IInv
<1> SUFFICES ASSUME Init PROVE IInv
    OBVIOUS
<1> USE ProbeAssumption DEF Init
<1>1. Joined = {}
    BY DEF Joined, Idle
<1>2. TypeOK
    BY DEF TypeOK, Probings, NoProbe, Changings, NoChange, CallerStates, Idle
<1>3. Counted
    BY <1>1, FS_EmptySet DEF Counted, NoProbe
<1>4. ProbeInv /\ TurnInv
    BY <1>1 DEF ProbeInv, TurnInv, NoProbe, NoChange
<1>5. StopInv /\ ShownAtRest
    BY DEF StopInv, ShownAtRest, NoProbe, NoChange, Idle
<1> QED BY <1>2, <1>3, <1>4, <1>5 DEF IInv

(* The steps of a caller that leave probe and change alone, and do not join  *)
Aside == /\ UNCHANGED <<nodes, probing, probes, changing, shown, phase>>
         /\ Joined' = Joined
         /\ \A c \in Joined : caller'[c].target = caller[c].target
         /\ caller' \in [Callers -> CallerStates]

LEMMA AsideKeeps ==
    ASSUME IInv, Aside,
           \A c \in Callers : phase # "serving" =>
               caller'[c].at = "idle" \/ (phase = "stopping" /\ caller'[c].dead)
    PROVE  IInv'
<1>1. TypeOK'
    BY DEF IInv, TypeOK, Aside
<1>2. Counted' /\ ProbeInv' /\ TurnInv'
    BY DEF IInv, Counted, ProbeInv, TurnInv, Aside, Named
<1>3. StopInv' /\ ShownAtRest'
    BY DEF IInv, StopInv, ShownAtRest, Aside
<1> QED BY <1>1, <1>2, <1>3 DEF IInv

(* A caller that asks, dies, is refused or gives up keeps the invariant *)
LEMMA CallerStep ==
    ASSUME IInv, NEW c \in Callers, Ask(c) \/ Die(c) \/ Refuse(c) \/ GiveUp(c)
    PROVE  IInv'
<1>1. caller \in [Callers -> CallerStates]
    BY DEF IInv, TypeOK
<1>2. /\ UNCHANGED <<nodes, probing, probes, changing, shown, phase>>
      /\ caller' \in [Callers -> CallerStates]
      /\ \A d \in Callers \ {c} : caller'[d] = caller[d]
      /\ caller'[c].at = "joined" <=> caller[c].at = "joined"
      /\ caller[c].at = "joined" => caller'[c].target = caller[c].target
      /\ phase # "serving" => caller'[c].at = "idle" \/ (caller[c].at # "idle" /\ caller'[c].dead)
    <2>1. CASE Ask(c)
        BY <1>1, <2>1 DEF Ask, CallerStates
    <2>2. CASE Die(c)
        BY <1>1, <2>2 DEF Die, CallerStates
    <2>3. CASE Refuse(c) \/ GiveUp(c)
        <3>1. Idle \in CallerStates /\ Idle.at = "idle"
            BY DEF Idle, CallerStates
        <3>2. /\ UNCHANGED <<nodes, probing, probes, changing, shown, phase>>
              /\ caller' = [caller EXCEPT ![c] = Idle]
              /\ caller[c].at \in {"asking", "waiting"}
            BY <2>3 DEF Refuse, GiveUp, Returns
        <3> QED BY <1>1, <3>1, <3>2
    <2> QED BY <2>1, <2>2, <2>3
<1>3. Joined' = Joined /\ \A d \in Joined : caller'[d].target = caller[d].target
    BY <1>2 DEF Joined
<1>4. \A d \in Callers : phase # "serving" =>
          caller'[d].at = "idle" \/ (phase = "stopping" /\ caller'[d].dead)
    BY <1>2 DEF IInv, StopInv, TypeOK
<1> QED BY <1>2, <1>3, <1>4, AsideKeeps DEF Aside

(* Nobody joins, nothing is started: a caller that preempts the probe *)
LEMMA PreemptStep == ASSUME IInv, NEW c \in Callers, Preempt(c) PROVE IInv'
<1> USE DEF Preempt
<1>1. caller \in [Callers -> CallerStates] /\ probing \in Probings
    BY DEF IInv, TypeOK
<1>2. /\ caller' \in [Callers -> CallerStates]
      /\ \A d \in Callers \ {c} : caller'[d] = caller[d]
      /\ caller'[c].at = "waiting" /\ caller[c].at = "asking"
    BY <1>1 DEF CallerStates
<1>3. Joined' = Joined /\ \A d \in Joined : caller'[d] = caller[d]
    BY <1>2 DEF Joined
<1>4. /\ probing'.job = probing.job /\ probing'.job # "none" /\ probing'.dead
      /\ probing'.waiters = probing.waiters /\ probing'.target = probing.target
    BY <1>1 DEF Canceled, Probings, InTheWay
<1>5. TypeOK'
    BY <1>2, CanceledType DEF IInv, TypeOK
<1>6. Counted' /\ ProbeInv'
    BY <1>3, <1>4 DEF IInv, Counted, ProbeInv
<1>7. TurnInv' /\ ShownAtRest'
    BY <1>4 DEF IInv, TurnInv, ShownAtRest
<1>8. StopInv'
    BY <1>2, <1>4 DEF IInv, StopInv, TypeOK
<1> QED BY <1>5, <1>6, <1>7, <1>8 DEF IInv

(* A new probe covers what its target names, and its caller waits for it *)
LEMMA StartStep == ASSUME IInv, NEW c \in Callers, Start(c) PROVE IInv'
<1> DEFINE target == caller[c].target
           call == [job |-> "running", target |-> target, refs |-> Named(target),
                    pending |-> Named(target), dead |-> FALSE, waiters |-> 1,
                    changed |-> FALSE]
<1>1. /\ changing.at = "none" /\ caller[c].at = "asking" /\ ~caller[c].dead
      /\ probing.job = "none" /\ probing' = call /\ Publish(call, changing, probes)
      /\ caller' = [caller EXCEPT ![c].at = "joined"]
      /\ UNCHANGED <<nodes, changing, phase>>
    BY DEF Start, Launch
<1>2. /\ caller \in [Callers -> CallerStates] /\ nodes \subseteq Nodes
      /\ probes \in SUBSET Nodes /\ changing \in Changings
    BY DEF IInv, TypeOK
<1>3. call \in Probings
    BY <1>2 DEF Probings, CallerStates, Named
<1>4. /\ caller' \in [Callers -> CallerStates]
      /\ \A d \in Callers \ {c} : caller'[d] = caller[d]
      /\ caller'[c].at = "joined" /\ caller'[c].target = target
    BY <1>1, <1>2 DEF CallerStates
<1>5. Joined = {}
    BY <1>1 DEF IInv, ProbeInv
<1>6. Joined' = {c}
    BY <1>4, <1>5 DEF Joined
<1>7. TypeOK'
    <2> HIDE DEF call
    <2> QED BY <1>1, <1>2, <1>3, <1>4, PublishType DEF IInv, TypeOK
<1>8. Counted'
    BY <1>1, <1>6, FS_Singleton DEF Counted
<1>9. ProbeInv'
    BY <1>1, <1>4, <1>6 DEF ProbeInv, Named
<1>10. TurnInv' /\ ShownAtRest'
    BY <1>1 DEF IInv, TurnInv, ShownAtRest
<1>11. StopInv'
    BY <1>1, <1>4 DEF IInv, StopInv, TypeOK
<1> QED BY <1>7, <1>8, <1>9, <1>10, <1>11 DEF IInv

(* Whoever joins asked for the target of the probe *)
LEMMA JoinStep == ASSUME IInv, NEW c \in Callers, Join(c) PROVE IInv'
<1> USE DEF Join
<1>1. caller \in [Callers -> CallerStates] /\ probing \in Probings
    BY DEF IInv, TypeOK
<1>2. /\ caller' \in [Callers -> CallerStates]
      /\ \A d \in Callers \ {c} : caller'[d] = caller[d]
      /\ caller'[c].at = "joined" /\ caller'[c].target = probing.target
    BY <1>1 DEF CallerStates, InTheWay
<1>3. c \notin Joined /\ Joined' = Joined \cup {c}
    BY <1>2 DEF Joined
<1>4. /\ probing' \in Probings /\ probing'.waiters = probing.waiters + 1
      /\ probing'.job = probing.job /\ probing'.dead = probing.dead
      /\ probing'.target = probing.target /\ probing'.refs = probing.refs
    BY <1>1 DEF Probings
<1>5. TypeOK'
    BY <1>2, <1>4 DEF IInv, TypeOK
<1>6. Counted'
    <2>1. Cardinality(Joined \cup {c}) = Cardinality(Joined) + 1
        BY <1>3, JoinedFinite, FS_AddElement
    <2> QED BY <1>3, <1>4, <2>1 DEF IInv, Counted
<1>7. ProbeInv'
    BY <1>2, <1>3, <1>4 DEF IInv, ProbeInv, Joined, Named
<1>8. TurnInv' /\ ShownAtRest'
    BY <1>4 DEF IInv, TurnInv, ShownAtRest
<1>9. StopInv'
    BY <1>2, <1>4 DEF IInv, StopInv, TypeOK
<1> QED BY <1>5, <1>6, <1>7, <1>8, <1>9 DEF IInv

(* The last caller that leaves cancels the probe, another one does not *)
LEMMA LeaveStep == ASSUME IInv, NEW c \in Callers, Leave(c) PROVE IInv'
<1> DEFINE call == [Canceled EXCEPT !.waiters = 0]
<1> USE DEF Leave
<1>1. caller \in [Callers -> CallerStates] /\ probing \in Probings /\ nodes \subseteq Nodes
      /\ probes \in SUBSET Nodes /\ changing \in Changings
    BY DEF IInv, TypeOK
<1>2. /\ caller' \in [Callers -> CallerStates]
      /\ \A d \in Callers \ {c} : caller'[d] = caller[d]
      /\ caller'[c].at = "idle"
    BY <1>1 DEF Returns, Idle, CallerStates
<1>3. c \in Joined /\ Joined' = Joined \ {c}
    BY <1>2 DEF Joined
<1>4. probing.waiters = Cardinality(Joined) /\ Cardinality(Joined)' = Cardinality(Joined) - 1
    BY <1>3, JoinedFinite, FS_RemoveElement DEF IInv, Counted
<1>5. probing.job # "none"
    BY <1>3 DEF IInv, ProbeInv
<1>6. call \in Probings /\ call.dead /\ call.job = probing.job
      /\ call.target = probing.target /\ call.waiters = 0
    <2>1. Canceled \in Probings /\ Canceled.dead /\ Canceled.job = probing.job
          /\ Canceled.target = probing.target
        BY <1>1 DEF Probings, Canceled
    <2> QED BY <2>1 DEF Probings
<1>7. CASE probing.waiters = 1
    <2>1. probing' = call /\ Publish(call, changing, probes)
          /\ UNCHANGED <<nodes, changing, phase>>
        BY <1>7
    <2> HIDE DEF call
    <2>2. TypeOK'
        BY <1>1, <1>2, <1>6, <2>1, PublishType DEF IInv, TypeOK
    <2>3. Counted' /\ ProbeInv'
        BY <1>2, <1>3, <1>4, <1>5, <1>6, <1>7, <2>1 DEF IInv, Counted, ProbeInv, Joined
    <2>4. TurnInv' /\ ShownAtRest'
        BY <1>5, <1>6, <2>1 DEF IInv, TurnInv, ShownAtRest
    <2>5. StopInv'
        BY <1>2, <1>5, <1>6, <2>1 DEF IInv, StopInv, TypeOK
    <2> QED BY <2>2, <2>3, <2>4, <2>5 DEF IInv
<1>8. CASE probing.waiters # 1
    <2>1. /\ probing' \in Probings /\ probing'.waiters = probing.waiters - 1
          /\ probing'.job = probing.job /\ probing'.dead = probing.dead
          /\ probing'.target = probing.target /\ probing'.refs = probing.refs
          /\ UNCHANGED <<nodes, probes, changing, shown, phase>>
        BY <1>1, <1>8 DEF Probings
    <2>2. Joined' # {}
        BY <1>4, <1>8, <1>3, JoinedFinite, FS_RemoveElement, FS_EmptySet
    <2>3. TypeOK'
        BY <1>2, <2>1 DEF IInv, TypeOK
    <2>4. Counted' /\ ProbeInv'
        BY <1>2, <1>3, <1>4, <1>5, <2>1, <2>2 DEF IInv, Counted, ProbeInv, Joined, Named
    <2>5. TurnInv' /\ ShownAtRest'
        BY <1>5, <2>1 DEF IInv, TurnInv, ShownAtRest
    <2>6. StopInv'
        BY <1>2, <1>5, <2>1 DEF IInv, StopInv, TypeOK
    <2> QED BY <2>3, <2>4, <2>5, <2>6 DEF IInv
<1> QED BY <1>7, <1>8

(* A result only takes a node off the list; the probe stays what it is *)
LEMMA ResultStep == ASSUME IInv, NEW n \in Nodes, Result(n) PROVE IInv'
<1> USE DEF Result
<1>1. probing \in Probings
    BY DEF IInv, TypeOK
<1>2. /\ probing' \in Probings /\ probing'.waiters = probing.waiters
      /\ probing'.job = probing.job /\ probing'.dead = probing.dead
      /\ probing'.target = probing.target /\ probing'.refs = probing.refs
    BY <1>1 DEF Probings
<1>3. TypeOK'
    BY <1>2 DEF IInv, TypeOK
<1>4. Counted' /\ ProbeInv'
    BY <1>2 DEF IInv, Counted, ProbeInv, Joined, Named
<1>5. TurnInv' /\ StopInv' /\ ShownAtRest'
    BY <1>2 DEF IInv, TurnInv, StopInv, ShownAtRest
<1> QED BY <1>3, <1>4, <1>5 DEF IInv

(* The engine comes back, a probe expires, intermediate results are shown *)
LEMMA JobStep ==
    ASSUME IInv, JobReturns \/ JobExpires \/ Tick
    PROVE  IInv'
<1>1. /\ probing \in Probings /\ nodes \subseteq Nodes /\ probes \in SUBSET Nodes
      /\ changing \in Changings
    BY DEF IInv, TypeOK
<1>2. /\ probing' \in Probings /\ probing'.waiters = probing.waiters
      /\ probing'.job # "none" /\ probing.job # "none"
      /\ probing'.dead = probing.dead \/ probing'.dead
      /\ probing'.target = probing.target /\ probing'.refs = probing.refs
      /\ UNCHANGED <<nodes, changing, caller, phase>>
    <2>1. CASE JobReturns
        BY <1>1, <2>1 DEF JobReturns, Probings
    <2>2. CASE JobExpires
        BY <1>1, <2>2 DEF JobExpires, Canceled, Probings
    <2>3. CASE Tick
        BY <1>1, <2>3 DEF Tick, Probings
    <2> QED BY <2>1, <2>2, <2>3
<1>3. /\ shown' \in [probed : SUBSET Nodes, probing : SUBSET Nodes]
      /\ probes' \subseteq Nodes
    BY <1>1, PublishType DEF IInv, TypeOK, JobReturns, JobExpires, Tick
<1>4. TypeOK'
    BY <1>2, <1>3 DEF IInv, TypeOK
<1>5. Counted' /\ ProbeInv'
    BY <1>2 DEF IInv, Counted, ProbeInv, Joined, Named
<1>6. TurnInv' /\ StopInv' /\ ShownAtRest'
    BY <1>2 DEF IInv, TurnInv, StopInv, ShownAtRest
<1> QED BY <1>4, <1>5, <1>6 DEF IInv

(* Without a probe, what is published shows every result and no spinner *)
LEMMA PublishAtRest ==
    ASSUME NEW results, nodes' = nodes, Publish(NoProbe, NoChange, results)
    PROVE  shown' = [probed |-> probes', probing |-> {}] /\ probes' \subseteq nodes'
BY DEF Publish, NoProbe, NoChange

(* The end of a probe answers whoever joined it and lets a change go on *)
LEMMA CloseStep == ASSUME IInv, Close PROVE IInv'
<1> USE DEF Close
<1>1. /\ probing \in Probings /\ nodes \subseteq Nodes /\ probes \in SUBSET Nodes
      /\ changing \in Changings /\ caller \in [Callers -> CallerStates]
    BY DEF IInv, TypeOK
<1>2. /\ changing' \in Changings /\ changing'.at = changing.at /\ ~changing'.waits
      /\ changing.at = "none" => changing' = NoChange
    <2>1. changing' \in Changings /\ changing'.at = changing.at /\ ~changing'.waits
        BY <1>1 DEF Changings
    <2>2. changing.at = "none" => ~changing.waits
        BY DEF IInv, TurnInv, NoChange
    <2>3. changing.at = "none" => changing' = changing
        BY <1>1, <2>2, NoneStays
    <2> QED BY <2>1, <2>3 DEF IInv, TurnInv
<1>3. \A c \in Callers : /\ Answered(c) \in CallerStates /\ Answered(c).at # "joined"
                         /\ Answered(c).at = "idle" \/ Answered(c).dead = caller[c].dead
    BY <1>1 DEF Answered, CallerStates, Idle
<1>4. \A c \in Callers : caller[c].at = "idle" => Answered(c).at = "idle"
    BY DEF Answered
<1>5. NoProbe \in Probings /\ probing' = NoProbe /\ NoProbe.job = "none" /\ NoProbe.waiters = 0
    BY ProbeAssumption DEF NoProbe, Probings
<1>6. Joined' = {}
    BY <1>3 DEF Joined
<1>7. TypeOK'
    BY <1>1, <1>2, <1>3, <1>5, PublishType DEF IInv, TypeOK
<1>8. Counted' /\ ProbeInv'
    BY <1>5, <1>6, FS_EmptySet DEF Counted, ProbeInv
<1>9. TurnInv' /\ StopInv'
    BY <1>2, <1>3, <1>4, <1>5 DEF IInv, TurnInv, StopInv
<1>10. ShownAtRest'
    <2>1. SUFFICES ASSUME changing'.at = "none" PROVE ShownAtRest'
        BY DEF ShownAtRest
    <2>2. changing = NoChange
        BY <1>2, <2>1 DEF IInv, TurnInv
    <2> QED BY <2>2, PublishAtRest DEF ShownAtRest
<1> QED BY <1>7, <1>8, <1>9, <1>10 DEF IInv

(* A change that begins cancels the probe; nothing joins it from then on *)
LEMMA BeginStep == ASSUME IInv, Begin PROVE IInv'
<1> USE DEF Begin
<1>1. /\ probing \in Probings /\ nodes \subseteq Nodes /\ changing \in Changings
    BY DEF IInv, TypeOK
<1>2. /\ probing' \in Probings /\ probing'.dead /\ probing'.job = probing.job
      /\ probing'.waiters = probing.waiters /\ probing'.target = probing.target
      /\ probing.job = "none" => probing' = NoProbe
    <2>1. /\ probing' \in Probings /\ probing'.dead /\ probing'.job = probing.job
          /\ probing'.waiters = probing.waiters /\ probing'.target = probing.target
        BY <1>1 DEF Probings, Canceled
    <2>2. probing.job = "none" => probing.dead
        BY DEF IInv, ProbeInv, NoProbe
    <2>3. probing.job = "none" => probing' = probing
        BY <1>1, <2>2, DeadStays DEF Canceled
    <2> QED BY <2>1, <2>3 DEF IInv, ProbeInv
<1>3. /\ changing' \in Changings /\ changing'.at = "begun"
      /\ changing'.waits = (probing.job # "none")
    BY <1>1 DEF Changings
<1>4. TypeOK'
    BY <1>2, <1>3 DEF IInv, TypeOK
<1>5. Counted' /\ ProbeInv'
    BY <1>2 DEF IInv, Counted, ProbeInv, Joined
<1>6. TurnInv' /\ StopInv' /\ ShownAtRest'
    BY <1>2, <1>3 DEF IInv, TurnInv, StopInv, ShownAtRest
<1> QED BY <1>4, <1>5, <1>6 DEF IInv

(* The other steps of a change, before its end *)
LEMMA ChangeStep == ASSUME IInv, ChangeDies \/ Act \/ Commit PROVE IInv'
<1>1. changing \in Changings
    BY DEF IInv, TypeOK
<1>2. /\ changing' \in Changings /\ changing.at # "none" /\ changing'.at # "none"
      /\ changing'.at = "begun" => changing.at = "begun" /\ changing'.waits = changing.waits
      /\ changing'.at = "acting" => probing.job = "none"
      /\ UNCHANGED <<probing, probes, shown, caller, phase>>
    <2>1. CASE ChangeDies
        BY <1>1, <2>1 DEF ChangeDies, Changings, IInv, TurnInv
    <2>2. CASE Act
        BY <1>1, <2>2 DEF Act, Changings, IInv, TurnInv
    <2>3. CASE Commit
        BY <1>1, <2>3 DEF Commit, IInv, TurnInv
    <2> QED BY <2>1, <2>2, <2>3
<1>3. nodes' \subseteq Nodes
    BY DEF ChangeDies, Act, Commit, IInv, TypeOK
<1>4. probing.job = "none" \/ probing.dead
    BY <1>2 DEF IInv, ProbeInv, TypeOK, Probings
<1>5. TypeOK'
    BY <1>2, <1>3 DEF IInv, TypeOK
<1>6. Counted' /\ ProbeInv'
    BY <1>2, <1>4 DEF IInv, Counted, ProbeInv, Joined
<1>7. TurnInv' /\ StopInv' /\ ShownAtRest'
    BY <1>2 DEF IInv, TurnInv, StopInv, ShownAtRest
<1> QED BY <1>5, <1>6, <1>7 DEF IInv

(* The end of a change publishes the state it leaves *)
LEMMA FinishStep == ASSUME IInv, Finish PROVE IInv'
<1> USE DEF Finish
<1>1. /\ probing \in Probings /\ nodes \subseteq Nodes /\ probes \in SUBSET Nodes
      /\ changing \in Changings
    BY DEF IInv, TypeOK
<1>2. /\ NoChange \in Changings /\ changing' = NoChange /\ NoChange.at = "none"
      /\ changing.at # "none"
    BY DEF NoChange, Changings, Over
<1>3. TypeOK'
    BY <1>1, <1>2, PublishType DEF IInv, TypeOK
<1>4. Counted' /\ ProbeInv'
    BY <1>2 DEF IInv, Counted, ProbeInv, Joined
<1>5. TurnInv' /\ StopInv'
    BY <1>2 DEF IInv, TurnInv, StopInv
<1>6. ShownAtRest'
    <2>1. SUFFICES ASSUME probing'.job = "none" PROVE ShownAtRest'
        BY DEF ShownAtRest
    <2>2. probing = NoProbe
        BY <2>1 DEF IInv, ProbeInv
    <2> QED BY <2>2, PublishAtRest DEF ShownAtRest
<1> QED BY <1>3, <1>4, <1>5, <1>6 DEF IInv

(* Refreshes and timers publish at any time *)
LEMMA RepublishStep == ASSUME IInv, Republish PROVE IInv'
<1> USE DEF Republish
<1>1. /\ probing \in Probings /\ nodes \subseteq Nodes /\ probes \in SUBSET Nodes
      /\ changing \in Changings
    BY DEF IInv, TypeOK
<1>2. TypeOK'
    BY <1>1, PublishType DEF IInv, TypeOK
<1>3. Counted' /\ ProbeInv' /\ TurnInv' /\ StopInv'
    BY DEF IInv, Counted, ProbeInv, Joined, Named, TurnInv, StopInv
<1>4. ShownAtRest'
    <2>1. SUFFICES ASSUME probing'.job = "none", changing'.at = "none" PROVE ShownAtRest'
        BY DEF ShownAtRest
    <2>2. probing = NoProbe /\ changing = NoChange
        BY <2>1 DEF IInv, ProbeInv, TurnInv
    <2> QED BY <2>2, PublishAtRest DEF ShownAtRest
<1> QED BY <1>2, <1>3, <1>4 DEF IInv

(* A stop cancels everything and waits for nothing *)
LEMMA StopStep == ASSUME IInv, Stop PROVE IInv'
<1> USE DEF Stop
<1>1. /\ probing \in Probings /\ changing \in Changings
      /\ caller \in [Callers -> CallerStates]
    BY DEF IInv, TypeOK
<1>2. /\ probing' \in Probings /\ probing'.dead /\ probing'.job = probing.job
      /\ probing'.waiters = probing.waiters /\ probing'.target = probing.target
      /\ probing.job = "none" => probing' = NoProbe
    <2>1. /\ probing' \in Probings /\ probing'.dead /\ probing'.job = probing.job
          /\ probing'.waiters = probing.waiters /\ probing'.target = probing.target
        BY <1>1 DEF Probings, Canceled
    <2>2. probing.job = "none" => probing.dead
        BY DEF IInv, ProbeInv, NoProbe
    <2>3. probing.job = "none" => probing' = probing
        BY <1>1, <2>2, DeadStays DEF Canceled
    <2> QED BY <2>1, <2>3 DEF IInv, ProbeInv
<1>3. /\ changing' \in Changings /\ changing'.at = changing.at
      /\ changing'.waits = changing.waits
      /\ changing.at = "none" => changing' = NoChange
    <2>1. /\ changing' \in Changings /\ changing'.at = changing.at
          /\ changing'.waits = changing.waits
        BY <1>1 DEF Changings
    <2>2. changing.at = "none" => ~changing.dead
        BY DEF IInv, TurnInv, NoChange
    <2>3. changing.at = "none" => changing' = changing
        BY <1>1, <2>2, NoneStays
    <2> QED BY <2>1, <2>3 DEF IInv, TurnInv
<1>4. /\ caller' \in [Callers -> CallerStates]
      /\ \A c \in Callers : /\ caller'[c].at = caller[c].at
                            /\ caller'[c].target = caller[c].target
                            /\ caller'[c].at = "idle" \/ caller'[c].dead
    BY <1>1 DEF CallerStates
<1>5. Joined' = Joined
    BY <1>4 DEF Joined
<1>6. TypeOK'
    BY <1>2, <1>3, <1>4 DEF IInv, TypeOK
<1>7. Counted' /\ ProbeInv'
    BY <1>2, <1>4, <1>5 DEF IInv, Counted, ProbeInv, Joined
<1>8. TurnInv' /\ StopInv' /\ ShownAtRest'
    BY <1>2, <1>3, <1>4 DEF IInv, TurnInv, StopInv, ShownAtRest
<1> QED BY <1>6, <1>7, <1>8 DEF IInv

(* The engine stops once nobody is left, and a new daemon starts empty *)
LEMMA ShutdownStep == ASSUME IInv, Shutdown \/ Restart PROVE IInv'
<1>1. /\ probing \in Probings /\ nodes \subseteq Nodes /\ probes \in SUBSET Nodes
      /\ changing \in Changings
    BY DEF IInv, TypeOK
<1>2. /\ probing = NoProbe /\ changing = NoChange
      /\ \A c \in Callers : caller[c].at = "idle"
      /\ UNCHANGED <<nodes, probing, changing, caller>>
    BY DEF Shutdown, Restart, IInv, ProbeInv, TurnInv, StopInv
<1>3. TypeOK'
    BY <1>1, <1>2, PublishType DEF IInv, TypeOK, Shutdown, Restart
<1>4. Counted' /\ ProbeInv' /\ TurnInv'
    BY <1>2 DEF IInv, Counted, ProbeInv, Joined, Named, TurnInv
<1>5. StopInv'
    BY <1>2, <1>4 DEF Shutdown, Restart, StopInv, ProbeInv, TurnInv, NoProbe, NoChange
<1>6. ShownAtRest'
    <2>1. CASE Shutdown
        BY <1>2, <2>1, PublishAtRest DEF Shutdown, ShownAtRest
    <2>2. CASE Restart
        BY <2>2 DEF Restart, ShownAtRest
    <2> QED BY <2>1, <2>2
<1> QED BY <1>3, <1>4, <1>5, <1>6 DEF IInv

(* A step that changes nothing keeps the invariant *)
LEMMA StutterStep == ASSUME IInv, UNCHANGED vars PROVE IInv'
<1>1. TypeOK' /\ Counted' /\ ProbeInv'
    BY DEF vars, IInv, TypeOK, Counted, ProbeInv, Joined, Named
<1>2. TurnInv' /\ StopInv' /\ ShownAtRest'
    BY DEF vars, IInv, TurnInv, StopInv, ShownAtRest
<1> QED BY <1>1, <1>2 DEF IInv

(* What is known of the probe, the change and the callers in every state *)
THEOREM ProbeInvariant == Spec => []IInv
<1>1. ASSUME IInv, [Next]_vars PROVE IInv'
    <2>1. ASSUME NEW c \in Callers, Calls(c) PROVE IInv'
        BY <1>1, <2>1, CallerStep, PreemptStep, StartStep, JoinStep, LeaveStep DEF Calls
    <2>2. CASE Job \/ JobExpires \/ Tick
        BY <1>1, <2>2, JobStep, CloseStep, ResultStep DEF Job
    <2>3. CASE Change \/ Republish
        BY <1>1, <2>3, BeginStep, ChangeStep, FinishStep, RepublishStep DEF Change
    <2>4. CASE Stop \/ Shutdown \/ Restart
        BY <1>1, <2>4, StopStep, ShutdownStep
    <2> QED BY <1>1, <2>1, <2>2, <2>3, <2>4, StutterStep DEF Next
<1> QED BY <1>1, Initially, PTL DEF Spec

(* Everything has its type *)
THEOREM ProbeTypes == Spec => []TypeOK
<1>1. IInv => TypeOK
    BY DEF IInv
<1> QED BY <1>1, ProbeInvariant, PTL

(* A probe and a change are never in the engine together *)
THEOREM ProbeAndChangeApart == Spec => []EngineAlone
<1>1. IInv => EngineAlone
    BY DEF IInv, EngineAlone, TurnInv, StopInv
<1> QED BY <1>1, ProbeInvariant, PTL

(* Whoever joins a probe gets the nodes its target names now *)
THEOREM ProbeIsCurrent == Spec => []ProbeCurrent
<1>1. IInv => ProbeCurrent
    BY DEF IInv, ProbeCurrent, ProbeInv, Joined
<1> QED BY <1>1, ProbeInvariant, PTL

(* At rest the snapshot shows the results there are, and no others *)
THEOREM RestIsShown == Spec => []ShownAtRest
<1>1. IInv => ShownAtRest
    BY DEF IInv
<1> QED BY <1>1, ProbeInvariant, PTL
=============================================================================
