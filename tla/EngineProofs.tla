---------------------------- MODULE EngineProofs ----------------------------
(***************************************************************************)
(* Proofs about Engine, for any nodes and settings: traffic always has an    *)
(* open node, the status is what runs whichever step fails, and the service  *)
(* keeps its promise to the core.                                           *)
(***************************************************************************)
EXTENDS Engine, TLAPS

(* what is asked in each step *)
CallInv ==
    /\ call.at = "idle" => call = Idle
    /\ call.at # "idle" => call.asked \in Specs \cup {Off}
    /\ call.at \notin {"idle", "apply", "disable", "stop"} => call.asked \in Specs
    /\ call.at = "apply" => call.next = "idle"
    /\ call.at \in {"disable", "stop"} => (call.next = "start" <=> call.asked \in Specs)

(* the instance without a box, at most between its start and the assignment *)
DownInv ==
    ~box.up =>
        /\ call.at \in {"idle", "apply", "start", "started", "enable", "disable", "stop"}
        /\ ~box.tun /\ ~box.proxying /\ ~torn
        /\ IF call.at \in {"started", "enable"}
           THEN inst = Fresh(call.asked) /\ open = {call.asked.node}
           ELSE inst = NoInstance /\ open = {}

(* ... and with one *)
UpInv ==
    box.up =>
        /\ call.at \notin {"start", "started", "enable"}
        /\ box.node \in Nodes /\ box.core \in Cores /\ box.tunnel \in Tunnels
        /\ inst.core = box.core /\ inst.current = box.node
        /\ inst.inbound \in {None, box.tunnel}
        /\ box.tun => inst.inbound = box.tunnel
        /\ inst.live <=> box.tun /\ ~torn
        /\ torn => box.tun
        /\ inst.via = IF call.at = "close" THEN call.asked.node ELSE box.node
        /\ open = IF call.at \in {"replace", "select", "close"}
                  THEN {box.node, call.asked.node} ELSE {box.node}

(* what Choose has found out *)
ChoiceInv ==
    call.at \in {"swap", "replace", "select", "close", "tunAdd", "tunRemove"} =>
        /\ box.core = call.asked.core
        /\ call.asked.tun => box.tunnel = call.asked.tunnel
        /\ box.proxying <=> WantsProxy(call.asked)
        /\ call.at \in {"tunAdd", "tunRemove"} =>
              /\ box.node = call.asked.node
              /\ call.asked.tun <=> call.at = "tunAdd"
              /\ box.tun <=> call.at = "tunRemove"
        /\ call.at \notin {"tunAdd", "tunRemove"} =>
              /\ box.node # call.asked.node
              /\ box.tun <=> call.asked.tun

StatusInv ==
    /\ call.at \notin {"start", "started", "enable", "disable", "stop"} =>
          /\ eng <=> box.up
          /\ status = IF box.up THEN [node |-> box.node, tun |-> box.tun] ELSE None
    /\ call.at \in {"disable", "stop"} /\ call.asked = Off => ~eng /\ status = None

ProxyInv ==
    /\ call.at # "stop" => (sysproxy = "on" <=> box.proxying)
    /\ call.at = "stop" => sysproxy # "on"

(* until it is touched, the connection is the one there was *)
BeforeInv ==
    /\ box.up /\ call.at \notin {"idle", "close"} => Connection = call.before
    /\ call.at = "apply" => Connection = call.before

IInv == /\ TypeOK /\ CallInv /\ DownInv /\ UpInv
        /\ ChoiceInv /\ StatusInv /\ ProxyInv /\ BeforeInv

(* a call that goes on *)
Moved == /\ call' \in Calls
         /\ call'.asked = call.asked /\ call'.next = call.next
         /\ call'.before = call.before

(* ... and one that is over *)
Returned ==
    /\ call' \in Calls
    /\ call'.at = "idle" /\ call'.asked = None /\ call'.before = None
    /\ eng' \in BOOLEAN
    /\ status' \in [node : Nodes, tun : BOOLEAN] \cup {None}
    /\ answer' \in {"none", "ok", "failed", "elevate"}
    /\ CallInv' /\ ChoiceInv' /\ BeforeInv'

(* What a step means to Connection: nothing yet, *)
GoesOn == /\ call.at # "idle" /\ call'.at # "idle"
          /\ call'.asked = call.asked /\ call'.before = call.before
          /\ answer' = answer

(* ... an answer with what was asked for, *)
Grants ==
    /\ call.at # "idle" /\ call'.at = "idle" /\ call'.asked = None
    /\ call.asked \in Specs /\ answer' = "ok"
    /\ Connection' = Promise!Effect(call.asked)

(* ... or one with what there was, or with nothing *)
Fails ==
    /\ call.at # "idle" /\ call'.at = "idle" /\ call'.asked = None
    /\ call.asked \in Specs \cup {Off} /\ answer' = "failed"
    /\ Connection' \in {call.before, None}

(* A call that goes somewhere is the same call *)
LEMMA GoesToFacts ==
    ASSUME call \in Calls, NEW at \in Steps, GoesTo(at)
    PROVE  Moved /\ call'.at = at /\ call'.failed = call.failed /\ call'.dead = call.dead
BY DEF GoesTo, Moved, Calls

(* Between calls nothing is said of a call *)
LEMMA IdleFacts ==
    ASSUME call' = Idle
    PROVE  /\ call' \in Calls
           /\ call'.at = "idle" /\ call'.asked = None /\ call'.before = None
           /\ CallInv' /\ ChoiceInv' /\ BeforeInv'
<1>1. /\ call' \in Calls
      /\ call'.at = "idle" /\ call'.asked = None /\ call'.before = None
    BY DEF Calls, Idle, NewCall, Steps
<1> QED BY <1>1 DEF CallInv, ChoiceInv, BeforeInv

(* What an error leaves: the status of a box that runs *)
LEMMA ReturnsErrorFacts ==
    ASSUME TypeOK, NEW running \in BOOLEAN, ReturnsError(running)
    PROVE  /\ Returned
           /\ answer' = "failed"
           /\ eng' <=> eng /\ running
           /\ status' = IF running THEN status ELSE None
<1>1. call' = Idle /\ answer' = "failed" /\ eng' = (eng /\ running)
      /\ status' = IF running THEN status ELSE None
    BY DEF ReturnsError, Returns
<1>2. eng' \in BOOLEAN
    BY <1>1
<1>3. status' \in [node : Nodes, tun : BOOLEAN] \cup {None}
    BY <1>1 DEF TypeOK
<1> QED BY <1>1, <1>2, <1>3, IdleFacts DEF Returned

(* What a success leaves: the status that was asked for *)
LEMMA ReturnsOkFacts ==
    ASSUME call.asked \in Specs, ReturnsOk
    PROVE  /\ Returned
           /\ answer' = "ok"
           /\ eng'
           /\ status' = [node |-> call.asked.node, tun |-> call.asked.tun]
<1>1. call' = Idle /\ answer' = "ok" /\ eng' = TRUE
      /\ status' = [node |-> call.asked.node, tun |-> call.asked.tun]
    BY DEF ReturnsOk, Returns, Asked
<1>2. status' \in [node : Nodes, tun : BOOLEAN]
    BY <1>1 DEF Specs
<1> QED BY <1>1, <1>2, IdleFacts DEF Returned


(* A start that fails leaves nothing: there was no box *)
LEMMA StepStartFails == IInv /\ StartFails => IInv' /\ Fails
<1> SUFFICES ASSUME IInv, StartFails PROVE IInv' /\ Fails
    OBVIOUS
<1> USE EngineAssumption
<1>0. TypeOK /\ CallInv /\ DownInv /\ UpInv
      /\ ChoiceInv /\ StatusInv /\ ProxyInv /\ BeforeInv
    BY DEF IInv
<1>1. ReturnsError(box.up) /\ box.up \in BOOLEAN
    BY <1>0 DEF StartFails, TypeOK, Boxes
<1>2. Returned /\ answer' = "failed" /\ (eng' <=> eng /\ box.up) /\ status' = IF box.up THEN status ELSE None
    BY <1>0, <1>1, ReturnsErrorFacts
<1>3. call.at = "start" /\ UNCHANGED <<root, box, inst, open, sysproxy, torn>>
    BY <1>0, <1>1 DEF StartFails, TypeOK, Boxes, Instances, Specs, Asked
<1>4. ~box.up /\ ~box'.up /\ ~eng' /\ status' = None
    BY <1>0, <1>2, <1>3 DEF UpInv
<1>5. TypeOK'
    BY <1>0, <1>1, <1>2, <1>3, <1>4 DEF TypeOK, Returned
<1>6. DownInv'
    BY <1>0, <1>1, <1>2, <1>3, <1>4 DEF DownInv, Returned, Fresh
<1>7. UpInv'
    BY <1>0, <1>1, <1>2, <1>3, <1>4 DEF UpInv, Returned
<1>8. StatusInv'
    BY <1>0, <1>1, <1>2, <1>3, <1>4 DEF StatusInv, Returned
<1>9. ProxyInv'
    BY <1>0, <1>1, <1>2, <1>3, <1>4 DEF ProxyInv, Returned
<1>10. Fails
    BY <1>0, <1>1, <1>2, <1>3, <1>4 DEF Fails, CallInv, Connection, BeforeInv, UpInv, DownInv, ChoiceInv, Returned
<1> QED BY <1>2, <1>5, <1>6, <1>7, <1>8, <1>9, <1>10 DEF IInv, Returned

(* A switch that fails early leaves everything *)
LEMMA StepRuntimeFails == IInv /\ RuntimeFails => IInv' /\ Fails
<1> SUFFICES ASSUME IInv, RuntimeFails PROVE IInv' /\ Fails
    OBVIOUS
<1> USE EngineAssumption
<1>0. TypeOK /\ CallInv /\ DownInv /\ UpInv
      /\ ChoiceInv /\ StatusInv /\ ProxyInv /\ BeforeInv
    BY DEF IInv
<1>1. ReturnsError(box.up) /\ box.up \in BOOLEAN
    BY <1>0 DEF RuntimeFails, TypeOK, Boxes
<1>2. Returned /\ answer' = "failed" /\ (eng' <=> eng /\ box.up) /\ status' = IF box.up THEN status ELSE None
    BY <1>0, <1>1, ReturnsErrorFacts
<1>3. call.at = "swap" /\ UNCHANGED <<root, box, inst, open, sysproxy, torn>>
    BY <1>0, <1>1 DEF RuntimeFails, TypeOK, Boxes, Instances, Specs, Asked
<1>4. TypeOK'
    BY <1>0, <1>1, <1>2, <1>3 DEF TypeOK, Returned
<1>5. DownInv'
    BY <1>0, <1>1, <1>2, <1>3 DEF DownInv, Returned, Fresh
<1>6. UpInv'
    BY <1>0, <1>1, <1>2, <1>3 DEF UpInv, Returned
<1>7. StatusInv'
    BY <1>0, <1>1, <1>2, <1>3 DEF StatusInv, Returned
<1>8. ProxyInv'
    BY <1>0, <1>1, <1>2, <1>3 DEF ProxyInv, Returned
<1>9. Fails
    BY <1>0, <1>1, <1>2, <1>3 DEF Fails, CallInv, Connection, BeforeInv, UpInv, DownInv, ChoiceInv, Returned
<1> QED BY <1>2, <1>4, <1>5, <1>6, <1>7, <1>8, <1>9 DEF IInv, Returned

(* A switch that fails later closes the new node, and the old one runs on *)
LEMMA StepReplaceFails == IInv /\ ReplaceFails => IInv' /\ Fails
<1> SUFFICES ASSUME IInv, ReplaceFails PROVE IInv' /\ Fails
    OBVIOUS
<1> USE EngineAssumption
<1>0. TypeOK /\ CallInv /\ DownInv /\ UpInv
      /\ ChoiceInv /\ StatusInv /\ ProxyInv /\ BeforeInv
    BY DEF IInv
<1>1. ReturnsError(box.up) /\ box.up \in BOOLEAN
    BY <1>0 DEF ReplaceFails, Restored, TypeOK, Boxes
<1>2. Returned /\ answer' = "failed" /\ (eng' <=> eng /\ box.up) /\ status' = IF box.up THEN status ELSE None
    BY <1>0, <1>1, ReturnsErrorFacts
<1>3. /\ call.at = "replace" /\ UNCHANGED <<root, box, sysproxy, torn>>
      /\ inst' \in Instances
      /\ inst'.core = inst.core /\ inst'.current = inst.current /\ inst'.via = inst.via
      /\ inst'.inbound = inst.inbound /\ inst'.live = inst.live
      /\ open' = open \ {call.asked.node}
    BY <1>0, <1>1 DEF ReplaceFails, Restored, TypeOK, Boxes, Instances, Specs, Asked
<1>4. /\ box.up /\ box.node # call.asked.node
      /\ open = {box.node, call.asked.node} /\ open' = {box.node}
    BY <1>0, <1>2, <1>3 DEF UpInv, DownInv, ChoiceInv
<1>5. TypeOK'
    BY <1>0, <1>1, <1>2, <1>3, <1>4 DEF TypeOK, Returned
<1>6. DownInv'
    BY <1>0, <1>1, <1>2, <1>3, <1>4 DEF DownInv, Returned, Fresh
<1>7. UpInv'
    BY <1>0, <1>1, <1>2, <1>3, <1>4 DEF UpInv, Returned
<1>8. StatusInv'
    BY <1>0, <1>1, <1>2, <1>3, <1>4 DEF StatusInv, Returned
<1>9. ProxyInv'
    BY <1>0, <1>1, <1>2, <1>3, <1>4 DEF ProxyInv, Returned
<1>10. Fails
    BY <1>0, <1>1, <1>2, <1>3, <1>4 DEF Fails, CallInv, Connection, BeforeInv, UpInv, DownInv, ChoiceInv, Returned
<1> QED BY <1>2, <1>5, <1>6, <1>7, <1>8, <1>9, <1>10 DEF IInv, Returned

(* ... up to the selector *)
LEMMA StepSelectFails == IInv /\ SelectFails => IInv' /\ Fails
<1> SUFFICES ASSUME IInv, SelectFails PROVE IInv' /\ Fails
    OBVIOUS
<1> USE EngineAssumption
<1>0. TypeOK /\ CallInv /\ DownInv /\ UpInv
      /\ ChoiceInv /\ StatusInv /\ ProxyInv /\ BeforeInv
    BY DEF IInv
<1>1. ReturnsError(box.up) /\ box.up \in BOOLEAN
    BY <1>0 DEF SelectFails, Restored, TypeOK, Boxes
<1>2. Returned /\ answer' = "failed" /\ (eng' <=> eng /\ box.up) /\ status' = IF box.up THEN status ELSE None
    BY <1>0, <1>1, ReturnsErrorFacts
<1>3. /\ call.at = "select" /\ UNCHANGED <<root, box, sysproxy, torn>>
      /\ inst' \in Instances
      /\ inst'.core = inst.core /\ inst'.current = inst.current /\ inst'.via = inst.via
      /\ inst'.inbound = inst.inbound /\ inst'.live = inst.live
      /\ open' = open \ {call.asked.node}
    BY <1>0, <1>1 DEF SelectFails, Restored, TypeOK, Boxes, Instances, Specs, Asked
<1>4. /\ box.up /\ box.node # call.asked.node
      /\ open = {box.node, call.asked.node} /\ open' = {box.node}
    BY <1>0, <1>2, <1>3 DEF UpInv, DownInv, ChoiceInv
<1>5. TypeOK'
    BY <1>0, <1>1, <1>2, <1>3, <1>4 DEF TypeOK, Returned
<1>6. DownInv'
    BY <1>0, <1>1, <1>2, <1>3, <1>4 DEF DownInv, Returned, Fresh
<1>7. UpInv'
    BY <1>0, <1>1, <1>2, <1>3, <1>4 DEF UpInv, Returned
<1>8. StatusInv'
    BY <1>0, <1>1, <1>2, <1>3, <1>4 DEF StatusInv, Returned
<1>9. ProxyInv'
    BY <1>0, <1>1, <1>2, <1>3, <1>4 DEF ProxyInv, Returned
<1>10. Fails
    BY <1>0, <1>1, <1>2, <1>3, <1>4 DEF Fails, CallInv, Connection, BeforeInv, UpInv, DownInv, ChoiceInv, Returned
<1> QED BY <1>2, <1>5, <1>6, <1>7, <1>8, <1>9, <1>10 DEF IInv, Returned

(* An instance that starts too late is closed *)
LEMMA StepStartedLate == IInv /\ StartedLate => IInv' /\ Fails
<1> SUFFICES ASSUME IInv, StartedLate PROVE IInv' /\ Fails
    OBVIOUS
<1> USE EngineAssumption
<1>0. TypeOK /\ CallInv /\ DownInv /\ UpInv
      /\ ChoiceInv /\ StatusInv /\ ProxyInv /\ BeforeInv
    BY DEF IInv
<1>1. ReturnsError(box.up) /\ box.up \in BOOLEAN
    BY <1>0 DEF StartedLate, Discard, TypeOK, Boxes
<1>2. Returned /\ answer' = "failed" /\ (eng' <=> eng /\ box.up) /\ status' = IF box.up THEN status ELSE None
    BY <1>0, <1>1, ReturnsErrorFacts
<1>3. /\ call.at = "started" /\ inst' = NoInstance /\ open' = {}
      /\ inst' \in Instances /\ UNCHANGED <<root, box, torn, sysproxy>>
    BY <1>0, <1>1 DEF StartedLate, Discard, TypeOK, Boxes, Instances, Specs, Asked, NoInstance
<1>4. /\ ~box.up /\ ~box'.up /\ ~eng' /\ status' = None
      /\ ~box'.proxying /\ ~box'.tun /\ ~torn'
    BY <1>0, <1>2, <1>3 DEF UpInv, DownInv
<1>5. TypeOK'
    BY <1>0, <1>1, <1>2, <1>3, <1>4 DEF TypeOK, Returned
<1>6. DownInv'
    BY <1>0, <1>1, <1>2, <1>3, <1>4 DEF DownInv, Returned, Fresh
<1>7. UpInv'
    BY <1>0, <1>1, <1>2, <1>3, <1>4 DEF UpInv, Returned
<1>8. StatusInv'
    BY <1>0, <1>1, <1>2, <1>3, <1>4 DEF StatusInv, Returned
<1>9. ProxyInv'
    BY <1>0, <1>1, <1>2, <1>3, <1>4 DEF ProxyInv, Returned
<1>10. Fails
    BY <1>0, <1>1, <1>2, <1>3, <1>4 DEF Fails, CallInv, Connection, BeforeInv, UpInv, DownInv, ChoiceInv, Returned
<1> QED BY <1>2, <1>5, <1>6, <1>7, <1>8, <1>9, <1>10 DEF IInv, Returned

(* ... and so is one that the system cannot use *)
LEMMA StepEnableFails == IInv /\ EnableFails => IInv' /\ Fails
<1> SUFFICES ASSUME IInv, EnableFails PROVE IInv' /\ Fails
    OBVIOUS
<1> USE EngineAssumption
<1>0. TypeOK /\ CallInv /\ DownInv /\ UpInv
      /\ ChoiceInv /\ StatusInv /\ ProxyInv /\ BeforeInv
    BY DEF IInv
<1>1. ReturnsError(box.up) /\ box.up \in BOOLEAN
    BY <1>0 DEF EnableFails, Discard, TypeOK, Boxes
<1>2. Returned /\ answer' = "failed" /\ (eng' <=> eng /\ box.up) /\ status' = IF box.up THEN status ELSE None
    BY <1>0, <1>1, ReturnsErrorFacts
<1>3. /\ call.at = "enable" /\ inst' = NoInstance /\ open' = {}
      /\ inst' \in Instances /\ UNCHANGED <<root, box, torn>> /\ sysproxy' \in {"off", "stuck"}
    BY <1>0, <1>1 DEF EnableFails, Discard, TypeOK, Boxes, Instances, Specs, Asked, NoInstance
<1>4. /\ ~box.up /\ ~box'.up /\ ~eng' /\ status' = None
      /\ ~box'.proxying /\ ~box'.tun /\ ~torn'
    BY <1>0, <1>2, <1>3 DEF UpInv, DownInv
<1>5. TypeOK'
    BY <1>0, <1>1, <1>2, <1>3, <1>4 DEF TypeOK, Returned
<1>6. DownInv'
    BY <1>0, <1>1, <1>2, <1>3, <1>4 DEF DownInv, Returned, Fresh
<1>7. UpInv'
    BY <1>0, <1>1, <1>2, <1>3, <1>4 DEF UpInv, Returned
<1>8. StatusInv'
    BY <1>0, <1>1, <1>2, <1>3, <1>4 DEF StatusInv, Returned
<1>9. ProxyInv'
    BY <1>0, <1>1, <1>2, <1>3, <1>4 DEF ProxyInv, Returned
<1>10. Fails
    BY <1>0, <1>1, <1>2, <1>3, <1>4 DEF Fails, CallInv, Connection, BeforeInv, UpInv, DownInv, ChoiceInv, Returned
<1> QED BY <1>2, <1>5, <1>6, <1>7, <1>8, <1>9, <1>10 DEF IInv, Returned

(* A start that succeeds leaves what was asked for *)
LEMMA StepEnabled == IInv /\ Enabled => IInv' /\ Grants
<1> SUFFICES ASSUME IInv, Enabled PROVE IInv' /\ Grants
    OBVIOUS
<1> USE EngineAssumption
<1>0. TypeOK /\ CallInv /\ DownInv /\ UpInv
      /\ ChoiceInv /\ StatusInv /\ ProxyInv /\ BeforeInv
    BY DEF IInv
<1>1. ReturnsOk /\ call.asked \in Specs
    BY <1>0 DEF Enabled, Asked, CallInv
<1>2. Returned /\ answer' = "ok" /\ eng' /\ status' = [node |-> call.asked.node, tun |-> call.asked.tun]
    BY <1>0, <1>1, ReturnsOkFacts
<1>3. /\ call.at = "enable" /\ UNCHANGED <<root, inst, open, torn>>
      /\ sysproxy' = IF WantsProxy(call.asked) THEN "on" ELSE sysproxy
      /\ box' \in Boxes /\ box'.up /\ box'.node = call.asked.node
      /\ box'.core = call.asked.core /\ box'.tunnel = call.asked.tunnel
      /\ box'.tun = call.asked.tun /\ box'.proxying = WantsProxy(call.asked)
    BY <1>0, <1>1 DEF Enabled, TypeOK, Boxes, Instances, Specs, Asked, WantsProxy
<1>4. /\ ~box.up /\ ~torn /\ ~box.proxying /\ sysproxy # "on"
      /\ inst = Fresh(call.asked) /\ open = {call.asked.node}
    BY <1>0, <1>2, <1>3 DEF UpInv, DownInv, ProxyInv
<1>5. /\ inst.core = call.asked.core /\ inst.current = call.asked.node
      /\ inst.via = call.asked.node /\ inst.live = call.asked.tun
      /\ inst.inbound = IF call.asked.tun THEN call.asked.tunnel ELSE None
    BY <1>0, <1>1, <1>2, <1>3, <1>4 DEF Fresh
<1>6. /\ box'.tunnel \in Tunnels /\ box'.node \in Nodes /\ box'.core \in Cores
      /\ box'.tun = call.asked.tun /\ call.asked.tun \in BOOLEAN
    BY <1>0, <1>1, <1>2, <1>3, <1>4, <1>5 DEF Specs
<1>7. TypeOK'
    BY <1>0, <1>1, <1>2, <1>3, <1>4, <1>5, <1>6 DEF TypeOK, Returned
<1>8. DownInv'
    BY <1>0, <1>1, <1>2, <1>3, <1>4, <1>5, <1>6 DEF DownInv, Returned, Fresh
<1>9. UpInv'
    BY <1>0, <1>1, <1>2, <1>3, <1>4, <1>5, <1>6 DEF UpInv, Returned, Fresh, Specs
<1>10. StatusInv'
    BY <1>0, <1>1, <1>2, <1>3, <1>4, <1>5, <1>6 DEF StatusInv, Returned
<1>11. ProxyInv'
    BY <1>0, <1>1, <1>2, <1>3, <1>4, <1>5, <1>6 DEF ProxyInv, Returned
<1>12. Grants
    BY <1>0, <1>1, <1>2, <1>3, <1>4, <1>5, <1>6, <1>9 DEF Grants, Connection, Promise!Effect, UpInv, ChoiceInv, WantsProxy, Specs, TypeOK, Boxes, Returned
<1> QED BY <1>2, <1>7, <1>8, <1>9, <1>10, <1>11, <1>12 DEF IInv, Returned

(* ... and so does a switch *)
LEMMA StepCloseOld == IInv /\ CloseOld => IInv' /\ Grants
<1> SUFFICES ASSUME IInv, CloseOld PROVE IInv' /\ Grants
    OBVIOUS
<1> USE EngineAssumption
<1>0. TypeOK /\ CallInv /\ DownInv /\ UpInv
      /\ ChoiceInv /\ StatusInv /\ ProxyInv /\ BeforeInv
    BY DEF IInv
<1>1. ReturnsOk /\ call.asked \in Specs
    BY <1>0 DEF CloseOld, Asked, CallInv
<1>2. Returned /\ answer' = "ok" /\ eng' /\ status' = [node |-> call.asked.node, tun |-> call.asked.tun]
    BY <1>0, <1>1, ReturnsOkFacts
<1>3. /\ call.at = "close" /\ UNCHANGED <<root, sysproxy, torn>>
      /\ inst' \in Instances /\ inst'.current = call.asked.node
      /\ inst'.core = inst.core /\ inst'.via = inst.via
      /\ inst'.inbound = inst.inbound /\ inst'.live = inst.live
      /\ open' = open \ {inst.current}
      /\ box' \in Boxes /\ box'.up = box.up /\ box'.node = call.asked.node
      /\ box'.core = box.core /\ box'.tunnel = box.tunnel
      /\ box'.tun = box.tun /\ box'.proxying = box.proxying
    BY <1>0, <1>1 DEF CloseOld, TypeOK, Boxes, Instances, Specs, Asked
<1>4. /\ box.up /\ box.node # call.asked.node /\ call.asked \in Specs
    BY <1>0, <1>2, <1>3 DEF UpInv, DownInv, ChoiceInv, CallInv
<1>5. /\ inst.current = box.node /\ inst.via = call.asked.node
      /\ open = {box.node, call.asked.node} /\ open' = {call.asked.node}
      /\ box.tunnel \in Tunnels /\ box.core \in Cores
    BY <1>0, <1>1, <1>2, <1>3, <1>4 DEF UpInv
<1>6. box.tun = call.asked.tun
    BY <1>0, <1>1, <1>2, <1>3, <1>4, <1>5 DEF ChoiceInv, TypeOK, Boxes, Specs
<1>7. TypeOK'
    BY <1>0, <1>1, <1>2, <1>3, <1>4, <1>5, <1>6 DEF TypeOK, Returned
<1>8. DownInv'
    BY <1>0, <1>1, <1>2, <1>3, <1>4, <1>5, <1>6 DEF DownInv, Returned, Fresh
<1>9. UpInv'
    BY <1>0, <1>1, <1>2, <1>3, <1>4, <1>5, <1>6 DEF UpInv, Returned, Specs
<1>10. StatusInv'
    BY <1>0, <1>1, <1>2, <1>3, <1>4, <1>5, <1>6 DEF StatusInv, Returned
<1>11. ProxyInv'
    BY <1>0, <1>1, <1>2, <1>3, <1>4, <1>5, <1>6 DEF ProxyInv, Returned
<1>12. Grants
    BY <1>0, <1>1, <1>2, <1>3, <1>4, <1>5, <1>6, <1>9 DEF Grants, Connection, Promise!Effect, UpInv, ChoiceInv, WantsProxy, Specs, TypeOK, Boxes, Returned
<1> QED BY <1>2, <1>7, <1>8, <1>9, <1>10, <1>11, <1>12 DEF IInv, Returned

(* What there is already is what was asked for *)
LEMMA StepNothing == IInv /\ Nothing => IInv' /\ Grants
<1> SUFFICES ASSUME IInv, Nothing PROVE IInv' /\ Grants
    OBVIOUS
<1> USE EngineAssumption
<1>0. TypeOK /\ CallInv /\ DownInv /\ UpInv
      /\ ChoiceInv /\ StatusInv /\ ProxyInv /\ BeforeInv
    BY DEF IInv
<1>1. ReturnsOk /\ call.asked \in Specs
    BY <1>0 DEF Nothing, NodeChanged, TunChanged, Asked, CallInv
<1>2. Returned /\ answer' = "ok" /\ eng' /\ status' = [node |-> call.asked.node, tun |-> call.asked.tun]
    BY <1>0, <1>1, ReturnsOkFacts
<1>3. /\ call.at = "apply" /\ UNCHANGED <<root, box, inst, open, sysproxy, torn>>
      /\ box.up /\ box.node = call.asked.node /\ box.tun = call.asked.tun
    BY <1>0, <1>1 DEF Nothing, NodeChanged, TunChanged, TypeOK, Boxes, Instances, Specs, Asked
<1>4. /\ box.core = call.asked.core /\ box.proxying = WantsProxy(call.asked)
      /\ call.asked.tun => box.tunnel = call.asked.tunnel
    BY <1>0, <1>2, <1>3 DEF Nothing, Asked, StartsOver, Rebuilds
<1>5. TypeOK'
    BY <1>0, <1>1, <1>2, <1>3, <1>4 DEF TypeOK, Returned
<1>6. DownInv'
    BY <1>0, <1>1, <1>2, <1>3, <1>4 DEF DownInv, Returned, Fresh
<1>7. UpInv'
    BY <1>0, <1>1, <1>2, <1>3, <1>4 DEF UpInv, Returned
<1>8. StatusInv'
    BY <1>0, <1>1, <1>2, <1>3, <1>4 DEF StatusInv, Returned
<1>9. ProxyInv'
    BY <1>0, <1>1, <1>2, <1>3, <1>4 DEF ProxyInv, Returned
<1>10. Grants
    BY <1>0, <1>1, <1>2, <1>3, <1>4, <1>7 DEF Grants, Connection, Promise!Effect, UpInv, ChoiceInv, WantsProxy, Specs, TypeOK, Boxes, Returned
<1> QED BY <1>2, <1>5, <1>6, <1>7, <1>8, <1>9, <1>10 DEF IInv, Returned

(* A TUN that cannot be added is not there *)
LEMMA StepTunFails == IInv /\ TunFails => IInv' /\ Fails
<1> SUFFICES ASSUME IInv, TunFails PROVE IInv' /\ Fails
    OBVIOUS
<1> USE EngineAssumption
<1>0. TypeOK /\ CallInv /\ DownInv /\ UpInv
      /\ ChoiceInv /\ StatusInv /\ ProxyInv /\ BeforeInv
    BY DEF IInv
<1>1. ReturnsError(box.up) /\ box.up \in BOOLEAN
    BY <1>0 DEF TunFails, TypeOK, Boxes
<1>2. Returned /\ answer' = "failed" /\ (eng' <=> eng /\ box.up) /\ status' = IF box.up THEN status ELSE None
    BY <1>0, <1>1, ReturnsErrorFacts
<1>3. /\ call.at = "tunAdd" /\ UNCHANGED <<root, box, open, sysproxy, torn>>
      /\ inst' \in Instances
      /\ inst'.core = inst.core /\ inst'.current = inst.current /\ inst'.via = inst.via
      /\ inst'.inbound \in {inst.inbound, Created} /\ inst'.live = inst.live
    BY <1>0, <1>1 DEF TunFails, TypeOK, Boxes, Instances, Specs, Asked, Created
<1>4. TypeOK'
    BY <1>0, <1>1, <1>2, <1>3 DEF TypeOK, Returned
<1>5. DownInv'
    BY <1>0, <1>1, <1>2, <1>3 DEF DownInv, Returned, Fresh
<1>6. UpInv'
    BY <1>0, <1>1, <1>2, <1>3 DEF UpInv, Returned, Created
<1>7. StatusInv'
    BY <1>0, <1>1, <1>2, <1>3 DEF StatusInv, Returned
<1>8. ProxyInv'
    BY <1>0, <1>1, <1>2, <1>3 DEF ProxyInv, Returned
<1>9. Fails
    BY <1>0, <1>1, <1>2, <1>3 DEF Fails, CallInv, Connection, BeforeInv, UpInv, DownInv, ChoiceInv, Returned
<1> QED BY <1>2, <1>4, <1>5, <1>6, <1>7, <1>8, <1>9 DEF IInv, Returned

(* A TUN that cannot be closed is counted on *)
LEMMA StepTunStuck == IInv /\ TunStuck => IInv' /\ Fails
<1> SUFFICES ASSUME IInv, TunStuck PROVE IInv' /\ Fails
    OBVIOUS
<1> USE EngineAssumption
<1>0. TypeOK /\ CallInv /\ DownInv /\ UpInv
      /\ ChoiceInv /\ StatusInv /\ ProxyInv /\ BeforeInv
    BY DEF IInv
<1>1. ReturnsError(box.up) /\ box.up \in BOOLEAN
    BY <1>0 DEF TunStuck, TypeOK, Boxes
<1>2. Returned /\ answer' = "failed" /\ (eng' <=> eng /\ box.up) /\ status' = IF box.up THEN status ELSE None
    BY <1>0, <1>1, ReturnsErrorFacts
<1>3. /\ call.at = "tunRemove" /\ inst.live /\ torn' /\ torn' \in BOOLEAN /\ UNCHANGED <<root, box, open, sysproxy>>
      /\ inst' \in Instances
      /\ inst'.core = inst.core /\ inst'.current = inst.current /\ inst'.via = inst.via
      /\ inst'.inbound = inst.inbound /\ ~inst'.live
    BY <1>0, <1>1 DEF TunStuck, TypeOK, Boxes, Instances, Specs, Asked
<1>4. TypeOK'
    BY <1>0, <1>1, <1>2, <1>3 DEF TypeOK, Returned
<1>5. DownInv'
    BY <1>0, <1>1, <1>2, <1>3 DEF DownInv, Returned, Fresh
<1>6. UpInv'
    BY <1>0, <1>1, <1>2, <1>3 DEF UpInv, Returned
<1>7. StatusInv'
    BY <1>0, <1>1, <1>2, <1>3 DEF StatusInv, Returned
<1>8. ProxyInv'
    BY <1>0, <1>1, <1>2, <1>3 DEF ProxyInv, Returned
<1>9. Fails
    BY <1>0, <1>1, <1>2, <1>3 DEF Fails, CallInv, Connection, BeforeInv, UpInv, DownInv, ChoiceInv, Returned
<1> QED BY <1>2, <1>4, <1>5, <1>6, <1>7, <1>8, <1>9 DEF IInv, Returned

(* A TUN is added with the settings of the instance *)
LEMMA StepTunAdded == IInv /\ TunAdded => IInv' /\ Grants
<1> SUFFICES ASSUME IInv, TunAdded PROVE IInv' /\ Grants
    OBVIOUS
<1> USE EngineAssumption
<1>0. TypeOK /\ CallInv /\ DownInv /\ UpInv
      /\ ChoiceInv /\ StatusInv /\ ProxyInv /\ BeforeInv
    BY DEF IInv
<1>1. ReturnsOk /\ call.asked \in Specs
    BY <1>0 DEF TunAdded, Asked, CallInv
<1>2. Returned /\ answer' = "ok" /\ eng' /\ status' = [node |-> call.asked.node, tun |-> call.asked.tun]
    BY <1>0, <1>1, ReturnsOkFacts
<1>3. /\ call.at = "tunAdd" /\ UNCHANGED <<root, open, sysproxy, torn>>
      /\ inst' \in Instances
      /\ inst'.core = inst.core /\ inst'.current = inst.current /\ inst'.via = inst.via
      /\ inst'.inbound = Created /\ inst'.live
      /\ box' \in Boxes /\ box'.up = box.up /\ box'.node = box.node /\ box'.tun = TRUE
      /\ box'.core = box.core /\ box'.tunnel = box.tunnel /\ box'.proxying = box.proxying
    BY <1>0, <1>1 DEF TunAdded, TypeOK, Boxes, Instances, Specs, Asked, Created
<1>4. /\ box.up /\ box.node = call.asked.node /\ call.asked.tun = TRUE
      /\ ~box.tun /\ ~torn /\ Created = box.tunnel
    BY <1>0, <1>2, <1>3 DEF UpInv, DownInv, ChoiceInv, Specs, Created
<1>5. TypeOK'
    BY <1>0, <1>1, <1>2, <1>3, <1>4 DEF TypeOK, Returned
<1>6. DownInv'
    BY <1>0, <1>1, <1>2, <1>3, <1>4 DEF DownInv, Returned, Fresh
<1>7. UpInv'
    BY <1>0, <1>1, <1>2, <1>3, <1>4 DEF UpInv, Returned, Created
<1>8. StatusInv'
    BY <1>0, <1>1, <1>2, <1>3, <1>4 DEF StatusInv, Returned
<1>9. ProxyInv'
    BY <1>0, <1>1, <1>2, <1>3, <1>4 DEF ProxyInv, Returned
<1>10. Grants
    BY <1>0, <1>1, <1>2, <1>3, <1>4, <1>7 DEF Grants, Connection, Promise!Effect, UpInv, ChoiceInv, WantsProxy, Specs, TypeOK, Boxes, Returned
<1> QED BY <1>2, <1>5, <1>6, <1>7, <1>8, <1>9, <1>10 DEF IInv, Returned

(* ... and removed *)
LEMMA StepTunRemoved == IInv /\ TunRemoved => IInv' /\ Grants
<1> SUFFICES ASSUME IInv, TunRemoved PROVE IInv' /\ Grants
    OBVIOUS
<1> USE EngineAssumption
<1>0. TypeOK /\ CallInv /\ DownInv /\ UpInv
      /\ ChoiceInv /\ StatusInv /\ ProxyInv /\ BeforeInv
    BY DEF IInv
<1>1. ReturnsOk /\ call.asked \in Specs
    BY <1>0 DEF TunRemoved, Asked, CallInv
<1>2. Returned /\ answer' = "ok" /\ eng' /\ status' = [node |-> call.asked.node, tun |-> call.asked.tun]
    BY <1>0, <1>1, ReturnsOkFacts
<1>3. /\ call.at = "tunRemove" /\ ~torn' /\ torn' \in BOOLEAN /\ UNCHANGED <<root, open, sysproxy>>
      /\ inst' \in Instances
      /\ inst'.core = inst.core /\ inst'.current = inst.current /\ inst'.via = inst.via
      /\ inst'.inbound = inst.inbound /\ ~inst'.live
      /\ box' \in Boxes /\ box'.up = box.up /\ box'.node = box.node /\ box'.tun = FALSE
      /\ box'.core = box.core /\ box'.tunnel = box.tunnel /\ box'.proxying = box.proxying
    BY <1>0, <1>1 DEF TunRemoved, TypeOK, Boxes, Instances, Specs, Asked
<1>4. /\ box.up /\ box.node = call.asked.node /\ call.asked.tun = FALSE
    BY <1>0, <1>2, <1>3 DEF DownInv, ChoiceInv, Specs
<1>5. TypeOK'
    BY <1>0, <1>1, <1>2, <1>3, <1>4 DEF TypeOK, Returned
<1>6. DownInv'
    BY <1>0, <1>1, <1>2, <1>3, <1>4 DEF DownInv, Returned, Fresh
<1>7. UpInv'
    BY <1>0, <1>1, <1>2, <1>3, <1>4 DEF UpInv, Returned
<1>8. StatusInv'
    BY <1>0, <1>1, <1>2, <1>3, <1>4 DEF StatusInv, Returned
<1>9. ProxyInv'
    BY <1>0, <1>1, <1>2, <1>3, <1>4 DEF ProxyInv, Returned
<1>10. Grants
    BY <1>0, <1>1, <1>2, <1>3, <1>4, <1>7 DEF Grants, Connection, Promise!Effect, UpInv, ChoiceInv, WantsProxy, Specs, TypeOK, Boxes, Returned
<1> QED BY <1>2, <1>5, <1>6, <1>7, <1>8, <1>9, <1>10 DEF IInv, Returned

(* A stop that fails leaves nothing *)
LEMMA StepCloseFails == IInv /\ CloseFails => IInv' /\ Fails
<1> SUFFICES ASSUME IInv, CloseFails PROVE IInv' /\ Fails
    OBVIOUS
<1> USE EngineAssumption
<1>0. TypeOK /\ CallInv /\ DownInv /\ UpInv
      /\ ChoiceInv /\ StatusInv /\ ProxyInv /\ BeforeInv
    BY DEF IInv
<1>1. ReturnsError(FALSE) /\ FALSE \in BOOLEAN
    BY <1>0 DEF CloseFails, Closes, TypeOK, Boxes
<1>2. Returned /\ answer' = "failed" /\ (eng' <=> eng /\ FALSE) /\ status' = IF FALSE THEN status ELSE None
    BY <1>0, <1>1, ReturnsErrorFacts
<1>3. /\ call.at = "stop" /\ inst' = NoInstance /\ open' = {}
      /\ inst' \in Instances /\ ~torn' /\ torn' \in BOOLEAN /\ UNCHANGED <<root, sysproxy>>
      /\ box' \in Boxes /\ ~box'.up /\ ~box'.tun /\ ~box'.proxying
    BY <1>0, <1>1 DEF CloseFails, Closes, TypeOK, Boxes, Instances, Specs, Asked, NoInstance
<1>4. TypeOK'
    BY <1>0, <1>1, <1>2, <1>3 DEF TypeOK, Returned
<1>5. DownInv'
    BY <1>0, <1>1, <1>2, <1>3 DEF DownInv, Returned, Fresh
<1>6. UpInv'
    BY <1>0, <1>1, <1>2, <1>3 DEF UpInv, Returned
<1>7. StatusInv'
    BY <1>0, <1>1, <1>2, <1>3 DEF StatusInv, Returned
<1>8. ProxyInv'
    BY <1>0, <1>1, <1>2, <1>3 DEF ProxyInv, Returned
<1>9. Fails
    BY <1>0, <1>1, <1>2, <1>3 DEF Fails, CallInv, Connection, BeforeInv, UpInv, DownInv, ChoiceInv, Returned
<1> QED BY <1>2, <1>4, <1>5, <1>6, <1>7, <1>8, <1>9 DEF IInv, Returned

(* The instance is the one that was asked for *)
LEMMA StepStarted == IInv /\ Started => IInv' /\ GoesOn
<1> SUFFICES ASSUME IInv, Started PROVE IInv' /\ GoesOn
    OBVIOUS
<1> USE EngineAssumption
<1>0. TypeOK /\ CallInv /\ DownInv /\ UpInv
      /\ ChoiceInv /\ StatusInv /\ ProxyInv /\ BeforeInv
    BY DEF IInv
<1>1. GoesTo("started")
    BY DEF Started
<1>2. Moved /\ call'.at = "started"
    BY <1>0, <1>1, GoesToFacts DEF TypeOK, Steps
<1>3. /\ call.at = "start" /\ UNCHANGED <<root, eng, status, box, sysproxy, answer, torn>>
      /\ call.asked \in Specs /\ inst' = Fresh(call.asked) /\ inst' \in Instances /\ open' = {call.asked.node}
    BY <1>0, <1>1 DEF Started, TypeOK, Boxes, Instances, Specs, Asked, CallInv, Fresh
<1>4. TypeOK'
    BY <1>0, <1>2, <1>3 DEF TypeOK, Moved, Specs
<1>5. CallInv'
    BY <1>0, <1>2, <1>3 DEF CallInv, Moved
<1>6. DownInv'
    BY <1>0, <1>2, <1>3 DEF DownInv, Moved, Fresh
<1>7. UpInv'
    BY <1>0, <1>2, <1>3 DEF UpInv, Moved
<1>8. ChoiceInv'
    BY <1>0, <1>2, <1>3 DEF ChoiceInv, Moved
<1>9. StatusInv'
    BY <1>0, <1>2, <1>3 DEF StatusInv, Moved
<1>10. ProxyInv'
    BY <1>0, <1>2, <1>3 DEF ProxyInv, Moved
<1>11. BeforeInv'
    BY <1>0, <1>2, <1>3 DEF BeforeInv, Moved, Connection, UpInv
<1>12. GoesOn
    BY <1>0, <1>2, <1>3 DEF GoesOn, Moved
<1> QED BY <1>4, <1>5, <1>6, <1>7, <1>8, <1>9, <1>10, <1>11, <1>12 DEF IInv, Moved

(* ... and in time *)
LEMMA StepStartedInTime == IInv /\ StartedInTime => IInv' /\ GoesOn
<1> SUFFICES ASSUME IInv, StartedInTime PROVE IInv' /\ GoesOn
    OBVIOUS
<1> USE EngineAssumption
<1>0. TypeOK /\ CallInv /\ DownInv /\ UpInv
      /\ ChoiceInv /\ StatusInv /\ ProxyInv /\ BeforeInv
    BY DEF IInv
<1>1. GoesTo("enable")
    BY DEF StartedInTime
<1>2. Moved /\ call'.at = "enable"
    BY <1>0, <1>1, GoesToFacts DEF TypeOK, Steps
<1>3. call.at = "started" /\ UNCHANGED <<root, eng, status, box, inst, open, sysproxy, answer, torn>>
    BY <1>0, <1>1 DEF StartedInTime, TypeOK, Boxes, Instances, Specs, Asked, CallInv
<1>4. TypeOK'
    BY <1>0, <1>2, <1>3 DEF TypeOK, Moved
<1>5. CallInv'
    BY <1>0, <1>2, <1>3 DEF CallInv, Moved
<1>6. DownInv'
    BY <1>0, <1>2, <1>3 DEF DownInv, Moved, Fresh
<1>7. UpInv'
    BY <1>0, <1>2, <1>3 DEF UpInv, Moved
<1>8. ChoiceInv'
    BY <1>0, <1>2, <1>3 DEF ChoiceInv, Moved
<1>9. StatusInv'
    BY <1>0, <1>2, <1>3 DEF StatusInv, Moved
<1>10. ProxyInv'
    BY <1>0, <1>2, <1>3 DEF ProxyInv, Moved
<1>11. BeforeInv'
    BY <1>0, <1>2, <1>3 DEF BeforeInv, Moved, Connection
<1>12. GoesOn
    BY <1>0, <1>2, <1>3 DEF GoesOn, Moved
<1> QED BY <1>4, <1>5, <1>6, <1>7, <1>8, <1>9, <1>10, <1>11, <1>12 DEF IInv, Moved

(* The new node is open before anything else changes *)
LEMMA StepRuntimeStarts == IInv /\ RuntimeStarts => IInv' /\ GoesOn
<1> SUFFICES ASSUME IInv, RuntimeStarts PROVE IInv' /\ GoesOn
    OBVIOUS
<1> USE EngineAssumption
<1>0. TypeOK /\ CallInv /\ DownInv /\ UpInv
      /\ ChoiceInv /\ StatusInv /\ ProxyInv /\ BeforeInv
    BY DEF IInv
<1>1. GoesTo("replace")
    BY DEF RuntimeStarts
<1>2. Moved /\ call'.at = "replace"
    BY <1>0, <1>1, GoesToFacts DEF TypeOK, Steps
<1>3. /\ call.at = "swap" /\ UNCHANGED <<root, eng, status, box, inst, sysproxy, answer, torn>>
      /\ call.asked \in Specs /\ open' = open \cup {call.asked.node}
    BY <1>0, <1>1 DEF RuntimeStarts, TypeOK, Boxes, Instances, Specs, Asked, CallInv
<1>4. TypeOK'
    BY <1>0, <1>2, <1>3 DEF TypeOK, Moved, Specs
<1>5. CallInv'
    BY <1>0, <1>2, <1>3 DEF CallInv, Moved
<1>6. DownInv'
    BY <1>0, <1>2, <1>3 DEF DownInv, Moved, Fresh
<1>7. UpInv'
    BY <1>0, <1>2, <1>3 DEF UpInv, Moved
<1>8. ChoiceInv'
    BY <1>0, <1>2, <1>3 DEF ChoiceInv, Moved
<1>9. StatusInv'
    BY <1>0, <1>2, <1>3 DEF StatusInv, Moved
<1>10. ProxyInv'
    BY <1>0, <1>2, <1>3 DEF ProxyInv, Moved
<1>11. BeforeInv'
    BY <1>0, <1>2, <1>3 DEF BeforeInv, Moved, Connection
<1>12. GoesOn
    BY <1>0, <1>2, <1>3 DEF GoesOn, Moved
<1> QED BY <1>4, <1>5, <1>6, <1>7, <1>8, <1>9, <1>10, <1>11, <1>12 DEF IInv, Moved

(* The registration of the node is no property of the connection *)
LEMMA StepReplaced == IInv /\ Replaced => IInv' /\ GoesOn
<1> SUFFICES ASSUME IInv, Replaced PROVE IInv' /\ GoesOn
    OBVIOUS
<1> USE EngineAssumption
<1>0. TypeOK /\ CallInv /\ DownInv /\ UpInv
      /\ ChoiceInv /\ StatusInv /\ ProxyInv /\ BeforeInv
    BY DEF IInv
<1>1. GoesTo("select")
    BY DEF Replaced
<1>2. Moved /\ call'.at = "select"
    BY <1>0, <1>1, GoesToFacts DEF TypeOK, Steps
<1>3. /\ call.at = "replace" /\ UNCHANGED <<root, eng, status, box, open, sysproxy, answer, torn>>
      /\ inst' \in Instances
      /\ inst'.core = inst.core /\ inst'.current = inst.current /\ inst'.via = inst.via
      /\ inst'.inbound = inst.inbound /\ inst'.live = inst.live
    BY <1>0, <1>1 DEF Replaced, TypeOK, Boxes, Instances, Specs, Asked, CallInv
<1>4. TypeOK'
    BY <1>0, <1>2, <1>3 DEF TypeOK, Moved
<1>5. CallInv'
    BY <1>0, <1>2, <1>3 DEF CallInv, Moved
<1>6. DownInv'
    BY <1>0, <1>2, <1>3 DEF DownInv, Moved, Fresh
<1>7. UpInv'
    BY <1>0, <1>2, <1>3 DEF UpInv, Moved
<1>8. ChoiceInv'
    BY <1>0, <1>2, <1>3 DEF ChoiceInv, Moved
<1>9. StatusInv'
    BY <1>0, <1>2, <1>3 DEF StatusInv, Moved
<1>10. ProxyInv'
    BY <1>0, <1>2, <1>3 DEF ProxyInv, Moved
<1>11. BeforeInv'
    BY <1>0, <1>2, <1>3 DEF BeforeInv, Moved, Connection
<1>12. GoesOn
    BY <1>0, <1>2, <1>3 DEF GoesOn, Moved
<1> QED BY <1>4, <1>5, <1>6, <1>7, <1>8, <1>9, <1>10, <1>11, <1>12 DEF IInv, Moved

(* Traffic changes to the new node while both are open *)
LEMMA StepSelected == IInv /\ Selected => IInv' /\ GoesOn
<1> SUFFICES ASSUME IInv, Selected PROVE IInv' /\ GoesOn
    OBVIOUS
<1> USE EngineAssumption
<1>0. TypeOK /\ CallInv /\ DownInv /\ UpInv
      /\ ChoiceInv /\ StatusInv /\ ProxyInv /\ BeforeInv
    BY DEF IInv
<1>1. GoesTo("close")
    BY DEF Selected
<1>2. Moved /\ call'.at = "close"
    BY <1>0, <1>1, GoesToFacts DEF TypeOK, Steps
<1>3. /\ call.at = "select" /\ UNCHANGED <<root, eng, status, box, open, sysproxy, answer, torn>>
      /\ inst' \in Instances
      /\ inst'.core = inst.core /\ inst'.current = inst.current /\ inst'.via = call.asked.node
      /\ inst'.inbound = inst.inbound /\ inst'.live = inst.live
    BY <1>0, <1>1 DEF Selected, TypeOK, Boxes, Instances, Specs, Asked, CallInv
<1>4. TypeOK'
    BY <1>0, <1>2, <1>3 DEF TypeOK, Moved
<1>5. CallInv'
    BY <1>0, <1>2, <1>3 DEF CallInv, Moved
<1>6. DownInv'
    BY <1>0, <1>2, <1>3 DEF DownInv, Moved, Fresh
<1>7. UpInv'
    BY <1>0, <1>2, <1>3 DEF UpInv, Moved
<1>8. ChoiceInv'
    BY <1>0, <1>2, <1>3 DEF ChoiceInv, Moved
<1>9. StatusInv'
    BY <1>0, <1>2, <1>3 DEF StatusInv, Moved
<1>10. ProxyInv'
    BY <1>0, <1>2, <1>3 DEF ProxyInv, Moved
<1>11. BeforeInv'
    BY <1>0, <1>2, <1>3 DEF BeforeInv, Moved, Connection
<1>12. GoesOn
    BY <1>0, <1>2, <1>3 DEF GoesOn, Moved
<1> QED BY <1>4, <1>5, <1>6, <1>7, <1>8, <1>9, <1>10, <1>11, <1>12 DEF IInv, Moved

(* The status goes before the box *)
LEMMA StepDisconnect == IInv /\ Disconnect => IInv' /\ GoesOn
<1> SUFFICES ASSUME IInv, Disconnect PROVE IInv' /\ GoesOn
    OBVIOUS
<1> USE EngineAssumption
<1>0. TypeOK /\ CallInv /\ DownInv /\ UpInv
      /\ ChoiceInv /\ StatusInv /\ ProxyInv /\ BeforeInv
    BY DEF IInv
<1>1. GoesTo("disable")
    BY DEF Disconnect
<1>2. Moved /\ call'.at = "disable"
    BY <1>0, <1>1, GoesToFacts DEF TypeOK, Steps
<1>3. /\ call.at = "apply" /\ call.asked = Off /\ ~eng' /\ eng' \in BOOLEAN /\ status' = None
      /\ UNCHANGED <<root, box, inst, open, sysproxy, answer, torn>>
    BY <1>0, <1>1 DEF Disconnect, TypeOK, Boxes, Instances, Specs, Asked, CallInv
<1>4. TypeOK'
    BY <1>0, <1>2, <1>3 DEF TypeOK, Moved
<1>5. CallInv'
    BY <1>0, <1>2, <1>3 DEF CallInv, Moved
<1>6. DownInv'
    BY <1>0, <1>2, <1>3 DEF DownInv, Moved, Fresh
<1>7. UpInv'
    BY <1>0, <1>2, <1>3 DEF UpInv, Moved
<1>8. ChoiceInv'
    BY <1>0, <1>2, <1>3 DEF ChoiceInv, Moved
<1>9. StatusInv'
    BY <1>0, <1>2, <1>3 DEF StatusInv, Moved
<1>10. ProxyInv'
    BY <1>0, <1>2, <1>3 DEF ProxyInv, Moved
<1>11. BeforeInv'
    BY <1>0, <1>2, <1>3 DEF BeforeInv, Moved, Connection
<1>12. GoesOn
    BY <1>0, <1>2, <1>3 DEF GoesOn, Moved
<1> QED BY <1>4, <1>5, <1>6, <1>7, <1>8, <1>9, <1>10, <1>11, <1>12 DEF IInv, Moved

(* A request changes nothing *)
LEMMA StepAsk == IInv /\ (\E spec \in Specs \cup {Off} : Ask(spec)) => IInv' /\ Promise!Ask
<1> SUFFICES ASSUME IInv, NEW spec \in Specs \cup {Off}, Ask(spec) PROVE IInv' /\ Promise!Ask
    OBVIOUS
<1>0. TypeOK /\ CallInv /\ DownInv /\ UpInv
      /\ ChoiceInv /\ StatusInv /\ ProxyInv /\ BeforeInv
    BY DEF IInv
<1>1. /\ call.at = "idle" /\ answer' = "none"
      /\ UNCHANGED <<root, eng, status, box, inst, open, sysproxy, torn>>
      /\ call' = NewCall("apply", spec, Connection)
    BY DEF Ask
<1>2. Connection \in Connections \cup {None}
    <2>1. CASE ~box.up
        BY <2>1 DEF Connection
    <2>2. CASE box.up
        <3>1. /\ inst.via \in Nodes /\ inst.core \in Cores /\ box.proxying \in BOOLEAN
              /\ inst.inbound \in Tunnels \cup {None}
            BY <1>0, <1>1, <2>2 DEF UpInv, TypeOK, Boxes, Instances
        <3> QED BY <2>2, <3>1 DEF Connection, Connections
    <2> QED BY <2>1, <2>2
<1>3. /\ call' \in Calls /\ call'.at = "apply" /\ call'.asked = spec
      /\ call'.next = "idle" /\ call'.before = Connection
    BY <1>1, <1>2 DEF NewCall, Calls, Steps
<1>4. TypeOK'
    BY <1>0, <1>1, <1>3 DEF TypeOK
<1>5. CallInv'
    BY <1>1, <1>3 DEF CallInv
<1>6. DownInv'
    BY <1>0, <1>1, <1>3 DEF DownInv
<1>7. UpInv'
    BY <1>0, <1>1, <1>3 DEF UpInv
<1>8. ChoiceInv'
    BY <1>3 DEF ChoiceInv
<1>9. StatusInv'
    BY <1>0, <1>1, <1>3 DEF StatusInv
<1>10. ProxyInv'
    BY <1>0, <1>1, <1>3 DEF ProxyInv
<1>11. BeforeInv'
    BY <1>1, <1>3 DEF BeforeInv, Connection
<1>12. Promise!Ask
    BY <1>0, <1>1, <1>3 DEF Promise!Ask, Promise!Specs, Specs, CallInv, Idle, NewCall
<1> QED BY <1>4, <1>5, <1>6, <1>7, <1>8, <1>9, <1>10, <1>11, <1>12 DEF IInv

(* Dying and waiting for the device leave everything where it is *)
LEMMA StepSame ==
    ASSUME IInv, call.at # "idle", Moved, call'.at = call.at,
           UNCHANGED <<root, eng, status, box, inst, open, sysproxy, answer, torn>>
    PROVE  IInv' /\ GoesOn
<1>0. TypeOK /\ CallInv /\ DownInv /\ UpInv
      /\ ChoiceInv /\ StatusInv /\ ProxyInv /\ BeforeInv
    BY DEF IInv
<1>3. TypeOK'
    BY <1>0 DEF TypeOK, Moved
<1>4. CallInv'
    BY <1>0 DEF CallInv, Moved
<1>5. DownInv'
    BY <1>0 DEF DownInv, Moved
<1>6. UpInv'
    BY <1>0 DEF UpInv, Moved
<1>7. ChoiceInv'
    BY <1>0 DEF ChoiceInv, Moved
<1>8. StatusInv'
    BY <1>0 DEF StatusInv, Moved
<1>9. ProxyInv'
    BY <1>0 DEF ProxyInv, Moved
<1>10. BeforeInv'
    BY <1>0 DEF BeforeInv, Connection, Moved
<1> QED BY <1>3, <1>4, <1>5, <1>6, <1>7, <1>8, <1>9, <1>10 DEF IInv, GoesOn, Moved

(* A request that is refused changes nothing *)
LEMMA StepRefuse == IInv /\ (RefuseDead \/ Elevate) =>
    /\ IInv'
    /\ RefuseDead => Fails
    /\ Elevate => Promise!Refused
<1> SUFFICES ASSUME IInv, RefuseDead \/ Elevate
             PROVE  IInv' /\ (RefuseDead => Fails) /\ (Elevate => Promise!Refused)
    OBVIOUS
<1>0. TypeOK /\ CallInv /\ DownInv /\ UpInv
      /\ ChoiceInv /\ StatusInv /\ ProxyInv /\ BeforeInv
    BY DEF IInv
<1>1. /\ call.at = "apply" /\ call' = Idle /\ answer' \in {"failed", "elevate"}
      /\ UNCHANGED <<root, eng, status, box, inst, open, sysproxy, torn>>
    BY DEF RefuseDead, Elevate, Returns
<1>2. call' \in Calls /\ call'.at = "idle" /\ CallInv' /\ ChoiceInv' /\ BeforeInv'
    BY <1>1, IdleFacts
<1>3. TypeOK'
    BY <1>0, <1>1, <1>2 DEF TypeOK
<1>4. DownInv'
    BY <1>0, <1>1, <1>2 DEF DownInv
<1>5. UpInv'
    BY <1>0, <1>1, <1>2 DEF UpInv
<1>6. StatusInv'
    BY <1>0, <1>1, <1>2 DEF StatusInv
<1>7. ProxyInv'
    BY <1>0, <1>1, <1>2 DEF ProxyInv
<1>8. /\ call'.asked = None /\ call.asked \in Specs \cup {Off}
      /\ Connection' = Connection /\ Connection \in {call.before, None}
    BY <1>0, <1>1, IdleFacts DEF CallInv, Connection, BeforeInv
<1>9. RefuseDead => Fails
    BY <1>1, <1>2, <1>8 DEF RefuseDead, Fails, Returns
<1>10. Connection = call.before
    BY <1>0, <1>1 DEF BeforeInv
<1>11. Elevate => Promise!Refused
    BY <1>1, <1>2, <1>8, <1>10 DEF Elevate, Returns, Promise!Refused, Promise!Answered,
        Promise!Specs, Specs, Asked
<1> QED BY <1>2, <1>3, <1>4, <1>5, <1>6, <1>7, <1>9, <1>11 DEF IInv

(* Choose finds out what ChoiceInv says *)
LEMMA StepChoose == IInv /\ Choose => IInv' /\ GoesOn
<1> SUFFICES ASSUME IInv, Choose PROVE IInv' /\ GoesOn
    OBVIOUS
<1> USE EngineAssumption
<1>0. TypeOK /\ CallInv /\ DownInv /\ UpInv
      /\ ChoiceInv /\ StatusInv /\ ProxyInv /\ BeforeInv
    BY DEF IInv
<1>1. /\ call.at = "apply" /\ call.asked \in Specs
      /\ UNCHANGED <<root, eng, status, box, inst, open, sysproxy, answer, torn>>
    BY <1>0 DEF Choose, CallInv, Asked
<1>3. CASE ~box.up
    <2>1. Moved /\ call'.at = "start"
        BY <1>0, <1>3 DEF Choose, GoesTo, Moved, TypeOK, Calls, Steps
    <2>2. TypeOK'
        BY <1>0, <1>1, <2>1 DEF TypeOK, Moved
    <2>3. CallInv'
        BY <1>1, <2>1 DEF CallInv, Moved
    <2>4. DownInv' /\ UpInv'
        BY <1>0, <1>1, <1>3, <2>1 DEF DownInv, UpInv
    <2>5. ChoiceInv' /\ StatusInv' /\ ProxyInv' /\ BeforeInv'
        BY <1>0, <1>1, <1>3, <2>1 DEF ChoiceInv, StatusInv, ProxyInv, BeforeInv
    <2> QED BY <1>1, <2>1, <2>2, <2>3, <2>4, <2>5 DEF IInv, GoesOn, Moved
<1>4. CASE box.up
    <2>1. /\ call' \in Calls /\ call'.asked = call.asked /\ call'.before = call.before
          /\ call'.at \in {"disable", "swap", "tunAdd", "tunRemove"}
          /\ call'.at = "disable" => call'.next = "start"
        BY <1>0, <1>4 DEF Choose, GoesTo, TypeOK, Calls, Steps
    <2>2. TypeOK'
        BY <1>0, <1>1, <2>1 DEF TypeOK
    <2>3. CallInv'
        BY <1>1, <2>1 DEF CallInv
    <2>4. DownInv' /\ UpInv'
        BY <1>0, <1>1, <1>4, <2>1 DEF DownInv, UpInv
    <2>5. ChoiceInv'
        <3> SUFFICES ASSUME call'.at # "disable" PROVE ChoiceInv'
            BY <2>1 DEF ChoiceInv
        <3>1. ~StartsOver(call.asked)
            BY <1>4, <2>1 DEF Choose, Asked, GoesTo, TypeOK, Calls
        <3>2. /\ box.core = call.asked.core
              /\ call.asked.tun => box.tunnel = call.asked.tunnel
              /\ box.proxying = WantsProxy(call.asked)
              /\ ~(NodeChanged(call.asked) /\ TunChanged(call.asked))
            BY <3>1 DEF StartsOver, Rebuilds
        <3>3. \/ call'.at = "swap" /\ NodeChanged(call.asked)
              \/ /\ ~NodeChanged(call.asked) /\ TunChanged(call.asked)
                 /\ call'.at = IF call.asked.tun THEN "tunAdd" ELSE "tunRemove"
            BY <1>0, <1>4, <2>1 DEF Choose, Asked, GoesTo, TypeOK, Calls
        <3>4. box.tun \in BOOLEAN /\ call.asked.tun \in BOOLEAN
            BY <1>0, <1>1 DEF TypeOK, Boxes, Specs
        <3>5. CASE call'.at = "swap" /\ NodeChanged(call.asked)
            <4>1. box.node # call.asked.node /\ box.tun = call.asked.tun
                BY <3>2, <3>5 DEF NodeChanged, TunChanged
            <4> QED BY <1>1, <2>1, <3>2, <3>5, <4>1 DEF ChoiceInv, WantsProxy
        <3>6. CASE /\ ~NodeChanged(call.asked) /\ TunChanged(call.asked)
                   /\ call'.at = IF call.asked.tun THEN "tunAdd" ELSE "tunRemove"
            <4>1. /\ box.node = call.asked.node /\ box.tun # call.asked.tun
                  /\ call'.at = IF call.asked.tun THEN "tunAdd" ELSE "tunRemove"
                BY <3>6 DEF NodeChanged, TunChanged
            <4> QED BY <1>1, <2>1, <3>2, <3>4, <4>1 DEF ChoiceInv, WantsProxy
        <3> QED BY <3>3, <3>5, <3>6
    <2>6. StatusInv'
        BY <1>0, <1>1, <1>4, <2>1 DEF StatusInv
    <2>7. ProxyInv' /\ BeforeInv'
        BY <1>0, <1>1, <1>4, <2>1 DEF ProxyInv, BeforeInv, Connection
    <2> QED BY <1>1, <2>1, <2>2, <2>3, <2>4, <2>5, <2>6, <2>7 DEF IInv, GoesOn
<1> QED BY <1>3, <1>4

(* A second attempt, with the inbound created *)
LEMMA StepTunBusy == IInv /\ TunBusy => IInv' /\ GoesOn
<1> SUFFICES ASSUME IInv, TunBusy PROVE IInv' /\ GoesOn
    OBVIOUS
<1> USE EngineAssumption
<1>0. TypeOK /\ CallInv /\ DownInv /\ UpInv
      /\ ChoiceInv /\ StatusInv /\ ProxyInv /\ BeforeInv
    BY DEF IInv
<1>1. /\ call.at = "tunAdd" /\ Moved /\ call'.at = "tunAdd"
      /\ UNCHANGED <<root, eng, status, box, open, sysproxy, answer, torn>>
    BY <1>0 DEF TunBusy, TypeOK, Calls, Moved
<1>2. /\ inst' \in Instances /\ inst'.inbound = Created /\ inst'.live = inst.live
      /\ inst'.core = inst.core /\ inst'.current = inst.current /\ inst'.via = inst.via
    BY <1>0 DEF TunBusy, TypeOK, Instances, Created, Boxes
<1>3. TypeOK'
    BY <1>0, <1>1, <1>2 DEF TypeOK, Moved
<1>4. CallInv'
    BY <1>0, <1>1, <1>2 DEF CallInv, Moved
<1>5. box.up
    BY <1>0, <1>1 DEF DownInv
<1>6. DownInv'
    BY <1>1, <1>5 DEF DownInv
<1>7. UpInv'
    BY <1>0, <1>1, <1>2, <1>5 DEF UpInv, Moved, Created
<1>8. ChoiceInv' /\ StatusInv' /\ ProxyInv'
    BY <1>0, <1>1, <1>2 DEF ChoiceInv, StatusInv, ProxyInv, Moved, WantsProxy
<1>9. BeforeInv'
    <2>1. ~box.tun /\ ~inst.live /\ ~torn
        BY <1>0, <1>1, <1>5 DEF UpInv, ChoiceInv
    <2>2. Connection' = Connection
        BY <1>1, <1>2, <1>5, <2>1 DEF Connection
    <2> QED BY <1>0, <1>1, <1>5, <2>2 DEF BeforeInv, Moved
<1> QED BY <1>1, <1>3, <1>4, <1>6, <1>7, <1>8, <1>9 DEF IInv, GoesOn, Moved

(* The system no longer points to the instance *)
LEMMA StepDisable == IInv /\ Disable => IInv' /\ GoesOn
<1> SUFFICES ASSUME IInv, Disable PROVE IInv' /\ GoesOn
    OBVIOUS
<1> USE EngineAssumption
<1>0. TypeOK /\ CallInv /\ DownInv /\ UpInv
      /\ ChoiceInv /\ StatusInv /\ ProxyInv /\ BeforeInv
    BY DEF IInv
<1>1. /\ call.at = "disable" /\ Moved /\ call'.at = "stop"
      /\ UNCHANGED <<root, eng, status, box, inst, open, answer, torn>>
    BY <1>0 DEF Disable, GoesTo, TypeOK, Calls, Moved, Steps
<1>2. sysproxy' \in {"off", "stuck"}
    BY <1>0, <1>1 DEF Disable, TypeOK, ProxyInv
<1>3. TypeOK'
    BY <1>0, <1>1, <1>2 DEF TypeOK, Moved
<1>4. CallInv'
    BY <1>0, <1>1 DEF CallInv, Moved
<1>5. DownInv' /\ UpInv'
    BY <1>0, <1>1 DEF DownInv, UpInv, Moved
<1>6. ChoiceInv' /\ StatusInv' /\ ProxyInv' /\ BeforeInv'
    BY <1>0, <1>1, <1>2 DEF ChoiceInv, StatusInv, ProxyInv, BeforeInv, Connection, Moved
<1> QED BY <1>1, <1>3, <1>4, <1>5, <1>6 DEF IInv, GoesOn, Moved

(* After a stop, a start follows or nothing *)
LEMMA StepStopped == IInv /\ Stopped => IInv' /\ (GoesOn \/ Promise!Granted)
<1> SUFFICES ASSUME IInv, Stopped PROVE IInv' /\ (GoesOn \/ Promise!Granted)
    OBVIOUS
<1> USE EngineAssumption
<1>0. TypeOK /\ CallInv /\ DownInv /\ UpInv
      /\ ChoiceInv /\ StatusInv /\ ProxyInv /\ BeforeInv
    BY DEF IInv
<1>1. /\ call.at = "stop" /\ inst' = NoInstance /\ open' = {} /\ inst' \in Instances
      /\ torn' = FALSE /\ UNCHANGED <<root, sysproxy, eng, status>>
      /\ box' \in Boxes /\ ~box'.up /\ ~box'.tun /\ ~box'.proxying
    BY <1>0 DEF Stopped, Closes, TypeOK, Boxes, Instances, NoInstance
<1>2. CASE call.next = "start"
    <2>1. Moved /\ call'.at = "start" /\ answer' = answer /\ call.asked \in Specs
        BY <1>0, <1>1, <1>2 DEF Stopped, GoesTo, Moved, TypeOK, Calls, Steps, CallInv
    <2>2. TypeOK'
        BY <1>0, <1>1, <2>1 DEF TypeOK, Moved
    <2>3. CallInv' /\ DownInv' /\ UpInv'
        BY <1>1, <2>1 DEF CallInv, DownInv, UpInv, Moved
    <2>4. ChoiceInv' /\ StatusInv' /\ ProxyInv' /\ BeforeInv'
        BY <1>0, <1>1, <2>1 DEF ChoiceInv, StatusInv, ProxyInv, BeforeInv
    <2> QED BY <1>1, <2>1, <2>2, <2>3, <2>4 DEF IInv, GoesOn, Moved
<1>3. CASE call.next # "start"
    <2>1. call' = Idle /\ answer' = "ok"
        BY <1>3 DEF Stopped, Returns
    <2>2. call' \in Calls /\ call'.at = "idle" /\ CallInv' /\ ChoiceInv' /\ BeforeInv'
        BY <2>1, IdleFacts
    <2>3. call.asked = Off
        BY <1>0, <1>1, <1>3 DEF CallInv
    <2>4. TypeOK'
        BY <1>0, <1>1, <2>1, <2>2 DEF TypeOK
    <2>5. DownInv' /\ UpInv'
        BY <1>1, <2>2 DEF DownInv, UpInv
    <2>6. ~eng' /\ status' = None
        BY <1>0, <1>1, <2>3 DEF StatusInv
    <2>7. StatusInv' /\ ProxyInv'
        BY <1>0, <1>1, <2>2, <2>6 DEF StatusInv, ProxyInv
    <2>8. Promise!Granted
        BY <1>1, <2>1, <2>2, <2>3, IdleFacts DEF Promise!Granted, Promise!Answered, Connection
    <2> QED BY <2>2, <2>4, <2>5, <2>7, <2>8 DEF IInv
<1> QED BY <1>2, <1>3

(* Initially there is no box *)
LEMMA Initially == Init => IInv
<1> SUFFICES ASSUME Init PROVE IInv
    OBVIOUS
<1> USE EngineAssumption DEF Init
<1>1. call \in Calls /\ call.at = "idle" /\ CallInv /\ ChoiceInv /\ BeforeInv
    BY DEF Calls, Idle, NewCall, Steps, CallInv, ChoiceInv, BeforeInv
<1>2. TypeOK
    BY <1>1 DEF TypeOK, Boxes, NewBox, Instances, NoInstance
<1>3. DownInv /\ UpInv /\ StatusInv /\ ProxyInv
    BY <1>1 DEF DownInv, UpInv, StatusInv, ProxyInv, NewBox
<1> QED BY <1>1, <1>2, <1>3 DEF IInv

(* Every step keeps the invariant, and is one to Connection or none *)
LEMMA Step ==
    ASSUME IInv, Next
    PROVE  /\ IInv'
           /\ \/ Promise!Ask \/ Promise!Granted \/ Promise!Refused
              \/ GoesOn \/ Grants \/ Fails
<1>1. CASE \E spec \in Specs \cup {Off} : Ask(spec)
    BY <1>1, StepAsk
<1>2. CASE Die \/ StartBusy
    <2>1. /\ call.at # "idle" /\ call'.at = call.at /\ Moved
          /\ UNCHANGED <<root, eng, status, box, inst, open, sysproxy, answer, torn>>
        <3>1. call \in Calls
            BY DEF IInv, TypeOK
        <3>2. CASE Die
            BY <3>1, <3>2 DEF Die, Calls, Moved
        <3>3. CASE StartBusy
            BY <3>1, <3>3 DEF StartBusy, Calls, Moved
        <3> QED BY <1>2, <3>2, <3>3
    <2> QED BY <2>1, StepSame
<1>3. CASE RefuseDead \/ Elevate
    BY <1>3, StepRefuse
<1>4. CASE Disconnect \/ Choose \/ Nothing
    BY <1>4, StepDisconnect, StepChoose, StepNothing
<1>5. CASE StartFails \/ Started \/ StartedLate \/ StartedInTime \/ EnableFails \/ Enabled
    BY <1>5, StepStartFails, StepStarted, StepStartedLate, StepStartedInTime,
       StepEnableFails, StepEnabled
<1>6. CASE Swaps
    BY <1>6, StepRuntimeFails, StepRuntimeStarts, StepReplaced, StepReplaceFails,
       StepSelected, StepSelectFails, StepCloseOld DEF Swaps
<1>7. CASE Tuns
    BY <1>7, StepTunBusy, StepTunFails, StepTunAdded, StepTunStuck, StepTunRemoved DEF Tuns
<1>8. CASE Stops
    BY <1>8, StepDisable, StepCloseFails, StepStopped DEF Stops
<1> QED BY <1>1, <1>2, <1>3, <1>4, <1>5, <1>6, <1>7, <1>8 DEF Next, Applies, Starts

(* Nothing that the invariant speaks of changes in a stutter *)
LEMMA Stutter == IInv /\ UNCHANGED vars => IInv'
BY DEF vars, IInv, TypeOK, CallInv, DownInv, UpInv, ChoiceInv, StatusInv, ProxyInv,
       BeforeInv, Connection

(* The invariant holds whatever fails (all of Engine) *)
THEOREM EngineInvariant == Spec => []IInv
<1>1. IInv /\ [Next]_vars => IInv'
    BY Step, Stutter
<1> QED BY Initially, <1>1, PTL DEF Spec

(* Types (all of Engine) *)
THEOREM EngineTypes == Spec => []TypeOK
<1>1. IInv => TypeOK
    BY DEF IInv
<1> QED BY EngineInvariant, <1>1, PTL

(* Traffic goes to a node that is open, in the middle of a switch too (swap) *)
THEOREM TrafficTheorem == Spec => []TrafficFlows
<1>1. IInv => TrafficFlows
    <2> SUFFICES ASSUME IInv PROVE TrafficFlows
        OBVIOUS
    <2>0. TypeOK /\ CallInv /\ DownInv /\ UpInv
        BY DEF IInv
    <2>1. CASE box.up
        BY <2>0, <2>1 DEF UpInv, TrafficFlows
    <2>2. CASE ~box.up
        BY <2>0, <2>2 DEF DownInv, TrafficFlows, Fresh, NoInstance
    <2> QED BY <2>1, <2>2
<1> QED BY EngineInvariant, <1>1, PTL

(* Between calls the status is what runs, and nothing else is open (apply) *)
THEOREM StatusTheorem == Spec => []StatusTrue
<1>1. IInv => StatusTrue
    <2> SUFFICES ASSUME IInv, call.at = "idle" PROVE StatusTrue
        BY DEF StatusTrue
    <2>0. DownInv /\ UpInv /\ StatusInv
        BY DEF IInv
    <2>1. CASE box.up
        BY <2>0, <2>1 DEF UpInv, StatusInv, StatusTrue
    <2>2. CASE ~box.up
        BY <2>0, <2>2 DEF DownInv, StatusInv, StatusTrue
    <2> QED BY <2>1, <2>2
<1> QED BY EngineInvariant, <1>1, PTL

(* The system never uses an instance that is gone (start, Stop) *)
THEOREM ProxyTheorem == Spec => []ProxyReaches
<1>1. IInv => ProxyReaches
    <2> SUFFICES ASSUME IInv PROVE ProxyReaches
        OBVIOUS
    <2>0. TypeOK /\ DownInv /\ UpInv /\ ProxyInv
        BY DEF IInv
    <2>1. sysproxy = "on" => box.proxying
        BY <2>0 DEF ProxyInv
    <2>2. box.proxying => box.up
        BY <2>0 DEF DownInv
    <2>3. box.up => inst # NoInstance
        BY <2>0, EngineAssumption DEF UpInv, NoInstance
    <2> QED BY <2>0, <2>1, <2>2, <2>3 DEF ProxyReaches, ProxyInv
<1> QED BY EngineInvariant, <1>1, PTL

(* The service keeps its promise to the core, step by step (Service.apply) *)
THEOREM PromiseTheorem == Spec => ImplementsConnection
<1>1. Init => Promise!Init
    BY DEF Init, Promise!Init, Idle, NewCall, Connection, NewBox
<1>2. IInv /\ [Next]_vars => [Promise!Next]_(Promise!vars)
    <2> SUFFICES ASSUME IInv, [Next]_vars PROVE [Promise!Next]_(Promise!vars)
        OBVIOUS
    <2>1. CASE UNCHANGED vars
        BY <2>1 DEF vars, Promise!vars, Connection
    <2>2. CASE Next
        <3>1. CASE Promise!Ask \/ Promise!Granted \/ Promise!Refused
            BY <3>1 DEF Promise!Next
        <3>2. CASE GoesOn
            BY <3>2 DEF GoesOn, Promise!vars
        <3>3. CASE Grants
            <4>1. call.asked # None /\ call.asked # Off
                BY <3>3, EngineAssumption DEF Grants
            <4> QED BY <3>3, <4>1 DEF Grants, Promise!Next, Promise!Granted, Promise!Answered
        <3>4. CASE Fails
            <4>1. call.asked # None
                BY <3>4, EngineAssumption DEF Fails
            <4> QED BY <3>4, <4>1 DEF Fails, Promise!Next, Promise!Failed, Promise!Answered
        <3> QED BY <2>2, <3>1, <3>2, <3>3, <3>4, Step
    <2> QED BY <2>1, <2>2
<1> QED BY EngineInvariant, <1>1, <1>2, PTL DEF Spec, ImplementsConnection, Promise!Spec
=============================================================================
