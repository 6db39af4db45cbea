------------------------------- MODULE Engine -------------------------------
(***************************************************************************)
(* One engine call after the other: connection.Service, the box it drives    *)
(* (engine/adapter.go) and what runs in the box: a sing-box instance with a  *)
(* selector before the runtime of a node, and a TUN inbound that comes and   *)
(* goes.  Every step that may fail in sing-box or in the system is a step    *)
(* here, and so are the undo steps the code takes then.                      *)
(*                                                                         *)
(* Calls never overlap: Core makes them inside a change.  Their caller may   *)
(* give up at any point.                                                   *)
(***************************************************************************)
EXTENDS Naturals

CONSTANTS
    Nodes,     \* nodes; another configuration under the same ID is another node
    Insecure,  \* those with unverified TLS
    Cores,     \* settings that any instance is built from
    Tunnels,   \* settings that only matter to TUN
    None,      \* no node, no settings, no connection, no request
    Off        \* the request to have no connection

Specs == [node : Nodes, core : Cores, tunnel : Tunnels, tun : BOOLEAN, system : BOOLEAN]

ASSUME EngineAssumption ==
    /\ Insecure \subseteq Nodes
    /\ None \notin Nodes \cup Tunnels
    /\ Off # None /\ {Off, None} \cap Specs = {}

VARIABLES
    root,      \* whether the process may open a TUN device
    eng,       \* Service.eng # nil
    status,    \* Service.status: the node and the mode
    box,       \* the fields of box
    inst,      \* the instance it points to
    open,      \* the node runtimes that have not been closed
    sysproxy,  \* the system's proxy setting: "on" points to the instance, and so
               \* does "stuck", which could not be switched off
    call,      \* the call in progress
    answer,    \* what the last call returned
    torn       \* history: closing the TUN failed, and the box still counts on it

vars == <<root, eng, status, box, inst, open, sysproxy, call, answer, torn>>

(* up: inst # nil; proxying: systemProxy # nil; core, tunnel: settings *)
Boxes == [up : BOOLEAN, node : Nodes \cup {None}, core : Cores \cup {None},
          tunnel : Tunnels \cup {None}, tun : BOOLEAN, proxying : BOOLEAN]

NewBox == [up |-> FALSE, node |-> None, core |-> None, tunnel |-> None,
           tun |-> FALSE, proxying |-> FALSE]

(* current: proxyOutbound.current; registered: the runtime under proxy-node; *)
(* via: the runtime the selector sends traffic to; inbound: the options of   *)
(* the TUN inbound, if it was created; live: managedTun.current # nil         *)
Instances == [core : Cores \cup {None}, current : Nodes \cup {None},
              registered : Nodes \cup {None}, via : Nodes \cup {None},
              inbound : Tunnels \cup {None}, live : BOOLEAN]

NoInstance == [core |-> None, current |-> None, registered |-> None, via |-> None,
               inbound |-> None, live |-> FALSE]

Steps == {"idle", "apply", "start", "started", "enable", "replace", "select", "close",
          "swap", "tunAdd", "tunRemove", "disable", "stop"}

(* next: what follows a stop; failed: so has a step of it; before: the       *)
(* connection there was                                                     *)
NewCall(at, spec, before) ==
    [at |-> at, asked |-> spec, next |-> "idle", failed |-> FALSE, dead |-> FALSE,
     tries |-> 0, before |-> before]

Idle == NewCall("idle", None, None)

Init ==
    /\ root \in BOOLEAN
    /\ eng = FALSE
    /\ status = None
    /\ box = NewBox
    /\ inst = NoInstance
    /\ open = {}
    /\ sysproxy = "off"
    /\ call = Idle
    /\ answer = "none"
    /\ torn = FALSE

----------------------------------------------------------------------------
(* Helpers *)

Asked == call.asked

(* a system proxy is for an instance without TUN only *)
WantsProxy(spec) == ~spec.tun /\ spec.system

(* Sensitivity: TUN settings do not matter *)
RebuildsCore(spec) == box.core # spec.core

(* rebuilds: the settings that the running instance cannot take over *)
Rebuilds(spec) ==
    \/ box.core # spec.core
    \/ spec.tun /\ box.tunnel # spec.tunnel

NodeChanged(spec) == box.node # spec.node

TunChanged(spec) == box.tun # spec.tun

StartsOver(spec) ==
    \/ Rebuilds(spec)
    \/ NodeChanged(spec) /\ TunChanged(spec)
    \/ box.proxying # WantsProxy(spec)

(* the connection as it runs; while the box counts on a TUN whose closing    *)
(* failed, its word is taken for it                                         *)
Connection ==
    IF ~box.up THEN None
    ELSE LET tun == IF torn THEN box.tun ELSE inst.live
         IN  [node |-> inst.via, core |-> inst.core,
              tunnel |-> IF tun THEN inst.inbound ELSE None,
              system |-> box.proxying]

GoesTo(at) == call' = [call EXCEPT !.at = at]

(* the call is over; after an error Service.apply looks whether the box runs *)
Returns(verdict) == call' = Idle /\ answer' = verdict

(* Sensitivity: the status stays, whatever became of the box *)
ReturnsErrorOnly(running) ==
    /\ Returns("failed")
    /\ eng' = (eng /\ running) /\ UNCHANGED status

ReturnsError(running) ==
    /\ Returns("failed")
    /\ eng' = (eng /\ running)
    /\ status' = IF running THEN status ELSE None

ReturnsOk ==
    /\ Returns("ok")
    /\ eng' = TRUE
    /\ status' = [node |-> Asked.node, tun |-> Asked.tun]

----------------------------------------------------------------------------
(* Service.apply, Service.Disconnect and Shutdown *)

Ask(spec) ==
    /\ call.at = "idle"
    /\ call' = NewCall("apply", spec, Connection)
    /\ answer' = "none"
    /\ UNCHANGED <<root, eng, status, box, inst, open, sysproxy, torn>>

(* the caller gives up, main stops, or a start takes longer than it may *)
Die ==
    /\ call.at # "idle" /\ ~call.dead
    /\ call' = [call EXCEPT !.dead = TRUE]
    /\ UNCHANGED <<root, eng, status, box, inst, open, sysproxy, answer, torn>>

RefuseDead ==
    /\ call.at = "apply"
    /\ call.dead \/ (Asked \in Specs /\ Asked.node \in Insecure)
    /\ Returns("failed")
    /\ UNCHANGED <<root, eng, status, box, inst, open, sysproxy, torn>>

Disconnect ==
    /\ call.at = "apply" /\ Asked = Off
    /\ eng' = FALSE
    /\ status' = None
    /\ GoesTo("disable")
    /\ UNCHANGED <<root, box, inst, open, sysproxy, answer, torn>>

Elevate ==
    /\ call.at = "apply" /\ Asked # Off
    /\ Asked.node \notin Insecure
    /\ Asked.tun /\ ~root
    /\ Returns("elevate")
    /\ UNCHANGED <<root, eng, status, box, inst, open, sysproxy, torn>>

----------------------------------------------------------------------------
(* box.Apply *)

Choose ==
    /\ call.at = "apply" /\ Asked # Off
    /\ Asked.node \notin Insecure
    /\ Asked.tun => root
    /\ \/ ~box.up /\ GoesTo("start")
       \/ /\ box.up /\ StartsOver(Asked)
          /\ call' = [call EXCEPT !.at = "disable", !.next = "start"]
       \/ /\ box.up /\ ~StartsOver(Asked)
          /\ NodeChanged(Asked) /\ GoesTo("swap")
       \/ /\ box.up /\ ~StartsOver(Asked)
          /\ ~NodeChanged(Asked) /\ TunChanged(Asked)
          /\ GoesTo(IF Asked.tun THEN "tunAdd" ELSE "tunRemove")
    /\ UNCHANGED <<root, eng, status, box, inst, open, sysproxy, answer, torn>>

Nothing ==
    /\ call.at = "apply" /\ Asked # Off
    /\ Asked.node \notin Insecure
    /\ Asked.tun => root
    /\ box.up /\ ~StartsOver(Asked) /\ ~NodeChanged(Asked) /\ ~TunChanged(Asked)
    /\ ReturnsOk
    /\ UNCHANGED <<root, box, inst, open, sysproxy, torn>>

----------------------------------------------------------------------------
(* box.start *)

Fresh(spec) ==
    [core |-> spec.core, current |-> spec.node, registered |-> spec.node,
     via |-> spec.node, inbound |-> IF spec.tun THEN spec.tunnel ELSE None,
     live |-> spec.tun]

StartBusy ==
    /\ call.at = "start"
    /\ call.tries < 2
    /\ call' = [call EXCEPT !.tries = @ + 1]
    /\ UNCHANGED <<root, eng, status, box, inst, open, sysproxy, answer, torn>>

StartFails ==
    /\ call.at = "start"
    /\ ReturnsError(box.up)
    /\ UNCHANGED <<root, box, inst, open, sysproxy, torn>>

Started ==
    /\ call.at = "start"
    /\ inst' = Fresh(Asked)
    /\ open' = {Asked.node}
    /\ GoesTo("started")
    /\ UNCHANGED <<root, eng, status, box, sysproxy, answer, torn>>

(* the instance that was started is closed again *)
Discard ==
    /\ inst' = NoInstance
    /\ open' = {}
    /\ ReturnsError(box.up)
    /\ UNCHANGED <<root, box, torn>>

StartedLate ==
    /\ call.at = "started" /\ call.dead
    /\ Discard
    /\ UNCHANGED sysproxy

(* in time; from here on nobody asks whether the caller is still there *)
StartedInTime ==
    /\ call.at = "started" /\ ~call.dead
    /\ GoesTo("enable")
    /\ UNCHANGED <<root, eng, status, box, inst, open, sysproxy, answer, torn>>

(* undone as far as Disable gets *)
EnableFails ==
    /\ call.at = "enable" /\ WantsProxy(Asked)
    /\ sysproxy' \in {"off", "stuck"}
    /\ Discard

Enabled ==
    /\ call.at = "enable"
    /\ sysproxy' = IF WantsProxy(Asked) THEN "on" ELSE sysproxy
    /\ box' = [up |-> TRUE, node |-> Asked.node, core |-> Asked.core,
               tunnel |-> Asked.tunnel, tun |-> Asked.tun, proxying |-> WantsProxy(Asked)]
    /\ ReturnsOk
    /\ UNCHANGED <<root, inst, open, torn>>

----------------------------------------------------------------------------
(* box.swap *)

RuntimeFails ==
    /\ call.at = "swap"
    /\ ReturnsError(box.up)
    /\ UNCHANGED <<root, box, inst, open, sysproxy, torn>>

RuntimeStarts ==
    /\ call.at = "swap"
    /\ open' = open \cup {Asked.node}
    /\ GoesTo("replace")
    /\ UNCHANGED <<root, eng, status, box, inst, sysproxy, answer, torn>>

Replaced ==
    /\ call.at = "replace"
    /\ inst' = [inst EXCEPT !.registered = Asked.node]
    /\ GoesTo("select")
    /\ UNCHANGED <<root, eng, status, box, open, sysproxy, answer, torn>>

(* the old node is registered again, if that can be *)
Restored ==
    /\ \E r \in {inst.current, None} : inst' = [inst EXCEPT !.registered = r]
    /\ open' = open \ {Asked.node}
    /\ ReturnsError(box.up)
    /\ UNCHANGED <<root, box, sysproxy, torn>>

ReplaceFails == call.at = "replace" /\ Restored

SelectFails == call.at = "select" /\ Restored

(* Sensitivity: the old node is closed before the selector has the new one *)
SelectedLate ==
    /\ call.at = "select"
    /\ open' = open \ {inst.current}
    /\ inst' = [inst EXCEPT !.current = Asked.node]
    /\ GoesTo("close")
    /\ UNCHANGED <<root, eng, status, box, sysproxy, answer, torn>>

Selected ==
    /\ call.at = "select"
    /\ inst' = [inst EXCEPT !.via = Asked.node]
    /\ GoesTo("close")
    /\ UNCHANGED <<root, eng, status, box, open, sysproxy, answer, torn>>

CloseOld ==
    /\ call.at = "close"
    /\ inst' = [inst EXCEPT !.current = Asked.node]
    /\ open' = open \ {inst.current}
    /\ box' = [box EXCEPT !.node = Asked.node]
    /\ ReturnsOk
    /\ UNCHANGED <<root, sysproxy, torn>>

----------------------------------------------------------------------------
(* box.tunAdd, box.tunRemove *)

(* created at most once for an instance, with the settings of the box *)
Created == IF inst.inbound = None THEN box.tunnel ELSE inst.inbound

TunBusy ==
    /\ call.at = "tunAdd"
    /\ call.tries = 0
    /\ call' = [call EXCEPT !.tries = 1]
    /\ inst' = [inst EXCEPT !.inbound = Created]
    /\ UNCHANGED <<root, eng, status, box, open, sysproxy, answer, torn>>

TunFails ==
    /\ call.at = "tunAdd"
    /\ inst' \in {inst, [inst EXCEPT !.inbound = Created]}
    /\ ReturnsError(box.up)
    /\ UNCHANGED <<root, box, open, sysproxy, torn>>

TunAdded ==
    /\ call.at = "tunAdd"
    /\ inst' = [inst EXCEPT !.inbound = Created, !.live = TRUE]
    /\ box' = [box EXCEPT !.tun = TRUE]
    /\ ReturnsOk
    /\ UNCHANGED <<root, open, sysproxy, torn>>

(* the device may be gone, yet the box counts on it *)
TunStuck ==
    /\ call.at = "tunRemove"
    /\ inst.live
    /\ inst' = [inst EXCEPT !.live = FALSE]
    /\ torn' = TRUE
    /\ ReturnsError(box.up)
    /\ UNCHANGED <<root, box, open, sysproxy>>

TunRemoved ==
    /\ call.at = "tunRemove"
    /\ inst' = [inst EXCEPT !.live = FALSE]
    /\ box' = [box EXCEPT !.tun = FALSE]
    /\ torn' = FALSE
    /\ ReturnsOk
    /\ UNCHANGED <<root, open, sysproxy>>

----------------------------------------------------------------------------
(* box.Stop *)

(* Sensitivity: the instance goes before the setting that points to it *)
DisableLast ==
    /\ call.at = "disable"
    /\ inst' = NoInstance /\ open' = {}
    /\ GoesTo("stop")
    /\ UNCHANGED <<root, eng, status, box, sysproxy, answer, torn>>

(* first the system's proxy setting, then what it points to *)
Disable ==
    /\ call.at = "disable"
    /\ \/ /\ sysproxy' = IF box.proxying THEN "off" ELSE sysproxy
          /\ GoesTo("stop")
       \/ /\ box.proxying
          /\ sysproxy' = "stuck"
          /\ call' = [call EXCEPT !.at = "stop", !.failed = TRUE]
    /\ UNCHANGED <<root, eng, status, box, inst, open, answer, torn>>

(* whatever closing returns, everything is forgotten *)
Closes ==
    /\ call.at = "stop"
    /\ inst' = NoInstance
    /\ open' = {}
    /\ box' = [box EXCEPT !.up = FALSE, !.tun = FALSE, !.proxying = FALSE]
    /\ torn' = FALSE
    /\ UNCHANGED <<root, sysproxy>>

CloseFails ==
    /\ Closes
    /\ box.up
    /\ ReturnsError(FALSE)

Stopped ==
    /\ Closes
    /\ ~call.failed
    /\ IF call.next = "start"
       THEN GoesTo("start") /\ UNCHANGED <<eng, status, answer>>
       ELSE Returns("ok") /\ UNCHANGED <<eng, status>>

----------------------------------------------------------------------------

Applies == RefuseDead \/ Disconnect \/ Elevate \/ Choose \/ Nothing

Starts ==
    \/ StartBusy \/ StartFails \/ Started \/ StartedLate \/ StartedInTime
    \/ EnableFails \/ Enabled

Swaps ==
    \/ RuntimeFails \/ RuntimeStarts \/ Replaced \/ ReplaceFails
    \/ Selected \/ SelectFails \/ CloseOld

Tuns == TunBusy \/ TunFails \/ TunAdded \/ TunStuck \/ TunRemoved

Stops == Disable \/ CloseFails \/ Stopped

Next ==
    \/ \E spec \in Specs \cup {Off} : Ask(spec)
    \/ Die
    \/ Applies \/ Starts \/ Swaps \/ Tuns \/ Stops

Spec == Init /\ [][Next]_vars

----------------------------------------------------------------------------
(* Properties *)

Connections == [node : Nodes, core : Cores, tunnel : Tunnels \cup {None}, system : BOOLEAN]

Calls == [at : Steps, asked : Specs \cup {Off, None}, next : {"idle", "start"},
          failed : BOOLEAN, dead : BOOLEAN, tries : 0..2,
          before : Connections \cup {None}]

TypeOK ==
    /\ root \in BOOLEAN
    /\ eng \in BOOLEAN
    /\ status \in [node : Nodes, tun : BOOLEAN] \cup {None}
    /\ box \in Boxes
    /\ inst \in Instances
    /\ open \subseteq Nodes
    /\ sysproxy \in {"off", "on", "stuck"}
    /\ call \in Calls
    /\ answer \in {"none", "ok", "failed", "elevate"}
    /\ torn \in BOOLEAN

(* Traffic goes to a node that is open, in the middle of a switch too: the   *)
(* old one is closed after the selector has the new one (swap).              *)
TrafficFlows == inst.via # None => inst.via \in open

(* Between calls the status is what the box runs, and nothing else is open,  *)
(* whichever step of the last call failed (Service.apply, stop).             *)
StatusTrue ==
    call.at = "idle" =>
        IF box.up
        THEN /\ eng /\ status = [node |-> inst.via, tun |-> box.tun]
             /\ open = {inst.via} /\ inst.current = inst.via
             /\ inst.live <=> box.tun /\ ~torn
        ELSE ~eng /\ status = None /\ open = {} /\ inst = NoInstance

(* As long as the system's proxy setting can be switched off, it never points *)
(* to an instance that is gone (start, Stop).                                *)
ProxyReaches ==
    /\ sysproxy = "on" => inst # NoInstance
    /\ call.at = "idle" => (sysproxy = "on" <=> box.proxying)

(* The service keeps what it promises the core: see Connection. *)
Promise == INSTANCE Connection WITH
    running <- IF call.at = "idle" THEN Connection ELSE call.before,
    asked   <- call.asked

ImplementsConnection == Promise!Spec
=============================================================================
