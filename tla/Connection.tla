----------------------------- MODULE Connection -----------------------------
(***************************************************************************)
(* What connection.Service promises the core: one connection at most; a call *)
(* that succeeds leaves what it asked for, one that fails leaves what there  *)
(* was or nothing, one that needs a privilege leaves what there was.         *)
(***************************************************************************)
CONSTANTS
    Nodes,
    Cores,     \* settings that any instance is built from
    Tunnels,   \* settings that only the TUN inbound is built from
    None,      \* no connection, no request
    Off        \* the request to have none

VARIABLES
    running,   \* the connection there is
    asked,     \* the request that is being served
    answer     \* what the last one was told

vars == <<running, asked, answer>>

Specs == [node : Nodes, core : Cores, tunnel : Tunnels, tun : BOOLEAN, system : BOOLEAN]

(* what of a request can be told from the outside *)
Effect(spec) ==
    [node   |-> spec.node,
     core   |-> spec.core,
     tunnel |-> IF spec.tun THEN spec.tunnel ELSE None,
     system |-> ~spec.tun /\ spec.system]

Init == running = None /\ asked = None /\ answer = "none"

Ask == /\ asked = None
       /\ asked' \in Specs \cup {Off}
       /\ answer' = "none"
       /\ UNCHANGED running

Answered(verdict) == answer' = verdict /\ asked' = None

Granted == /\ asked # None
           /\ running' = IF asked = Off THEN None ELSE Effect(asked)
           /\ Answered("ok")

Failed == /\ asked # None
          /\ running' \in {running, None}
          /\ Answered("failed")

Refused == /\ asked \in Specs /\ asked.tun
           /\ UNCHANGED running
           /\ Answered("elevate")

Next == Ask \/ Granted \/ Failed \/ Refused

Spec == Init /\ [][Next]_vars
=============================================================================
