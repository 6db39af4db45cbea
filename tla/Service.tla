------------------------------- MODULE Service -------------------------------
(***************************************************************************)
(* What the daemon promises its user of the one connection.  A switch is a    *)
(* transaction over the engine and the file: it is done in both, or it waits  *)
(* for the privilege with the engine untouched, or it is undone, and only an  *)
(* undoing that fails leaves a connection that is not the stored one.  A      *)
(* stored connection runs until it is switched or forgotten, or the process   *)
(* ends, and a start brings back what is stored and nothing else.             *)
(***************************************************************************)
CONSTANTS Nodes, None

VARIABLES
    live,    \* the connection that runs, or None
    stored,  \* the one a start brings back, and the mode of the next
    asked,   \* the one that waits for the privilege, or None
    switch,  \* the switch that is under way, or None: its step, what it goes
             \* back to, and what the engine is called for
    torn,    \* the last undoing failed
    up       \* the daemon is done with its start

vars == <<live, stored, asked, switch, torn, up>>

Running == [ref : Nodes, tun : BOOLEAN]

Init == /\ live = None /\ stored = [ref |-> None, tun |-> FALSE] /\ asked = None
        /\ switch = None /\ torn = FALSE /\ up = FALSE

-----------------------------------------------------------------------------
(* A switch *)

Switches == /\ up /\ switch = None
            /\ \E wants \in Running :
                  switch' = [step |-> "switch", before |-> live, goal |-> wants]
            /\ UNCHANGED <<live, stored, asked, torn, up>>

\* The engine: the connection it is called for, or none
Moves == /\ switch # None
         /\ live' \in {switch.goal, None}
         /\ UNCHANGED <<stored, asked, switch, torn, up>>

Done == /\ switch # None /\ switch.step = "switch"
        /\ live = switch.goal
        /\ stored' = live /\ asked' = None
        /\ switch' = None /\ torn' = FALSE
        /\ UNCHANGED <<live, up>>

\* What was live before the switch is what is stored after it
Before == IF switch.before = None THEN stored ELSE switch.before

Waits == /\ switch # None /\ switch.step = "switch"
         /\ live = switch.before /\ switch.goal.tun
         /\ stored' = Before /\ asked' = switch.goal
         /\ switch' = None /\ torn' = FALSE
         /\ UNCHANGED <<live, up>>

GivesUp == /\ switch # None /\ switch.step = "switch"
           /\ \/ UNCHANGED <<stored, asked>>
              \/ stored' = Before /\ asked' = None
           /\ switch' = IF live = switch.before THEN None
                        ELSE [step |-> "rollback", before |-> switch.before,
                              goal |-> switch.before]
           /\ UNCHANGED <<live, torn, up>>

UndoingFails == /\ switch # None /\ switch.step = "rollback"
                /\ live # None /\ torn' = TRUE
                /\ UNCHANGED <<live, stored, asked, switch, up>>

Undone == /\ switch # None /\ switch.step = "rollback"
          /\ live \in {switch.before, None} \/ torn
          /\ switch' = None
          /\ UNCHANGED <<live, stored, asked, torn, up>>

-----------------------------------------------------------------------------
(* Other changes *)

\* The mode of the next connection, or the one that runs once more
Mode == /\ up /\ switch = None
        /\ IF live = None
           THEN \E tun \in BOOLEAN : stored' = [stored EXCEPT !.tun = tun]
           ELSE stored' = live
        /\ asked' = None /\ torn' = FALSE
        /\ UNCHANGED <<live, switch, up>>

Forgetting == /\ \/ stored' = stored
                 \/ up /\ stored' = [stored EXCEPT !.ref = None]
              /\ asked' \in {asked, None}

Forgets == /\ switch = None
           /\ Forgetting
           /\ UNCHANGED <<live, switch, torn, up>>

\* A refreshed subscription has its connection started again, as it is now
Renews == /\ up /\ switch = None
          /\ live # None
          /\ Forgetting
          /\ switch' = [step |-> "renew", before |-> live, goal |-> live]
          /\ UNCHANGED <<live, torn, up>>

Renewed == /\ switch # None /\ switch.step = "renew"
           /\ switch' = None
           /\ UNCHANGED <<live, stored, asked, torn, up>>

\* Only a connection that is not the stored one is closed
Closes == /\ up /\ switch = None
          /\ live # None /\ live # stored
          /\ live' = None
          /\ UNCHANGED <<stored, asked, switch, torn, up>>

-----------------------------------------------------------------------------
(* Starts and ends *)

Connects == /\ switch = None /\ live = None
            /\ live' \in Running \cap {stored, asked}
            /\ up => live' = stored
            /\ UNCHANGED <<stored, asked, switch, torn, up>>

\* The start has tried the connection that waited
Tried == /\ ~up /\ asked # None
         /\ live \in {asked, None}
         /\ stored' = IF live = asked THEN asked ELSE stored
         /\ asked' = None
         /\ UNCHANGED <<live, switch, torn, up>>

Serves == ~up /\ up' = TRUE /\ UNCHANGED <<live, stored, asked, switch, torn>>

Ends == /\ live' = None /\ switch' = None /\ torn' \in {torn, FALSE} /\ up' = FALSE
        /\ UNCHANGED <<stored, asked>>

Next == \/ Switches \/ Moves \/ Done \/ Waits \/ GivesUp \/ UndoingFails \/ Undone
        \/ Mode \/ Forgets \/ Renews \/ Renewed \/ Closes
        \/ Connects \/ Tried \/ Serves \/ Ends

Spec == Init /\ [][Next]_vars
=============================================================================
