------------------------------ MODULE Daemons ------------------------------
(***************************************************************************)
(* Several daemon processes and the clients that start, replace and stop      *)
(* them.  One of the processes may have the socket: server.Listen takes the   *)
(* socket's lock, and before it, in a process without privilege, the          *)
(* elevation lock, which a daemon keeps as a reservation while it is          *)
(* replaced by its privileged copy.  A copy is the same process after exec    *)
(* ("exec", Linux) or a helper that the old process starts and waits for      *)
(* ("helper", macOS and Windows).  Locks die with their process; the file of  *)
(* a socket stays.                                                           *)
(*                                                                         *)
(* Sources: daemon/server/server.go, cmd/justrayd/main.go, platform/elevate,   *)
(* platform/lock, ipc/client.go, client/cli/root.go, stop.go and up.go.        *)
(***************************************************************************)
EXTENDS Naturals

CONSTANTS
    Procs,     \* processes, reused once they are gone
    Users,     \* clients that want a connection in TUN mode, or want it no more
    Stoppers,  \* clients that stop the daemon
    None

Clients == Users \cup Stoppers

ASSUME NoneAssumption == None \notin Procs \cup Clients
ASSUME ClientsAssumption == Users \cap Stoppers = {}

VARIABLES
    platform,  \* how a daemon gets its privilege
    sock,      \* who holds socket.lock
    elev,      \* who holds elevation.lock
    starter,   \* who holds client.lock
    path,      \* whose listener the file of the socket is, alive or not
    stored,    \* the connection and the pending request in the state file
    proc,      \* the daemons
    client     \* the clients

vars == <<platform, sock, elev, starter, path, stored, proc, client>>

(* Where main is: Listen ("listen", "holding" the elevation lock, "retry",    *)
(* "locked"), Restore ("bound"), the elevation ("reserve", "elevating"), the  *)
(* service, and the way out ("closing", "closed", "handing" over).           *)
Listens == {"bound", "reserve", "elevating", "serving", "closing"}
Owns    == Listens \cup {"locked", "closed"}
ProcPcs == Owns \cup {"off", "listen", "holding", "retry", "handing"}

(* root: may open a TUN device; old: of another version than the clients;     *)
(* failed: status.Error is set; runs: what the engine runs; restart: a restart *)
(* is requested; next: where main goes when it has closed; refused: for whose  *)
(* request this process was refused the privilege and could not take it out    *)
(* of the file, which the code does not remember and no action reads.         *)
ProcStates == [pc : ProcPcs, root : BOOLEAN, old : BOOLEAN, failed : BOOLEAN,
               runs : Users \cup {None}, restart : BOOLEAN,
               next : {"off", "listen", "handing"}, refused : Users \cup {None}]

Fresh(root, old) ==
    [pc |-> "listen", root |-> root, old |-> old, failed |-> FALSE, runs |-> None,
     restart |-> FALSE, next |-> "off", refused |-> None]
Off == [Fresh(FALSE, FALSE) EXCEPT !.pc = "off"]

(* seen: AwaitConnection met ErrNoDaemon                                     *)
ClientStates == [pc : {"idle", "lock", "ping", "shutdown", "stopping", "spawn", "wait",
                       "ask", "await"},
                 seen : BOOLEAN]
Idle == [pc |-> "idle", seen |-> FALSE]

(* Whose are the connection (Active, with Tun) and the pending request.  A      *)
(* connection in proxy mode needs no privilege and is nobody's here: None.     *)
States == [active : Users \cup {None}, pending : Users \cup {None}]

TypeOK ==
    /\ platform \in {"exec", "helper"}
    /\ sock \in Procs \cup {None} /\ elev \in Procs \cup {None}
    /\ starter \in Clients \cup {None}
    /\ path \in Procs \cup {None}
    /\ stored \in States
    /\ proc \in [Procs -> ProcStates]
    /\ client \in [Clients -> ClientStates]

Init ==
    /\ platform \in {"exec", "helper"}
    /\ sock = None /\ elev = None /\ starter = None /\ path = None
    /\ stored = [active |-> None, pending |-> None]
    /\ proc = [p \in Procs |-> Off]
    /\ client = [c \in Clients |-> Idle]

-----------------------------------------------------------------------------
(* What the sockets and locks do.                                            *)

At(p, pc) == proc' = [proc EXCEPT ![p].pc = pc]

Without(owner, p) == IF owner = p THEN None ELSE owner

\* Somebody can be reached at the socket's file; he answers only from Serve.
Live    == path # None /\ proc[path].pc \in Listens
Answers == Live /\ proc[path].pc = "serving"

\* The process ends, and its locks with it.
Ends(p) ==
    /\ proc' = [proc EXCEPT ![p] = Off]
    /\ sock' = Without(sock, p)
    /\ elev' = Without(elev, p)

-----------------------------------------------------------------------------
(* Listen.                                                                   *)

\* Sensitivity: a process without privilege goes straight for the socket's lock.
Hurries(p) == TRUE

\* The elevation lock comes first, unless the process has the reservation or
\* has no need of one.
Direct(p) == proc[p].root \/ elev = p

TakeElevation(p) ==
    /\ proc[p].pc = "listen" /\ ~Direct(p)
    /\ IF elev = None THEN elev' = p /\ At(p, "holding")
                      ELSE At(p, "retry") /\ UNCHANGED elev
    /\ UNCHANGED <<platform, sock, starter, path, stored, client>>

\* Both locks are held for a moment; the reservation is kept until Listen returns.
TakeSocket(p) ==
    /\ \/ proc[p].pc = "listen" /\ Direct(p) /\ UNCHANGED elev
       \/ proc[p].pc = "holding" /\ elev' = None
    /\ IF sock = None THEN sock' = p /\ At(p, "locked")
                      ELSE At(p, "retry") /\ UNCHANGED sock
    /\ UNCHANGED <<platform, starter, path, stored, client>>

\* A lock is held: Listen tries again, unless a daemon answers in time, which
\* means ErrRunning, or thirty seconds have passed.
Retry(p) ==
    /\ proc[p].pc = "retry"
    /\ \/ At(p, "listen") /\ UNCHANGED <<sock, elev>>
       \/ Ends(p)
    /\ UNCHANGED <<platform, starter, path, stored, client>>

\* The socket's file is somebody else's who still listens, or it is removed and
\* made anew.
Bind(p) ==
    /\ proc[p].pc = "locked"
    /\ \/ ~Live /\ path' = p /\ At(p, "bound") /\ elev' = Without(elev, p) /\ UNCHANGED sock
       \/ Ends(p) /\ UNCHANGED path
    /\ UNCHANGED <<platform, starter, stored, client>>

-----------------------------------------------------------------------------
(* The loop of main.                                                         *)

Serves(p, runs, failed, refused) ==
    proc' = [proc EXCEPT ![p] = [@ EXCEPT !.pc = "serving", !.runs = runs,
                                          !.failed = failed, !.refused = refused]]

\* The stored connection is brought up, cannot be, or needs a privilege.  It
\* stays stored in any case.
RestoreActive(p) ==
    \/ /\ stored.active = None \/ proc[p].root
       /\ Serves(p, stored.active, FALSE, None)
    \/ Serves(p, None, TRUE, None)
    \/ /\ stored.active # None /\ ~proc[p].root
       /\ At(p, "reserve")

\* The pending request comes first.  It becomes the stored connection, needs a
\* privilege, or is dropped because it could not be carried out, or its node is
\* gone; then, or without one, the stored connection is restored.  Any other
\* error of New or Restore ends the process.
Restore(p) ==
    /\ proc[p].pc = "bound"
    /\ \/ /\ stored.pending # None /\ proc[p].root
          /\ stored' = [active |-> stored.pending, pending |-> None]
          /\ Serves(p, stored.pending, FALSE, None)
          /\ UNCHANGED <<sock, elev>>
       \/ /\ stored.pending # None /\ ~proc[p].root
          /\ At(p, "reserve")
          /\ UNCHANGED <<sock, elev, stored>>
       \/ /\ stored' = [stored EXCEPT !.pending = None]
          /\ RestoreActive(p)
          /\ UNCHANGED <<sock, elev>>
       \/ Ends(p) /\ UNCHANGED stored
    /\ UNCHANGED <<platform, starter, path, client>>

\* The reservation is taken as soon as nobody has the elevation lock; after
\* thirty seconds the process ends.
Reserve(p) ==
    /\ proc[p].pc = "reserve"
    /\ \/ elev = None /\ elev' = p /\ At(p, "elevating") /\ UNCHANGED sock
       \/ Ends(p)
    /\ UNCHANGED <<platform, starter, path, stored, client>>

\* The copy is run in place of this process: all its files are closed but the
\* reservation.
Exec(p) ==
    /\ proc[p].pc = "elevating" /\ platform = "exec"
    /\ proc' = [proc EXCEPT ![p] = Fresh(TRUE, proc[p].old)]
    /\ sock' = None
    /\ UNCHANGED <<platform, elev, starter, path, stored, client>>

\* A helper is started with the privilege, and this process gets out of its way.
Help(p, q) ==
    /\ proc[p].pc = "elevating" /\ platform = "helper"
    /\ proc[q].pc = "off"
    /\ proc' = [proc EXCEPT ![p].pc = "closing", ![p].next = "handing",
                            ![q] = Fresh(TRUE, proc[p].old)]
    /\ UNCHANGED <<platform, sock, elev, starter, path, stored, client>>

\* RestoreFailed: the user refused, or the copy could not be made.  A pending
\* request is dropped, unless that cannot be saved; the stored connection stays,
\* and one in proxy mode is brought up or not.  The error is shown in any case.
Refuse(p) ==
    /\ proc[p].pc = "elevating"
    /\ elev' = None
    /\ stored' \in {stored, [stored EXCEPT !.pending = None]}
    /\ Serves(p, None, TRUE, stored'.pending)
    /\ UNCHANGED <<platform, sock, starter, path, client>>

\* The service ends, and the engine and its status with it.
Leaves(p, next) ==
    proc' = [proc EXCEPT ![p] = [Fresh(@.root, @.old) EXCEPT !.pc = "closing", !.next = next]]

\* A request, or a signal, ends the service.
Leave(p) ==
    /\ proc[p].pc = "serving"
    /\ \/ Leaves(p, "off")
       \/ proc[p].restart /\ Leaves(p, "listen")
    /\ UNCHANGED <<platform, sock, elev, starter, path, stored, client>>

\* Sensitivity: the lock is given back before the listener is closed.
LockFirst == <<"lock", "file">>

\* Closing the listener removes the socket's file, whosever it is by then.
FileFirst == <<"file", "lock">>

GivesBack(step) ==
    /\ path' = IF FileFirst[step] = "file" THEN None ELSE path
    /\ sock' = IF FileFirst[step] = "lock" THEN None ELSE sock

Close(p) ==
    /\ proc[p].pc = "closing"
    /\ GivesBack(1)
    /\ At(p, "closed")
    /\ UNCHANGED <<platform, elev, starter, stored, client>>

Unlock(p) ==
    /\ proc[p].pc = "closed"
    /\ GivesBack(2)
    /\ proc' = [proc EXCEPT ![p] =
                   CASE @.next = "off"    -> Off
                     [] @.next = "listen" -> Fresh(@.root, @.old)
                     [] OTHER             -> [@ EXCEPT !.pc = "handing"]]
    /\ UNCHANGED <<platform, elev, starter, stored, client>>

\* The helper answers, or thirty seconds have passed.
HandedOver(p) ==
    /\ proc[p].pc = "handing"
    /\ Ends(p)
    /\ UNCHANGED <<platform, starter, path, stored, client>>

Crash(p) ==
    /\ proc[p].pc # "off"
    /\ Ends(p)
    /\ UNCHANGED <<platform, starter, path, stored, client>>

\* The system's autostart, which may be the one of another version.
Autostart(p, old) ==
    /\ proc[p].pc = "off"
    /\ proc' = [proc EXCEPT ![p] = Fresh(FALSE, old)]
    /\ UNCHANGED <<platform, sock, elev, starter, path, stored, client>>

-----------------------------------------------------------------------------
(* Clients.  Every wait of a client is limited, so that any of them may end.  *)

Now(c, pc) == client' = [client EXCEPT ![c].pc = pc]

Gone(c) ==
    /\ client' = [client EXCEPT ![c] = Idle]
    /\ starter' = Without(starter, c)

Call(c) ==
    /\ client[c].pc = "idle"
    /\ client' = [client EXCEPT ![c] = [Idle EXCEPT !.pc = IF c \in Users THEN "lock" ELSE "ping"]]
    /\ UNCHANGED <<platform, sock, elev, starter, path, stored, proc>>

TakeStarter(c) ==
    /\ client[c].pc = "lock" /\ starter = None
    /\ starter' = c
    /\ Now(c, "ping")
    /\ UNCHANGED <<platform, sock, elev, path, stored, proc>>

\* connect: the daemon answers, is of another version, does not answer in time,
\* or is not there.  stop: the same, but nothing is started.
PingUser(c) ==
    /\ client[c].pc = "ping" /\ c \in Users
    /\ \/ Answers /\ ~proc[path].old /\ Now(c, "ask") /\ starter' = None
       \/ Answers /\ proc[path].old /\ Now(c, "shutdown") /\ UNCHANGED starter
       \/ Live /\ Now(c, "wait") /\ UNCHANGED starter
       \/ ~Live /\ Now(c, "spawn") /\ UNCHANGED starter
    /\ UNCHANGED <<platform, sock, elev, path, stored, proc>>

PingStopper(c) ==
    /\ client[c].pc = "ping" /\ c \in Stoppers
    /\ \/ Answers /\ Now(c, "shutdown")
       \/ ~Live /\ Now(c, "stopping")
    /\ UNCHANGED <<platform, sock, elev, starter, path, stored, proc>>

\* Shutdown is answered whatever the version, and main leaves; an error is not
\* looked at.
Shutdown(c) ==
    /\ client[c].pc = "shutdown"
    /\ \/ Answers /\ Leaves(path, "off")
       \/ UNCHANGED proc
    /\ Now(c, "stopping")
    /\ UNCHANGED <<platform, sock, elev, starter, path, stored>>

\* waitStopped: the lock of the socket can be had.
Stopped(c) ==
    /\ client[c].pc = "stopping"
    /\ sock = None
    /\ IF c \in Users THEN Now(c, "spawn") /\ UNCHANGED starter ELSE Gone(c)
    /\ UNCHANGED <<platform, sock, elev, path, stored, proc>>

Spawn(c, p) ==
    /\ client[c].pc = "spawn"
    /\ proc[p].pc = "off"
    /\ proc' = [proc EXCEPT ![p] = Fresh(FALSE, FALSE)]
    /\ Now(c, "wait")
    /\ UNCHANGED <<platform, sock, elev, starter, path, stored>>

\* wait: a daemon of this version answers, and connect returns.
Wait(c) ==
    /\ client[c].pc = "wait"
    /\ Answers /\ ~proc[path].old /\ ~proc[path].failed
    /\ Now(c, "ask") /\ starter' = None
    /\ UNCHANGED <<platform, sock, elev, path, stored, proc>>

\* The state that a change starts from: what runs is what is stored.
Previous == [active  |-> IF proc[path].runs = None THEN stored.active ELSE proc[path].runs,
             pending |-> None]

\* With the privilege, the connection is made and stored.
Connected(c) ==
    /\ proc[path].root
    /\ stored' = [active |-> c, pending |-> None]
    /\ proc' = [proc EXCEPT ![path] = [@ EXCEPT !.runs = c, !.failed = FALSE]]
    /\ Gone(c)

\* Without it the request is stored and answered with ErrElevate, and the daemon
\* is to restart.  No restart is requested when the answer does not get out,
\* or other changes do not let RequestRestart have its turn in time.
Elevates(c) ==
    /\ ~proc[path].root
    /\ stored' = [Previous EXCEPT !.pending = c]
    /\ \E runs \in {proc[path].runs, None}, restart \in {proc[path].restart, TRUE} :
          /\ proc' = [proc EXCEPT ![path] = [@ EXCEPT !.runs = runs, !.failed = FALSE,
                                                 !.refused = None, !.restart = restart]]
          /\ \/ Now(c, "await") /\ UNCHANGED starter
             \/ restart = proc[path].restart /\ Gone(c)

\* The engine or the save fails: what there was is stored and run again, as far
\* as that works.
AskFails(c) ==
    /\ stored' \in {stored, Previous}
    /\ \E runs \in {proc[path].runs, None} \cup (IF proc[path].root THEN {c} ELSE {}),
         failed \in {proc[path].failed, FALSE} :
          proc' = [proc EXCEPT ![path] = [@ EXCEPT !.runs = runs, !.failed = failed]]
    /\ Gone(c)

\* Disconnect, or Connect in proxy mode instead, done.
Drops(c) ==
    /\ stored' = [active |-> None, pending |-> None]
    /\ proc' = [proc EXCEPT ![path] = [@ EXCEPT !.runs = None, !.failed = FALSE]]
    /\ Gone(c)

\* Connect in TUN mode, or a command that ends this mode.
Ask(c) ==
    /\ client[c].pc = "ask"
    /\ Answers /\ ~proc[path].old
    /\ Connected(c) \/ Elevates(c) \/ AskFails(c) \/ Drops(c)
    /\ UNCHANGED <<platform, sock, elev, path>>

\* Sensitivity: every failed poll counts as the restart.
AnyFailure == TRUE

NoDaemon == ~Live

\* The daemon that answers tells c that its connection failed: with the error of
\* its status, or because it came back without the connection.
Fails(c) ==
    /\ client[c].pc = "await"
    /\ Answers /\ ~proc[path].old
    /\ \/ proc[path].failed
       \/ proc[path].runs # c /\ client[c].seen

\* AwaitConnection: one poll.  A poll that merely takes too long tells nothing.
Poll(c) ==
    /\ client[c].pc = "await"
    /\ \/ NoDaemon /\ client' = [client EXCEPT ![c].seen = TRUE] /\ UNCHANGED starter
       \/ Answers /\ proc[path].old /\ Gone(c)
       \/ Fails(c) /\ Gone(c)
       \/ Answers /\ ~proc[path].old /\ ~proc[path].failed /\ proc[path].runs = c /\ Gone(c)
    /\ UNCHANGED <<platform, sock, elev, path, stored, proc>>

\* A time limit, an error, or the user ends the call.
GiveUp(c) ==
    /\ client[c].pc # "idle"
    /\ Gone(c)
    /\ UNCHANGED <<platform, sock, elev, path, stored, proc>>

-----------------------------------------------------------------------------
Daemon(p) ==
    \/ TakeElevation(p) \/ TakeSocket(p) \/ Retry(p) \/ Bind(p)
    \/ Restore(p) \/ Reserve(p) \/ Exec(p) \/ Refuse(p)
    \/ \E q \in Procs : Help(p, q)
    \/ Leave(p) \/ Close(p) \/ Unlock(p) \/ HandedOver(p)

User(c) ==
    \/ TakeStarter(c) \/ PingUser(c) \/ PingStopper(c) \/ Shutdown(c) \/ Stopped(c)
    \/ \E p \in Procs : Spawn(c, p)
    \/ Wait(c) \/ Ask(c) \/ Poll(c) \/ GiveUp(c)

Next ==
    \/ \E p \in Procs : Daemon(p) \/ Crash(p) \/ \E old \in BOOLEAN : Autostart(p, old)
    \/ \E c \in Clients : Call(c) \/ User(c)

Spec == Init /\ [][Next]_vars

-----------------------------------------------------------------------------
(* Properties.                                                               *)

\* A daemon that serves can be reached: the socket's file is its own, whatever
\* other daemons were started, elevated, restarted, stopped or killed in the
\* meantime.  So there is never a second one beside it.
ServerReachable == \A p \in Procs : proc[p].pc = "serving" => path = p /\ sock = p

\* From the moment the privilege is granted until the privileged copy has the
\* socket, or has failed to get it, no daemon without the privilege takes it.
HandingOver(p) ==
    /\ elev = p
    /\ \/ proc[p].root
       \/ proc[p].pc = "handing"
       \/ proc[p].pc \in {"closing", "closed"} /\ proc[p].next = "handing"

HandoverKept ==
    \A p, q \in Procs : HandingOver(p) /\ sock = q => q = p \/ proc[q].root

\* A client that waits for its connection across a restart is told that it
\* failed, or that the daemon came back without it, only when its request is no
\* longer in the file, or the daemon that tells so was itself refused the
\* privilege for it and could not take it out.
VerdictTrue ==
    \A c \in Users : Fails(c) => stored.pending # c \/ proc[path].refused = c
=============================================================================
