---------------------------- MODULE DaemonsProofs ----------------------------
(***************************************************************************)
(* Proofs about Daemons, for any number of processes and clients: a daemon    *)
(* that serves is the only one and can be reached, a privileged copy finds    *)
(* its socket free, and a client is told of its request what is so.          *)
(***************************************************************************)
EXTENDS Daemons, TLAPS

(* The socket's lock is held by whoever is past Listen, and only by him; his   *)
(* is the socket's file then.                                                *)
Owning    == \A p \in Procs : sock = p <=> proc[p].pc \in Owns
Listening == \A p \in Procs : proc[p].pc \in Listens => path = p

(* Only a process without privilege takes the elevation lock *)
Elevation == \A p \in Procs :
    /\ proc[p].pc \in {"holding", "elevating"} => elev = p
    /\ proc[p].pc \in {"holding", "reserve", "elevating"} => ~proc[p].root

(* An error is shown while a request waits only by the daemon that was refused *)
(* the privilege for this request and could not take it out of the file.      *)
Settled == \A p \in Procs :
    proc[p].pc = "serving" /\ proc[p].failed
        => stored.pending = None \/ proc[p].refused = stored.pending

(* What only a client that wants a connection does *)
Asking == {"spawn", "wait", "ask", "await"}

(* What a client has seen while it waits: no daemon serves until its request   *)
(* is out of the file or refused                                             *)
Waiting ==
    /\ \A c \in Clients : /\ client[c].pc # "await" => ~client[c].seen
                          /\ client[c].pc \in Asking => c \in Users
    /\ \A c \in Users, p \in Procs :
          client[c].seen /\ stored.pending = c /\ proc[p].pc = "serving" => proc[p].refused = c

IInv == TypeOK /\ Owning /\ Listening /\ Elevation /\ Settled /\ Waiting /\ HandoverKept

(* An action gives one process another record *)
LEMMA RecordFacts ==
    ASSUME TypeOK, NEW p \in Procs, NEW r \in ProcStates, proc' = [proc EXCEPT ![p] = r]
    PROVE  /\ proc' \in [Procs -> ProcStates]
           /\ proc'[p] = r
           /\ \A q \in Procs \ {p} : proc'[q] = proc[q]
BY DEF TypeOK

(* ... with another step in it *)
LEMMA AtFacts ==
    ASSUME TypeOK, NEW p \in Procs, NEW pc \in ProcPcs, At(p, pc)
    PROVE  /\ proc' \in [Procs -> ProcStates]
           /\ proc'[p] = [proc[p] EXCEPT !.pc = pc]
           /\ proc'[p].pc = pc /\ proc'[p].root = proc[p].root
           /\ proc'[p].failed = proc[p].failed /\ proc'[p].next = proc[p].next
           /\ \A q \in Procs \ {p} : proc'[q] = proc[q]
BY DEF TypeOK, At, ProcStates

LEMMA FreshFacts ==
    ASSUME NEW root \in BOOLEAN, NEW old \in BOOLEAN
    PROVE  /\ Fresh(root, old) \in ProcStates
           /\ Fresh(root, old).pc = "listen" /\ Fresh(root, old).root = root
           /\ Off \in ProcStates
           /\ Off.pc = "off" /\ ~Off.root
BY DEF Fresh, Off, ProcStates, ProcPcs, Owns, Listens

(* Nobody begins to serve: what is known of requests stays *)
LEMMA QuietFacts ==
    ASSUME Settled, Waiting, UNCHANGED client,
           stored'.pending \in {None, stored.pending},
           \A q \in Procs : proc'[q].pc = "serving" => proc'[q] = proc[q]
    PROVE  Settled' /\ Waiting'
<1>1. Settled'
    BY DEF Settled
<1>2. Waiting'
    BY NoneAssumption DEF Waiting, Clients
<1> QED BY <1>1, <1>2

LEMMA TakeElevationStep ==
    ASSUME IInv, NEW p \in Procs, TakeElevation(p)
    PROVE  IInv'
<1>0. TypeOK
    BY DEF IInv
<1>1. proc[p].pc = "listen" /\ ~proc[p].root /\ elev # p
      /\ UNCHANGED <<platform, sock, starter, path, stored, client>>
    BY DEF TakeElevation, Direct
<1>2. \/ elev = None /\ elev' = p /\ At(p, "holding")
      \/ elev' = elev /\ At(p, "retry")
    BY DEF TakeElevation
<1>3. PICK pc \in {"holding", "retry"} : At(p, pc) /\ (pc = "holding" => elev' = p)
      /\ (pc = "retry" => elev' = elev)
    BY <1>2
<1>4. /\ proc' \in [Procs -> ProcStates]
      /\ proc'[p].pc = pc /\ proc'[p].root = proc[p].root
      /\ \A q \in Procs \ {p} : proc'[q] = proc[q]
    BY <1>0, <1>3, AtFacts DEF ProcPcs
<1>a. TypeOK'
    BY <1>0, <1>1, <1>2, <1>4 DEF TypeOK
<1>b. Owning'
    BY <1>1, <1>4 DEF IInv, Owning, Owns, Listens
<1>c. Listening'
    BY <1>1, <1>4 DEF IInv, Listening, Listens
<1>d. Elevation'
    BY <1>1, <1>2, <1>3, <1>4, NoneAssumption DEF IInv, Elevation
<1>e. Settled' /\ Waiting'
    BY <1>1, <1>4, QuietFacts DEF IInv
<1>f. HandoverKept'
    BY <1>1, <1>2, <1>3, <1>4 DEF IInv, HandoverKept, HandingOver
<1> QED BY <1>a, <1>b, <1>c, <1>d, <1>e, <1>f DEF IInv

(* The end of a process frees its locks and nobody else's *)
LEMMA EndsStep ==
    ASSUME IInv, NEW p \in Procs, Ends(p), UNCHANGED <<platform, starter, path, stored, client>>
    PROVE  IInv'
<1>0. TypeOK
    BY DEF IInv
<1>1. /\ proc' \in [Procs -> ProcStates]
      /\ proc'[p].pc = "off" /\ ~proc'[p].root
      /\ \A q \in Procs \ {p} : proc'[q] = proc[q]
    BY <1>0, RecordFacts, FreshFacts DEF Ends
<1>2. /\ sock' = IF sock = p THEN None ELSE sock
      /\ elev' = IF elev = p THEN None ELSE elev
    BY DEF Ends, Without
<1>a. TypeOK'
    BY <1>0, <1>1, <1>2 DEF TypeOK
<1>b. Owning'
    BY <1>1, <1>2, NoneAssumption DEF IInv, Owning, Owns, Listens
<1>c. Listening'
    BY <1>1 DEF IInv, Listening, Listens
<1>d. Elevation'
    BY <1>1, <1>2 DEF IInv, Elevation
<1>e. Settled' /\ Waiting'
    BY <1>1, QuietFacts DEF IInv
<1>f. HandoverKept'
    BY <1>1, <1>2, NoneAssumption DEF IInv, HandoverKept, HandingOver
<1> QED BY <1>a, <1>b, <1>c, <1>d, <1>e, <1>f DEF IInv

LEMMA TakeSocketStep ==
    ASSUME IInv, NEW p \in Procs, TakeSocket(p)
    PROVE  IInv'
<1>0. TypeOK
    BY DEF IInv
<1>1. /\ proc[p].pc \in {"listen", "holding"}
      /\ proc[p].root \/ elev = p
      /\ proc[p].pc = "listen" => elev' = elev
      /\ proc[p].pc = "holding" => elev' = None
      /\ UNCHANGED <<platform, starter, path, stored, client>>
    BY DEF TakeSocket, Direct, IInv, Elevation
<1>2. PICK pc \in {"locked", "retry"} :
         /\ At(p, pc)
         /\ pc = "locked" => sock = None /\ sock' = p
         /\ pc = "retry" => sock' = sock
    BY DEF TakeSocket
<1>3. /\ proc' \in [Procs -> ProcStates]
      /\ proc'[p].pc = pc /\ proc'[p].root = proc[p].root
      /\ \A q \in Procs \ {p} : proc'[q] = proc[q]
    BY <1>0, <1>2, AtFacts DEF ProcPcs, Owns, Listens
<1>a. TypeOK'
    BY <1>0, <1>1, <1>2, <1>3 DEF TypeOK
<1>b. Owning'
    BY <1>1, <1>2, <1>3, NoneAssumption DEF IInv, Owning, Owns, Listens
<1>c. Listening'
    BY <1>1, <1>3 DEF IInv, Listening, Listens
<1>d. Elevation'
    BY <1>1, <1>2, <1>3 DEF IInv, Elevation
<1>e. Settled' /\ Waiting'
    BY <1>1, <1>3, QuietFacts DEF IInv
<1>f. HandoverKept'
    BY <1>1, <1>2, <1>3, NoneAssumption DEF IInv, HandoverKept, HandingOver
<1> QED BY <1>a, <1>b, <1>c, <1>d, <1>e, <1>f DEF IInv

LEMMA RetryStep ==
    ASSUME IInv, NEW p \in Procs, Retry(p)
    PROVE  IInv'
<1>0. TypeOK
    BY DEF IInv
<1>1. proc[p].pc = "retry" /\ UNCHANGED <<platform, starter, path, stored, client>>
    BY DEF Retry
<1>2. CASE At(p, "listen") /\ UNCHANGED <<sock, elev>>
    <2>1. /\ proc' \in [Procs -> ProcStates]
          /\ proc'[p].pc = "listen" /\ proc'[p].root = proc[p].root
          /\ \A q \in Procs \ {p} : proc'[q] = proc[q]
        BY <1>0, <1>2, AtFacts DEF ProcPcs
    <2>a. TypeOK'
        BY <1>0, <1>1, <1>2, <2>1 DEF TypeOK
    <2>b. Owning'
        BY <1>1, <1>2, <2>1 DEF IInv, Owning, Owns, Listens
    <2>c. Listening' /\ Elevation'
        BY <1>1, <1>2, <2>1 DEF IInv, Listening, Listens, Elevation
    <2>d. Settled' /\ Waiting'
        BY <1>1, <2>1, QuietFacts DEF IInv
    <2>e. HandoverKept'
        BY <1>1, <1>2, <2>1 DEF IInv, HandoverKept, HandingOver
    <2> QED BY <2>a, <2>b, <2>c, <2>d, <2>e DEF IInv
<1>3. CASE Ends(p)
    BY <1>1, <1>3, EndsStep
<1> QED BY <1>2, <1>3 DEF Retry

(* Whoever has the lock finds nobody else listening, or leaves *)
LEMMA BindStep ==
    ASSUME IInv, NEW p \in Procs, Bind(p)
    PROVE  IInv'
<1>0. TypeOK
    BY DEF IInv
<1>1. proc[p].pc = "locked" /\ UNCHANGED <<platform, starter, stored, client>>
    BY DEF Bind
<1>2. CASE path' = p /\ At(p, "bound") /\ elev' = Without(elev, p) /\ UNCHANGED sock
    <2>1. /\ proc' \in [Procs -> ProcStates]
          /\ proc'[p].pc = "bound" /\ proc'[p].root = proc[p].root
          /\ \A q \in Procs \ {p} : proc'[q] = proc[q]
        BY <1>0, <1>2, AtFacts DEF ProcPcs, Owns, Listens
    <2>2. sock = p /\ elev' = IF elev = p THEN None ELSE elev
        BY <1>1, <1>2 DEF IInv, Owning, Owns, Without
    <2>a. TypeOK'
        BY <1>0, <1>1, <1>2, <2>1, <2>2 DEF TypeOK
    <2>b. Owning'
        BY <1>1, <1>2, <2>1 DEF IInv, Owning, Owns, Listens
    <2>c. Listening'
        BY <1>2, <2>1, <2>2 DEF IInv, Owning, Owns, Listening
    <2>d. Elevation'
        BY <1>1, <2>1, <2>2 DEF IInv, Elevation
    <2>e. Settled' /\ Waiting'
        BY <1>1, <2>1, QuietFacts DEF IInv
    <2>f. HandoverKept'
        BY <1>1, <1>2, <2>1, <2>2, NoneAssumption DEF IInv, HandoverKept, HandingOver
    <2> QED BY <2>a, <2>b, <2>c, <2>d, <2>e, <2>f DEF IInv
<1>3. CASE Ends(p) /\ UNCHANGED path
    BY <1>1, <1>3, EndsStep
<1> QED BY <1>2, <1>3 DEF Bind

(* A daemon begins to serve, with the request out of the file or refused *)
LEMMA ServesFacts ==
    ASSUME IInv, NEW p \in Procs, NEW r \in ProcStates,
           proc[p].pc \in {"bound", "elevating"}, r.pc = "serving", r.root = proc[p].root,
           proc' = [proc EXCEPT ![p] = r],
           stored' \in States, stored'.pending = None \/ r.refused = stored'.pending,
           elev' = elev \/ (elev = p /\ elev' = None),
           UNCHANGED <<platform, sock, starter, path, client>>
    PROVE  IInv'
<1>0. TypeOK
    BY DEF IInv
<1>1. /\ proc' \in [Procs -> ProcStates]
      /\ proc'[p] = r
      /\ \A q \in Procs \ {p} : proc'[q] = proc[q]
    BY <1>0, RecordFacts
<1>2. sock = p
    BY DEF IInv, Owning, Owns, Listens
<1>a. TypeOK'
    BY <1>0, <1>1 DEF TypeOK
<1>b. Owning'
    BY <1>1 DEF IInv, Owning, Owns, Listens
<1>c. Listening'
    BY <1>1 DEF IInv, Listening, Listens
<1>d. Elevation'
    BY <1>1 DEF IInv, Elevation
<1>3. \A q \in Procs \ {p} : proc'[q].pc # "serving"
    BY <1>1, <1>2 DEF IInv, Owning, Owns, Listens
<1>e. Settled'
    BY <1>1, <1>3 DEF Settled
<1>f. Waiting'
    BY <1>1, <1>3, NoneAssumption DEF IInv, Waiting, Clients
<1>g. HandoverKept'
    BY <1>1, NoneAssumption DEF IInv, HandoverKept, HandingOver
<1> QED BY <1>a, <1>b, <1>c, <1>d, <1>e, <1>f, <1>g DEF IInv

(* The record of a daemon that begins to serve *)
LEMMA ServingFacts ==
    ASSUME TypeOK, NEW p \in Procs, NEW runs \in Users \cup {None}, NEW failed \in BOOLEAN,
           NEW refused \in Users \cup {None}, Serves(p, runs, failed, refused)
    PROVE  \E r \in ProcStates : /\ r.pc = "serving" /\ r.root = proc[p].root
                                /\ r.refused = refused
                                /\ proc' = [proc EXCEPT ![p] = r]
<1> DEFINE r == [proc[p] EXCEPT !.pc = "serving", !.runs = runs,
                                !.failed = failed, !.refused = refused]
<1>1. proc[p] \in ProcStates
    BY DEF TypeOK
<1>2. r \in ProcStates /\ r.pc = "serving" /\ r.root = proc[p].root /\ r.refused = refused
    BY <1>1 DEF ProcStates, ProcPcs, Owns, Listens
<1>3. proc' = [proc EXCEPT ![p] = r]
    BY DEF Serves, TypeOK
<1> QED BY <1>2, <1>3

(* ... with a file that holds no request any more *)
LEMMA RestoredStep ==
    ASSUME IInv, NEW p \in Procs, NEW runs \in Users \cup {None}, NEW failed \in BOOLEAN,
           proc[p].pc = "bound", Serves(p, runs, failed, None),
           stored' \in States, stored'.pending = None,
           UNCHANGED <<platform, sock, elev, starter, path, client>>
    PROVE  IInv'
<1>1. PICK r \in ProcStates : /\ r.pc = "serving" /\ r.root = proc[p].root
                              /\ proc' = [proc EXCEPT ![p] = r]
    BY ServingFacts DEF IInv
<1> QED BY <1>1, ServesFacts

(* A daemon finds that it needs a privilege *)
LEMMA NeedsStep ==
    ASSUME IInv, NEW p \in Procs, proc[p].pc = "bound", ~proc[p].root, At(p, "reserve"),
           stored' \in States, stored'.pending \in {None, stored.pending},
           UNCHANGED <<platform, sock, elev, starter, path, client>>
    PROVE  IInv'
<1>0. TypeOK
    BY DEF IInv
<1>1. /\ proc' \in [Procs -> ProcStates]
      /\ proc'[p].pc = "reserve" /\ proc'[p].root = proc[p].root
      /\ \A q \in Procs \ {p} : proc'[q] = proc[q]
    BY <1>0, AtFacts DEF ProcPcs, Owns, Listens
<1>a. TypeOK'
    BY <1>0, <1>1 DEF TypeOK
<1>b. Owning'
    BY <1>1 DEF IInv, Owning, Owns, Listens
<1>c. Listening' /\ Elevation'
    BY <1>1 DEF IInv, Listening, Listens, Elevation
<1>d. Settled' /\ Waiting'
    BY <1>1, QuietFacts DEF IInv
<1>e. HandoverKept'
    BY <1>1 DEF IInv, HandoverKept, HandingOver
<1> QED BY <1>a, <1>b, <1>c, <1>d, <1>e DEF IInv

LEMMA RestoreStep ==
    ASSUME IInv, NEW p \in Procs, Restore(p)
    PROVE  IInv'
<1>0. TypeOK /\ stored \in States
    BY DEF IInv, TypeOK
<1>1. proc[p].pc = "bound" /\ UNCHANGED <<platform, starter, path, client>>
    BY DEF Restore
<1>2. CASE /\ stored' = [active |-> stored.pending, pending |-> None]
           /\ Serves(p, stored.pending, FALSE, None)
           /\ UNCHANGED <<sock, elev>>
    <2>1. stored' \in States /\ stored'.pending = None /\ stored.pending \in Users \cup {None}
        BY <1>0, <1>2 DEF States
    <2> QED BY <1>1, <1>2, <2>1, RestoredStep
<1>3. CASE ~proc[p].root /\ At(p, "reserve") /\ UNCHANGED <<sock, elev, stored>>
    BY <1>0, <1>1, <1>3, NeedsStep
<1>4. CASE /\ stored' = [stored EXCEPT !.pending = None]
           /\ RestoreActive(p)
           /\ UNCHANGED <<sock, elev>>
    <2>1. stored' \in States /\ stored'.pending = None /\ stored.active \in Users \cup {None}
        BY <1>0, <1>4 DEF States
    <2>2. CASE Serves(p, stored.active, FALSE, None)
        BY <1>1, <1>4, <2>1, <2>2, RestoredStep
    <2>3. CASE Serves(p, None, TRUE, None)
        BY <1>1, <1>4, <2>1, <2>3, RestoredStep
    <2>4. CASE ~proc[p].root /\ At(p, "reserve")
        BY <1>1, <1>4, <2>1, <2>4, NeedsStep
    <2> QED BY <1>4, <2>2, <2>3, <2>4 DEF RestoreActive
<1>5. CASE Ends(p) /\ UNCHANGED stored
    BY <1>1, <1>5, EndsStep
<1> QED BY <1>2, <1>3, <1>4, <1>5 DEF Restore

LEMMA ReserveStep ==
    ASSUME IInv, NEW p \in Procs, Reserve(p)
    PROVE  IInv'
<1>0. TypeOK
    BY DEF IInv
<1>1. proc[p].pc = "reserve" /\ UNCHANGED <<platform, starter, path, stored, client>>
    BY DEF Reserve
<1>2. CASE elev = None /\ elev' = p /\ At(p, "elevating") /\ UNCHANGED sock
    <2>1. /\ proc' \in [Procs -> ProcStates]
          /\ proc'[p].pc = "elevating" /\ proc'[p].root = proc[p].root
          /\ \A q \in Procs \ {p} : proc'[q] = proc[q]
        BY <1>0, <1>2, AtFacts DEF ProcPcs, Owns, Listens
    <2>a. TypeOK'
        BY <1>0, <1>1, <1>2, <2>1 DEF TypeOK
    <2>b. Owning'
        BY <1>1, <1>2, <2>1 DEF IInv, Owning, Owns, Listens
    <2>c. Listening'
        BY <1>1, <1>2, <2>1 DEF IInv, Listening, Listens
    <2>d. Elevation'
        BY <1>1, <1>2, <2>1, NoneAssumption DEF IInv, Elevation
    <2>e. Settled' /\ Waiting'
        BY <1>1, <2>1, QuietFacts DEF IInv
    <2>f. HandoverKept'
        BY <1>1, <1>2, <2>1 DEF IInv, Elevation, HandoverKept, HandingOver
    <2> QED BY <2>a, <2>b, <2>c, <2>d, <2>e, <2>f DEF IInv
<1>3. CASE Ends(p)
    BY <1>1, <1>3, EndsStep
<1> QED BY <1>2, <1>3 DEF Reserve

(* The copy takes the place of the process, with nothing but the reservation *)
LEMMA ExecStep ==
    ASSUME IInv, NEW p \in Procs, Exec(p)
    PROVE  IInv'
<1>0. TypeOK
    BY DEF IInv
<1>1. /\ proc[p].pc = "elevating" /\ sock' = None
      /\ proc' = [proc EXCEPT ![p] = Fresh(TRUE, proc[p].old)]
      /\ UNCHANGED <<platform, elev, starter, path, stored, client>>
    BY DEF Exec
<1>2. proc[p].old \in BOOLEAN /\ sock = p
    BY <1>0, <1>1 DEF TypeOK, ProcStates, IInv, Owning, Owns, Listens
<1>3. /\ proc' \in [Procs -> ProcStates]
      /\ proc'[p].pc = "listen" /\ proc'[p].root
      /\ \A q \in Procs \ {p} : proc'[q] = proc[q]
    BY <1>0, <1>1, <1>2, RecordFacts, FreshFacts
<1>a. TypeOK'
    BY <1>0, <1>1, <1>3 DEF TypeOK
<1>b. Owning'
    BY <1>1, <1>2, <1>3, NoneAssumption DEF IInv, Owning, Owns, Listens
<1>c. Listening' /\ Elevation'
    BY <1>1, <1>3 DEF IInv, Listening, Listens, Elevation
<1>d. Settled' /\ Waiting'
    BY <1>1, <1>3, QuietFacts DEF IInv
<1>e. HandoverKept'
    BY <1>1, NoneAssumption DEF HandoverKept
<1> QED BY <1>a, <1>b, <1>c, <1>d, <1>e DEF IInv

(* The helper is another process, and the old one keeps the reservation *)
LEMMA HelpStep ==
    ASSUME IInv, NEW p \in Procs, NEW q \in Procs, Help(p, q)
    PROVE  IInv'
<1>0. TypeOK
    BY DEF IInv
<1>1. /\ proc[p].pc = "elevating" /\ proc[q].pc = "off"
      /\ proc' = [proc EXCEPT ![p].pc = "closing", ![p].next = "handing",
                              ![q] = Fresh(TRUE, proc[p].old)]
      /\ UNCHANGED <<platform, sock, elev, starter, path, stored, client>>
    BY DEF Help
<1>2. proc[p].old \in BOOLEAN /\ sock = p /\ elev = p /\ q # p
    BY <1>0, <1>1 DEF TypeOK, ProcStates, IInv, Owning, Owns, Listens, Elevation
<1> DEFINE r == [proc[p] EXCEPT !.pc = "closing", !.next = "handing"]
           s == Fresh(TRUE, proc[p].old)
<1>3. /\ r \in ProcStates /\ r.pc = "closing" /\ r.root = proc[p].root
      /\ s \in ProcStates /\ s.pc = "listen" /\ s.root
    <2>1. r \in ProcStates /\ r.pc = "closing" /\ r.root = proc[p].root
        BY <1>0 DEF TypeOK, ProcStates, ProcPcs, Owns, Listens
    <2>2. s \in ProcStates /\ s.pc = "listen" /\ s.root
        BY <1>2, FreshFacts
    <2> QED BY <2>1, <2>2
<1>4. proc' = [[proc EXCEPT ![p] = r] EXCEPT ![q] = s]
    BY <1>0, <1>1, <1>2 DEF TypeOK
<1> HIDE DEF r, s
<1>5. /\ proc' \in [Procs -> ProcStates]
      /\ proc'[p] = r /\ proc'[q] = s
      /\ \A o \in Procs \ {p, q} : proc'[o] = proc[o]
    BY <1>0, <1>2, <1>3, <1>4 DEF TypeOK
<1>a. TypeOK'
    BY <1>0, <1>1, <1>5 DEF TypeOK
<1>b. Owning'
    BY <1>1, <1>2, <1>3, <1>5 DEF IInv, Owning, Owns, Listens
<1>c. Listening' /\ Elevation'
    BY <1>1, <1>3, <1>5 DEF IInv, Listening, Listens, Elevation
<1>d. Settled' /\ Waiting'
    BY <1>1, <1>3, <1>5, QuietFacts DEF IInv
<1>e. HandoverKept'
    BY <1>1, <1>2 DEF HandoverKept, HandingOver
<1> QED BY <1>a, <1>b, <1>c, <1>d, <1>e DEF IInv

LEMMA RefuseStep ==
    ASSUME IInv, NEW p \in Procs, Refuse(p)
    PROVE  IInv'
<1>0. TypeOK /\ stored \in States
    BY DEF IInv, TypeOK
<1>1. /\ proc[p].pc = "elevating" /\ elev' = None
      /\ stored' \in {stored, [stored EXCEPT !.pending = None]}
      /\ Serves(p, None, TRUE, stored'.pending)
      /\ UNCHANGED <<platform, sock, starter, path, client>>
    BY DEF Refuse
<1>2. stored' \in States /\ stored'.pending \in Users \cup {None}
    BY <1>0, <1>1 DEF States
<1>3. PICK r \in ProcStates : /\ r.pc = "serving" /\ r.root = proc[p].root
                              /\ r.refused = stored'.pending
                              /\ proc' = [proc EXCEPT ![p] = r]
    <2>1. PICK refused \in Users \cup {None} : refused = stored'.pending
        BY <1>2
    <2>2. Serves(p, None, TRUE, refused)
        BY <1>1, <2>1
    <2> QED BY <1>0, <2>1, <2>2, ServingFacts
<1>4. elev = p
    BY <1>1 DEF IInv, Elevation
<1> QED BY <1>1, <1>2, <1>3, <1>4, ServesFacts

(* A daemon that serves leaves, with or without a helper to hand over to *)
LEMMA LeavesFacts ==
    ASSUME IInv, NEW p \in Procs, NEW next \in {"off", "listen"}, proc[p].pc = "serving",
           Leaves(p, next),
           UNCHANGED <<platform, sock, elev, path, stored>>
    PROVE  /\ proc' \in [Procs -> ProcStates]
           /\ Owning' /\ Listening' /\ Elevation' /\ HandoverKept'
           /\ \A q \in Procs : proc'[q].pc = "serving" => proc'[q] = proc[q]
<1>0. TypeOK
    BY DEF IInv
<1> DEFINE r == [Fresh(proc[p].root, proc[p].old) EXCEPT !.pc = "closing", !.next = next]
<1>1. r \in ProcStates /\ r.pc = "closing" /\ r.root = proc[p].root /\ r.next = next
    BY <1>0 DEF TypeOK, Fresh, ProcStates, ProcPcs, Owns, Listens
<1>2. proc' = [proc EXCEPT ![p] = r]
    BY <1>0 DEF TypeOK, Leaves
<1> HIDE DEF r
<1>3. /\ proc' \in [Procs -> ProcStates]
      /\ proc'[p] = r
      /\ \A q \in Procs \ {p} : proc'[q] = proc[q]
    BY <1>0, <1>1, <1>2, RecordFacts
<1>4. Owning'
    BY <1>1, <1>3 DEF IInv, Owning, Owns, Listens
<1>5. Listening' /\ Elevation'
    BY <1>1, <1>3 DEF IInv, Listening, Listens, Elevation
<1>6. HandoverKept'
    BY <1>1, <1>3 DEF IInv, HandoverKept, HandingOver
<1> QED BY <1>1, <1>3, <1>4, <1>5, <1>6

LEMMA LeaveStep ==
    ASSUME IInv, NEW p \in Procs, Leave(p)
    PROVE  IInv'
<1>1. /\ proc[p].pc = "serving"
      /\ UNCHANGED <<platform, sock, elev, starter, path, stored, client>>
    BY DEF Leave
<1>2. PICK next \in {"off", "listen"} : Leaves(p, next)
    BY DEF Leave
<1>3. /\ proc' \in [Procs -> ProcStates]
      /\ Owning' /\ Listening' /\ Elevation' /\ HandoverKept'
      /\ \A q \in Procs : proc'[q].pc = "serving" => proc'[q] = proc[q]
    BY <1>1, <1>2, LeavesFacts
<1>4. TypeOK'
    BY <1>1, <1>3 DEF IInv, TypeOK
<1>5. Settled' /\ Waiting'
    BY <1>1, <1>3, QuietFacts DEF IInv
<1> QED BY <1>3, <1>4, <1>5 DEF IInv

(* The file goes first: nobody listens who could lose it *)
LEMMA CloseStep ==
    ASSUME IInv, NEW p \in Procs, Close(p)
    PROVE  IInv'
<1>0. TypeOK
    BY DEF IInv
<1>1. /\ proc[p].pc = "closing" /\ At(p, "closed")
      /\ path' = None /\ sock' = sock
      /\ UNCHANGED <<platform, elev, starter, stored, client>>
    BY DEF Close, GivesBack, FileFirst
<1>2. /\ proc' \in [Procs -> ProcStates]
      /\ proc'[p].pc = "closed" /\ proc'[p].root = proc[p].root
      /\ proc'[p].next = proc[p].next
      /\ \A q \in Procs \ {p} : proc'[q] = proc[q]
    BY <1>0, <1>1, AtFacts DEF ProcPcs, Owns
<1>a. TypeOK'
    BY <1>0, <1>1, <1>2 DEF TypeOK
<1>b. Owning'
    BY <1>1, <1>2 DEF IInv, Owning, Owns, Listens
<1>c. Listening'
    BY <1>1, <1>2 DEF IInv, Owning, Owns, Listening, Listens
<1>d. Elevation'
    BY <1>1, <1>2 DEF IInv, Elevation
<1>e. Settled' /\ Waiting'
    BY <1>1, <1>2, QuietFacts DEF IInv
<1>f. HandoverKept'
    BY <1>1, <1>2 DEF IInv, HandoverKept, HandingOver
<1> QED BY <1>a, <1>b, <1>c, <1>d, <1>e, <1>f DEF IInv

LEMMA UnlockStep ==
    ASSUME IInv, NEW p \in Procs, Unlock(p)
    PROVE  IInv'
<1>0. TypeOK
    BY DEF IInv
<1>1. /\ proc[p].pc = "closed" /\ path' = path /\ sock' = None
      /\ UNCHANGED <<platform, elev, starter, stored, client>>
    BY DEF Unlock, GivesBack, FileFirst
<1> DEFINE r == CASE proc[p].next = "off"    -> Off
                  [] proc[p].next = "listen" -> Fresh(proc[p].root, proc[p].old)
                  [] OTHER                   -> [proc[p] EXCEPT !.pc = "handing"]
<1>2. proc' = [proc EXCEPT ![p] = r]
    BY <1>0 DEF Unlock, TypeOK
<1>3. proc[p] \in ProcStates /\ proc[p].root \in BOOLEAN /\ proc[p].old \in BOOLEAN
      /\ sock = p
    BY <1>0, <1>1 DEF TypeOK, ProcStates, IInv, Owning, Owns
<1>4. [proc[p] EXCEPT !.pc = "handing"] \in ProcStates
      /\ [proc[p] EXCEPT !.pc = "handing"].pc = "handing"
    BY <1>3 DEF ProcStates, ProcPcs
<1>5. r \in ProcStates /\ r.pc \in {"off", "listen", "handing"}
    BY <1>3, <1>4, FreshFacts
<1> HIDE DEF r
<1>6. /\ proc' \in [Procs -> ProcStates]
      /\ proc'[p].pc \in {"off", "listen", "handing"}
      /\ \A q \in Procs \ {p} : proc'[q] = proc[q]
    BY <1>0, <1>2, <1>5, RecordFacts
<1>a. TypeOK'
    BY <1>0, <1>1, <1>6 DEF TypeOK
<1>b. Owning'
    BY <1>1, <1>3, <1>6, NoneAssumption DEF IInv, Owning, Owns, Listens
<1>c. Listening' /\ Elevation'
    BY <1>1, <1>6 DEF IInv, Listening, Listens, Elevation
<1>d. Settled' /\ Waiting'
    BY <1>1, <1>6, QuietFacts DEF IInv
<1>e. HandoverKept'
    BY <1>1, NoneAssumption DEF HandoverKept
<1> QED BY <1>a, <1>b, <1>c, <1>d, <1>e DEF IInv

(* A new process has no lock *)
LEMMA BeginsFacts ==
    ASSUME IInv, NEW p \in Procs, NEW old \in BOOLEAN, proc[p].pc = "off",
           proc' = [proc EXCEPT ![p] = Fresh(FALSE, old)],
           UNCHANGED <<platform, sock, elev, path, stored>>
    PROVE  /\ proc' \in [Procs -> ProcStates]
           /\ Owning' /\ Listening' /\ Elevation' /\ HandoverKept'
           /\ \A q \in Procs : proc'[q].pc = "serving" => proc'[q] = proc[q]
<1>0. TypeOK
    BY DEF IInv
<1>1. /\ proc' \in [Procs -> ProcStates]
      /\ proc'[p].pc = "listen" /\ ~proc'[p].root
      /\ \A q \in Procs \ {p} : proc'[q] = proc[q]
    BY <1>0, RecordFacts, FreshFacts
<1>2. Owning'
    BY <1>1 DEF IInv, Owning, Owns, Listens
<1>3. Listening' /\ Elevation'
    BY <1>1 DEF IInv, Listening, Listens, Elevation
<1>4. sock # p
    BY DEF IInv, Owning, Owns, Listens
<1>5. HandoverKept'
    BY <1>1, <1>4 DEF IInv, HandoverKept, HandingOver
<1> QED BY <1>1, <1>2, <1>3, <1>5

LEMMA AutostartStep ==
    ASSUME IInv, NEW p \in Procs, NEW old \in BOOLEAN, Autostart(p, old)
    PROVE  IInv'
<1>1. /\ proc[p].pc = "off" /\ proc' = [proc EXCEPT ![p] = Fresh(FALSE, old)]
      /\ UNCHANGED <<platform, sock, elev, starter, path, stored, client>>
    BY DEF Autostart
<1>2. /\ proc' \in [Procs -> ProcStates]
      /\ Owning' /\ Listening' /\ Elevation' /\ HandoverKept'
      /\ \A q \in Procs : proc'[q].pc = "serving" => proc'[q] = proc[q]
    BY <1>1, BeginsFacts
<1>3. TypeOK'
    BY <1>1, <1>2 DEF IInv, TypeOK
<1>4. Settled' /\ Waiting'
    BY <1>1, <1>2, QuietFacts DEF IInv
<1> QED BY <1>2, <1>3, <1>4 DEF IInv

(* Any step of a daemon *)
LEMMA DaemonStep ==
    ASSUME IInv, NEW p \in Procs,
           Daemon(p) \/ Crash(p) \/ \E old \in BOOLEAN : Autostart(p, old)
    PROVE  IInv'
<1>1. CASE HandedOver(p) \/ Crash(p)
    BY <1>1, EndsStep DEF HandedOver, Crash
<1>2. CASE TakeElevation(p) \/ TakeSocket(p) \/ Retry(p) \/ Bind(p)
    BY <1>2, TakeElevationStep, TakeSocketStep, RetryStep, BindStep
<1>3. CASE Restore(p) \/ Reserve(p) \/ Exec(p) \/ Refuse(p)
    BY <1>3, RestoreStep, ReserveStep, ExecStep, RefuseStep
<1>4. CASE \E q \in Procs : Help(p, q)
    BY <1>4, HelpStep
<1>5. CASE Leave(p) \/ Close(p) \/ Unlock(p)
    BY <1>5, LeaveStep, CloseStep, UnlockStep
<1>6. CASE \E old \in BOOLEAN : Autostart(p, old)
    BY <1>6, AutostartStep
<1> QED BY <1>1, <1>2, <1>3, <1>4, <1>5, <1>6 DEF Daemon

(* A client's own state: at its next step, *)
LEMMA NowFacts ==
    ASSUME IInv, NEW c \in Clients, NEW pc \in {"ping", "shutdown", "stopping", "spawn",
                                              "wait", "ask", "await"}
    PROVE  /\ [client[c] EXCEPT !.pc = pc] \in ClientStates
           /\ [client[c] EXCEPT !.pc = pc].pc = pc
           /\ [client[c] EXCEPT !.pc = pc].seen = client[c].seen
<1>1. client[c] \in ClientStates
    BY DEF IInv, TypeOK
<1> QED BY <1>1 DEF ClientStates

(* ... at its end, *)
LEMMA GoneFacts == Idle \in ClientStates /\ Idle.pc = "idle" /\ ~Idle.seen
BY DEF ClientStates, Idle

(* ... and at its beginning *)
LEMMA CallFacts ==
    ASSUME NEW pc \in {"lock", "ping"}
    PROVE  /\ [Idle EXCEPT !.pc = pc] \in ClientStates
           /\ [Idle EXCEPT !.pc = pc].pc = pc
           /\ ~[Idle EXCEPT !.pc = pc].seen
BY DEF ClientStates, Idle

(* A client goes on without a word to a daemon *)
LEMMA OnlyClient ==
    ASSUME IInv, NEW c \in Clients, NEW s \in ClientStates,
           client' = [client EXCEPT ![c] = s],
           s.pc # "await" => ~s.seen,
           s.pc \in Asking => c \in Users,
           s.seen => client[c].seen \/ ~Live,
           starter' \in Clients \cup {None},
           UNCHANGED <<platform, sock, elev, path, stored, proc>>
    PROVE  IInv'
<1>1. TypeOK'
    BY DEF IInv, TypeOK
<1>2. Owning' /\ Listening' /\ Elevation' /\ Settled' /\ HandoverKept'
    BY DEF IInv, Owning, Listening, Elevation, Settled, HandoverKept, HandingOver
<1>3. client'[c] = s /\ \A d \in Clients \ {c} : client'[d] = client[d]
    BY DEF IInv, TypeOK
<1>4. ~Live => \A p \in Procs : proc[p].pc # "serving"
    <2> SUFFICES ASSUME NEW p \in Procs, proc[p].pc = "serving" PROVE Live
        OBVIOUS
    <2>1. path = p
        BY DEF IInv, Listening, Listens
    <2> QED BY <2>1, NoneAssumption DEF Live, Listens
<1>5. Waiting'
    BY <1>3, <1>4 DEF IInv, Waiting, Clients
<1> QED BY <1>1, <1>2, <1>5 DEF IInv

LEMMA NowStep ==
    ASSUME IInv, NEW c \in Clients, NEW pc \in {"ping", "shutdown", "stopping", "spawn",
                                              "wait", "ask", "await"},
           client[c].pc \notin {"idle", "await"}, Now(c, pc),
           pc \in Asking => c \in Users,
           starter' \in Clients \cup {None},
           UNCHANGED <<platform, sock, elev, path, stored, proc>>
    PROVE  IInv'
<1> DEFINE s == [client[c] EXCEPT !.pc = pc]
<1>0. ~client[c].seen
    BY DEF IInv, Waiting
<1>1. s \in ClientStates /\ s.pc = pc /\ ~s.seen
    BY <1>0, NowFacts
<1>2. client' = [client EXCEPT ![c] = s]
    BY DEF Now
<1> HIDE DEF s
<1> QED BY <1>1, <1>2, OnlyClient

LEMMA GoneStep ==
    ASSUME IInv, NEW c \in Clients, Gone(c),
           UNCHANGED <<platform, sock, elev, path, stored, proc>>
    PROVE  IInv'
<1>1. client' = [client EXCEPT ![c] = Idle] /\ starter' \in Clients \cup {None}
    BY DEF Gone, Without, IInv, TypeOK
<1> QED BY <1>1, GoneFacts, OnlyClient DEF Asking

LEMMA CallStep ==
    ASSUME IInv, NEW c \in Clients, Call(c)
    PROVE  IInv'
<1>1. PICK pc \in {"lock", "ping"} : client' = [client EXCEPT ![c] = [Idle EXCEPT !.pc = pc]]
    BY DEF Call
<1>2. UNCHANGED <<platform, sock, elev, starter, path, stored, proc>>
    BY DEF Call
<1> DEFINE s == [Idle EXCEPT !.pc = pc]
<1>3. s \in ClientStates /\ s.pc = pc /\ ~s.seen
    BY CallFacts
<1>4. client' = [client EXCEPT ![c] = s]
    BY <1>1
<1> HIDE DEF s
<1>5. starter' \in Clients \cup {None}
    BY <1>2 DEF IInv, TypeOK
<1> QED BY <1>2, <1>3, <1>4, <1>5, OnlyClient DEF Asking

LEMMA PingStep ==
    ASSUME IInv, NEW c \in Clients, TakeStarter(c) \/ PingUser(c) \/ PingStopper(c) \/ Wait(c)
    PROVE  IInv'
<1>1. client[c].pc \in {"lock", "ping", "wait"}
      /\ UNCHANGED <<platform, sock, elev, path, stored, proc>>
    BY DEF TakeStarter, PingUser, PingStopper, Wait
<1>2. starter' \in Clients \cup {None}
    BY DEF TakeStarter, PingUser, PingStopper, Wait, IInv, TypeOK
<1>3. PICK pc \in {"ping", "shutdown", "stopping", "spawn", "wait", "ask"} : Now(c, pc)
    BY DEF TakeStarter, PingUser, PingStopper, Wait
<1>4. pc \in Asking => c \in Users
    BY <1>3 DEF TakeStarter, PingUser, PingStopper, Wait, Now, Asking, IInv, Waiting, TypeOK, ClientStates
<1> QED BY <1>1, <1>2, <1>3, <1>4, NowStep

LEMMA StoppedStep ==
    ASSUME IInv, NEW c \in Clients, Stopped(c)
    PROVE  IInv'
<1>1. client[c].pc = "stopping" /\ UNCHANGED <<platform, sock, elev, path, stored, proc>>
    BY DEF Stopped
<1>2. CASE c \in Users
    <2>1. Now(c, "spawn") /\ starter' = starter
        BY <1>2 DEF Stopped
    <2>2. starter' \in Clients \cup {None}
        BY <2>1 DEF IInv, TypeOK
    <2> QED BY <1>1, <1>2, <2>1, <2>2, NowStep
<1>3. CASE c \notin Users
    <2>1. Gone(c)
        BY <1>3 DEF Stopped
    <2> QED BY <1>1, <2>1, GoneStep
<1> QED BY <1>2, <1>3

(* A daemon is asked to stop, or started: nothing changes for requests *)
LEMMA ProcessFacts ==
    ASSUME IInv, NEW c \in Clients, NEW pc \in {"stopping", "wait"},
           client[c].pc \notin {"idle", "await"}, Now(c, pc),
           pc \in Asking => c \in Users,
           proc' \in [Procs -> ProcStates],
           Owning' /\ Listening' /\ Elevation' /\ HandoverKept',
           \A q \in Procs : proc'[q].pc = "serving" => proc'[q] = proc[q],
           UNCHANGED <<platform, sock, elev, starter, path, stored>>
    PROVE  IInv'
<1> DEFINE s == [client[c] EXCEPT !.pc = pc]
<1>1. s \in ClientStates /\ s.pc = pc /\ ~s.seen
    <2>1. client[c] \in ClientStates /\ ~client[c].seen
        BY DEF IInv, TypeOK, Waiting
    <2> QED BY <2>1 DEF ClientStates
<1>2. client' = [client EXCEPT ![c] = s]
    BY DEF Now
<1> HIDE DEF s
<1>3. /\ client' \in [Clients -> ClientStates]
      /\ client'[c] = s /\ \A d \in Clients \ {c} : client'[d] = client[d]
    BY <1>1, <1>2 DEF IInv, TypeOK
<1>4. TypeOK'
    BY <1>3 DEF IInv, TypeOK
<1>5. Settled'
    BY DEF IInv, Settled
<1>6. Waiting'
    BY <1>1, <1>3 DEF IInv, Waiting, Clients
<1> QED BY <1>4, <1>5, <1>6 DEF IInv

LEMMA ShutdownStep ==
    ASSUME IInv, NEW c \in Clients, Shutdown(c)
    PROVE  IInv'
<1>1. /\ client[c].pc = "shutdown" /\ Now(c, "stopping")
      /\ UNCHANGED <<platform, sock, elev, starter, path, stored>>
    BY DEF Shutdown
<1>2. CASE proc' = proc
    <2>1. starter' \in Clients \cup {None}
        BY <1>1 DEF IInv, TypeOK
    <2> QED BY <1>1, <1>2, <2>1, NowStep DEF Asking
<1>3. CASE Answers /\ Leaves(path, "off")
    <2>1. path \in Procs /\ proc[path].pc = "serving"
        BY <1>3 DEF Answers, Live, IInv, TypeOK
    <2>2. /\ proc' \in [Procs -> ProcStates]
          /\ Owning' /\ Listening' /\ Elevation' /\ HandoverKept'
          /\ \A q \in Procs : proc'[q].pc = "serving" => proc'[q] = proc[q]
        BY <1>1, <1>3, <2>1, LeavesFacts
    <2> QED BY <1>1, <2>2, ProcessFacts DEF Asking
<1> QED BY <1>2, <1>3 DEF Shutdown

LEMMA SpawnStep ==
    ASSUME IInv, NEW c \in Clients, NEW p \in Procs, Spawn(c, p)
    PROVE  IInv'
<1>1. /\ client[c].pc = "spawn" /\ proc[p].pc = "off" /\ Now(c, "wait")
      /\ proc' = [proc EXCEPT ![p] = Fresh(FALSE, FALSE)]
      /\ UNCHANGED <<platform, sock, elev, starter, path, stored>>
    BY DEF Spawn
<1>2. /\ proc' \in [Procs -> ProcStates]
      /\ Owning' /\ Listening' /\ Elevation' /\ HandoverKept'
      /\ \A q \in Procs : proc'[q].pc = "serving" => proc'[q] = proc[q]
    BY <1>1, BeginsFacts
<1>3. c \in Users
    BY <1>1 DEF IInv, Waiting, Asking
<1> QED BY <1>1, <1>2, <1>3, ProcessFacts

(* A request goes to a daemon that serves, which is the only one.  It leaves    *)
(* what there was, nothing, or the request of c in the file, and no error in    *)
(* the last case.                                                            *)
LEMMA AskedFacts ==
    ASSUME IInv, NEW c \in Users, NEW r \in ProcStates, NEW s \in ClientStates,
           path \in Procs, proc[path].pc = "serving",
           r.pc = "serving", r.root = proc[path].root, r.next = proc[path].next,
           r.failed => proc[path].failed, proc' = [proc EXCEPT ![path] = r],
           ~s.seen, client' = [client EXCEPT ![c] = s],
           stored' \in States, starter' \in Clients \cup {None},
           \/ stored'.pending \in {None, stored.pending} /\ r.refused = proc[path].refused
           \/ stored'.pending = c /\ ~r.failed,
           UNCHANGED <<platform, sock, elev, path>>
    PROVE  IInv'
<1>0. TypeOK
    BY DEF IInv
<1>1. /\ proc' \in [Procs -> ProcStates]
      /\ proc'[path] = r
      /\ \A q \in Procs \ {path} : proc'[q] = proc[q]
    BY <1>0, RecordFacts
<1>2. /\ client' \in [Clients -> ClientStates]
      /\ client'[c] = s /\ \A d \in Clients \ {c} : client'[d] = client[d]
    BY <1>0 DEF TypeOK, Clients
<1>3. \A q \in Procs : proc'[q].pc = "serving" => q = path
    BY <1>1 DEF IInv, Listening, Listens
<1>a. TypeOK'
    BY <1>0, <1>1, <1>2 DEF TypeOK
<1>b. Owning'
    BY <1>1 DEF IInv, Owning
<1>c. Listening' /\ Elevation'
    BY <1>1 DEF IInv, Listening, Elevation
<1>d. Settled'
    BY <1>1, <1>3 DEF IInv, Settled
<1>e. Waiting'
    <2>1. \A d \in Clients : /\ client'[d].pc # "await" => ~client'[d].seen
                             /\ client'[d].pc \in Asking => d \in Users
        BY <1>2 DEF IInv, Waiting
    <2>2. ASSUME NEW d \in Users, client'[d].seen, stored'.pending = d
          PROVE  proc'[path].refused = d
        <3>1. d # c /\ client[d].seen
            BY <1>2, <2>2 DEF Clients
        <3>2. stored.pending = d /\ r.refused = proc[path].refused
            BY <2>2, <3>1, NoneAssumption DEF Clients
        <3> QED BY <1>1, <3>1, <3>2 DEF IInv, Waiting
    <2> QED BY <1>3, <2>1, <2>2 DEF Waiting
<1>f. HandoverKept'
    BY <1>1 DEF IInv, HandoverKept, HandingOver
<1> QED BY <1>a, <1>b, <1>c, <1>d, <1>e, <1>f DEF IInv

LEMMA AskStep ==
    ASSUME IInv, NEW c \in Clients, Ask(c)
    PROVE  IInv'
<1>0. TypeOK /\ stored \in States
    BY DEF IInv, TypeOK
<1>1. /\ client[c].pc = "ask" /\ c \in Users /\ path \in Procs /\ proc[path].pc = "serving"
      /\ UNCHANGED <<platform, sock, elev, path>>
    BY <1>0 DEF Ask, Answers, Live, TypeOK, IInv, Waiting, Asking
<1>2. proc[path] \in ProcStates
    BY <1>0, <1>1 DEF TypeOK
<1>3. Previous \in States /\ Previous.pending = None
    BY <1>0, <1>2 DEF Previous, States, ProcStates
<1>4. /\ Gone(c) => client' = [client EXCEPT ![c] = Idle] /\ starter' \in Clients \cup {None}
      /\ Idle \in ClientStates /\ ~Idle.seen
    BY <1>0, GoneFacts DEF Gone, Without, TypeOK
<1>5. CASE Connected(c) \/ Drops(c)
    <2>1. PICK runs \in Users \cup {None} :
             /\ stored' = [active |-> runs, pending |-> None]
             /\ proc' = [proc EXCEPT ![path] = [@ EXCEPT !.runs = runs, !.failed = FALSE]]
             /\ Gone(c)
        BY <1>1, <1>5 DEF Connected, Drops
    <2> DEFINE r == [proc[path] EXCEPT !.runs = runs, !.failed = FALSE]
    <2>2. /\ r \in ProcStates /\ r.pc = "serving" /\ ~r.failed
          /\ r.root = proc[path].root /\ r.next = proc[path].next
          /\ r.refused = proc[path].refused
        BY <1>1, <1>2 DEF ProcStates
    <2>3. proc' = [proc EXCEPT ![path] = r]
        BY <1>0, <1>1, <2>1 DEF TypeOK
    <2>4. stored' \in States /\ stored'.pending = None
        BY <2>1 DEF States
    <2> HIDE DEF r
    <2> QED BY <1>1, <1>4, <2>1, <2>2, <2>3, <2>4, AskedFacts
<1>6. CASE Elevates(c)
    <2>1. PICK runs \in {proc[path].runs, None}, restart \in {proc[path].restart, TRUE} :
             /\ proc' = [proc EXCEPT ![path] = [@ EXCEPT !.runs = runs, !.failed = FALSE,
                                                   !.refused = None, !.restart = restart]]
             /\ \/ Now(c, "await") /\ UNCHANGED starter
                \/ Gone(c)
        BY <1>6 DEF Elevates
    <2> DEFINE r == [proc[path] EXCEPT !.runs = runs, !.failed = FALSE, !.refused = None,
                                       !.restart = restart]
    <2>2. /\ r \in ProcStates /\ r.pc = "serving" /\ ~r.failed
          /\ r.root = proc[path].root /\ r.next = proc[path].next
        BY <1>1, <1>2 DEF ProcStates
    <2>3. proc' = [proc EXCEPT ![path] = r]
        BY <1>0, <1>1, <2>1 DEF TypeOK
    <2>4. stored' \in States /\ stored'.pending = c
        BY <1>1, <1>3, <1>6 DEF Elevates, States
    <2>5. \E s \in ClientStates : ~s.seen /\ client' = [client EXCEPT ![c] = s]
        <3>1. CASE Now(c, "await")
            <4>1. ~client[c].seen
                BY <1>1 DEF IInv, Waiting
            <4> QED BY <3>1, <4>1, NowFacts DEF Now
        <3>2. CASE Gone(c)
            BY <1>4, <3>2
        <3> QED BY <2>1, <3>1, <3>2
    <2>6. starter' \in Clients \cup {None}
        BY <1>0, <1>4, <2>1 DEF TypeOK
    <2> HIDE DEF r
    <2> QED BY <1>1, <2>2, <2>3, <2>4, <2>5, <2>6, AskedFacts
<1>7. CASE AskFails(c)
    <2>1. PICK runs \in Users \cup {None}, failed \in {proc[path].failed, FALSE} :
             proc' = [proc EXCEPT ![path] = [@ EXCEPT !.runs = runs, !.failed = failed]]
        BY <1>1, <1>2, <1>7 DEF AskFails, ProcStates
    <2> DEFINE r == [proc[path] EXCEPT !.runs = runs, !.failed = failed]
    <2>2. /\ r \in ProcStates /\ r.pc = "serving" /\ (r.failed => proc[path].failed)
          /\ r.root = proc[path].root /\ r.next = proc[path].next
          /\ r.refused = proc[path].refused
        BY <1>1, <1>2 DEF ProcStates
    <2>3. proc' = [proc EXCEPT ![path] = r]
        BY <1>0, <1>1, <2>1 DEF TypeOK
    <2>4. stored' \in States /\ stored'.pending \in {None, stored.pending}
        BY <1>0, <1>3, <1>7 DEF AskFails
    <2>5. Gone(c)
        BY <1>7 DEF AskFails
    <2> HIDE DEF r
    <2> QED BY <1>1, <1>4, <2>2, <2>3, <2>4, <2>5, AskedFacts
<1> QED BY <1>5, <1>6, <1>7 DEF Ask

(* A poll: nobody serves when a client sees no daemon *)
LEMMA PollStep ==
    ASSUME IInv, NEW c \in Clients, Poll(c)
    PROVE  IInv'
<1>1. client[c].pc = "await" /\ UNCHANGED <<platform, sock, elev, path, stored, proc>>
    BY DEF Poll
<1>2. CASE NoDaemon /\ client' = [client EXCEPT ![c].seen = TRUE] /\ UNCHANGED starter
    <2> DEFINE s == [client[c] EXCEPT !.seen = TRUE]
    <2>1. client[c] \in ClientStates /\ c \in Users /\ starter' \in Clients \cup {None}
        BY <1>1, <1>2 DEF IInv, TypeOK, Waiting, Asking
    <2>2. s \in ClientStates /\ s.pc = "await"
        BY <1>1, <2>1 DEF ClientStates
    <2>3. client' = [client EXCEPT ![c] = s]
        BY <1>2
    <2>4. ~Live
        BY <1>2 DEF NoDaemon
    <2> HIDE DEF s
    <2> QED BY <1>1, <2>1, <2>2, <2>3, <2>4, OnlyClient
<1>3. CASE Gone(c)
    BY <1>1, <1>3, GoneStep
<1> QED BY <1>2, <1>3 DEF Poll

(* Any step of a client *)
LEMMA ClientStep ==
    ASSUME IInv, NEW c \in Clients, Call(c) \/ User(c)
    PROVE  IInv'
<1>1. CASE Call(c)
    BY <1>1, CallStep
<1>2. CASE TakeStarter(c) \/ PingUser(c) \/ PingStopper(c) \/ Wait(c)
    BY <1>2, PingStep
<1>3. CASE Shutdown(c) \/ Stopped(c) \/ \E p \in Procs : Spawn(c, p)
    BY <1>3, ShutdownStep, StoppedStep, SpawnStep
<1>4. CASE Ask(c) \/ Poll(c)
    BY <1>4, AskStep, PollStep
<1>5. CASE GiveUp(c)
    BY <1>5, GoneStep DEF GiveUp
<1> QED BY <1>1, <1>2, <1>3, <1>4, <1>5 DEF User

-----------------------------------------------------------------------------
LEMMA InitFacts == Init => IInv
<1> SUFFICES ASSUME Init PROVE IInv
    OBVIOUS
<1>1. \A p \in Procs : proc[p].pc = "off" /\ proc[p] \in ProcStates
    BY FreshFacts DEF Init
<1>2. \A c \in Clients : client[c] = Idle
    BY DEF Init
<1>3. Idle \in ClientStates /\ Idle.pc = "idle" /\ ~Idle.seen
    BY GoneFacts
<1>4. TypeOK
    BY <1>1, <1>2, <1>3 DEF Init, TypeOK, States
<1>5. Owning /\ Listening /\ Elevation /\ Settled
    BY <1>1, NoneAssumption DEF Init, Owning, Listening, Elevation, Settled, Owns, Listens
<1>6. Waiting
    BY <1>1, <1>2, <1>3 DEF Waiting, Asking, Clients
<1>7. HandoverKept
    BY NoneAssumption DEF Init, HandoverKept
<1> QED BY <1>4, <1>5, <1>6, <1>7 DEF IInv

LEMMA NextFacts == IInv /\ [Next]_vars => IInv'
<1> SUFFICES ASSUME IInv, [Next]_vars PROVE IInv'
    OBVIOUS
<1>1. CASE \E p \in Procs : Daemon(p) \/ Crash(p) \/ \E old \in BOOLEAN : Autostart(p, old)
    BY <1>1, DaemonStep
<1>2. CASE \E c \in Clients : Call(c) \/ User(c)
    BY <1>2, ClientStep
<1>3. CASE UNCHANGED vars
    <2>1. TypeOK' /\ Owning' /\ Listening' /\ Elevation'
        BY <1>3 DEF vars, IInv, TypeOK, Owning, Listening, Elevation
    <2>2. Settled' /\ Waiting' /\ HandoverKept'
        BY <1>3 DEF vars, IInv, Settled, Waiting, HandoverKept, HandingOver
    <2> QED BY <2>1, <2>2 DEF IInv
<1> QED BY <1>1, <1>2, <1>3 DEF Next

(* The locks, the socket's file and the stored request agree with where every  *)
(* process and every client is, however many of them there are (Listen, the    *)
(* loop of main, AwaitConnection).                                          *)
THEOREM DaemonsInvariant == Spec => []IInv
<1> QED BY InitFacts, NextFacts, PTL DEF Spec

(* Every variable of Daemons has its type *)
THEOREM DaemonsTypes == Spec => []TypeOK
<1>1. IInv => TypeOK
    BY DEF IInv
<1> QED BY DaemonsInvariant, <1>1, PTL

(* A daemon that serves can be reached, and is the only one (Listen and the     *)
(* order in which its listener and lock are given back).                     *)
THEOREM ServingIsReachable == Spec => []ServerReachable
<1>1. IInv => ServerReachable
    BY DEF IInv, Owning, Listening, ServerReachable, Owns, Listens
<1> QED BY DaemonsInvariant, <1>1, PTL

(* The reservation keeps the socket for the privileged copy (Reserve,          *)
(* TakeReservation, Listen).                                                *)
THEOREM HandoverIsKept == Spec => []HandoverKept
<1>1. IInv => HandoverKept
    BY DEF IInv
<1> QED BY DaemonsInvariant, <1>1, PTL

(* What AwaitConnection tells of a request is so: it is out of the file, or the *)
(* daemon that answers was refused the privilege for it (Restore,              *)
(* RestoreFailed, whose save may fail).                                      *)
THEOREM VerdictIsTrue == Spec => []VerdictTrue
<1>1. IInv => VerdictTrue
    <2> SUFFICES ASSUME IInv, NEW c \in Users, Fails(c), stored.pending = c
                 PROVE  proc[path].refused = c
        BY DEF VerdictTrue
    <2>1. path \in Procs /\ proc[path].pc = "serving"
        BY DEF Fails, Answers, Live, IInv, TypeOK
    <2>2. stored.pending # None
        BY NoneAssumption DEF Clients
    <2>3. CASE proc[path].failed
        BY <2>1, <2>2, <2>3 DEF IInv, Settled
    <2>4. CASE client[c].seen
        BY <2>1, <2>4 DEF IInv, Waiting
    <2> QED BY <2>3, <2>4 DEF Fails
<1> QED BY DaemonsInvariant, <1>1, PTL
=============================================================================
