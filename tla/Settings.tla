------------------------------ MODULE Settings ------------------------------
(***************************************************************************)
(* SetSettings and what it drags along: the engine that runs with the        *)
(* settings, the configuration file, and the autostart entry of the          *)
(* operating system, whose commands may outlive the call that wanted them.   *)
(* Beside it run SetCollapsed, which writes the other file, a client that    *)
(* gives up, a daemon that is stopped or crashes in the middle of a write,   *)
(* and the next daemon, which clears what the crash left behind.             *)
(*                                                                         *)
(* Sources: daemon/core/settings.go and autostart.go, daemon/store/store.go, *)
(* the start of the loop in cmd/justrayd/main.go, platform/autostart.        *)
(***************************************************************************)
EXTENDS Naturals

CONSTANTS
    Confs,    \* configurations as a client sends them or a file holds them
    Normal,   \* Normal[c]: what Settings.Normalize makes of c
    Invalid,  \* ... when it refuses c
    Calls,    \* identities of autostartCall objects
    None

\* Normalize fills in what is missing; doing it twice changes nothing more, so
\* what was saved is read back as it was.
ASSUME NormalAssumption ==
    /\ Normal \in [Confs -> Confs \cup {Invalid}]
    /\ Invalid \notin Confs
    /\ \A c \in Confs : Normal[c] # Invalid => Normal[Normal[c]] = Normal[c]

ASSUME NoneAssumption == None \notin Confs \cup Calls

Files   == {"config", "state"}
Normals == {c \in Confs : Normal[c] = c}

\* What the daemon says of the autostart entry; "" is "not known".
Entries == {"on", "off"}
Answers == Entries \cup {""}

\* The part of domain.Settings a change is about.
Values == [conf : Normals, auto : Answers]

VARIABLES
    config,     \* what the configuration file holds
    lock,       \* which of the two files have a .lock beside them
    entry,      \* the autostart entry of the operating system
    main,       \* where main is
    mem,        \* Core.state.Settings
    engine,     \* the configuration the engine runs with
    autostart,  \* Core.autostart
    call,       \* the autostartCall objects
    change,     \* the SetSettings in Core.changing
    saving,     \* the writeJSON in progress, under opMu
    accident    \* history: repairs that failed, see Accidents

vars == <<config, lock, entry, main, mem, engine, autostart, call,
          change, saving, accident>>

\* "torn": the engine could not be put back; "lost": the entry could neither be
\* put back nor read; "stuck": a temporary file could not be removed.
Accidents == {"torn", "lost", "stuck"}

\* Who waits for a call: New, SetSettings, the goroutine left behind by a call
\* that ran out of time, and that goroutine's own reading.
Owners     == {"none", "start", "change", "late", "again"}
CallStates == [kind : Entries \cup {"read"}, stage : {"unused", "running", "done"},
               value : Answers, owner : Owners]
NoCall     == [kind |-> "read", stage |-> "unused", value |-> "", owner |-> "none"]

Steps     == {"none", "read", "apply", "set", "save", "undo", "reread", "restore"}
Changes   == [step : Steps, expected : Values, next : Values, prev : Values,
              connected : BOOLEAN, dead : BOOLEAN]
AnyValue  == CHOOSE v \in Values : TRUE
NoChange  == [step |-> "none", expected |-> AnyValue, next |-> AnyValue,
              prev |-> AnyValue, connected |-> FALSE, dead |-> FALSE]
NotSaving == [file |-> "none", written |-> FALSE]

TypeOK ==
    /\ config \in Confs
    /\ lock \in [Files -> BOOLEAN]
    /\ entry \in Entries
    /\ main \in {"down", "starting", "up", "stopping"}
    /\ mem \in Values
    /\ engine \in Normals \cup {None}
    /\ autostart \in Calls \cup {None}
    /\ call \in [Calls -> CallStates]
    /\ change \in Changes
    /\ saving \in [file : Files \cup {"none"}, written : BOOLEAN]
    /\ accident \subseteq Accidents

Init ==
    /\ config \in {c \in Confs : Normal[c] # Invalid}
    /\ lock = [f \in Files |-> FALSE]
    /\ entry = "off"
    /\ main = "down"
    /\ mem = AnyValue
    /\ engine = None
    /\ autostart = None
    /\ call = [c \in Calls |-> NoCall]
    /\ change = NoChange
    /\ saving = NotSaving
    /\ accident = {}

-----------------------------------------------------------------------------
(* The pieces of a change.                                                   *)

\* opMu is held only while a file is written.
Free == saving = NotSaving /\ change.step # "save"

Busy == change.step # "none"

\* What a step goes on with: the call objects, Core.autostart, and what the
\* state says of the entry.
Here == [calls |-> call, pending |-> autostart, auto |-> mem.auto]

\* readAutostart returns: the call is done,
Collected(c) == [calls |-> [call EXCEPT ![c] = NoCall], pending |-> None,
                 auto |-> mem.auto]

\* Sensitivity: the state goes on saying what it said before the late call.
LeftBelieved(c) == [Here EXCEPT !.calls[c].owner = "late"]

\* or its context is, and a goroutine is left to wait for the call.
Left(c) == [calls |-> [call EXCEPT ![c].owner = "late"], pending |-> autostart,
            auto |-> ""]

\* readAutostart starts a command for owner.
Launches(v, kind, owner) ==
    LET c == CHOOSE c \in Calls : v.calls[c].stage = "unused"
    IN  /\ \E d \in Calls : v.calls[d].stage = "unused"
        /\ call' = [v.calls EXCEPT ![c] = [kind |-> kind, stage |-> "running",
                                           value |-> "", owner |-> owner]]
        /\ autostart' = c

Keeps(v) == call' = v.calls /\ autostart' = v.pending

Knows(auto) == mem' = [mem EXCEPT !.auto = auto]

\* The change goes on.
Goes(v, ch) == Keeps(v) /\ Knows(v.auto) /\ change' = ch

\* It waits for a command.
Asks(v, kind, ch) == Launches(v, kind, "change") /\ Knows(v.auto) /\ change' = ch

\* It returns before it touched anything; the state learns auto.
Refused(v, auto) == Keeps(v) /\ Knows(auto) /\ change' = NoChange

\* It returns, and leaves val in the state.
Ends(v, val) ==
    /\ Keeps(v)
    /\ mem' = IF val.auto = "" THEN [val EXCEPT !.auto = v.auto] ELSE val
    /\ change' = NoChange

\* Sensitivity: the engine keeps the settings that were not saved.
UndoneWithoutEngine(v, ch) == Ends(v, ch.prev)

\* It failed, and the entry is dealt with: the engine follows.
Undone(v, ch) ==
    IF ch.connected THEN Goes(v, [ch EXCEPT !.step = "restore"])
                    ELSE Ends(v, ch.prev)

\* It failed after the engine took the settings.
Failed(v, ch) ==
    IF ch.next.auto = ch.prev.auto THEN Undone(v, ch)
    ELSE IF v.pending # None THEN Undone(v, [ch EXCEPT !.prev.auto = ""])
    ELSE Asks(v, IF ch.prev.auto = "on" THEN "on" ELSE "off", [ch EXCEPT !.step = "undo"])

\* The entry is as it is wanted: save, unless the caller has gone.
Settled(v, ch) ==
    IF ch.dead THEN Failed(v, ch) ELSE Goes(v, [ch EXCEPT !.step = "save"])

\* The engine runs with the settings, or nothing runs.
Applied(v, ch) ==
    IF ch.next.auto = ch.prev.auto THEN Settled(v, ch)
    ELSE IF ch.dead \/ v.pending # None THEN Failed(v, ch)
    ELSE Asks(v, ch.next.auto, [ch EXCEPT !.step = "set"])

\* The settings before the change are known: compare them with what the client
\* saw, and with what it wants.
Compares(v, ch, prev) ==
    LET next == IF ch.next.auto = "" THEN [ch.next EXCEPT !.auto = prev.auto] ELSE ch.next
        full == [ch EXCEPT !.expected = AnyValue, !.prev = prev, !.next = next,
                           !.connected = engine # None]
    IN  IF ch.expected # prev THEN Refused(v, prev.auto)
        ELSE IF next = prev THEN Refused(v, v.auto)
        ELSE IF engine # None THEN Goes(v, [full EXCEPT !.step = "apply"])
        ELSE Applied(v, full)

-----------------------------------------------------------------------------
(* SetSettings.                                                              *)

\* A client asks for a change, of what it has seen into what it wants.  Settings
\* that Normalize refuses, and a change beside another, change nothing.
Begin(expected, conf, auto) ==
    /\ main = "up" /\ Free /\ ~Busy
    /\ Normal[conf] # Invalid
    /\ LET next == [conf |-> Normal[conf], auto |-> auto]
           ch   == [NoChange EXCEPT !.expected = expected, !.next = next]
       IN  IF autostart = None
           THEN Asks(Here, "read", [ch EXCEPT !.step = "read"])
           ELSE /\ expected.auto = "" /\ auto = ""
                /\ Compares(Here, ch, mem)
    /\ UNCHANGED <<config, lock, entry, main, engine, saving, accident>>

\* The client goes away, or its time is up.
HangUp ==
    /\ Busy /\ ~change.dead
    /\ change' = [change EXCEPT !.dead = TRUE]
    /\ UNCHANGED <<config, lock, entry, main, mem, engine, autostart, call,
                   saving, accident>>

\* conn.Apply returned.  A call that failed leaves what ran, or nothing.
ApplyReturns ==
    /\ change.step = "apply" /\ Free
    /\ \/ /\ engine' = change.next.conf
          /\ Applied(Here, change)
       \/ /\ engine' \in {engine, None}
          /\ Goes(Here, [change EXCEPT !.step = "restore"])
    /\ UNCHANGED <<config, lock, entry, main, saving, accident>>

\* The second conn.Apply, with the settings before.
RestoreReturns ==
    /\ change.step = "restore" /\ Free
    /\ Ends(Here, change.prev)
    /\ engine' \in {change.prev.conf, engine, None}
    /\ accident' = IF engine' \in {change.prev.conf, None} THEN accident
                   ELSE accident \cup {"torn"}
    /\ UNCHANGED <<config, lock, entry, main, saving>>

\* readAutostart returned value to the change, "" with an error.
Returned(v, value) ==
    \/ /\ change.step = "read" /\ value = ""
       /\ Refused(v, v.auto)
       /\ UNCHANGED accident
    \/ /\ change.step = "read" /\ value # ""
       /\ Compares(v, change, [conf |-> mem.conf, auto |-> value])
       /\ UNCHANGED accident
    \/ /\ change.step = "set" /\ value = ""
       /\ Failed(v, change)
       /\ UNCHANGED accident
    \/ /\ change.step = "set" /\ value # ""
       /\ Settled(v, change)
       /\ UNCHANGED accident
    \/ /\ change.step = "undo" /\ value # ""
       /\ Undone(v, change)
       /\ UNCHANGED accident
    \/ /\ change.step = "undo" /\ value = ""
       /\ IF v.pending = None
          THEN Asks(v, "read", [change EXCEPT !.step = "reread"])
          ELSE Undone(v, [change EXCEPT !.prev.auto = ""])
       /\ UNCHANGED accident
    \/ /\ change.step = "reread"
       /\ Undone(v, [change EXCEPT !.prev.auto = value])
       /\ accident' = IF value = "" /\ v.pending = None THEN accident \cup {"lost"}
                      ELSE accident

ChangeCollects(c) ==
    /\ Free
    /\ call[c].owner = "change" /\ call[c].stage = "done"
    /\ Returned(Collected(c), call[c].value)
    /\ UNCHANGED <<config, lock, entry, main, engine, saving>>

\* Sensitivity: only the caller's own time is limited.
ExpiredWithCaller(c) == call[c].owner = "change" /\ change.dead

Expired(c) == call[c].owner = "change"

\* Ten seconds have passed, or the caller has gone, which does not hurry the
\* commands of a rollback.
ChangeExpires(c) ==
    /\ Free
    /\ Expired(c)
    /\ Returned(Left(c), "")
    /\ UNCHANGED <<config, lock, entry, main, engine, saving>>

-----------------------------------------------------------------------------
(* The autostart commands, and the goroutines that wait for late ones.        *)

\* A command that asks gets the answer, or fails.
Reads(c) ==
    /\ call[c].kind = "read"
    /\ \E value \in {entry, ""} :
           call' = [call EXCEPT ![c].stage = "done", ![c].value = value]
    /\ UNCHANGED entry

\* A command that changes the entry may fail after any of its steps.
Sets(c) ==
    /\ call[c].kind # "read"
    /\ \/ /\ entry' = call[c].kind
          /\ call' = [call EXCEPT ![c].stage = "done", ![c].value = call[c].kind]
       \/ /\ entry' \in {entry, call[c].kind}
          /\ call' = [call EXCEPT ![c].stage = "done"]

\* autostart.Current or Set returns.
CommandReturns(c) ==
    /\ call[c].stage = "running"
    /\ Reads(c) \/ Sets(c)
    /\ UNCHANGED <<config, lock, main, mem, engine, autostart, change,
                   saving, accident>>

\* The late result is in; one that is an error is read again.
LateCollects(c) ==
    /\ main = "up" /\ Free
    /\ call[c].owner = "late" /\ call[c].stage = "done"
    /\ LET v == Collected(c)
       IN  IF call[c].value # "" THEN Keeps(v) /\ Knows(call[c].value)
           ELSE Launches(v, "read", "again") /\ UNCHANGED mem
    /\ UNCHANGED <<config, lock, entry, main, engine, change, saving, accident>>

AgainCollects(c) ==
    /\ main = "up" /\ Free
    /\ call[c].owner = "again" /\ call[c].stage = "done"
    /\ Keeps(Collected(c)) /\ Knows(call[c].value)
    /\ UNCHANGED <<config, lock, entry, main, engine, change, saving, accident>>

AgainExpires(c) ==
    /\ main = "up" /\ Free
    /\ call[c].owner = "again"
    /\ Keeps(Left(c)) /\ Knows("")
    /\ UNCHANGED <<config, lock, entry, main, engine, change, saving, accident>>

-----------------------------------------------------------------------------
(* The files, and the other callers.                                         *)

\* writeJSON: a temporary file that nobody else may have,
OpensTemporary(f) ==
    /\ ~lock[f]
    /\ lock' = [lock EXCEPT ![f] = TRUE]
    /\ saving' = [file |-> f, written |-> FALSE]

\* written and flushed,
Flush ==
    /\ saving # NotSaving /\ ~saving.written
    /\ saving' = [saving EXCEPT !.written = TRUE]
    /\ UNCHANGED <<config, lock, entry, main, mem, engine, autostart, call,
                   change, accident>>

\* and renamed, after which the caller puts the value into the state.
Rename ==
    /\ saving # NotSaving /\ saving.written
    /\ lock' = [lock EXCEPT ![saving.file] = FALSE]
    /\ saving' = NotSaving
    /\ IF saving.file = "config"
       THEN config' = change.next.conf /\ Ends(Here, change.next)
       ELSE UNCHANGED <<config, mem, autostart, call, change>>
    /\ UNCHANGED <<entry, main, engine, accident>>

\* A step fails: the temporary file is removed, which may fail too.
WriteFails ==
    /\ saving # NotSaving
    /\ \/ lock' = [lock EXCEPT ![saving.file] = FALSE] /\ UNCHANGED accident
       \/ UNCHANGED lock /\ accident' = accident \cup {"stuck"}
    /\ saving' = NotSaving
    /\ IF saving.file = "config" THEN Failed(Here, change)
       ELSE UNCHANGED <<mem, autostart, call, change>>
    /\ UNCHANGED <<config, entry, main, engine>>

SaveConfig ==
    /\ change.step = "save" /\ saving = NotSaving
    /\ OpensTemporary("config")
    /\ UNCHANGED <<config, entry, main, mem, engine, autostart, call, change, accident>>

\* The temporary file is there already.
SaveRefused ==
    /\ change.step = "save" /\ saving = NotSaving
    /\ lock["config"]
    /\ Failed(Here, change)
    /\ UNCHANGED <<config, lock, entry, main, engine, saving, accident>>

\* The state is saved as it is in memory, but for a fold; what the file holds is
\* in Core.
SetCollapsed ==
    /\ main = "up" /\ Free
    /\ OpensTemporary("state")
    /\ UNCHANGED <<config, entry, main, mem, engine, autostart, call, change, accident>>

\* Another change takes a connection up or down; Core has it in full.
Switch ==
    /\ main = "up" /\ Free /\ ~Busy
    /\ engine' \in {mem.conf, None}
    /\ UNCHANGED <<config, lock, entry, main, mem, autostart, call, change,
                   saving, accident>>

-----------------------------------------------------------------------------
(* The daemon.                                                               *)

\* Sensitivity: main only removes the temporary file of the configuration.
ClearedConfig == [lock EXCEPT !["config"] = FALSE]

Cleared == [f \in Files |-> FALSE]

\* main has the socket: it removes what a write left, and New loads the files.
Launch ==
    /\ main = "down"
    /\ main' = "starting"
    /\ lock' = Cleared
    /\ mem' = [conf |-> Normal[config], auto |-> ""]
    /\ Launches(Here, "read", "start")
    /\ accident' = {}
    /\ UNCHANGED <<config, entry, engine, change, saving>>

StartCollects(c) ==
    /\ call[c].owner = "start" /\ call[c].stage = "done"
    /\ main' = "up"
    /\ Keeps(Collected(c)) /\ Knows(call[c].value)
    /\ UNCHANGED <<config, lock, entry, engine, change, saving, accident>>

StartExpires(c) ==
    /\ call[c].owner = "start"
    /\ main' = "up"
    /\ Keeps(Left(c)) /\ Knows("")
    /\ UNCHANGED <<config, lock, entry, engine, change, saving, accident>>

\* The context of the daemon is canceled; Shutdown waits for the change.
Stop ==
    /\ main = "up"
    /\ main' = "stopping"
    /\ change' = [change EXCEPT !.dead = Busy]
    /\ UNCHANGED <<config, lock, entry, mem, engine, autostart, call,
                   saving, accident>>

\* The process is gone: its files stay as they are, and a command that was
\* running has done its work or not.
Gone ==
    /\ main' = "down"
    /\ entry' \in {entry} \cup {call[c].kind : c \in {d \in Calls :
                       call[d].stage = "running" /\ call[d].kind # "read"}}
    /\ mem' = AnyValue
    /\ engine' = None
    /\ autostart' = None
    /\ call' = [c \in Calls |-> NoCall]
    /\ change' = NoChange
    /\ saving' = NotSaving
    /\ UNCHANGED <<config, lock, accident>>

Exit  == main = "stopping" /\ ~Busy /\ Free /\ Gone

Crash == main # "down" /\ Gone

-----------------------------------------------------------------------------
SetSettings == \E expected \in Values, conf \in Confs, auto \in Answers :
                   Begin(expected, conf, auto)

Engines  == ApplyReturns \/ RestoreReturns
Awaits   == \E c \in Calls : ChangeCollects(c) \/ ChangeExpires(c)
Commands == \E c \in Calls : CommandReturns(c)
Late     == \E c \in Calls : LateCollects(c) \/ AgainCollects(c) \/ AgainExpires(c)
Disk     == Flush \/ Rename \/ WriteFails \/ SaveConfig \/ SaveRefused
Starts   == Launch \/ \E c \in Calls : StartCollects(c) \/ StartExpires(c)

Next ==
    \/ SetSettings \/ HangUp \/ Engines \/ Awaits
    \/ Commands \/ Late
    \/ Disk \/ SetCollapsed \/ Switch
    \/ Starts \/ Stop \/ Exit \/ Crash

Spec == Init /\ [][Next]_vars

\* The engine returns, the disk answers, and a timer of ten seconds fires; the
\* commands of the system need not return.  Fairness is strong where the change
\* has to get opMu back, which Go's mutex gives to every waiter in the end.
FairSpec == Spec /\ SF_vars(Engines) /\ SF_vars(Awaits) /\ WF_vars(Disk)

-----------------------------------------------------------------------------
(* Properties.                                                               *)

Resting == main = "up" /\ ~Busy

\* However a change ends - refused, saved, or undone after the engine, the
\* autostart command or the file failed, with its client gone or not - the
\* daemon's settings are what the file holds, and what the engine runs with
\* unless putting the engine back failed as well.
SettingsAgree ==
    Resting => /\ mem.conf = Normal[config]
               /\ engine \in {mem.conf, None} \/ "torn" \in accident

\* The daemon never says of the autostart entry what is not so: a command that
\* outlives its change leaves it unknown until the late result is in, which is
\* then the current one, and a rollback is believed only when it happened.
AutostartKnown ==
    Resting => mem.auto \in {entry, ""} \/ "lost" \in accident

\* No write is blocked by a temporary file that nobody is writing: neither a
\* failed write nor the crash of an earlier daemon leaves one behind.
WritesPossible ==
    main \in {"starting", "up"} =>
        \A f \in Files : lock[f] => saving.file = f \/ "stuck" \in accident

\* A change of the settings ends, with all it has to undo, even when the
\* commands of the system never return.
SettingsEnd == Busy ~> ~Busy
=============================================================================
