---------------------------- MODULE SettingsProofs ----------------------------
(***************************************************************************)
(* Proofs about Settings, for any configurations and calls: however a change  *)
(* ends, the daemon's settings are those of the file and of the engine, what   *)
(* it says of the autostart entry is so, and no write is blocked for ever.    *)
(***************************************************************************)
EXTENDS Settings, TLAPS

(* What an accident excuses *)
Lost == "lost" \in accident

(* The file has what memory has, and the temporary files belong to a write *)
DiskInv ==
    /\ Normal[config] # Invalid
    /\ main # "down" => mem.conf = Normal[config]
    /\ saving.file = "none" => ~saving.written
    /\ saving.file = "config" => change.step = "save"
    /\ main # "down" => \A f \in Files : lock[f] => saving.file = f \/ "stuck" \in accident

(* The step waits for a command of its own *)
Awaiting == {"read", "set", "undo", "reread"}

(* One command at a time: what it is for, and what it says when it is done *)
CommandInv ==
    /\ \A c \in Calls : c # autostart => call[c] = NoCall
    /\ autostart # None =>
          LET k == call[autostart]
          IN  /\ k.stage \in {"running", "done"}
              /\ k.stage = "running" => k.value = ""
              /\ k.stage = "done" /\ k.value # "" => k.value = entry
              /\ k.kind # "read" => k.value \in {k.kind, ""}
              /\ k.owner \in {"start", "change", "late", "again"}
              /\ k.owner = "change" <=> change.step \in Awaiting
              /\ k.owner = "start" <=> main = "starting"
              /\ k.owner = "start" => k.kind = "read"
              /\ k.owner \in {"late", "again"} => mem.auto = ""
              /\ change.step \in {"read", "reread"} => k.kind = "read"
              /\ change.step = "set" => k.kind = change.next.auto
              /\ change.step = "undo" => k.kind = change.prev.auto
    /\ change.step \in Awaiting => autostart # None

(* Where main is *)
MainInv ==
    /\ main = "down" => autostart = None /\ engine = None
    /\ main \in {"down", "starting"} => change.step = "none" /\ saving = NotSaving
    /\ main = "starting" => autostart # None /\ mem.auto = "" /\ engine = None

(* What is known of the entry *)
Known(auto) == auto \in {entry, ""} \/ Lost

(* The entry as the change found it, or as it left it *)
AutoInv ==
    /\ main # "down" /\ change.step \in {"none", "read"} => Known(mem.auto)
    /\ change.step \in {"apply", "save", "restore"} =>
          /\ change.prev.auto = "" => Known(mem.auto)
          /\ change.prev.auto # "" => autostart = None
    /\ change.step \in {"apply", "restore"} => Known(change.prev.auto)
    /\ change.step \in {"apply", "save"} =>
          (change.next.auto = "" <=> change.prev.auto = "")
    /\ change.step = "save" => Known(change.next.auto)
    /\ change.step \in {"set", "undo"} => change.prev.auto \in Entries
    /\ change.step = "set" => change.next.auto \in Entries \ {change.prev.auto}

(* The engine as the change found it, or as it left it *)
EngineInv ==
    /\ main # "down" /\ change.step \in {"none", "read"} =>
          engine \in {mem.conf, None} \/ "torn" \in accident
    /\ change.step \notin {"none", "read"} => change.prev.conf = mem.conf
    /\ change.step = "apply" => change.connected
    /\ change.step \in {"set", "save", "undo", "reread"} =>
          engine = IF change.connected THEN change.next.conf ELSE None

IInv == TypeOK /\ DiskInv /\ CommandInv /\ MainInv /\ AutoInv /\ EngineInv

-----------------------------------------------------------------------------
(* The pieces of a change keep the invariant.  A piece is given the commands   *)
(* as it goes on with them, v, and the change, ch; what the action around it    *)
(* does to the other variables is in World.                                   *)

World ==
    /\ config' \in Confs /\ Normal[config'] # Invalid
    /\ lock' \in [Files -> BOOLEAN]
    /\ \A f \in Files : lock'[f] => "stuck" \in accident'
    /\ entry \in Entries /\ entry' = entry
    /\ main \in {"up", "stopping"} /\ main' = main
    /\ mem \in Values
    /\ engine' \in Normals \cup {None}
    /\ saving' = NotSaving
    /\ accident' \subseteq Accidents

SameConf == mem.conf = Normal[config']

Sure(auto) == auto \in {entry', ""} \/ "lost" \in accident'

Runs(conf) == engine' \in {conf, None} \/ "torn" \in accident'

Follows(ch) == engine' = IF ch.connected THEN ch.next.conf ELSE None

(* no command of the change is under way, a late one may be *)
Stray(k) ==
    /\ k.stage \in {"running", "done"}
    /\ k.stage = "running" => k.value = ""
    /\ k.stage = "done" /\ k.value # "" => k.value = entry'
    /\ k.kind # "read" => k.value \in {k.kind, ""}
    /\ k.owner \in {"late", "again"}

Views == [calls : [Calls -> CallStates], pending : Calls \cup {None}, auto : Answers]

Idle(v) ==
    /\ v \in Views
    /\ \A c \in Calls : c # v.pending => v.calls[c] = NoCall
    /\ v.pending # None => Stray(v.calls[v.pending]) /\ v.auto = ""

(* auto is what the change goes back to: what is known now is kept, *)
Kept(v, auto) ==
    /\ auto = "" => Sure(v.auto)
    /\ auto # "" => v.pending = None

(* and auto is so *)
AutoOk(v, auto) == Kept(v, auto) /\ Sure(auto)

(* Some settings are in their normal form *)
LEMMA SomeNormal ==
    ASSUME NEW c \in Confs, Normal[c] # Invalid
    PROVE  Normal[c] \in Normals /\ AnyValue \in Values /\ NoChange \in Changes
<1>1. Normal[c] \in Confs /\ Normal[Normal[c]] = Normal[c]
  BY NormalAssumption
<1>2. Normal[c] \in Normals
  BY <1>1 DEF Normals
<1>3. [conf |-> Normal[c], auto |-> ""] \in Values
  BY <1>2 DEF Values, Answers
<1>4. AnyValue \in Values
  BY <1>3 DEF AnyValue
<1>5. NoChange \in Changes
  BY <1>4 DEF NoChange, Changes, Steps
<1> QED BY <1>2, <1>4, <1>5

LEMMA FreeCall == NoCall \in CallStates
  BY DEF NoCall, CallStates, Entries, Answers, Owners

(* What World says of the variables that no piece changes *)
LEMMA WorldTypes ==
    ASSUME World
    PROVE  /\ config' \in Confs /\ lock' \in [Files -> BOOLEAN] /\ entry' \in Entries
           /\ main' \in {"down", "starting", "up", "stopping"}
           /\ engine' \in Normals \cup {None}
           /\ saving' \in [file : Files \cup {"none"}, written : BOOLEAN]
           /\ accident' \subseteq Accidents
           /\ NoChange \in Changes
<1>1. NoChange \in Changes
  BY SomeNormal DEF World
<1> QED BY <1>1 DEF World, NotSaving, Files

(* The commands after a piece that starts none *)
LEMMA KeepsCommands ==
    ASSUME World, NEW v, Idle(v), Keeps(v), mem'.auto \in Answers,
           v.pending # None => mem'.auto = "",
           change'.step \notin Awaiting
    PROVE  CommandInv'
<1>1. autostart' = v.pending /\ call' = v.calls
  BY DEF Keeps
<1>2. \A c \in Calls : c # autostart' => call'[c] = NoCall
  BY <1>1 DEF Idle
<1>3. autostart' # None => Stray(call'[autostart']) /\ mem'.auto = ""
  BY <1>1 DEF Idle
<1>4. main' # "starting"
  BY DEF World
<1> QED BY <1>2, <1>3, <1>4 DEF CommandInv, Stray, Awaiting

LEMMA GoesOk ==
    ASSUME World, SameConf, NEW v, Idle(v), NEW ch \in Changes, Goes(v, ch),
           ch.prev.conf = mem.conf, Kept(v, ch.prev.auto),
           ch.step \in {"apply", "save", "restore"},
           ch.step \in {"apply", "restore"} => Sure(ch.prev.auto),
           ch.step = "apply" => ch.connected,
           ch.step \in {"apply", "save"} => (ch.next.auto = "" <=> ch.prev.auto = ""),
           ch.step = "save" => Sure(ch.next.auto) /\ Follows(ch)
    PROVE  IInv'
<1>1. change' = ch /\ mem' = [mem EXCEPT !.auto = v.auto] /\ Keeps(v)
  BY DEF Goes, Knows
<1>2. v.auto \in Answers /\ v.calls \in [Calls -> CallStates]
      /\ v.pending \in Calls \cup {None}
  BY DEF Idle, Views
<1>3. mem' \in Values /\ mem'.conf = mem.conf /\ mem'.auto = v.auto
  BY <1>1, <1>2 DEF Values, World
<1>4. TypeOK'
  <2>1. call' \in [Calls -> CallStates] /\ autostart' \in Calls \cup {None}
    BY <1>1, <1>2 DEF Keeps
  <2> QED BY <2>1, <1>1, <1>3, WorldTypes DEF TypeOK
<1>5. DiskInv'
  BY <1>1, <1>3 DEF DiskInv, World, SameConf, NotSaving
<1>6. CommandInv'
  <2>1. v.pending # None => mem'.auto = ""
    BY <1>3 DEF Idle
  <2>2. change'.step \notin Awaiting
    BY <1>1 DEF Awaiting
  <2> QED BY <2>1, <2>2, <1>1, <1>2, <1>3, KeepsCommands
<1>7. MainInv'
  BY DEF MainInv, World
<1>8. AutoInv'
  BY <1>1, <1>3 DEF AutoInv, Known, Lost, Sure, Kept, Keeps
<1>9. EngineInv'
  BY <1>1, <1>3 DEF EngineInv, Follows
<1> QED BY <1>4, <1>5, <1>6, <1>7, <1>8, <1>9 DEF IInv

(* The change is over *)
LEMMA OverOk ==
    ASSUME World, NEW v, Idle(v), Keeps(v), change' = NoChange, mem' \in Values,
           mem'.conf = Normal[config'], Sure(mem'.auto),
           v.pending # None => mem'.auto = "",
           Runs(mem'.conf)
    PROVE  IInv'
<1>1. change'.step = "none"
  BY DEF NoChange
<1>2. v.calls \in [Calls -> CallStates] /\ v.pending \in Calls \cup {None}
  BY DEF Idle, Views
<1>4. TypeOK'
  <2>1. call' \in [Calls -> CallStates] /\ autostart' \in Calls \cup {None}
    BY <1>2 DEF Keeps
  <2> QED BY <2>1, WorldTypes DEF TypeOK
<1>5. DiskInv'
  BY <1>1 DEF DiskInv, World, NotSaving
<1>6. CommandInv'
  <2>1. mem'.auto \in Answers
    BY DEF Values
  <2>2. change'.step \notin Awaiting
    BY <1>1 DEF Awaiting
  <2> QED BY <2>1, <2>2, KeepsCommands
<1>7. MainInv'
  BY DEF MainInv, World
<1>8. AutoInv'
  BY <1>1 DEF AutoInv, Known, Lost, Sure
<1>9. EngineInv'
  BY <1>1 DEF EngineInv, Runs
<1> QED BY <1>4, <1>5, <1>6, <1>7, <1>8, <1>9 DEF IInv

LEMMA RefusedOk ==
    ASSUME World, SameConf, NEW v, Idle(v), NEW auto \in Answers, Refused(v, auto),
           Sure(auto), v.pending # None => auto = "", Runs(mem.conf)
    PROVE  IInv'
<1>1. mem' = [mem EXCEPT !.auto = auto] /\ Keeps(v) /\ change' = NoChange
  BY DEF Refused, Knows
<1>2. mem' \in Values /\ mem'.conf = mem.conf /\ mem'.auto = auto
  BY <1>1 DEF Values, World
<1> QED BY <1>1, <1>2, OverOk DEF SameConf

LEMMA EndsOk ==
    ASSUME World, NEW v, Idle(v), NEW val \in Values, Ends(v, val),
           val.conf = Normal[config'], AutoOk(v, val.auto), Runs(val.conf)
    PROVE  IInv'
<1>1. Keeps(v) /\ change' = NoChange
  BY DEF Ends
<1>2. v.auto \in Answers
  BY DEF Idle, Views
<1>3. CASE val.auto = ""
  <2>1. mem' = [val EXCEPT !.auto = v.auto]
    BY <1>3 DEF Ends
  <2>2. mem' \in Values /\ mem'.conf = val.conf /\ mem'.auto = v.auto
    BY <2>1, <1>2 DEF Values
  <2>3. Sure(mem'.auto) /\ (v.pending # None => mem'.auto = "")
    BY <2>2, <1>3 DEF AutoOk, Kept, Idle
  <2> QED BY <2>2, <2>3, <1>1, OverOk
<1>4. CASE val.auto # ""
  <2>1. mem' = val
    BY <1>4 DEF Ends
  <2>2. Sure(mem'.auto) /\ (v.pending # None => mem'.auto = "")
    BY <2>1, <1>4 DEF AutoOk, Kept
  <2> QED BY <2>1, <2>2, <1>1, OverOk
<1> QED BY <1>3, <1>4

LEMMA AsksOk ==
    ASSUME World, SameConf, NEW v, Idle(v), v.pending = None,
           NEW kind \in Entries \cup {"read"}, NEW ch \in Changes, Asks(v, kind, ch),
           ch.step \in Awaiting,
           ch.step \in {"read", "reread"} => kind = "read",
           ch.step = "set" => kind = ch.next.auto,
           ch.step = "undo" => kind = ch.prev.auto,
           ch.step \in {"set", "undo"} => ch.prev.auto \in Entries,
           ch.step = "set" => ch.next.auto \in Entries \ {ch.prev.auto},
           ch.step = "read" => Sure(v.auto) /\ Runs(mem.conf),
           ch.step # "read" => ch.prev.conf = mem.conf /\ Follows(ch)
    PROVE  IInv'
<1>1. change' = ch /\ mem' = [mem EXCEPT !.auto = v.auto] /\ Launches(v, kind, "change")
  BY DEF Asks, Knows
<1>2. v.auto \in Answers /\ v.calls \in [Calls -> CallStates]
      /\ \A c \in Calls : v.calls[c] = NoCall
  <2>1. \A c \in Calls : c # None
    BY NoneAssumption
  <2> QED BY <2>1 DEF Idle, Views
<1>3. mem' \in Values /\ mem'.conf = mem.conf /\ mem'.auto = v.auto
  BY <1>1, <1>2 DEF Values, World
<1> DEFINE k == [kind |-> kind, stage |-> "running", value |-> "", owner |-> "change"]
<1>4. k \in CallStates /\ k.kind = kind /\ k.stage = "running" /\ k.value = ""
      /\ k.owner = "change"
  BY DEF CallStates, Answers, Owners
<1> HIDE DEF k
<1>5. PICK c \in Calls : call' = [v.calls EXCEPT ![c] = k] /\ autostart' = c
  <2> DEFINE c == CHOOSE d \in Calls : v.calls[d].stage = "unused"
  <2>1. c \in Calls
    BY <1>1 DEF Launches
  <2>2. call' = [v.calls EXCEPT ![c] = k] /\ autostart' = c
    BY <1>1 DEF Launches, k
  <2> QED BY <2>1, <2>2
<1>6. call' \in [Calls -> CallStates] /\ call'[c] = k
      /\ \A d \in Calls : d # c => call'[d] = NoCall
  BY <1>2, <1>4, <1>5
<1>7. TypeOK'
  <2>1. autostart' \in Calls \cup {None} /\ change' \in Changes
    BY <1>1, <1>5
  <2> QED BY <2>1, <1>3, <1>6, WorldTypes DEF TypeOK
<1>8. DiskInv'
  BY <1>1, <1>3 DEF DiskInv, World, SameConf, NotSaving
<1>9. CommandInv'
  <2>1. autostart' = c /\ c # None /\ call'[autostart'] = k
    BY <1>5, <1>6, NoneAssumption
  <2>2. \A d \in Calls : d # autostart' => call'[d] = NoCall
    BY <1>6, <2>1
  <2>3. change'.step \in Awaiting /\ main' # "starting"
    BY <1>1 DEF World
  <2>4. /\ change'.step \in {"read", "reread"} => k.kind = "read"
        /\ change'.step = "set" => k.kind = change'.next.auto
        /\ change'.step = "undo" => k.kind = change'.prev.auto
    BY <1>1, <1>4
  <2> QED BY <2>1, <2>2, <2>3, <2>4, <1>4 DEF CommandInv
<1>10. MainInv'
  BY DEF MainInv, World
<1>11. AutoInv'
  BY <1>1, <1>3 DEF AutoInv, Known, Lost, Sure, Awaiting
<1>12. EngineInv'
  BY <1>1, <1>3 DEF EngineInv, Follows, Runs, Awaiting
<1> QED BY <1>7, <1>8, <1>9, <1>10, <1>11, <1>12 DEF IInv

-----------------------------------------------------------------------------
(* What a change goes through after a step of it is done.                    *)

(* The change is known, and so are the settings it started from *)
Started(ch) ==
    /\ ch \in Changes
    /\ ch.prev.conf = mem.conf
    /\ Follows(ch)

LEMMA UndoneOk ==
    ASSUME World, SameConf, NEW v, Idle(v), NEW ch, Started(ch), Undone(v, ch),
           AutoOk(v, ch.prev.auto)
    PROVE  IInv'
<1>1. CASE ch.connected
  <2> DEFINE r == [ch EXCEPT !.step = "restore"]
  <2>1. r \in Changes /\ r.step = "restore" /\ r.prev = ch.prev
    BY DEF Started, Changes, Steps
  <2>2. Goes(v, r)
    BY <1>1 DEF Undone
  <2> HIDE DEF r
  <2> QED BY <2>1, <2>2, GoesOk DEF Started, AutoOk
<1>2. CASE ~ch.connected
  <2>1. Ends(v, ch.prev)
    BY <1>2 DEF Undone
  <2>2. ch.prev \in Values /\ ch.prev.conf = Normal[config']
    BY DEF Started, Changes, SameConf
  <2>3. Runs(ch.prev.conf)
    BY <1>2 DEF Started, Follows, Runs
  <2> QED BY <2>1, <2>2, <2>3, EndsOk
<1>3. ch.connected \in BOOLEAN
  BY DEF Started, Changes
<1> QED BY <1>1, <1>2, <1>3

(* A change that goes back to an entry nobody knows *)
LEMMA Forgetting ==
    ASSUME NEW ch, Started(ch), NEW auto \in Answers
    PROVE  /\ Started([ch EXCEPT !.prev.auto = auto])
           /\ [ch EXCEPT !.prev.auto = auto].prev.auto = auto
<1> DEFINE r == [ch EXCEPT !.prev.auto = auto]
<1>1. ch.prev \in Values /\ ch \in Changes
  BY DEF Started, Changes
<1>2. [ch.prev EXCEPT !.auto = auto] \in Values
      /\ [ch.prev EXCEPT !.auto = auto].conf = ch.prev.conf
      /\ [ch.prev EXCEPT !.auto = auto].auto = auto
  BY <1>1 DEF Values
<1>3. r = [ch EXCEPT !.prev = [ch.prev EXCEPT !.auto = auto]]
  BY <1>1 DEF Changes
<1>4. r \in Changes /\ r.prev = [ch.prev EXCEPT !.auto = auto]
      /\ r.next = ch.next /\ r.connected = ch.connected
  BY <1>1, <1>2, <1>3 DEF Changes
<1> QED BY <1>2, <1>4 DEF Started, Follows

LEMMA FailedOk ==
    ASSUME World, SameConf, NEW v, Idle(v), NEW ch, Started(ch), Failed(v, ch),
           ch.next.auto = ch.prev.auto => AutoOk(v, ch.prev.auto),
           ch.next.auto # ch.prev.auto => ch.prev.auto \in Entries
    PROVE  IInv'
<1>1. CASE ch.next.auto = ch.prev.auto
  BY <1>1, UndoneOk DEF Failed
<1>2. CASE ch.next.auto # ch.prev.auto /\ v.pending # None
  <2>1. Undone(v, [ch EXCEPT !.prev.auto = ""])
    BY <1>2 DEF Failed
  <2>2. AutoOk(v, "")
    BY <1>2 DEF AutoOk, Kept, Idle, Sure
  <2>3. "" \in Answers
    BY DEF Answers
  <2> QED BY <2>1, <2>2, <2>3, Forgetting, UndoneOk
<1>3. CASE ch.next.auto # ch.prev.auto /\ v.pending = None
  <2> DEFINE r    == [ch EXCEPT !.step = "undo"]
             kind == IF ch.prev.auto = "on" THEN "on" ELSE "off"
  <2>1. r \in Changes /\ r.step = "undo" /\ r.prev = ch.prev /\ r.next = ch.next
        /\ r.connected = ch.connected
    BY DEF Started, Changes, Steps
  <2>2. kind = ch.prev.auto /\ kind \in Entries
    BY <1>3 DEF Entries
  <2>3. Asks(v, kind, r)
    BY <1>3 DEF Failed
  <2> HIDE DEF r, kind
  <2>4. Follows(r) /\ r.prev.conf = mem.conf
    BY <2>1 DEF Started, Follows
  <2>5. r.step \in Awaiting
    BY <2>1 DEF Awaiting
  <2> QED BY <2>1, <2>2, <2>3, <2>4, <2>5, <1>3, AsksOk
<1> QED BY <1>1, <1>2, <1>3

(* The entry is known, or still nobody knows it *)
Agreeing(ch) == ch.next.auto = "" <=> ch.prev.auto = ""

LEMMA SettledOk ==
    ASSUME World, SameConf, NEW v, Idle(v), NEW ch, Started(ch), Settled(v, ch),
           Agreeing(ch), Sure(ch.next.auto), Kept(v, ch.prev.auto)
    PROVE  IInv'
<1>1. ch.next \in Values /\ ch.prev \in Values
  BY DEF Started, Changes
<1>2. ch.next.auto \in Answers /\ ch.prev.auto \in Answers
  BY <1>1 DEF Values
<1>3. CASE ch.dead
  <2>1. Failed(v, ch)
    BY <1>3 DEF Settled
  <2>2. ch.next.auto = ch.prev.auto => AutoOk(v, ch.prev.auto)
    BY DEF AutoOk
  <2>3. ch.next.auto # ch.prev.auto => ch.prev.auto \in Entries
    BY <1>2 DEF Agreeing, Answers
  <2> QED BY <2>1, <2>2, <2>3, FailedOk
<1>4. CASE ~ch.dead
  <2> DEFINE r == [ch EXCEPT !.step = "save"]
  <2>1. r \in Changes /\ r.step = "save" /\ r.prev = ch.prev /\ r.next = ch.next
        /\ r.connected = ch.connected
    BY DEF Started, Changes, Steps
  <2>2. Goes(v, r)
    BY <1>4 DEF Settled
  <2> HIDE DEF r
  <2>3. Follows(r) /\ r.prev.conf = mem.conf
    BY <2>1 DEF Started, Follows
  <2>4. Agreeing(r) /\ Sure(r.next.auto) /\ Kept(v, r.prev.auto)
    BY <2>1 DEF Agreeing
  <2> QED BY <2>1, <2>2, <2>3, <2>4, GoesOk DEF Agreeing
<1>5. ch.dead \in BOOLEAN
  BY DEF Started, Changes
<1> QED BY <1>3, <1>4, <1>5

LEMMA AppliedOk ==
    ASSUME World, SameConf, NEW v, Idle(v), NEW ch, Started(ch), Applied(v, ch),
           Agreeing(ch), AutoOk(v, ch.prev.auto)
    PROVE  IInv'
<1>1. ch.next \in Values /\ ch.prev \in Values /\ ch \in Changes
  BY DEF Started, Changes
<1>2. ch.next.auto \in Answers /\ ch.prev.auto \in Answers
  BY <1>1 DEF Values
<1>3. CASE ch.next.auto = ch.prev.auto
  <2>1. Settled(v, ch)
    BY <1>3 DEF Applied
  <2>2. Sure(ch.next.auto) /\ Kept(v, ch.prev.auto)
    BY <1>3 DEF AutoOk
  <2> QED BY <2>1, <2>2, SettledOk
<1>4. CASE ch.next.auto # ch.prev.auto
  <2>1. ch.next.auto \in Entries /\ ch.prev.auto \in Entries
    BY <1>2, <1>4 DEF Agreeing, Answers
  <2>2. CASE ch.dead \/ v.pending # None
    <3>1. Failed(v, ch)
      BY <1>4, <2>2 DEF Applied
    <3> QED BY <3>1, <2>1, FailedOk
  <2>3. CASE ~(ch.dead \/ v.pending # None)
    <3> DEFINE r == [ch EXCEPT !.step = "set"]
    <3>1. r \in Changes /\ r.step = "set" /\ r.prev = ch.prev /\ r.next = ch.next
          /\ r.connected = ch.connected
      BY <1>1 DEF Changes, Steps
    <3>2. Asks(v, ch.next.auto, r)
      BY <1>4, <2>3 DEF Applied
    <3> HIDE DEF r
    <3>3. Follows(r) /\ r.prev.conf = mem.conf
      BY <3>1 DEF Started, Follows
    <3>4. r.step \in Awaiting
      BY <3>1 DEF Awaiting
    <3> QED BY <3>1, <3>2, <3>3, <3>4, <2>1, <2>3, <1>4, AsksOk
  <2> QED BY <2>2, <2>3
<1> QED BY <1>3, <1>4

LEMMA ComparesOk ==
    ASSUME World, SameConf, NEW v, Idle(v), NEW ch \in Changes, NEW prev \in Values,
           Compares(v, ch, prev), engine' = engine,
           prev.conf = mem.conf, AutoOk(v, prev.auto), Sure(v.auto), Runs(mem.conf),
           ch.next.auto # "" => prev.auto # ""
    PROVE  IInv'
<1> DEFINE next == IF ch.next.auto = "" THEN [ch.next EXCEPT !.auto = prev.auto]
                                        ELSE ch.next
           full == [ch EXCEPT !.expected = AnyValue, !.prev = prev, !.next = next,
                              !.connected = engine # None]
<1>1. ch.next \in Values /\ prev.auto \in Answers /\ v.auto \in Answers
  BY DEF Changes, Values, Idle, Views
<1>2. next \in Values /\ (next.auto = "" <=> prev.auto = "")
  BY <1>1 DEF Values, Answers
<1>3. AnyValue \in Values
  BY SomeNormal DEF World
<1>4. /\ full \in Changes /\ full.prev = prev /\ full.next = next
      /\ full.connected = (engine # None) /\ full.step = ch.step
  BY <1>2, <1>3 DEF Changes
<1>5. CASE ch.expected # prev
  <2>1. Refused(v, prev.auto)
    BY <1>5 DEF Compares
  <2>2. Sure(prev.auto) /\ (v.pending # None => prev.auto = "")
    BY DEF AutoOk, Kept
  <2> QED BY <2>1, <2>2, <1>1, RefusedOk
<1>6. CASE ch.expected = prev /\ next = prev
  <2>1. Refused(v, v.auto)
    BY <1>6 DEF Compares
  <2>2. v.pending # None => v.auto = ""
    BY DEF Idle
  <2> QED BY <2>1, <2>2, <1>1, RefusedOk
<1>7. CASE ch.expected = prev /\ next # prev /\ engine # None
  <2> DEFINE r == [full EXCEPT !.step = "apply"]
  <2>1. Goes(v, r)
    BY <1>7 DEF Compares
  <2> HIDE DEF full, next
  <2>2. /\ r \in Changes /\ r.prev = prev /\ r.next = next /\ r.connected
        /\ r.step = "apply"
    BY <1>4, <1>7 DEF Changes, Steps
  <2> HIDE DEF r
  <2> QED BY <2>1, <2>2, <1>2, GoesOk DEF AutoOk
<1>8. CASE ch.expected = prev /\ next # prev /\ engine = None
  <2>1. Applied(v, full)
    BY <1>8 DEF Compares
  <2> HIDE DEF full, next
  <2>2. Started(full) /\ Agreeing(full)
    BY <1>4, <1>2, <1>8 DEF Started, Agreeing, Follows
  <2>3. AutoOk(v, full.prev.auto)
    BY <1>4
  <2> QED BY <2>1, <2>2, <2>3, AppliedOk
<1> QED BY <1>5, <1>6, <1>7, <1>8

-----------------------------------------------------------------------------
(* What the invariant says before a step.                                    *)

LEMMA WorldHere ==
    ASSUME IInv, main \in {"up", "stopping"}, saving' = NotSaving,
           UNCHANGED <<config, entry, main>>, engine' \in Normals \cup {None},
           lock' \in [Files -> BOOLEAN], accident' \subseteq Accidents,
           \A f \in Files : lock'[f] => "stuck" \in accident'
    PROVE  World /\ SameConf
BY DEF IInv, TypeOK, DiskInv, World, SameConf

LEMMA WorldStays ==
    ASSUME IInv, main \in {"up", "stopping"}, saving = NotSaving,
           UNCHANGED <<config, lock, entry, main, saving>>,
           engine' \in Normals \cup {None},
           accident' \subseteq Accidents, accident \subseteq accident'
    PROVE  World /\ SameConf
<1>1. lock' \in [Files -> BOOLEAN]
  BY DEF IInv, TypeOK
<1>2. \A f \in Files : lock'[f] => "stuck" \in accident'
  <2>1. \A f \in Files : f # "none"
    BY DEF Files
  <2> QED BY <2>1 DEF IInv, DiskInv, NotSaving
<1> QED BY <1>1, <1>2, WorldHere

LEMMA BusyIsUp ==
    ASSUME IInv, Busy
    PROVE  main \in {"up", "stopping"}
BY DEF IInv, TypeOK, MainInv, Busy

(* The call there is *)
LEMMA OneCall ==
    ASSUME IInv, NEW c \in Calls, call[c].stage # "unused" \/ call[c].owner # "none"
    PROVE  c = autostart /\ c # None
<1>1. NoCall.stage = "unused" /\ NoCall.owner = "none"
  BY DEF NoCall
<1>2. call[c] # NoCall
  BY <1>1
<1>3. c = autostart
  BY <1>2 DEF IInv, CommandInv
<1> QED BY <1>3, NoneAssumption

LEMMA CallTyped ==
    ASSUME IInv
    PROVE  /\ call \in [Calls -> CallStates] /\ autostart \in Calls \cup {None}
           /\ mem \in Values /\ mem.conf \in Normals /\ mem.auto \in Answers
BY DEF IInv, TypeOK, Values

LEMMA HereViews ==
    ASSUME IInv
    PROVE  /\ Here \in Views
           /\ Here.calls = call /\ Here.pending = autostart /\ Here.auto = mem.auto
BY CallTyped DEF Here, Views

LEMMA IdleHere ==
    ASSUME IInv, entry' = entry, main # "starting", change.step \notin Awaiting
    PROVE  Idle(Here)
<1>2. \A c \in Calls : c # autostart => call[c] = NoCall
  BY DEF IInv, CommandInv
<1>3. autostart # None => Stray(call[autostart]) /\ mem.auto = ""
  BY DEF IInv, CommandInv, Stray
<1> QED BY HereViews, <1>2, <1>3 DEF Idle

LEMMA IdleCollected ==
    ASSUME IInv, NEW c \in Calls, call[c].owner # "none"
    PROVE  /\ Idle(Collected(c))
           /\ Collected(c).pending = None /\ Collected(c).auto = mem.auto
           /\ Collected(c).calls = [call EXCEPT ![c] = NoCall]
<1>1. Collected(c) = [calls |-> [call EXCEPT ![c] = NoCall], pending |-> None,
                      auto |-> mem.auto]
  BY DEF Collected
<1>2. Collected(c) \in Views
  BY <1>1, CallTyped, FreeCall DEF Views
<1>3. \A d \in Calls : [call EXCEPT ![c] = NoCall][d] = NoCall
  BY OneCall, CallTyped DEF IInv, CommandInv
<1> QED BY <1>1, <1>2, <1>3 DEF Idle

LEMMA IdleLeft ==
    ASSUME IInv, entry' = entry, NEW c \in Calls, call[c].owner # "none"
    PROVE  /\ Idle(Left(c))
           /\ Left(c).pending = c /\ Left(c).auto = ""
           /\ Left(c).calls = [call EXCEPT ![c].owner = "late"]
<1> DEFINE k == [call[c] EXCEPT !.owner = "late"]
<1>1. Left(c) = [calls |-> [call EXCEPT ![c] = k], pending |-> c, auto |-> ""]
  BY OneCall DEF Left
<1>2. k \in CallStates /\ k.owner = "late" /\ k.kind = call[c].kind
      /\ k.stage = call[c].stage /\ k.value = call[c].value
  BY CallTyped DEF CallStates, Owners
<1>3. Stray(k)
  BY <1>2, OneCall DEF IInv, CommandInv, Stray
<1> HIDE DEF k
<1> DEFINE f == [call EXCEPT ![c] = k]
           v == [calls |-> f, pending |-> c, auto |-> ""]
<1>4. f \in [Calls -> CallStates] /\ f[c] = k
  BY <1>2, CallTyped
<1>5. \A d \in Calls : d # c => f[d] = NoCall
  BY OneCall, CallTyped DEF IInv, CommandInv
<1> HIDE DEF f
<1>6. v \in Views /\ v.calls = f /\ v.pending = c /\ v.auto = ""
  BY <1>4 DEF Views, Answers
<1>7. Left(c) = v
  BY <1>1 DEF f
<1> HIDE DEF v
<1>8. Idle(v)
  BY <1>3, <1>4, <1>5, <1>6 DEF Idle
<1> QED BY <1>6, <1>7, <1>8 DEF k, f

-----------------------------------------------------------------------------
(* The steps of a change.                                                    *)

(* The change that went on has its settings *)
LEMMA ChangeTyped ==
    ASSUME IInv
    PROVE  /\ change \in Changes /\ change.step \in Steps
           /\ change.next \in Values /\ change.prev \in Values
           /\ change.next.conf \in Normals /\ change.prev.conf \in Normals
           /\ change.next.auto \in Answers /\ change.prev.auto \in Answers
<1>1. change \in Changes
  BY DEF IInv, TypeOK
<1> QED BY <1>1 DEF Changes, Values

LEMMA ReturnedOk ==
    ASSUME IInv, Busy, saving = NotSaving, change.step # "save",
           UNCHANGED <<config, lock, entry, main, engine, saving>>,
           NEW v, Idle(v), NEW value \in Answers, Returned(v, value),
           v.auto \in {mem.auto, ""},
           value # "" => value = entry /\ v.pending = None,
           value # "" /\ change.step = "set" => value = change.next.auto,
           value # "" /\ change.step = "undo" => value = change.prev.auto
    PROVE  IInv'
<1>1. accident \subseteq accident' /\ accident' \subseteq Accidents
  <2>1. accident \subseteq Accidents
    BY DEF IInv, TypeOK
  <2> QED BY <2>1 DEF Returned, Accidents
<1>2. World /\ SameConf
  <2>1. engine' \in Normals \cup {None}
    BY DEF IInv, TypeOK
  <2> QED BY <2>1, <1>1, BusyIsUp, WorldStays
<1>3. change \in Changes /\ (change.step \in {"set", "undo", "reread"} => Started(change))
  BY ChangeTyped DEF Started, IInv, EngineInv, Follows
<1>4. value # "" => Sure(value)
  BY DEF Sure
<1>5. v.pending # None => v.auto = ""
  BY DEF Idle
<1>6. change.step = "read" => Sure(v.auto) /\ Runs(mem.conf)
  <2>1. main # "down"
    BY BusyIsUp
  <2> QED BY <2>1, <1>1 DEF IInv, AutoInv, EngineInv, Sure, Known, Lost, Runs
<1>7. v.auto \in Answers
  BY DEF Idle, Views
<1>8. CASE change.step = "read" /\ value = ""
  <2>1. Refused(v, v.auto)
    BY <1>8 DEF Returned
  <2> QED BY <2>1, <1>2, <1>5, <1>6, <1>7, <1>8, RefusedOk
<1>9. CASE change.step = "read" /\ value # ""
  <2> DEFINE prev == [conf |-> mem.conf, auto |-> value]
  <2>1. Compares(v, change, prev)
    BY <1>9 DEF Returned
  <2>2. prev \in Values /\ prev.conf = mem.conf /\ prev.auto = value
    BY CallTyped DEF Values
  <2> HIDE DEF prev
  <2>3. AutoOk(v, prev.auto)
    BY <2>2, <1>4, <1>9 DEF AutoOk, Kept
  <2> QED BY <2>1, <2>2, <2>3, <1>2, <1>3, <1>6, <1>9, ComparesOk
<1>10. CASE change.step = "set" /\ value = ""
  <2>1. Failed(v, change)
    BY <1>10 DEF Returned
  <2>2. change.prev.auto \in Entries /\ change.next.auto # change.prev.auto
    BY <1>10 DEF IInv, AutoInv
  <2> QED BY <2>1, <2>2, <1>2, <1>3, <1>10, FailedOk
<1>11. CASE change.step = "set" /\ value # ""
  <2>1. Settled(v, change)
    BY <1>11 DEF Returned
  <2>2. change.prev.auto \in Entries /\ change.next.auto \in Entries
    BY <1>11 DEF IInv, AutoInv
  <2>3. Agreeing(change) /\ Sure(change.next.auto) /\ Kept(v, change.prev.auto)
    BY <2>2, <1>4, <1>11 DEF Agreeing, Kept, Entries
  <2> QED BY <2>1, <2>3, <1>2, <1>3, <1>11, SettledOk
<1>12. CASE change.step = "undo" /\ value # ""
  <2>1. Undone(v, change)
    BY <1>12 DEF Returned
  <2>2. AutoOk(v, change.prev.auto)
    BY <1>4, <1>12 DEF AutoOk, Kept
  <2> QED BY <2>1, <2>2, <1>2, <1>3, <1>12, UndoneOk
<1>13. CASE change.step = "undo" /\ value = "" /\ v.pending = None
  <2> DEFINE r == [change EXCEPT !.step = "reread"]
  <2>1. Asks(v, "read", r)
    BY <1>13 DEF Returned
  <2>2. r \in Changes /\ r.step = "reread" /\ r.prev = change.prev /\ r.next = change.next
        /\ r.connected = change.connected
    BY <1>3 DEF Changes, Steps
  <2> HIDE DEF r
  <2>3. Follows(r) /\ r.prev.conf = mem.conf /\ r.step \in Awaiting
    BY <2>2, <1>3, <1>13 DEF Started, Follows, Awaiting
  <2> QED BY <2>1, <2>2, <2>3, <1>2, <1>13, AsksOk
<1>14. CASE change.step = "undo" /\ value = "" /\ v.pending # None
  <2>1. Undone(v, [change EXCEPT !.prev.auto = ""])
    BY <1>14 DEF Returned
  <2>2. AutoOk(v, "")
    BY <1>5, <1>14 DEF AutoOk, Kept, Sure
  <2>3. "" \in Answers
    BY DEF Answers
  <2> QED BY <2>1, <2>2, <2>3, <1>2, <1>3, <1>14, Forgetting, UndoneOk
<1>15. CASE change.step = "reread"
  <2>1. Undone(v, [change EXCEPT !.prev.auto = value])
        /\ (value = "" /\ v.pending = None => "lost" \in accident')
    BY <1>15 DEF Returned
  <2>2. AutoOk(v, value)
    BY <2>1, <1>4, <1>5 DEF AutoOk, Kept, Sure
  <2> QED BY <2>1, <2>2, <1>2, <1>3, <1>15, Forgetting, UndoneOk
<1> QED BY <1>8, <1>9, <1>10, <1>11, <1>12, <1>13, <1>14, <1>15 DEF Returned

(* The call of the change, and what it says *)
LEMMA CallOfChange ==
    ASSUME IInv, NEW c \in Calls, call[c].owner = "change"
    PROVE  /\ c = autostart /\ Busy /\ change.step \in Awaiting
           /\ call[c].value \in Answers
           /\ call[c].stage = "done" /\ call[c].value # "" =>
                 /\ call[c].value = entry
                 /\ change.step = "set" => call[c].value = change.next.auto
                 /\ change.step = "undo" => call[c].value = change.prev.auto
<1>1. c = autostart /\ c # None
  BY OneCall
<1>2. change.step \in Awaiting
  BY <1>1 DEF IInv, CommandInv
<1>3. call[c].value \in Answers
  BY CallTyped DEF CallStates
<1>4. call[c].stage = "done" /\ call[c].value # "" => call[c].value = entry
  BY <1>1 DEF IInv, CommandInv
<1>5. call[c].value # "" /\ call[c].kind # "read" => call[c].value = call[c].kind
  BY <1>1 DEF IInv, CommandInv
<1>6. change.step = "set" => call[c].kind = change.next.auto /\ call[c].kind # "read"
  BY <1>1 DEF IInv, CommandInv, AutoInv, Entries
<1>7. change.step = "undo" => call[c].kind = change.prev.auto /\ call[c].kind # "read"
  BY <1>1 DEF IInv, CommandInv, AutoInv, Entries
<1>8. Busy
  BY <1>2 DEF Busy, Awaiting
<1> QED BY <1>1, <1>2, <1>3, <1>4, <1>5, <1>6, <1>7, <1>8

LEMMA ChangeCollectsKeeps ==
    ASSUME IInv, NEW c \in Calls, ChangeCollects(c)
    PROVE  IInv'
<1>1. /\ saving = NotSaving /\ change.step # "save"
      /\ call[c].owner = "change" /\ call[c].stage = "done"
      /\ Returned(Collected(c), call[c].value)
      /\ UNCHANGED <<config, lock, entry, main, engine, saving>>
  BY DEF ChangeCollects, Free
<1>2. Idle(Collected(c)) /\ Collected(c).pending = None /\ Collected(c).auto = mem.auto
  <2>1. entry' = entry
    BY <1>1
  <2> QED BY <1>1, <2>1, IdleCollected
<1> QED BY <1>1, <1>2, CallOfChange, ReturnedOk

LEMMA ChangeExpiresKeeps ==
    ASSUME IInv, NEW c \in Calls, ChangeExpires(c)
    PROVE  IInv'
<1>1. /\ saving = NotSaving /\ change.step # "save" /\ call[c].owner = "change"
      /\ Returned(Left(c), "")
      /\ UNCHANGED <<config, lock, entry, main, engine, saving>>
  BY DEF ChangeExpires, Free, Expired
<1>2. Idle(Left(c)) /\ Left(c).auto = "" /\ entry' = entry
  BY <1>1, IdleLeft
<1>3. "" \in Answers
  BY DEF Answers
<1> QED BY <1>1, <1>2, <1>3, CallOfChange, ReturnedOk

LEMMA BeginKeeps ==
    ASSUME IInv, NEW expected \in Values, NEW conf \in Confs, NEW auto \in Answers,
           Begin(expected, conf, auto)
    PROVE  IInv'
<1> DEFINE next == [conf |-> Normal[conf], auto |-> auto]
           ch   == [NoChange EXCEPT !.expected = expected, !.next = next]
<1>1. /\ main = "up" /\ saving = NotSaving /\ change.step = "none"
      /\ Normal[conf] # Invalid
      /\ UNCHANGED <<config, lock, entry, main, engine, saving, accident>>
  BY DEF Begin, Free, Busy
<1>2. World /\ SameConf
  <2>1. engine' \in Normals \cup {None} /\ accident' \subseteq Accidents
        /\ accident \subseteq accident'
    BY <1>1 DEF IInv, TypeOK
  <2> QED BY <2>1, <1>1, WorldStays
<1>3. next \in Values /\ next.auto = auto
  BY <1>1, SomeNormal DEF Values
<1>4. NoChange \in Changes
  BY <1>1, SomeNormal
<1> HIDE DEF next
<1>5. ch \in Changes /\ ch.next = next /\ ch.expected = expected
  BY <1>3, <1>4 DEF Changes
<1>6. Idle(Here) /\ Here.pending = autostart /\ Here.auto = mem.auto
  <2>1. change.step \notin Awaiting /\ main # "starting" /\ entry' = entry
    BY <1>1 DEF Awaiting
  <2> QED BY <2>1, IdleHere, HereViews
<1>7. Sure(mem.auto) /\ Runs(mem.conf)
  BY <1>1 DEF IInv, AutoInv, EngineInv, Known, Lost, Sure, Runs
<1>8. CASE autostart = None
  <2> DEFINE r == [ch EXCEPT !.step = "read"]
  <2>1. Asks(Here, "read", r)
    BY <1>8 DEF Begin, next
  <2> HIDE DEF ch
  <2>2. r \in Changes /\ r.step = "read"
    BY <1>5 DEF Changes, Steps
  <2> HIDE DEF r
  <2>3. r.step \in Awaiting
    BY <2>2 DEF Awaiting
  <2> QED BY <2>1, <2>2, <2>3, <1>2, <1>6, <1>7, <1>8, AsksOk
<1>9. CASE autostart # None
  <2>1. Compares(Here, ch, mem) /\ auto = ""
    BY <1>9 DEF Begin, next
  <2> HIDE DEF ch
  <2>2. mem \in Values
    BY CallTyped
  <2>3. mem.auto = ""
    BY <1>6, <1>9 DEF Idle
  <2>4. AutoOk(Here, mem.auto) /\ Sure(Here.auto)
    BY <1>6, <1>7, <2>3 DEF AutoOk, Kept
  <2>5. ch.next.auto = "" /\ engine' = engine
    BY <1>1, <1>3, <1>5, <2>1
  <2> QED BY <2>1, <2>2, <2>4, <2>5, <1>2, <1>5, <1>6, <1>7, ComparesOk
<1> QED BY <1>8, <1>9

LEMMA ApplyReturnsKeeps ==
    ASSUME IInv, ApplyReturns
    PROVE  IInv'
<1>1. /\ change.step = "apply" /\ saving = NotSaving
      /\ UNCHANGED <<config, lock, entry, main, saving, accident>>
  BY DEF ApplyReturns, Free
<1>2. Busy /\ main \in {"up", "stopping"}
  BY <1>1, BusyIsUp DEF Busy
<1>3. World /\ SameConf
  <2>1. engine' \in Normals \cup {None}
    BY ChangeTyped DEF IInv, TypeOK, ApplyReturns
  <2>2. accident' \subseteq Accidents /\ accident \subseteq accident'
    BY <1>1 DEF IInv, TypeOK
  <2> QED BY <2>1, <2>2, <1>1, <1>2, WorldStays
<1>4. Idle(Here) /\ Here.pending = autostart /\ Here.auto = mem.auto
  <2>1. change.step \notin Awaiting /\ main # "starting" /\ entry' = entry
    BY <1>1, <1>2 DEF Awaiting
  <2> QED BY <2>1, IdleHere, HereViews
<1>5. AutoOk(Here, change.prev.auto)
  BY <1>1, <1>4 DEF IInv, AutoInv, AutoOk, Kept, Known, Lost, Sure
<1>6. change.prev.conf = mem.conf /\ change.connected /\ change \in Changes
      /\ Agreeing(change)
  BY <1>1, ChangeTyped DEF IInv, EngineInv, AutoInv, Agreeing
<1>7. CASE engine' = change.next.conf /\ Applied(Here, change)
  <2>1. Started(change)
    BY <1>6, <1>7 DEF Started, Follows
  <2> QED BY <2>1, <1>3, <1>4, <1>5, <1>6, <1>7, AppliedOk
<1>8. CASE Goes(Here, [change EXCEPT !.step = "restore"])
  <2> DEFINE r == [change EXCEPT !.step = "restore"]
  <2>1. r \in Changes /\ r.step = "restore" /\ r.prev = change.prev
    BY <1>6 DEF Changes, Steps
  <2>2. Goes(Here, r)
    BY <1>8
  <2> HIDE DEF r
  <2> QED BY <2>1, <2>2, <1>3, <1>4, <1>5, <1>6, GoesOk DEF AutoOk
<1> QED BY <1>7, <1>8 DEF ApplyReturns

LEMMA RestoreReturnsKeeps ==
    ASSUME IInv, RestoreReturns
    PROVE  IInv'
<1>1. /\ change.step = "restore" /\ saving = NotSaving
      /\ Ends(Here, change.prev)
      /\ UNCHANGED <<config, lock, entry, main, saving>>
  BY DEF RestoreReturns, Free
<1>2. Busy /\ main \in {"up", "stopping"}
  BY <1>1, BusyIsUp DEF Busy
<1>3. World /\ SameConf
  <2>1. engine' \in Normals \cup {None}
    BY ChangeTyped DEF IInv, TypeOK, RestoreReturns
  <2>2. accident' \subseteq Accidents /\ accident \subseteq accident'
    BY DEF IInv, TypeOK, RestoreReturns, Accidents
  <2> QED BY <2>1, <2>2, <1>1, <1>2, WorldStays
<1>4. Idle(Here) /\ Here.pending = autostart /\ Here.auto = mem.auto
  <2>1. change.step \notin Awaiting /\ main # "starting" /\ entry' = entry
    BY <1>1, <1>2 DEF Awaiting
  <2> QED BY <2>1, IdleHere, HereViews
<1>5. AutoOk(Here, change.prev.auto)
  <2>1. accident \subseteq accident'
    BY DEF RestoreReturns
  <2> QED BY <2>1, <1>1, <1>4 DEF IInv, AutoInv, AutoOk, Kept, Known, Lost, Sure
<1>6. change.prev \in Values /\ change.prev.conf = Normal[config']
  BY <1>1, <1>3, ChangeTyped DEF IInv, EngineInv, SameConf
<1>7. Runs(change.prev.conf)
  BY DEF RestoreReturns, Runs
<1> QED BY <1>1, <1>3, <1>4, <1>5, <1>6, <1>7, EndsOk

-----------------------------------------------------------------------------
(* The files.                                                                *)

(* What a write does to its own variables, the rest of the daemon being still *)
LEMMA DiskStays ==
    ASSUME IInv, UNCHANGED <<config, entry, main, mem, engine, autostart, call, change>>,
           main \in {"up", "stopping"},
           lock' \in [Files -> BOOLEAN],
           saving' \in [file : Files \cup {"none"}, written : BOOLEAN],
           accident \subseteq accident', accident' \subseteq Accidents,
           saving'.file = "none" => ~saving'.written,
           saving'.file = "config" => change.step = "save",
           \A f \in Files : lock'[f] => saving'.file = f \/ "stuck" \in accident'
    PROVE  IInv'
<1>1. TypeOK'
  BY DEF IInv, TypeOK
<1>2. DiskInv'
  BY DEF IInv, DiskInv
<1>3. CommandInv'
  BY DEF IInv, CommandInv
<1>4. MainInv'
  BY DEF IInv, MainInv
<1>5. AutoInv'
  BY DEF IInv, AutoInv, Known, Lost
<1>6. EngineInv'
  BY DEF IInv, EngineInv
<1> QED BY <1>1, <1>2, <1>3, <1>4, <1>5, <1>6 DEF IInv

LEMMA DiskTyped ==
    ASSUME IInv
    PROVE  /\ lock \in [Files -> BOOLEAN] /\ accident \subseteq Accidents
           /\ saving \in [file : Files \cup {"none"}, written : BOOLEAN]
           /\ Files = {"config", "state"} /\ NotSaving = [file |-> "none", written |-> FALSE]
           /\ main # "down" =>
                 \A f \in Files : lock[f] => saving.file = f \/ "stuck" \in accident
BY DEF IInv, TypeOK, DiskInv, Files, NotSaving

LEMMA WritingIsUp ==
    ASSUME IInv, saving # NotSaving \/ change.step = "save"
    PROVE  main \in {"up", "stopping"} /\ (saving # NotSaving => saving.file \in Files)
BY DEF IInv, TypeOK, MainInv, DiskInv, NotSaving

LEMMA OpensKeeps ==
    ASSUME IInv, NEW f \in Files, OpensTemporary(f), saving = NotSaving,
           main \in {"up", "stopping"}, f = "config" => change.step = "save",
           UNCHANGED <<config, entry, main, mem, engine, autostart, call, change, accident>>
    PROVE  IInv'
<1>1. saving' = [file |-> f, written |-> FALSE] /\ saving'.file = f
      /\ saving' \in [file : Files \cup {"none"}, written : BOOLEAN]
  BY DEF OpensTemporary
<1>2. lock' \in [Files -> BOOLEAN]
      /\ \A g \in Files : lock'[g] => g = f \/ lock[g]
  BY DiskTyped DEF OpensTemporary
<1>3. f # "none" /\ \A g \in Files : g # "none"
  BY DEF Files
<1>4. \A g \in Files : lock'[g] => saving'.file = g \/ "stuck" \in accident'
  BY <1>1, <1>2, <1>3, DiskTyped
<1> QED BY <1>1, <1>2, <1>3, <1>4, DiskTyped, DiskStays

LEMMA FlushKeeps ==
    ASSUME IInv, Flush
    PROVE  IInv'
<1>1. /\ saving # NotSaving /\ saving' = [saving EXCEPT !.written = TRUE]
      /\ UNCHANGED <<config, lock, entry, main, mem, engine, autostart, call, change,
                     accident>>
  BY DEF Flush
<1>2. saving' \in [file : Files \cup {"none"}, written : BOOLEAN]
      /\ saving'.file = saving.file /\ saving.file \in Files /\ saving.file # "none"
  BY <1>1, DiskTyped, WritingIsUp DEF Files
<1>3. saving.file = "config" => change.step = "save"
  BY DEF IInv, DiskInv
<1> QED BY <1>1, <1>2, <1>3, DiskTyped, WritingIsUp, DiskStays

(* The write is over and its temporary file removed, or it is stuck *)
LEMMA Unlocked ==
    ASSUME IInv, saving # NotSaving, accident \subseteq accident',
           \/ lock' = [lock EXCEPT ![saving.file] = FALSE]
           \/ lock' = lock /\ "stuck" \in accident'
    PROVE  /\ lock' \in [Files -> BOOLEAN]
           /\ \A f \in Files : lock'[f] => "stuck" \in accident'
<1>1. main # "down" /\ saving.file \in Files
  BY WritingIsUp
<1> QED BY <1>1, DiskTyped

LEMMA StateWritten ==
    ASSUME IInv, saving # NotSaving, saving' = NotSaving,
           lock' \in [Files -> BOOLEAN],
           \A f \in Files : lock'[f] => "stuck" \in accident',
           accident \subseteq accident', accident' \subseteq Accidents,
           UNCHANGED <<config, entry, main, mem, engine, autostart, call, change>>
    PROVE  IInv'
<1>1. saving'.file = "none" /\ ~saving'.written
      /\ saving' \in [file : Files \cup {"none"}, written : BOOLEAN]
  BY DEF NotSaving
<1> QED BY <1>1, WritingIsUp, DiskStays

(* A change at its file *)
LEMMA AtSave ==
    ASSUME IInv, change.step = "save", entry' = entry, engine' = engine,
           accident \subseteq accident'
    PROVE  /\ Idle(Here) /\ Here.pending = autostart /\ Here.auto = mem.auto
           /\ Started(change) /\ Agreeing(change)
           /\ Kept(Here, change.prev.auto) /\ Sure(change.next.auto)
<1>1. change.step \notin Awaiting /\ main # "starting"
  BY WritingIsUp DEF Awaiting
<1>2. Idle(Here) /\ Here.pending = autostart /\ Here.auto = mem.auto
  BY <1>1, IdleHere, HereViews
<1>3. Started(change)
  BY ChangeTyped DEF IInv, EngineInv, Started, Follows
<1>4. Agreeing(change) /\ Sure(change.next.auto)
  BY DEF IInv, AutoInv, Agreeing, Known, Lost, Sure
<1>5. Kept(Here, change.prev.auto)
  BY <1>2 DEF IInv, AutoInv, Kept, Known, Lost, Sure
<1> QED BY <1>2, <1>3, <1>4, <1>5

(* The file could not be written *)
LEMMA SaveFailed ==
    ASSUME IInv, change.step = "save", World, SameConf, engine' = engine,
           accident \subseteq accident', Failed(Here, change)
    PROVE  IInv'
<1>1. entry' = entry
  BY DEF World
<1>2. change.next.auto = change.prev.auto => AutoOk(Here, change.prev.auto)
  BY <1>1, AtSave DEF AutoOk
<1>3. change.next.auto # change.prev.auto => change.prev.auto \in Entries
  BY <1>1, AtSave, ChangeTyped DEF Agreeing, Answers
<1> QED BY <1>1, <1>2, <1>3, AtSave, ChangeTyped, FailedOk

LEMMA RenameKeeps ==
    ASSUME IInv, Rename
    PROVE  IInv'
<1>1. /\ saving # NotSaving /\ lock' = [lock EXCEPT ![saving.file] = FALSE]
      /\ saving' = NotSaving /\ UNCHANGED <<entry, main, engine, accident>>
  BY DEF Rename
<1>2. /\ lock' \in [Files -> BOOLEAN]
      /\ \A f \in Files : lock'[f] => "stuck" \in accident'
  BY <1>1, Unlocked
<1>3. accident \subseteq accident' /\ accident' \subseteq Accidents
  BY <1>1, DiskTyped
<1>4. CASE saving.file = "config"
  <2>1. config' = change.next.conf /\ Ends(Here, change.next)
    BY <1>4 DEF Rename
  <2>2. change.step = "save"
    BY <1>4 DEF IInv, DiskInv
  <2>3. config' \in Confs /\ Normal[config'] = config' /\ Normal[config'] # Invalid
    BY <2>1, ChangeTyped, NormalAssumption DEF Normals
  <2>4. World
    <3>1. main \in {"up", "stopping"}
      BY <1>1, WritingIsUp
    <3>2. entry \in Entries /\ mem \in Values /\ engine' \in Normals \cup {None}
      BY <1>1 DEF IInv, TypeOK
    <3> QED BY <3>1, <3>2, <2>3, <1>1, <1>2, <1>3 DEF World
  <2>5. AutoOk(Here, change.next.auto)
    BY <2>2, <1>1, <1>3, AtSave DEF AutoOk, Kept, Agreeing
  <2>6. Runs(change.next.conf)
    BY <2>2, <1>1, AtSave DEF Started, Follows, Runs
  <2>7. change.next.conf = Normal[config']
    BY <2>1, <2>3
  <2> QED BY <2>1, <2>2, <2>4, <2>5, <2>6, <2>7, <1>1, <1>3, AtSave, ChangeTyped, EndsOk
<1>5. CASE saving.file # "config"
  <2>1. UNCHANGED <<config, mem, autostart, call, change>>
    BY <1>5 DEF Rename
  <2> QED BY <2>1, <1>1, <1>2, <1>3, StateWritten
<1> QED BY <1>4, <1>5

LEMMA WriteFailsKeeps ==
    ASSUME IInv, WriteFails
    PROVE  IInv'
<1>1. /\ saving # NotSaving /\ saving' = NotSaving
      /\ UNCHANGED <<config, entry, main, engine>>
  BY DEF WriteFails
<1>2. accident \subseteq accident' /\ accident' \subseteq Accidents
  BY DiskTyped DEF WriteFails, Accidents
<1>3. /\ lock' \in [Files -> BOOLEAN]
      /\ \A f \in Files : lock'[f] => "stuck" \in accident'
  <2>1. \/ lock' = [lock EXCEPT ![saving.file] = FALSE]
        \/ lock' = lock /\ "stuck" \in accident'
    BY DEF WriteFails
  <2> QED BY <2>1, <1>1, <1>2, Unlocked
<1>4. CASE saving.file = "config"
  <2>1. Failed(Here, change)
    BY <1>4 DEF WriteFails
  <2>2. change.step = "save"
    BY <1>4 DEF IInv, DiskInv
  <2>3. World /\ SameConf
    <3>1. engine' \in Normals \cup {None}
      BY <1>1 DEF IInv, TypeOK
    <3> QED BY <3>1, <1>1, <1>2, <1>3, WritingIsUp, WorldHere
  <2> QED BY <2>1, <2>2, <2>3, <1>1, <1>2, SaveFailed
<1>5. CASE saving.file # "config"
  <2>1. UNCHANGED <<mem, autostart, call, change>>
    BY <1>5 DEF WriteFails
  <2> QED BY <2>1, <1>1, <1>2, <1>3, StateWritten
<1> QED BY <1>4, <1>5

LEMMA SaveRefusedKeeps ==
    ASSUME IInv, SaveRefused
    PROVE  IInv'
<1>1. /\ change.step = "save" /\ saving = NotSaving
      /\ Failed(Here, change)
      /\ UNCHANGED <<config, lock, entry, main, engine, saving, accident>>
  BY DEF SaveRefused
<1>2. World /\ SameConf
  <2>1. engine' \in Normals \cup {None}
    BY <1>1 DEF IInv, TypeOK
  <2> QED BY <2>1, <1>1, DiskTyped, WritingIsUp, WorldStays
<1> QED BY <1>1, <1>2, SaveFailed

-----------------------------------------------------------------------------
(* The late commands, and the daemon.                                        *)

LEMMA SwitchKeeps ==
    ASSUME IInv, Switch
    PROVE  IInv'
<1>1. /\ main = "up" /\ change.step = "none" /\ engine' \in {mem.conf, None}
      /\ UNCHANGED <<config, lock, entry, main, mem, autostart, call, change,
                     saving, accident>>
  BY DEF Switch, Busy
<1>2. TypeOK'
  BY <1>1, CallTyped DEF IInv, TypeOK
<1>3. DiskInv' /\ CommandInv'
  BY <1>1 DEF IInv, DiskInv, CommandInv
<1>4. MainInv' /\ AutoInv'
  BY <1>1 DEF IInv, MainInv, AutoInv, Known, Lost
<1>5. EngineInv'
  BY <1>1 DEF EngineInv
<1> QED BY <1>2, <1>3, <1>4, <1>5 DEF IInv

(* Nothing but whether the client of the change is there *)
LEMMA DeadOk ==
    ASSUME IInv, NEW dead \in BOOLEAN, change' = [change EXCEPT !.dead = dead],
           main' = main \/ (main = "up" /\ main' = "stopping"),
           UNCHANGED <<config, lock, entry, mem, engine, autostart, call, saving, accident>>
    PROVE  IInv'
<1>1. change' \in Changes
  BY ChangeTyped DEF Changes
<1>2. /\ change'.step = change.step /\ change'.next = change.next
      /\ change'.prev = change.prev /\ change'.connected = change.connected
  BY ChangeTyped DEF Changes
<1>3. TypeOK'
  BY <1>1 DEF IInv, TypeOK
<1>4. DiskInv'
  BY <1>2 DEF IInv, DiskInv
<1>5. CommandInv'
  BY <1>2 DEF IInv, CommandInv
<1>6. MainInv'
  BY <1>2 DEF IInv, MainInv
<1>7. AutoInv'
  BY <1>2 DEF IInv, AutoInv, Known, Lost
<1>8. EngineInv'
  BY <1>2 DEF IInv, EngineInv
<1> QED BY <1>3, <1>4, <1>5, <1>6, <1>7, <1>8 DEF IInv

LEMMA CommandKeeps ==
    ASSUME IInv, NEW c \in Calls, CommandReturns(c)
    PROVE  IInv'
<1>1. /\ call[c].stage = "running"
      /\ UNCHANGED <<config, lock, main, mem, engine, autostart, change, saving, accident>>
  BY DEF CommandReturns
<1>2. c = autostart /\ c # None
  BY <1>1, OneCall
<1>3. call[c].kind \in Entries \cup {"read"} /\ call[c] \in CallStates
      /\ call[c].value = ""
  BY <1>1, <1>2, CallTyped DEF CallStates, IInv, CommandInv
<1>4. entry' \in Entries /\ (call[c].kind = "read" => entry' = entry)
  BY <1>3 DEF CommandReturns, Reads, Sets, IInv, TypeOK
<1>5. PICK value \in Answers :
          /\ call' = [call EXCEPT ![c].stage = "done", ![c].value = value]
          /\ value # "" => value = entry'
          /\ call[c].kind # "read" => value \in {call[c].kind, ""}
  <2>1. CASE Reads(c)
    BY <2>1 DEF Reads, Answers, IInv, TypeOK
  <2>2. CASE Sets(c) /\ call' = [call EXCEPT ![c].stage = "done"]
    <3>1. [call EXCEPT ![c].stage = "done"]
              = [call EXCEPT ![c].stage = "done", ![c].value = ""]
      BY <1>3, CallTyped DEF CallStates
    <3> QED BY <2>2, <3>1 DEF Answers
  <2>3. CASE Sets(c) /\ entry' = call[c].kind
             /\ call' = [call EXCEPT ![c].stage = "done", ![c].value = call[c].kind]
    BY <2>3, <1>3 DEF Sets, Answers
  <2> QED BY <2>1, <2>2, <2>3 DEF CommandReturns, Sets
<1> DEFINE k == [call[c] EXCEPT !.stage = "done", !.value = value]
<1>6. k \in CallStates /\ k.kind = call[c].kind /\ k.owner = call[c].owner
      /\ k.stage = "done" /\ k.value = value
  BY <1>3 DEF CallStates
<1>7. call' = [call EXCEPT ![c] = k]
  BY <1>5, CallTyped
<1> HIDE DEF k
<1>8. call' \in [Calls -> CallStates] /\ call'[c] = k
      /\ \A d \in Calls : d # c => call'[d] = call[d]
  BY <1>6, <1>7, CallTyped
<1>9. TypeOK'
  BY <1>1, <1>4, <1>8 DEF IInv, TypeOK
<1>10. DiskInv'
  BY <1>1 DEF IInv, DiskInv
<1>11. CommandInv'
  BY <1>1, <1>2, <1>5, <1>6, <1>8 DEF IInv, CommandInv
<1>12. MainInv'
  BY <1>1 DEF IInv, MainInv
<1>13. AutoInv'
  <2>1. CASE entry' = entry
    BY <2>1, <1>1 DEF IInv, AutoInv, Known, Lost
  <2>2. CASE entry' # entry
    <3>1. call[c].kind # "read"
      BY <2>2, <1>4
    <3>2. call[c].owner \in {"change", "late", "again"} /\ change.step \notin {"read", "reread"}
      BY <3>1, <1>2 DEF IInv, CommandInv
    <3>3. CASE call[c].owner = "change"
      <4>1. change.step \in {"set", "undo"}
        BY <3>2, <3>3, <1>2 DEF IInv, CommandInv, Awaiting
      <4> QED BY <4>1, <1>1 DEF IInv, AutoInv
    <3>4. CASE call[c].owner # "change"
      <4>1. mem.auto = "" /\ change.step \notin Awaiting
        BY <3>2, <3>4, <1>2 DEF IInv, CommandInv
      <4> QED BY <4>1, <1>1, <1>2 DEF IInv, AutoInv, Known, Awaiting
    <3> QED BY <3>3, <3>4
  <2> QED BY <2>1, <2>2
<1>14. EngineInv'
  BY <1>1 DEF IInv, EngineInv
<1> QED BY <1>9, <1>10, <1>11, <1>12, <1>13, <1>14 DEF IInv

(* What the daemon learns outside of a change *)
LEMMA LearnsOk ==
    ASSUME IInv, main \in {"starting", "up"}, main' = "up", autostart # None,
           change.step \notin Awaiting, saving = NotSaving,
           change.step # "save",
           UNCHANGED <<config, lock, entry, engine, change, saving, accident>>,
           NEW v, Idle(v), Keeps(v), NEW auto \in Answers, Knows(auto),
           auto \in {entry, ""}, v.pending # None => auto = ""
    PROVE  IInv'
<1>1. mem' \in Values /\ mem'.conf = mem.conf /\ mem'.auto = auto
  BY CallTyped DEF Knows, Values
<1>2. call' = v.calls /\ autostart' = v.pending
      /\ v.calls \in [Calls -> CallStates] /\ v.pending \in Calls \cup {None}
  BY DEF Keeps, Idle, Views
<1>3. TypeOK'
  BY <1>1, <1>2 DEF IInv, TypeOK
<1>4. DiskInv'
  BY <1>1 DEF IInv, DiskInv
<1>5. CommandInv'
  <2>1. \A c \in Calls : c # autostart' => call'[c] = NoCall
    BY <1>2 DEF Idle
  <2>2. autostart' # None => Stray(call'[autostart']) /\ mem'.auto = ""
    BY <1>1, <1>2 DEF Idle
  <2>3. change'.step \notin Awaiting
    OBVIOUS
  <2> QED BY <2>1, <2>2, <2>3 DEF CommandInv, Stray, Awaiting
<1>6. MainInv'
  BY DEF MainInv
<1>7. AutoInv'
  BY <1>1 DEF IInv, AutoInv, Known
<1>8. EngineInv'
  BY <1>1 DEF IInv, EngineInv
<1> QED BY <1>3, <1>4, <1>5, <1>6, <1>7, <1>8 DEF IInv

(* The call nobody waits for but a goroutine of its own *)
LEMMA CallLeft ==
    ASSUME IInv, NEW c \in Calls, call[c].owner \in {"start", "late", "again"}
    PROVE  /\ c = autostart /\ c # None /\ mem.auto = "" /\ change.step \notin Awaiting
           /\ call[c].owner = "start" => main = "starting" /\ change.step = "none"
                                         /\ saving = NotSaving
           /\ call[c].value \in Answers
           /\ call[c].stage = "done" => call[c].value \in {entry, ""}
<1>1. c = autostart /\ c # None
  BY OneCall
<1>2. call[c].value \in Answers
  BY CallTyped DEF CallStates
<1>3. change.step \notin Awaiting
  BY <1>1 DEF IInv, CommandInv
<1>4. call[c].owner = "start" => main = "starting"
  BY <1>1 DEF IInv, CommandInv
<1>5. main = "starting" => change.step = "none" /\ saving = NotSaving /\ mem.auto = ""
  BY DEF IInv, MainInv
<1>6. call[c].owner \in {"late", "again"} => mem.auto = ""
  BY <1>1 DEF IInv, CommandInv
<1>7. call[c].stage = "done" => call[c].value \in {entry, ""}
  BY <1>1 DEF IInv, CommandInv
<1> QED BY <1>1, <1>2, <1>3, <1>4, <1>5, <1>6, <1>7

(* The result of such a call is taken over *)
LEMMA TakesOver ==
    ASSUME IInv, main \in {"starting", "up"}, main' = "up", saving = NotSaving,
           change.step # "save",
           UNCHANGED <<config, lock, entry, engine, change, saving, accident>>,
           NEW c \in Calls, call[c].owner \in {"start", "late", "again"},
           call[c].stage = "done", Keeps(Collected(c)), Knows(call[c].value)
    PROVE  IInv'
<1>1. Idle(Collected(c)) /\ Collected(c).pending = None
  BY IdleCollected
<1> QED BY <1>1, CallLeft, LearnsOk

(* ... or is given up *)
LEMMA GivesUp ==
    ASSUME IInv, main \in {"starting", "up"}, main' = "up", saving = NotSaving,
           change.step # "save",
           UNCHANGED <<config, lock, entry, engine, change, saving, accident>>,
           NEW c \in Calls, call[c].owner \in {"start", "late", "again"},
           Keeps(Left(c)), Knows("")
    PROVE  IInv'
<1>1. Idle(Left(c))
  BY IdleLeft
<1>2. "" \in Answers
  BY DEF Answers
<1> QED BY <1>1, <1>2, CallLeft, LearnsOk

(* ... or, being an error, is asked for again *)
LEMMA AsksAgain ==
    ASSUME IInv, main = "up", saving = NotSaving, change.step # "save",
           UNCHANGED <<config, lock, entry, main, mem, engine, change, saving, accident>>,
           NEW c \in Calls, call[c].owner = "late", Launches(Collected(c), "read", "again")
    PROVE  IInv'
<1> DEFINE k == [kind |-> "read", stage |-> "running", value |-> "", owner |-> "again"]
           v == Collected(c)
<1>1. v.calls = [call EXCEPT ![c] = NoCall]
  BY IdleCollected
<1>2. v.calls \in [Calls -> CallStates] /\ \A d \in Calls : v.calls[d] = NoCall
  BY <1>1, CallTyped, FreeCall, OneCall DEF IInv, CommandInv
<1>3. k \in CallStates /\ k.kind = "read" /\ k.stage = "running" /\ k.value = ""
      /\ k.owner = "again"
  BY DEF CallStates, Answers, Owners
<1>4. PICK d \in Calls : call' = [v.calls EXCEPT ![d] = k] /\ autostart' = d
  <2> DEFINE d == CHOOSE e \in Calls : v.calls[e].stage = "unused"
  <2>1. d \in Calls /\ call' = [v.calls EXCEPT ![d] = k] /\ autostart' = d
    BY DEF Launches
  <2> QED BY <2>1
<1> HIDE DEF k, v
<1>5. call' \in [Calls -> CallStates] /\ call'[d] = k /\ d # None
      /\ \A e \in Calls : e # d => call'[e] = NoCall
  BY <1>2, <1>3, <1>4, NoneAssumption
<1>6. c = autostart /\ mem.auto = "" /\ change.step \notin Awaiting
  BY CallLeft
<1>7. TypeOK'
  BY <1>4, <1>5 DEF IInv, TypeOK
<1>8. DiskInv'
  BY DEF IInv, DiskInv
<1>9. CommandInv'
  BY <1>3, <1>4, <1>5, <1>6 DEF CommandInv, Awaiting
<1>10. MainInv'
  BY DEF MainInv
<1>11. AutoInv'
  <2>1. autostart # None
    BY <1>6, NoneAssumption
  <2> QED BY <1>6, <2>1 DEF IInv, AutoInv, Known, Lost
<1>12. EngineInv'
  BY DEF IInv, EngineInv
<1> QED BY <1>7, <1>8, <1>9, <1>10, <1>11, <1>12 DEF IInv

LEMMA LateKeeps ==
    ASSUME IInv, NEW c \in Calls, LateCollects(c) \/ AgainCollects(c) \/ AgainExpires(c)
    PROVE  IInv'
<1>1. /\ main = "up" /\ saving = NotSaving /\ change.step # "save"
      /\ UNCHANGED <<config, lock, entry, main, engine, change, saving, accident>>
  BY DEF LateCollects, AgainCollects, AgainExpires, Free
<1>2. CASE LateCollects(c)
  <2>1. call[c].owner = "late" /\ call[c].stage = "done"
    BY <1>2 DEF LateCollects
  <2>2. CASE Keeps(Collected(c)) /\ Knows(call[c].value)
    BY <2>1, <2>2, <1>1, TakesOver
  <2>3. CASE Launches(Collected(c), "read", "again") /\ UNCHANGED mem
    BY <2>1, <2>3, <1>1, AsksAgain
  <2> QED BY <1>2, <2>2, <2>3 DEF LateCollects
<1>3. CASE AgainCollects(c)
  <2>1. /\ call[c].owner = "again" /\ call[c].stage = "done"
        /\ Keeps(Collected(c)) /\ Knows(call[c].value)
    BY <1>3 DEF AgainCollects
  <2> QED BY <2>1, <1>1, TakesOver
<1>4. CASE AgainExpires(c)
  <2>1. call[c].owner = "again" /\ Keeps(Left(c)) /\ Knows("")
    BY <1>4 DEF AgainExpires
  <2> QED BY <2>1, <1>1, GivesUp
<1> QED BY <1>2, <1>3, <1>4

LEMMA StartKeeps ==
    ASSUME IInv, NEW c \in Calls, StartCollects(c) \/ StartExpires(c)
    PROVE  IInv'
<1>1. /\ call[c].owner = "start" /\ main' = "up"
      /\ UNCHANGED <<config, lock, entry, engine, change, saving, accident>>
  BY DEF StartCollects, StartExpires
<1>2. main = "starting" /\ saving = NotSaving /\ change.step # "save"
  BY <1>1, CallLeft
<1>3. CASE StartCollects(c)
  <2>1. call[c].stage = "done" /\ Keeps(Collected(c)) /\ Knows(call[c].value)
    BY <1>3 DEF StartCollects
  <2> QED BY <2>1, <1>1, <1>2, TakesOver
<1>4. CASE StartExpires(c)
  <2>1. Keeps(Left(c)) /\ Knows("")
    BY <1>4 DEF StartExpires
  <2> QED BY <2>1, <1>1, <1>2, GivesUp
<1> QED BY <1>3, <1>4

LEMMA LaunchKeeps ==
    ASSUME IInv, Launch
    PROVE  IInv'
<1> DEFINE k == [kind |-> "read", stage |-> "running", value |-> "", owner |-> "start"]
<1>1. /\ main = "down" /\ main' = "starting" /\ lock' = Cleared /\ accident' = {}
      /\ mem' = [conf |-> Normal[config], auto |-> ""]
      /\ Launches(Here, "read", "start")
      /\ UNCHANGED <<config, entry, engine, change, saving>>
  BY DEF Launch
<1>2. autostart = None /\ engine = None /\ change.step = "none" /\ saving = NotSaving
  BY <1>1 DEF IInv, MainInv
<1>3. call \in [Calls -> CallStates] /\ \A d \in Calls : call[d] = NoCall
  BY <1>2, CallTyped, NoneAssumption DEF IInv, CommandInv
<1>4. k \in CallStates /\ k.kind = "read" /\ k.stage = "running" /\ k.value = ""
      /\ k.owner = "start"
  BY DEF CallStates, Answers, Owners
<1>5. PICK d \in Calls : call' = [call EXCEPT ![d] = k] /\ autostart' = d
  <2> DEFINE d == CHOOSE e \in Calls : call[e].stage = "unused"
  <2>1. d \in Calls /\ call' = [call EXCEPT ![d] = k] /\ autostart' = d
    BY <1>1, HereViews DEF Launches
  <2> QED BY <2>1
<1> HIDE DEF k
<1>6. call' \in [Calls -> CallStates] /\ call'[d] = k /\ d # None
      /\ \A e \in Calls : e # d => call'[e] = NoCall
  BY <1>3, <1>4, <1>5, NoneAssumption
<1>7. config \in Confs /\ Normal[config] # Invalid /\ Normal[config] \in Normals
  BY SomeNormal DEF IInv, TypeOK, DiskInv
<1>8. mem' \in Values /\ mem'.conf = Normal[config'] /\ mem'.auto = ""
  BY <1>1, <1>7 DEF Values, Answers
<1>9. TypeOK'
  <2>1. lock' \in [Files -> BOOLEAN] /\ accident' \subseteq Accidents
    BY <1>1 DEF Cleared
  <2> QED BY <2>1, <1>1, <1>5, <1>6, <1>8 DEF IInv, TypeOK
<1>10. DiskInv'
  BY <1>1, <1>2, <1>7, <1>8 DEF DiskInv, Cleared, NotSaving
<1>11. CommandInv'
  BY <1>1, <1>2, <1>4, <1>5, <1>6 DEF CommandInv, Awaiting
<1>12. MainInv'
  BY <1>1, <1>2, <1>5, <1>6, <1>8 DEF MainInv
<1>13. AutoInv'
  BY <1>1, <1>2, <1>8 DEF AutoInv, Known
<1>14. EngineInv'
  BY <1>1, <1>2 DEF EngineInv
<1> QED BY <1>9, <1>10, <1>11, <1>12, <1>13, <1>14 DEF IInv

LEMMA GoneKeeps ==
    ASSUME IInv, Gone
    PROVE  IInv'
<1>1. /\ main' = "down" /\ mem' = AnyValue /\ engine' = None /\ autostart' = None
      /\ call' = [c \in Calls |-> NoCall] /\ change' = NoChange /\ saving' = NotSaving
      /\ UNCHANGED <<config, lock, accident>>
  BY DEF Gone
<1>2. config \in Confs /\ Normal[config] # Invalid
  BY DEF IInv, TypeOK, DiskInv
<1>3. AnyValue \in Values /\ NoChange \in Changes /\ NoChange.step = "none"
  BY <1>2, SomeNormal DEF NoChange
<1>4. entry' \in Entries
  <2>1. \A c \in Calls : call[c].kind \in Entries \cup {"read"}
    BY CallTyped DEF CallStates
  <2> QED BY <2>1 DEF Gone, IInv, TypeOK
<1>5. TypeOK'
  BY <1>1, <1>3, <1>4, FreeCall DEF IInv, TypeOK, NotSaving, Files
<1>6. DiskInv'
  BY <1>1, <1>2 DEF DiskInv, NotSaving
<1>7. CommandInv'
  BY <1>1, <1>3 DEF CommandInv, Awaiting
<1>8. MainInv'
  BY <1>1, <1>3 DEF MainInv
<1>9. AutoInv'
  BY <1>1, <1>3 DEF AutoInv
<1>10. EngineInv'
  BY <1>1, <1>3 DEF EngineInv
<1> QED BY <1>5, <1>6, <1>7, <1>8, <1>9, <1>10 DEF IInv

LEMMA InitInv == Init => IInv
<1> SUFFICES ASSUME Init
             PROVE  IInv
  OBVIOUS
<1>1. /\ config \in Confs /\ Normal[config] # Invalid
      /\ lock = [f \in Files |-> FALSE] /\ entry = "off" /\ main = "down"
      /\ mem = AnyValue /\ engine = None /\ autostart = None
      /\ call = [c \in Calls |-> NoCall] /\ change = NoChange /\ saving = NotSaving
      /\ accident = {}
  BY DEF Init
<1>2. AnyValue \in Values /\ NoChange \in Changes /\ NoChange.step = "none"
  BY <1>1, SomeNormal DEF NoChange
<1>3. TypeOK
  BY <1>1, <1>2, FreeCall DEF TypeOK, NotSaving, Files, Entries
<1>4. DiskInv
  BY <1>1 DEF DiskInv, NotSaving
<1>5. CommandInv
  BY <1>1, <1>2 DEF CommandInv, Awaiting
<1>6. MainInv
  BY <1>1, <1>2 DEF MainInv
<1>7. AutoInv /\ EngineInv
  BY <1>1, <1>2 DEF AutoInv, EngineInv
<1> QED BY <1>3, <1>4, <1>5, <1>6, <1>7 DEF IInv

LEMMA NextInv == IInv /\ [Next]_vars => IInv'
<1> SUFFICES ASSUME IInv, [Next]_vars
             PROVE  IInv'
  OBVIOUS
<1>1. CASE SetSettings
  BY <1>1, BeginKeeps DEF SetSettings
<1>2. CASE HangUp
  BY <1>2, DeadOk DEF HangUp
<1>3. CASE Engines
  BY <1>3, ApplyReturnsKeeps, RestoreReturnsKeeps DEF Engines
<1>4. CASE Awaits
  BY <1>4, ChangeCollectsKeeps, ChangeExpiresKeeps DEF Awaits
<1>5. CASE Commands
  BY <1>5, CommandKeeps DEF Commands
<1>6. CASE Late
  BY <1>6, LateKeeps DEF Late
<1>7. CASE Disk
  <2>1. CASE SaveConfig
    <3>1. "config" \in Files /\ main \in {"up", "stopping"}
      BY <2>1, WritingIsUp DEF SaveConfig, Files
    <3> QED BY <2>1, <3>1, OpensKeeps DEF SaveConfig
  <2> QED BY <1>7, <2>1, FlushKeeps, RenameKeeps, WriteFailsKeeps, SaveRefusedKeeps DEF Disk
<1>8. CASE SetCollapsed
  <2>1. "state" \in Files
    BY DEF Files
  <2> QED BY <1>8, <2>1, OpensKeeps DEF SetCollapsed, Free
<1>9. CASE Switch
  BY <1>9, SwitchKeeps
<1>10. CASE Starts
  BY <1>10, LaunchKeeps, StartKeeps DEF Starts
<1>11. CASE Stop
  <2>1. Busy \in BOOLEAN
    BY DEF Busy
  <2> QED BY <1>11, <2>1, DeadOk DEF Stop
<1>12. CASE Exit \/ Crash
  BY <1>12, GoneKeeps DEF Exit, Crash
<1>13. CASE UNCHANGED vars
  <2>1. /\ TypeOK' /\ DiskInv' /\ CommandInv' /\ MainInv'
    BY <1>13 DEF vars, IInv, TypeOK, DiskInv, CommandInv, MainInv
  <2>2. AutoInv' /\ EngineInv'
    BY <1>13 DEF vars, IInv, AutoInv, EngineInv, Known, Lost
  <2> QED BY <2>1, <2>2 DEF IInv
<1> QED BY <1>1, <1>2, <1>3, <1>4, <1>5, <1>6, <1>7, <1>8, <1>9, <1>10, <1>11, <1>12,
           <1>13 DEF Next

-----------------------------------------------------------------------------
(* The settings, memory, file, engine and entry, through every step of a change *)
THEOREM SettingsInvariant == Spec => []IInv
BY InitInv, NextInv, PTL DEF Spec

(* The variables keep their types *)
THEOREM SettingsTypes == Spec => []TypeOK
<1>1. IInv => TypeOK
  BY DEF IInv
<1> QED BY <1>1, SettingsInvariant, PTL

(* However a change of the settings ends, memory has what the configuration file *)
(* holds, and the engine runs with it unless putting it back failed as well      *)
THEOREM SettingsStayTogether == Spec => []SettingsAgree
<1>1. IInv => SettingsAgree
  BY DEF IInv, DiskInv, EngineInv, SettingsAgree, Resting, Busy
<1> QED BY <1>1, SettingsInvariant, PTL

(* What the daemon says of the autostart entry is so, or nothing is said, however *)
(* late a command of the system returns                                           *)
THEOREM AutostartIsTrue == Spec => []AutostartKnown
<1>1. IInv => AutostartKnown
  BY DEF IInv, AutoInv, Known, Lost, AutostartKnown, Resting, Busy
<1> QED BY <1>1, SettingsInvariant, PTL

(* A temporary file that nobody writes never blocks a write *)
THEOREM WritesNeverBlocked == Spec => []WritesPossible
<1>1. IInv => WritesPossible
  BY DEF IInv, DiskInv, WritesPossible
<1> QED BY <1>1, SettingsInvariant, PTL
=============================================================================
