# Verification of justray

justray is a proxy client in two programs: `justrayd`, a daemon that owns the
sing-box engine and everything that is stored, and `justray`, a command line
and terminal interface that talks to it over a Unix socket. This directory
holds TLA+ models of the daemon, the TLC configurations that check them and
the TLAPS proofs about them. Paths below are relative to the repository.

## 1. The system

| Component | State it keeps | Operations | Correct when |
| --- | --- | --- | --- |
| Change pipeline (`daemon/core/change.go`, `core.go`) | `opMu`, `stMu`, `changing`, the context | `begin`, `external`, `commit`, `Shutdown` | one change at a time; every change ends; memory never ahead of the file |
| Connection operations (`core/connection.go`) | `state.Active/Last/Tun/Pending`, `restart` | `Connect`, `Disconnect`, `SetTun`, `Restore`, `RestoreFailed`, `RequestRestart` | the verdict, the engine and the file agree however the switch ends |
| Subscription operations (`core/subscriptions.go`) | `state.Subscriptions`, `Collapsed` | add, remove, remove node, move | no reference to a node outlives it; identities survive an update |
| Refresh (`core/refresh.go`) | `refreshes`, waiter counts | `RefreshSubscriptions`, `refresh`, `runRefresh` | one fetch per subscription; it runs while somebody waits; its change sees the current list |
| Probe (`core/probe.go`, `engine/probe.go`) | `probing`, `probes`, waiter counts | `Probe`, `runProbe` | never beside a change; late results dropped; every waiter answered |
| Snapshot (`core/snapshot.go`) | `snapshot`, `watchers` | `publish`, `Watch` | a watcher ends with the latest snapshot; the publisher never blocks |
| Settings (`core/settings.go`, `autostart.go`) | `state.Settings`, `autostart` | `SetSettings`, `readAutostart`, `SetCollapsed` | engine, autostart entry and file agree after success and after rollback |
| Connection service (`daemon/connection`) | `eng`, `status` | `apply`, `stop`, `Probe` | `status` is what the engine runs |
| Engine (`engine/adapter.go`, `runtime.go`, `tun.go`) | `inst`, `tun`, `node`, system proxy | start, swap, TUN add and remove, stop | a failed step leaves the old node or nothing |
| Store (`daemon/store`) | `config`, `state` and their `.lock` files | `Load`, `SaveState`, `SaveConfig` | a crash leaves the old or the new file |
| Server (`daemon/server`) | `sem`, `watchSem`, `stop` | `Listen`, `Serve`, `handle`, `watch`, `AutoRefresh` | one daemon per socket; slots are returned; a stop gets out |
| Main and elevation (`cmd/justrayd`, `platform/elevate`, `platform/lock`) | the process, the locks, the reservation | start, hand over, serve, restart, stop | no loop of elevations; the refused elevation costs nothing |
| IPC client and CLI (`ipc`, `client/cli`) | the client lock | `call`, `AwaitConnection`, `connect` | the client of an old daemon ends with a new one; the wait across a restart ends |
| Terminal interface (`client/tui`) | snapshot, cursor, dialog, motions | `Update`, `watch` | the selection follows its row; a lost daemon is started again |
| Parsers, outbound builder, settings domain | none | text to nodes, nodes to sing-box options, `Normalize` | pure functions |

How they interact: a handler of the server calls one method of `Core` with a
context that dies with the client or after `ipc.Timeout`. A method that changes
something is a *change*: `begin` puts it into `Core.changing` under `opMu`, a
goroutine runs it, and everybody else is refused (`errChanging`) or waits.
Inside the change every engine call goes through `external`, which releases
`opMu`; so `SetCollapsed`, `RequestRestart`, readers, a dying client and a
shutdown run between the steps of a change. The change ends with a `commit`
(file first, then memory), possibly a rollback of the engine, and a published
snapshot. A TUN request the process has no privilege for is stored as `Pending`
and answered with `ErrElevate`; after the reply is sent the handler asks main
to go round its loop, whose `Restore` meets the request again and hands the
process over to a privileged copy of the executable.

What is hard here: the steps between two engine calls, with state copied before
and used after; saves, engine calls and rollbacks that fail one after the
other; callers that give up at any of these points; requests that are answered
before what they announce is done; restarts, crashes and refused elevations
between any two steps; and calls shared by several waiters, each of whom may
leave. `PROJECT.json` lists each hazard at its line.

## 2. The modules

| Module | About | Checked by | Proved in |
| --- | --- | --- | --- |
| `Core`, `Service` | the change pipeline, the connection and subscription operations, main's loop as far as the stored state sees it; what it promises of the one connection, which it implements | `core_all`, `core_feed`, `core_live` | `CoreProofs` |
| `Refresh` | the shared refresh call, joining, leaving, cancelling, the queued change | `refresh`, `refresh_live` | `RefreshProofs` |
| `Probe` | sharing and preemption of probes beside the `begin` of a change | `probe` | `ProbeProofs` |
| `Watch`, `Latest` | publication through one-slot channels; the register it implements | `watch` | `ServerProofs` |
| `Engine`, `Connection` | the steps of an engine call; what Core counts on, which it implements | `engine` | `EngineProofs` |
| `Settings` | `SetSettings` over engine, autostart entry and file; late commands; the steps of a write | `settings` | `SettingsProofs` |
| `Daemons` | several daemons and clients: locks, elevation, restart, replacement | `daemons` | `DaemonsProofs` |
| `Server` | accepting, slots, draining, the automatic refresh | `server` | `ServerProofs` |
| `Tui`, with `Tree`, `Dialog`, `Navigation` | the terminal interface between snapshots, the user and its requests | `tui` | `TuiProofs` |

Where they meet: a step that one module has in full is a single, more general
step of the others. The engine calls of `Core`, `Probe` and `Settings` have the
outcomes that `Connection` promises and `Engine` is shown to keep. The change of
a refresh is in `Core`, its way through the lock in `Refresh`. `Core` saves in
one step, and `Settings` has the steps of the save. `Core` has one daemon with
everything it stores, `Daemons` many with one stored request, `Server` the
connections of one of them. A snapshot is a number in `Watch` and a member of a
set in `Tui`. `Tui` extends or instantiates `Tree`, `Dialog` and `Navigation`,
which are pure operators.

What could still be added: the slots and workers of `engine/probe.go`; reference
definitions for `assignNodeIDs`, `find` and the classification of rules.

## 3. What is modelled: `Core`

| Variable | In the code |
| --- | --- |
| `mem`, `disk` | `Core.state` and the state file: subscriptions, their nodes, `Active`, `Last`, `Tun`, `Pending`, `Collapsed` |
| `status` | `connection.Service.status`: the node and mode the engine runs |
| `changing` | `Core.changing`: kind, dead context, the connection and the state copies of the operation, the engine call it is in and its answer |
| `reply` | `changeCall.err` of the last change, as ok, failed or elevate |
| `asks` | handlers that got an elevation request and have not yet called `RequestRestart` |
| `restart` | the token in `Core.restart` |
| `daemon`, `root`, `copy` | where main is; whether the process may open a TUN device; whether it runs the executable that was granted the privilege |
| `torn` | history only: the last rollback failed with the engine on the other node |

Each action is what the code does without releasing `opMu`, and its name is
the function's: `RunConnect` is `Connect` up to its engine call,
`SwitchReturned` is `finishConnection` after it, `RollbackReturned` what
follows `restore`, and so on. An engine call is `changing.call`; `EngineStarts`,
`EngineFails`, `EngineNeedsElevation` and `EngineStops` answer it. `Cancel` is
a caller that times out or hangs up. `Launch`, `RunRestore`, `Elevate`,
`ElevateFails`, `RunRestoreFailed`, `Recovered`, `Leave`, `Stopped`,
`Restarted` and `Crash` are the loop in `main.go`. Operators named after a
broken form of an action (their comment begins with "Sensitivity") are not part
of the model; they document which change of the code each property would catch.

Abstractions, and why the properties do not see the difference:

- A node is an identity that fixes its subscription; its configuration, and
  settings, timestamps and status texts, are left out. `find` by prefix becomes
  membership: the clients send full identities. `sub.UpdatedAt`, names and the
  order of subscriptions are left out.
- A save succeeds or leaves the file as it was (`writeJSON` renames a complete
  temporary file). What a crash does in between is in `Settings`.
- `ErrElevate` is answered exactly when TUN is asked of a process without the
  privilege, before the engine is touched (`engine/adapter.go:49`).
- A failed engine call leaves what ran, or nothing if the old instance was
  stopped first. A stop forgets the engine whatever closing it returns
  (`connection/service.go:144`).
- `Pending` is compared by pointer in `RequestRestart`, so a request has an
  identity, which is lost when the record is read back from the file. A request
  identity is reused only when neither a handler nor the state holds it.
- Main exits on every error of `Restore` but `ErrElevate`; the Linux
  `elevate.Restart` refuses when the process already runs the granted copy.
  Handlers are drained before `Shutdown`, so `Leave` forgets their requests.
  `Crash` covers every other end of the process, the five-second limit of the
  shutdown among them.
- Refused calls (`errChanging`) change nothing and are no steps.

`Service` is what the user is promised of the one connection. It knows the
connection that runs, the one that is stored, the one that waits for the privilege
and the switch under way, and has no lists, changes, engine answers or saves. A
switch ends in one of three ways: done in the engine and in the file, waiting with
the engine untouched, or undone, where only an undoing that fails leaves another
connection. Outside of a switch a connection is stopped only when it is not
the stored one or the process ends, and what a start brings back is the stored one or the one that
waits. `Core` shows it `status` and what the file has of `Active`, `Tun` and
`Pending` (`Chosen`, `Asking`); a switch is under way while the change has an engine
call of `Connect`, `SetTun` or `restore`, or the one with which a refresh starts the
connection again (`Shown`).

### `Watch` and `Latest`

| Variable | In the code |
| --- | --- |
| `snapshot` | `Core.snapshot`, as the number of times it was published |
| `todo`, `full`, `drained` | where `publishLocked` is in its loop over the watchers; `todo` is not empty while it holds `stMu` |
| `registered`, `chan` | `Core.watchers` and the one slot of each channel |
| `conn`, `hand` | the handler `Server.watch`: whether it runs, what it is about to write |
| `wire`, `seen` | what the connection holds unread, what the client shows last |

The publisher goes through the registered watchers in any order. `Offer` is its
first `select`, `Drain` the second, `Put` the send after it; a handler may
`Take` from the channel between them, since receiving needs no lock. `Open`,
`Unregister` and `Publish` wait for the lock. `Write` waits while the connection
is full. `Drop` is a write that fails or times out, a client that goes away or
a server that stops; what was under way may still arrive or be lost. A client
that comes back uses a new connection and channel, and starts with the snapshot
`Watch` reads under the lock. The contents of a snapshot are left out.

`Latest` is the promise: a watcher shows published snapshots, may skip some,
and never goes back to an older one. It has no channels, locks or connections.

### `Probe`

| Variable | In the code |
| --- | --- |
| `probing` | `Core.probing`: its target, the nodes it was started for, `pending`, whether its context is dead, its `waiters`, the `changed` flag of `runProbe`, and `job`, where `conn.Probe` is |
| `probes` | the keys of `Core.probes` |
| `changing` | `Core.changing` as far as a probe sees it: begun, acting; whether it waits for the probe it met; its context; the nodes it keeps showing |
| `nodes`, `shown` | the nodes in the state; the probe columns of the snapshot |
| `caller`, `phase` | where each handler of `Core.Probe` is; main |

`Refuse`, `Preempt`, `Start` and `Join` are one hold of `stMu` in `Core.Probe`
each; `GiveUp` and `Leave` are its two ways out on a dead context. `Result` is
the callback that `conn.Probe` gets, `JobReturns` its return, `Tick` the ticker,
`Close` the rest of `runProbe`. `Begin`, `Act`, `Commit` and `Finish` are a
change, whose engine calls and commits are one choice of nodes here; `Core` has
them in full. `Publish` is what every publication does to the probe columns:
during a change the nodes of the state before it are shown and no result is
forgotten.

Abstractions: closing `done` wakes all callers at once in `Close`; what they do
then on their own way out touches nothing (`c.probing` is no longer their call).
A target is the set of nodes it names, by `Match`; what a result says is left
out. `conn.Probe` returns with all results, with none, or once it is cancelled.

### `Refresh`

| Variable | In the code |
| --- | --- |
| `subs` | the refreshable subscriptions in `Core.state` |
| `refreshes` | `Core.refreshes` |
| `call` | the `refreshCall` objects: where their goroutine is, their subscription, why their context ended, `waiters` |
| `changing` | `Core.changing`: a refresh, another change, or none |
| `client`, `worker` | a call of `RefreshSubscriptions`: what it has still to dispatch, whether its context is dead; its worker for each subscription |
| `serving` | whether main has not yet cancelled the context |

`Check` to `Leave` are `refresh`: the loop up to joining, one hold of `stMu`
each, the wait for a dead call, the deferred function. `Fetched` to `Close` are
`runRefresh`, with `Begin` and `GiveUp` for `begin` with `wait`; the order of
those in the queue is open. `ended` tells why a context is dead, since the code
treats a call that was left like one that ran out of time. What the change does
to nodes and engine is in `Core`; here it only looks for its subscription.

Abstractions: a `refreshCall` is reused once no worker points to it. A removed
subscription is not added again (identities are random). Calls that end without
taking or holding anything (unknown ids, nothing to do) are no steps. Main waits
for its handlers but not for `AutoRefresh` (the client `Refresher`) or the goroutine
of a call: `Restart` forgets these, as the old `Core` is nobody's any more.

### `Engine` and `Connection`

| Variable | In the code |
| --- | --- |
| `eng`, `status` | `Service.eng` (nil or not) and `Service.status`, as node and mode |
| `box` | the fields of `box`; `up` is `inst != nil`, `proxying` is `systemProxy != nil` |
| `inst` | the sing-box instance: the settings it was built from, `proxyOutbound.current`, the runtime registered as `proxy-node` and the one the selector uses, the options of the TUN inbound, `managedTun.current` |
| `open` | the node runtimes that have not been closed |
| `sysproxy` | the proxy setting of the system |
| `call`, `answer` | the step the call is in with its request; what the last call returned |
| `root` | whether the process may open a TUN device |
| `torn` | history only: closing the TUN failed and the box still counts on it |

A call is `Ask`, then `Disconnect`, or one of the branches of `Apply` that
`Choose` picks, and a step each for what may fail: `start` (`StartBusy` to
`Enabled`), `swap` (`RuntimeFails` to `CloseOld`), `tunAdd`, `tunRemove`
(`TunBusy` to `TunRemoved`) and `Stop` (`Disable` to `Stopped`). `Die` is the
context of the call, which only the first checks and a start look at. Calls do
not overlap, since the change pipeline makes them one by one (`Core`, `Probe`).

Settings are two values: those of which `rebuilds` always compares, and those it
compares for TUN only. `system` is `ProxyType`, which decides with the mode
whether the proxy setting of the system is wanted.

`Connection` is what Core counts on: a call that succeeds leaves what it asked
for, one that fails what there was or nothing, one that needs the privilege
what there was. It has no instance, box or steps. Of a connection it shows the
node that traffic goes to, the settings in effect and whether the system uses it.

Abstractions: a node is its `ID` together with its `ConfigKey`, so another
configuration under the same `ID` is another node, as for `nodeChanged`. What sing-box does is external: `AddInternal` and `Selector.Start` do
their work or fail without doing it; when the old node cannot be registered again,
the selector still has it. The removal of a stale device, the log, DNS
caches and start times are left out.

One thing the refinement does not say. When `tunRemove` fails, the inbound has
forgotten its runtime (`engine/tun.go:72`) and the box keeps `tun` set
(`engine/adapter.go:219`). The rollback of the core to TUN then finds nothing to
do (line 74) and succeeds, and the status says TUN with no device behind it,
until a call without TUN, or one that starts over, repairs it. Nothing in the repository says
what should happen. `torn` marks these states: `Connection` takes the word
of the box in them, and the equality of `inst.live` and `box.tun` in `StatusTrue`
is `box.tun /\ ~torn`.

### `Settings`

| Variable | In the code |
| --- | --- |
| `config`, `lock` | the configuration file; which of the two files have a `.lock` beside them |
| `entry` | the autostart entry of the system |
| `main` | where main is, as far as the settings see it |
| `mem` | `Core.state.Settings`: the configuration and `Autostart` |
| `engine` | the configuration the engine runs with, or none |
| `autostart`, `call` | `Core.autostart` and the `autostartCall` objects: their command, its result, and who waits for it |
| `change` | the `SetSettings` in `Core.changing`: the step it is at, what the client saw, what it wants, what there was, whether its context is dead |
| `saving` | the `writeJSON` under way |
| `accident` | history only: repairs that failed as well |

A change is a chain of steps, and each action is what the code does from one
wait to the next: `Begin` to the first `readAutostart`; `Compares` the checks
after it; `Applied`, `Settled`, `Failed` and `Undone` are what follows the
engine, the autostart command, and a failure. The actions that wait are
`ApplyReturns` and `RestoreReturns` for the engine, `ChangeCollects` and
`ChangeExpires` for a command of the system, `Flush`, `Rename` and `WriteFails`
for the disk. `Free` says that nobody holds `opMu`, which a change gives up while
it waits for the engine or a command and keeps while it writes.

A command that runs out of its ten seconds stays `Core.autostart` and belongs to
a goroutine (`LateCollects`); an error makes that one read the entry again
(`AgainCollects`, `AgainExpires`). Until then the state says "unknown", and
another change of the entry fails at once.

Abstractions: the configuration is one value, and what `Normalize` does of it a
constant that either refuses or yields a fixed point. A command that changes the
entry may fail with the entry changed or not. The end of a process resolves
what its commands have done at that moment. A failed switch of the connection
(which is no change of settings) is in `Core`. The contents of the state file are
in `Core`; here it is a write that holds the lock and may be blocked.

`accident` names the three repairs whose own failure the code accepts: the engine
could not be put back (`torn`); a rollback of the entry failed and so did reading
it afterwards, so that memory keeps the old value (`lost`); a temporary file
could not be removed (`stuck`). Each property is excused by its own accident only.

### `Daemons`

| Variable | In the code |
| --- | --- |
| `platform` | whether a copy is run in place (Linux) or by a helper (macOS, Windows) |
| `sock`, `elev`, `starter` | who holds `socket.lock`, `elevation.lock`, the lock of `connect` |
| `path` | whose listener the file of the socket belongs to, alive or not |
| `stored` | whose are `Active`, with `Tun`, and `Pending` in the state file; a connection in proxy mode is nobody's |
| `proc` | each process: where main is, its privilege and version, `status.Error`, whose connection it runs; `refused` is history only: for whose request it was refused the privilege and could not take it out of the file |
| `client` | each client: where it is, and whether `AwaitConnection` has met `ErrNoDaemon` |

`TakeElevation` to `Bind` are `Listen` and its lock helpers, `Restore` to `Unlock`
the loop of main, `Exec` and `Help` the two forms of `elevate.Restart`. `Restore`
tries `Pending` first and then, by `RestoreActive`, what is stored, which stays
stored when the engine fails; `Refuse` is `RestoreFailed`, which shows its error also
when it cannot save the file without the request. `Call` to
`Wait` are `connect`, `stop` and `up` of the command line, `Ask` is the
request, which connects (`Connected`), waits for the privilege (`Elevates`), fails and
is undone (`AskFails`) or ends the TUN mode (`Drops`), and `Poll` is
`AwaitConnection`. Processes and clients may end at any step
(`Crash`, `GiveUp`); a process that ends leaves the file of its socket and loses
its locks. Every wait has a limit, and a wait that reaches it is a disjunct of
its action.

Abstractions: a client has one request, for TUN, and sees whether the daemon that
answers runs it. A connection in proxy mode needs no privilege and waits for nothing:
it counts as none. That `RestoreFailed` may still be under way when main serves is in
`Core` (`Recovered`). A daemon that does not answer in time cannot be told from one
that is busy. `waitStopped` takes and gives back the socket's lock in one step.
When a daemon restarts in place, its lock is free between `Unlock` and the next
`Listen`: `justray stop` may report the daemon as stopped there although it comes
back. That is what the code does, and no property says otherwise.

### `Server`

| Variable | In the code |
| --- | --- |
| `main`, `leaves`, `over` | where main is and why it leaves; the context of the server |
| `open`, `backlog` | the listener and the connections it holds |
| `accept`, `pending` | where `Serve` is; the connection it has no slot for yet |
| `handler` | what the handler of each connection waits for |
| `sem`, `watchSem` | how many slots of each kind are taken |
| `stop`, `restart` | `server.stop`; a client was answered that the daemon restarts |
| `tick`, `updating`, `tried` | `AutoRefresh`: its ticker, what it is refreshing, when it last tried each |
| `every`, `due` | whether a refresh is wanted at all; what is due |
| `failing` | history only: when a subscription that has been due ever since was tried |

`Loop` to `AllHandled` are `Serve`; `Read`, `Answer`, `Called`, `Elevate`, `Swap`
and `WatchLost` are `handle` and `watch`; `Leave`, `Drained` and `Fatal` are
main, whose five seconds may be over at any time while it drains; `Minute`,
`Check` and `Refreshed` are `AutoRefresh`.

Abstractions: time is counted in minutes up to the pause between two attempts;
the hours of `RefreshEvery` become the choice of what is due (`Outside`). What a
request does to the core is in the other modules: here it takes its time and is
answered. The outcome of a refresh is which subscriptions it brought up to date.
`server.Shutdown`, which only tests call, is left out.

### `Tui`, `Tree`, `Dialog` and `Navigation`

`Tui` is the model of `client/tui`: the snapshot, the filter, the list with its
cursor, scroll and height, the windows above it, the settings dialog, and the
requests under way. Each branch of `Update` for a key, the mouse, a snapshot, a
new size or an ended request is an action; `Attempt`, `Await` and `StartDaemon`
are `request`, which starts a daemon and tries a second time when it met none or
one of another version. `Tree` has `Rows`, `Clamp`, `Reveal`, `Page` and `Point`
in `tree.go`; `Dialog` the rows, lines, fields and lists of the
settings; `Navigation` the motions and their distances.

The slice of `Selectable` in `tree.go` is the set of its elements: an index into
it is the number of elements before one (`Before`), the element at an index the
one that has so many before it (`Nth`), and the binary search of `Page` again
`Before`. `Count` and `Place` are what `Clamp` counts and where `Reveal` stops.

The constants are what the code has there: the empty `Blank` a client begins with
is none of the snapshots (`BlankAssumption`); the lists of a snapshot have a length
(`SnapshotsAssumption`); heights are positive (`model.View` gives the list a line at
least) and counts natural numbers (`MotionsAssumption`); there is a tab, each has a
field, a field to choose from has a value, the names are apart, and settings have a
value for each name (`DialogAssumption`: the table `tabs` of `settings.go` read as
types); `None` is no dialog (`NoneAssumption`).

Abstractions: what a snapshot shows is taken from a set; the characters of a
filter are the filters themselves with what each finds; digits and key prefixes
are the motion they end in; the text of a field is one of two values. Left out
are error texts, the spinner, colours, quitting, the fields of the add window and
the screen that is too small for the list, where the mouse does nothing.

## 4. Runs

| Run | Instance | Shows |
| --- | --- | --- |
| `core_all` | two subscriptions, one local and one remote, a node in each; one elevation request; every operation | `RefsLive`, `NoOrphanConnection`, `ConnectionMatchesState`, `FoldsSurviveChanges`, `SwitchEnds`, `ProxySurvivesRefusal`, `ImplementsService` |
| `core_feed` | one remote subscription with two nodes, two elevation requests | refreshes that drop the connected node or the other one, over switches that are undone, requests that wait and are settled, restarts and crashes (`KeptUnlessGone`) |
| `core_live` | one node, one request, fairness | `ChangesEnd`, `StartupEnds`, `StopEnds` |
| `watch` | two watchers, a connection that holds one snapshot, four published snapshots, fairness | `NothingLost`, `Delivered`, `ImplementsLatest` |
| `probe` | three callers, two nodes, the targets "everything" and one node, fairness | `EngineAlone`, `ProbeCurrent`, `ShownAtRest`, `ChangesGetTheirTurn` |
| `refresh` | a handler and `AutoRefresh`, two subscriptions, one worker each, three calls | `OneRefresh`, `Owned` |
| `refresh_live` | the same with one subscription, fairness | `RefreshesEnd` |
| `engine` | two nodes and an insecure one, two values of each kind of settings | `TrafficFlows`, `StatusTrue`, `ProxyReaches`, `ImplementsConnection` |
| `settings` | two configurations in normal form, one that becomes the second, one that is refused; two command objects; fairness | `SettingsAgree`, `AutostartKnown`, `WritesPossible`, `SettingsEnd` |
| `daemons` | three processes, two clients that connect, one that stops | `ServerReachable`, `HandoverKept`, `VerdictTrue` |
| `server` | three connections, one slot of each kind, one subscription, a pause of three minutes; fairness | `SlotsKept`, `ClientServed`, `StopEnds`, `RetryLimited` |
| `tui` | two subscriptions, three nodes, a filter, four snapshots, two tabs, two requests | `InBounds`, `SelectionKept`, `FlagsTrue`, `RequestOnce` |

About 3.4 million, 1.3 million, 60, 100 and 500 thousand, 860 thousand (up to
the symmetry of subscriptions and calls), 40 and 85 thousand, 595 thousand, 3.3
million (up to the symmetry of processes and clients), 390 and 60 thousand
distinct states, in the order of the table. What is proved for every value of the
constants is not always checked again: the types of all modules,
`HandoverStopped` of `Core` and `PublisherNeverBlocks` of `Watch`. The bounds of the first three: two
nodes are the least with a switch between nodes, and a rollback never involves
a third; one local and one remote subscription meet every test on either; two
requests are the least with a superseded one. Nothing else is bounded: there
are no counters, and TLC visits every reachable state of these instances,
deadlock included. No symmetry is used, since the nodes belong to different
subscriptions.

Fairness of `core_live` (`FairSpec`): weak fairness of the change goroutine and the engine's
answers together, and of each step of main that waits for nobody. The code
justifies it: the goroutine of a change is always runnable or in an engine
call, engine calls have start timeouts, and main's waits end with what they
wait for. Nothing is assumed of clients, of whoever launches or stops the
daemon, or of crashes.

The bounds of `watch`: with one snapshot in the client, one on the wire, one in
the handler and one in the channel, the next one published finds the channel
full, so `Limit` = 4 besides the initial snapshot fills everything and replaces
the last; a connection that holds more only delays that. Two watchers are the
least with one that is served while another is slow. Its `FairSpec` asks that
the publisher goes on once it has started, that a handler that can go on does,
and that a client reads what reached it: the first two are goroutines that
wait for nothing else, the third is the loop of `Client.Watch`. `Delivered`
gives up a watcher whose connection drops.

Three callers in `probe` are the least with two that share a probe and a third
that preempts it; with two nodes targets can overlap without being equal. There
are no other bounds. Its `FairSpec` asks that `conn.Probe` and `runProbe` go on
(each request has a timeout, and a cancelled probe stops) and that a change that
may act does; not that a change ends, nor that callers ever leave. So
`ChangesGetTheirTurn` says that callers cannot keep a change waiting.

In `refresh` one worker for two subscriptions makes a client queue for itself;
`min(8, n)` workers do the same to nine. Three calls suffice: a worker that is
about to start one finds at most one held by the other client's worker and one
still running for the other subscription. Its `FairSpec` asks that the goroutine
of a call goes on and its deadline comes; not that the change lock is ever free
for it, which is why `RefreshesEnd` needs `begin` to give up while it waits.

In `engine` a call sees the connection there is and the one that is asked for, so
two values of everything suffice; retries are those of the code (three starts,
two attempts at a TUN). The sequence of calls is not bounded. The process may
or may not have the privilege, chosen at the start.

In `settings` a change compares what there was with what is wanted, so two
configurations suffice, with one more that `Normalize` alters and one it refuses;
there is at most one command at a time (`CommandInv`), so the second object only
shows that none is used twice. Changes, folds, switches, crashes and starts of the
daemon are not bounded. `FairSpec` asks that the engine returns, that the disk
answers and that the timer of ten seconds fires. It is strong for the two steps
that need `opMu` back, which a fold may take in between again and again: Go's
mutex hands over to a waiter that has starved for a millisecond. Commands of the
system need never return.

Three processes in `daemons` are one that serves, its copy, and one that comes in
between; two clients meet in `connect` and in each other's requests, a third
stops what they start. A process or client that is gone is used again. The
constraint `OneOld` of `MCDaemons` keeps daemons of another version to one that was
started and its copy; the proof knows no such bound.

In `server` a slot of each kind with three connections has a handler, one that
waits in `Serve` and one in the backlog, or a watch beside two of them; more
slots only delay that. A pause of three minutes has attempts before, in and after
it. Its `FairSpec` asks only for what has a limit in the code: the loop of
`Serve`, a read and a call of thirty seconds each, a watch that looks at its
context, main's `select`, the end of a refresh. Clients, the ticker and the five
seconds may never come: `StopEnds` says that the drain needs none of them.

In `tui` the four snapshots are the first one, one with a group folded and a node
connected, one that has reordered and lost rows, and one without the connected
group; a list of one and of three lines both scroll. Motions have counts of one
and two. The constraint `Bound` of `MCTui` keeps apart what does not meet in the
code: the settings dialog is used over one state of the list, with its two kinds
of fields changed one at a time and at most two rules, and requests are under way
over a list of three lines without a filter. Requests are interchangeable, and no
liveness is checked there, so their symmetry is used.

What the less obvious properties say: `ConnectionMatchesState` is what a user
sees after a restart: between changes the running connection is the stored one,
except after a rollback that failed as well. `SwitchEnds` relates the verdict a
caller gets, the engine and the file in each of the three ways a switch ends,
dead callers included. `FoldsSurviveChanges` is about the one operation served
during a change. `SettingsAgree` and `AutostartKnown` are the same question for
the three things a change of the settings touches, the second one also after the
change has given up on a command. `VerdictTrue` is what a user is told after a
restart: a failure only when the request no longer waits, except by a daemon that was
refused the privilege and could not save the file without the request. The code reports
the refusal there although the request is tried again at the next start.
`KeptUnlessGone` is the converse of `RefsLive`: what the file keeps of the connection is
not forgotten while its node is there. `SelectionKept` says what happens to the selected row when the daemon
pushes another list. `ProxySurvivesRefusal` is what `startup_test.go` expects of one
refusal, for all of them. Each property has at least one variant of the code in
`PROJECT.json` that violates it.

## 5. Proofs

`CoreProofs` proves, for any sets of nodes, subscriptions
and requests, under the assumptions named in `Core` (`CoreAssumption`: each node
has a subscription; `NoneAssumption`: `None` is none of the records, those that show a switch
included), that every behaviour of `Spec` satisfies `TypeOK`, `RefsLive`,
`NoOrphanConnection`, `HandoverStopped`, `FoldsSurviveChanges`, `KeptUnlessGone`,
`ConnectionMatchesState`, `SwitchEnds` and `ProxySurvivesRefusal`, and implements
`Service`.

None of these is inductive alone. `IInv` adds what a change in progress knows:
the copies of the state it will commit or roll back to name the same nodes and
subscriptions as memory (only `Collapsed` may move while it is in the engine,
which is why `finishConnection` re-reads just that), and the node of its engine
call still exists. `PhaseInv` says where main is: no engine before `Restore`
has an answer that started one, none while the process hands over. `MatchInv`
follows an engine call from the moment it is made: the call is to what the
change will store (`SwitchInv`), the rollback is to what it found
(`RollbackInv`), the last call of a change is to what is stored (`LastInv`),
and so on for the two calls of `Restore`. It also needs that TUN runs only in a
process with the privilege: that is why a rollback is never refused with
`ErrElevate`. The proofs have one lemma for each group of actions and one step
per action; `Invariant` and `SwitchInvariant` combine them. `ProxySurvives` rests on `RefusalInvariant`: only a
call with TUN is answered with `ErrElevate`, the stored state still wants TUN when
main learns of it and while it elevates, and the one call of `RestoreFailed` is the
stored node without TUN, which leaves a connection when it succeeds.

That `Core` implements `Service` rests on all of these and on `PromiseInv`
(`PromiseInvariant`), which relates what a change works with to the file. A
switch that found nothing running goes back to what is stored, and neither state
it may commit has a request that waits. `Restore` tries the request that is
stored. `Stop("last")` is for a connection that is not the stored one, which
is why a disconnect may commit first and stop the engine then. A refresh starts
the connection it found. There is one lemma per group of actions again
(`ClientServes` to `RestoreServes`), each with the invariant and the step of
`Service`; `Unseen` and `Forgotten` are the steps most actions come to, and
`FileShows` says that `Service` sees the same in memory and in the file. `RefsAreKept`
uses the same invariant: what `Restore` commits after its engine call was read before
it, and the file has not moved since. TLC checked
the strengthened invariants on the instances above before they were proved.

The first half of `ServerProofs` proves, for any watchers, buffer and number of snapshots, under
`WatchAssumption` (`Nothing` is neither a number nor a watcher), `WatchTypeOK`,
`NothingLost` and `PublisherNeverBlocks` of `Watch`, and that `Watch` implements
`Latest`. The invariant is one of order: along the way from the channel over the
handler and the wire to the client the numbers only fall (`Ordered`), an open
handler is registered (`Handled`), and the first of them is the current snapshot
unless the publisher has still to serve this watcher (`Sent`). Order is what
`Latest` needs of `Receive`, the only step that shows anything; `Sent` is
`NothingLost`. `PublisherNeverBlocks` needs that only the publisher fills a
slot, and that `Watch` cannot register while the lock is held.

`ProbeProofs` proves `TypeOK`, `EngineAlone`, `ProbeCurrent` and `ShownAtRest`,
for any callers, nodes and targets, under `ProbeAssumption` (callers are finitely
many; `Match` gives each target its nodes; `NoTarget` is none). `Counted` says
that `waiters` is the number of callers that have joined: only then does the
caller that brings it to zero know that nobody is left. `ProbeInv` says that a
probe that is not cancelled runs beside no change, so its nodes are those of the
state now; `TurnInv` that a change which met a probe acts only after its end;
`StopInv` the same of main.

`RefreshProofs` proves `TypeOK`, `OneRefresh` and `Owned`, for
any clients, subscriptions, calls and workers, under `RefreshAssumption` (finitely
many clients and subscriptions, at least one worker, `None` and `Other` apart
from the rest). `Mapped` is the converse of `OneRefresh`: what the map holds runs
for that subscription; together they make `Close` remove its own entry and no
other. `Counted` again makes the last one out the one that cancels, and
`WorkerInv` says that a worker has joined a call that exists. The steps that
touch the set of joined workers rest on `AsideJoined`, `OneJoins` and
`OneLeaves`, which say how it changes with one worker.

`EngineProofs` proves `TypeOK`, `TrafficFlows`, `StatusTrue`, `ProxyReaches` and
`ImplementsConnection` of `Engine`, for any nodes and settings, under
`EngineAssumption` (`None` and `Off` are none of the rest). `DownInv` and `UpInv`
say what the instance is without a box and with one, `ChoiceInv` what `Choose` has
found out and the later steps rely on, `BeforeInv` that until the last step of a
switch the connection is still the one from before the call. Each step is one
lemma: it keeps the invariant and, to `Connection`, goes on (`GoesOn`), grants
(`Grants`) or fails (`Fails`).

`SettingsProofs` proves `TypeOK`, `SettingsAgree`, `AutostartKnown` and
`WritesPossible`, for any configurations, `Normalize` and number of command
objects, under `NormalAssumption` (what was normalized is a fixed point) and
`NoneAssumption`. `CommandInv` ties the one command to the step that waits for it,
and says that a command somebody no longer waits for goes with an entry the state
calls unknown; `AutoInv` and `EngineInv` say, per step, what of the entry and of the
engine is already as wanted and what as before; `DiskInv` whose the temporary files
are. The pieces of a change are lemmas of their own (`GoesOk` to `ComparesOk`),
each with what it needs to know of the commands and the change, and the actions
only supply that.

`DaemonsProofs` proves `TypeOK`, `ServerReachable`, `HandoverKept` and
`VerdictTrue`, for any processes and clients. `Owning` says that the socket's lock
is held exactly by the process that is between its `Listen` and its `Unlock`,
`Listening` that it then has the socket's file, since closing the listener, which
removes the file, comes before the lock is given back. `Elevation` says who may hold
the elevation lock and why; `Settled` and `Waiting` follow a request over the
restart. While a request is in the file, a daemon shows an error only when it was
refused the privilege for this request and could not save the file without it
(`Settled`), and a client that has seen the old daemon gone meets no other one that
serves (`Waiting`): `Restore` either takes the request out or goes on to ask for the
privilege.

The second half of `ServerProofs` proves `TypeOK`, `SlotsKept` and `RetryLimited`, for any finite set
of connections, any number of slots and any pause. `Queue` says that a connection
waits in one place only and has no handler there, so that `TakeSlot` counts it once;
`Memory` that what `AutoRefresh` remembers of an attempt is never older than the
attempt itself, and that what is not due is forgotten.

`TuiProofs` proves `InBounds`, `SelectionKept`, `FlagsTrue` and `RequestOnce`, for
any snapshots, filters, heights, counts, tabs, settings, rules and requests, under
the assumptions of section 3. What the recursive functions of `Tree` and `Dialog`
compute needs induction, and the installed provers cannot use the induction
theorems of the library. It is done with the least counterexample instead: the
places where a claim fails are a set of numbers, which has a least element
(`Least`, by way of the finite sets up to a number), and the claim holds before it.
`Recursion` and `RecursionIn` say so of a function that is defined step by step: it
has the values its definition gives. `Ranks`, `NthPlace` and `PlaceAgain` then say that
`Before` and `Nth` are each other's inverse, which is what makes a set of places as
good as the slice of the code.

Four invariants hold the proof together. `Flagged`: at most one request changes the
connection and at most one saves, as `busy` and `saving` say, and each request is in
a state its kind can be in (`Sound`), so that `RequestOnce` is about the second of
two attempts. `Placed`: cursor and scroll are in the list of the present snapshot,
filter and height; each action that changes one of them ends in `Clamp` or `Reveal`.
`SelectionIsKept` follows from it and from what `CursorOf` finds. `DialogPlaced`:
the dialog is in place (`InPlace`) and there as long as it saves. For that
`RowsArranged` says how the rows of fields and lists follow each other, with a row
to edit on either side of every heading, and `Lines` that rows lie one behind the
other without overlap, so that a row that can be edited has a line to show.

Only model-checked: the liveness properties `ChangesEnd`, `StartupEnds`, `StopEnds`
(of `Core` and of `Server`), `Delivered`, `ChangesGetTheirTurn`, `RefreshesEnd`,
`SettingsEnd` and `ClientServed`; liveness under fairness is outside what the prover
does, as is ENABLED. Every invariant and every action property of a run is a theorem
as well. No module uses a RECURSIVE operator.

## 6. Not modelled

- The parsers of links and subscriptions, the outbound builder, and the parsing of
  rules in the settings domain: conversions of text to data and of data to
  options, without state.
- What `engine/build.go` and `route.go` make of the settings, and the inside of
  sing-box: `Engine` has when an instance must be built again, and each call of
  sing-box that may fail.
- The fetch of a subscription (HTTP and headers), device information, the removal
  of a stale interface, the service managers of the systems, and how a system asks
  for a privilege: input and output whose outcomes the models take as success or
  failure.
- Rendering of the terminal interface and the commands of `justray` that make one
  call and print it.
- The eight slots and two workers a server of `engine/probe.go`, which delay and
  reorder results that `Probe` has in any order anyway.
- `MoveSubscription` in `Core` (the order of a list nobody in the daemon reads;
  `Tui` has lists in any order), `assignNodeIDs` and `find` by prefix.
- The quarantine of a damaged state file.
