# GlowUp in TLA+

GlowUp drives LIFX lights: a server keeps an animation engine for every light
or group of lights, a scheduler starts and stops effects by the clock, sensors
and people override it, adapters and compute nodes on other hosts talk to it
over MQTT. The modules here model the parts where threads, processes and
messages meet. Line numbers are those of the repository.

## The system

| component | state | operations | who calls it |
|---|---|---|---|
| `Engine`, `Controller` (engine.py) | effect, generation, `running`, stop event, frame pipeline, audio delay buffer, two thread handles | `start`, `stop`, `set_audio_delay`; a render and a send thread | `DeviceManager` |
| `DeviceManager` (device_manager.py) | devices, group emitters, controllers, overrides, power states, saved defaults, one lock | `play`, `stop`, `reset`, `identify`, `mark_override`, `clear_override`, `load_devices`, `reintrospect`, `shutdown` | handlers, scheduler, bridge, triggers |
| scheduler (scheduling/) | last active entry of each group | `evaluate` (pure), `_tick`, `_dispatch`, `_dispatch_matter` | its own thread, every 30 s |
| schedule resolution (schedule_utils.py, solar.py) | none | `resolve_entries`, `find_active_entry` | scheduler, handlers |
| REST handlers (handlers/) | configuration and its file | one per route | HTTP threads |
| MQTT bridge (infrastructure/mqtt_bridge.py) | client, subscriptions | play, stop, resume, power commands; state publication | the MQTT client thread |
| fleet (distributed/) | orchestrator: nodes and assignments; agent: operators and transports | capability, status, assign, cancel, start, stop, shut down | MQTT, REST handlers |
| UDP signal channel | a counter; last sequence number per signal | send, receive | sensors, operators |
| media (media/) | signals of the bus; sources, reference counts, reader threads, ffmpeg processes | `acquire`, `add_source`, `remove_source`, `start`, `stop`; `write`, `write_local` | handlers, operators, MQTT |
| operators (operators/) | slots in dependency order, bindings, bus snapshot, trigger and occupancy state | `configure`, `create_binding`, dispatch, tick, `notify_group_override` | one tick thread, handlers |
| adapters and their proxies (adapters/, infrastructure/adapter_proxy.py) | pending requests, online flag, heartbeat; command queue and state of the Matter adapter | `send_command`, `_on_response`, status and heartbeat, `power_on`, `power_off`, `toggle` | handlers, MQTT, adapter threads |
| resilient client (infrastructure/mqtt_resilient_client.py) | paho client, time of the last message | start, stop, silence watchdog | adapters |
| transport (transport.py) | slot and events of the `_AckWorker` | `submit`, `_run`, `stop` | the engine's send thread |
| keepalive (infrastructure/bulb_keepalive.py, keepalive_process.py) | map of the bulbs on the network, misses, timers | scan, power query, publish | its own thread or process |
| emitters (emitters/virtual.py) | zone map and zone count of a group | `send_zones`, rebuild | engine, `DeviceManager` |
| registry (device_registry.py) | labels and addresses, their indices, a file | add, remove, sub-devices, `save`, `load` | handlers |
| start-up and reconciliation (server.py) | lists of bulbs that are missing | step by step in `main`, `_reconcile_devices` | main, MQTT or keepalive thread |
| effects, CLI, installer, tools | | pure rendering, user interface | |

Interactions. A handler, the scheduler, the bridge or an operator calls the
`DeviceManager`, which looks up a `Controller` under its lock and calls the
engine without it. The scheduler copies the override table under the lock and
acts on the copy. The engine's callers and its two threads share the engine's
fields; its lock covers only the swap of the effect and the reading of effect
and generation. The engine's send thread writes to an emitter, which writes to the
slot of each device's worker. Sensors reach operators through the signal bus,
which is polled; commands to adapters, assignments and the keepalive's map go over MQTT,
from threads that hold no lock of the server at that time.

What is hard here: steps of two callers of an engine that no lock orders; stale
frames around a hot-swap; joins that give up; a table that is copied, evaluated
and acted upon while clients change it; a state that moves on before the
actions it stands for have been carried out; and MQTT messages that are lost,
repeated or reordered around reconnects, of processes that crash and of
sessions that forget their subscriptions. `PROJECT.json` lists each such place with the
properties that watch it.

What makes the components correct, in short. Engine: one pair of threads, no
frame out of order, nothing after `stop()`, the effect that is played is shown,
`stop()` returns. Scheduler: overrides are respected and end when they should,
entries that begin are played and entries that end are stopped; the entry found is one that runs.
Fleet: books, nodes and limits agree once messages are through, a dead node is
noticed. Adapters: a call ends, with a result of its own; a dead adapter is reported
dead and a live one alive; state follows the device. Sessions: one network thread, and deafness heals.
Media: one ffmpeg per running source, none besides; bus nodes agree.
Operators: providers first, no circular bindings, triggers turn off what they turned on and
nothing else, an empty house is confirmed. Tables: every running engine can be
reached, tables, files and configuration agree. Bulbs: what is on is loaded, and
shows the effect's last frame in every zone.

## Modules

### Engine

One engine. `Callers` are the threads that call it; a caller has a program
counter that stands between two accesses to shared state, so `start()` is
`StartCall`, `StartSwap` (its critical section), `StartFlush`,
`StartClearDelay`, `StartTest`, `StartArm`, `SpawnRender`, `SpawnSend`, and
`stop()` is `StopCall` .. `StopFade`. The render loop is
`RenderProceed`, `RenderSnapshot`, `RenderFrame` (or `RenderNothing`), `RenderPut`, with
`RenderExit`; the send loop is `SendPop`, `SendCheck`, `SendFlush`,
`SendDelay`, `SendMeasure`, `SendDelayed`, `SendFrame`, with `SendExit`. Threads that a join
gave up on stay alive beside the new ones: `renderer` and `sender` are
functions over `1 .. MaxThreads`. `TransientExecute` .. `TransientClaim` are
the branch of `DeviceManager.play` for one-shot effects, which writes
`engine.effect` and `engine.running` from outside.

Abstractions. A frame is its generation and the render time; colours are left
out. An engine has one emitter. Waits with a timeout are steps that may be
taken at any time, so the condition variable of the water mark, whose wait
polls, has no state. `put` with a timeout drops the frame when the queue is full. A
queue that `start()` replaces while a thread still holds it loses what is put there,
which is what the swap does to frames put before it. `_flush_pipeline` pops
until it sees an empty queue; frames put meanwhile are popped too, so it is one
step. Effects whose `on_start` or `on_stop` raises, network errors inside
`stop()`, frames that an emitter fails to send (the error is logged and the frame dropped, engine.py:580-585)
and the emitters' own preparation before the swap (`prepare_for_rendering`, 244-245) are left out.

`Player` is the abstract specification, of the docstrings of `start()` and `stop()`: a phase
(stopped, playing, stopping), the number of effects asked for, and the frame that is shown. It has
no thread, queue or lock. `EnginePlays` maps an engine to it: the phase is read off
`running` and off where the caller stands (a `stop()` that has cleared `running` is still
stopping, a `start()` that has opened a generation already plays). What
`since` stands for, the generation at the last return of `stop()`, the
engine does not keep; a history variable beside `Next` records it.

### Scheduler, MCScheduler

`Tick` is the scheduler thread: `ReadClock` (the entry active per group),
`Evaluate` (copy of the overrides, `evaluate()` for every group, new state),
`DispatchClear`, `DispatchStop`, `DispatchStart`, `DispatchFails`, `TickEnds`.
`Actions` and its parts are the evaluator, a function of the tick's copies.
The clients are HTTP handlers, identify threads and the MQTT thread: a request
is a `Program`, the order in which its handler calls the `DeviceManager`, and
each call is a step. `driver` says for whom the controller of an emitter plays, which
is what is left of the engines here. `ClockMoves` lets the active entry of a
group change to any entry or to none, which is what the clock and edits of the
schedule can do. `MCScheduler` names a group of two bulbs and a Matter group.

Abstractions. The resolution of times to entries is one variable (`Entries` has
it). The set of groups and of loaded devices is fixed (`Devices` changes it).
The schedule has an entry when the server starts; with an empty one `run()` returns for good
(scheduler_thread.py:74-76), and entries added later wait for a restart.
Power on touches neither table and is left out; power off is the override it records.

### Fleet

The orchestrator, which lives in the bridge's MQTT client, API threads, the
broker and the worker agents. `start()` is `StartSubscribe` and `StartListen`
(the retained messages come between them); a call is `PostAssign`, `AssignCheck`, `AssignPublish`,
`AssignTrack` or `PostCancel`, `CancelPublish`, `CancelUntrack`, and ends early with `PublishFails`:
between two of them the lock is free. An assignment id is an operator and a second, as the handler
makes it. Commands are QoS 1: `log` is what was published, of which `sent` are through, and
a reconnect of the bridge may send again what was not acknowledged (`Deliver` .. `BridgeReconnect`).
Broker: sessions, retained messages, and wills, which of an old connection come at
any time (`PublishWill`). Agent: connect, `Take` a start (transport first, then the operator,
`wiring` in between, ending in `Started` or `StartFails`) or a stop, shutdown in four steps, crash.

### The server's other components, composed in MCServer

| module | models | actions and the code they stand for |
|---|---|---|
| `Rpc` | the promise of `send_command()` | asked, performed any number of times, answered by one of these outcomes or abandoned |
| `AdapterRpc` | `AdapterProxy` and `ProcessAdapterBase` | `Register`, `PublishCommand`, `ReturnResult`/`TimeOut`, `Leave` are `send_command()`; `LookUp`, `Resolve` are `_on_response()` on the MQTT thread; `HandleCommand` the adapter; crashes, stops, reconnects with redelivery |
| `AdapterHealth` | online flag and heartbeat | status, beat, last words and wills of the process; `OnStatus`, `OnHeartbeat` of the proxy; `is_alive` |
| `Resilient` | `MqttResilientClient` | connect callbacks, `Check`, `TearDown`, `Rebuild` of the watchdog, `StopRequest`, `StopClient` |
| `Media` | sources | `PlayMusic`, `StopDevice`, `StartRequest`, `Shutdown` begin; `ClearRunning` .. `Finish` are `stop()` and what follows; `Top` .. `Waited` the reader thread |
| `SignalBus` | the bus over MQTT | `WriteSignal` (under the lock), `PublishSignal` (without), `HearSignal`, sessions that come and go |
| `MatterAdapter` | commands and cached state | a caller that waits or gives up; the thread `Connect`, `SyncState`, `SendCommand`, `Drained`, `CloseClient` |
| `Trigger` | motion to light | `Poll` and `OnTick` of the tick thread; `Play`, `StopActs` and their notifications from handlers |
| `Occupancy` | home and away | `PollSignals` with dispatch and tick, `ServerRestarts` from the database |
| `Bindings` | bindings of parameters | `CreateBinding` with `Circular`, `RemoveBinding`, `ResolveBindings` slot by slot |
| `OperatorOrder` | `_topo_sort()` | `Place`, `AppendRemaining`, from every configuration |
| `Entries` | `resolve_entries()`, `find_active_entry()` | operators over times; `ClockTick` moves through a week |
| `AckWorker` | `_AckWorker` | `Submit` .. `CreateWorker`, `StartWorker`, `LoopTop` .. `WaitForAck`, `SetStopEvent` .. `JoinWorker` or `JoinRaises`: one step per access to the slot, the events and the thread; `stop()` may find the thread stored and not started, and raises |
| `Zones` | `VirtualMultizoneEmitter` against `reintrospect()` | `RenderGroup`, `BeginFrame`, `CollectStrip`, `FlushBatch`; `QueryZones`, `RebuildMap`, `RebuildCount` |
| `UdpChannel` | sequence numbers | numbers modulo `SequenceModulus`; lost, repeated, late datagrams; both ends restart |
| `Registry` | `DeviceRegistry` and its file | edits, `BeginSave`, `EndSave` or `FailSave`, `RestartRegistry` |
| `Devices` | tables of the `DeviceManager` | `BeginPlay`/`EndPlay`, `EditGroup` .. `RebuildGroups`, `Rediscover` .. `LoadDevices`, `ShutdownDevices` |
| `Keepalive` | `BulbKeepAlive`, its process, the server's copy | `BeginScan`, `ScanEntry`, `EndScan`, `PowerQuery`; timers that read and publish later; `HearMap` |
| `Discovery` | start-up, reconciliation, rediscover | the steps of `main`; `ReconcileMembers`, `ReconcileRegistered`, `BeginLoad`, `Loaded` on the MQTT or keepalive thread; `ResolveGroupsAgain`, `AddRegisteredAgain`, `ReplaceList`, `ReplaceGroups` of the API thread, between any two of which a map may arrive or a reconciliation run |

These components share no variables: what one needs of another is an
environment action of its own (a signal that changes, a map that arrives). So a
product of their state spaces has nothing to show that they do not show apart, and
`MCServer` checks them in one run with a variable `focus`: the initial state
chooses a component, only that one moves, and every other stays in one
initial state. A state of the run is a state of one component, and each
component's fairness is its own (named with its focus where its initial state
has something to do).

The composition of components that do interact is inside the modules: engine with the
branch of `play` that bypasses it, scheduler with handlers and bridge, orchestrator
with broker and agents, proxy with broker and adapter, trigger with handlers,
keepalive with process and proxy, zone map with engine threads and handlers.

Abstractions worth knowing. Correlation ids are unique. Two calls on one media
source do not overlap (`start()` and `stop()` do not exclude each other, and
nothing in the source orders them). Times are hours in `Entries`, units of the tick
elsewhere; silence, staleness and confirmation are states that time brings.
A binding copies its source unscaled. A signal's value is the number
of its write, a device is the probe that made it, an emitter the devices it
writes to, a zone's colour its place among the group's zones. The look-ups of a list of identifiers in
the keepalive's map are one step (`Discovery`), the reading of the members' zone counts another
(virtual.py:159-166, where a member without zones counts as one). A renamed group's entries and overrides
(handlers/groups.py:167-176) are left out of `Devices`.

### Proof modules

| module | theorems about |
|---|---|
| `EngineProofs` | `Engine`, and `EnginePlays` against `Player` |
| `SchedulerProofs` | `Scheduler` |
| `FleetProofs` | `Fleet` |
| `TableProofs` | `Registry`, `Devices`, `Keepalive`, `Discovery` |
| `AdapterRpcProofs` | `AdapterRpc` against `Rpc`; `AdapterHealth` |
| `ChannelProofs` | `UdpChannel`, `AckWorker`, `Resilient`, `SignalBus` |
| `AlgorithmProofs` | `OperatorOrder`, `Entries`, `Zones` |
| `ServerProofs` | `Media`, `Trigger`, `Occupancy`, `Bindings`, `MatterAdapter`; `MCServer` |

## Runs

| run | asks | result |
|---|---|---|
| `engine_serial` | one caller, three calls, queue of 2 or 1, four render times: `OneThreadPair`, `FramesInOrder`, `QuietWhenStopped`, and that the engine is a `Player` (`PlaysAsAsked`, `PlayerGoesOn`) | hold |
| `engine_full` | one-shot effects, delays 0 and 1, joins that expire: `DelayBounded`, `StragglersEnd` | hold |
| `engine_transient` | does `start()` leave threads behind, after a one-shot effect? | violated |
| `engine_concurrent` | `OneThreadPair` with two callers | violated |
| `engine_delay` | `FramesInOrder` with an audio delay of one frame and a queue that runs empty | violated |
| `scheduler` | all requests, two of them, against the ticks: `NoOrphan`, `RespectsOverrides`, `TransitionReleasesOverride`, `TransitionStarts` | hold |
| `sched_resume` | is an entry picked up after a resume? | violated |
| `sched_member` | does playing on a member pause the group? | violated |
| `sched_matter` | does the override of a Matter group end with its entry? | violated |
| `fleet` | two API threads against a node, all faults: `BooksBounded`, `TransportsOwned`, `BooksMatchNode`, `DeadNodeSaysOffline`, `DeadNodeNoticed` | hold |
| `server` | the eighteen components of the table above, one property or two of each | hold |
| `discovery_thread` | are new bulbs loaded when the server runs its own keepalive thread? | violated |

The violations are disagreements between the code and a sentence of the
documentation, of a comment or of a docstring; `PROJECT.json` quotes each under
"findings". The last one is a self-deadlock: without a broker `_reconcile_devices()`
(server.py:2435) asks the keepalive for its map on the keepalive's own thread,
which holds the lock that guards it.

What the properties of `server` say, in short:

- `CommandsKeepPromise`: `AdapterRpc` implements `Rpc`, liveness included; `NoPendingLeak`: its table is tidy.
- `OneNetworkThread`, `DeafnessHealed`: a deaf session is replaced, and never beside its successor.
- `NoOrphanFfmpeg`: no ffmpeg survives its source. `MediaSettles`: one that dies is replaced
  (`StreamRestored`); when writes end, all nodes of the bus hold the same value, unless messages
  were lost (`NodesAgree`).
- `InCallOrder`: commands to a Matter device run once and in order. `AdaptersSettle`: its reported
  state becomes the device's (`StateFollowsDevice`); a dead adapter ends up reported
  dead, a connected one is found alive again and again (`HealthFollowsAdapter`).
- `UserKeepsGroup`: a trigger turns off nothing the user asked for. `AwayIsConfirmed`: away only after the
  whole time of confirmation, home at once. `NoBindingCycle`: no parameter depends on itself.
  `OperatorsSettle`: a trigger turns off what it turned on, though the action may fail
  (`WatchdogTurnsOff`); the bus and the database follow the locks (`OccupancyFollowsLocks`);
  values arrive along chains of bindings (`ValuesSettle`).
- `DependenciesFirst`: providers before dependents, where it can be, and every operator kept.
- `FindsWhatRuns`: `find_active_entry()` against a definition over all days.
- `SilentAfterStop`: nothing is sent after `close()`. `LastColoursShown`: the last frame is sent
  (`LastFrameSent`); after strips changed under way, every zone comes to show its
  colour (`GroupShowsEffect`).
- `NewestWins`: across the wrap, no step back and no drop of a newer datagram.
- `RegistryConsistent`: labels, indices and file agree.
- `DevicesConsistent`: controllers, emitters, groups and their file agree; running engines can be reached.
- `BulbsFound`: what the ARP table shows is known and published (`MapConverges`), and loaded, and a member is in its
  group (`BacklogDrains`), unless a rediscover took it off the list, out of the group or closed it (`forgotten`).

`RespectsOverrides`, of `scheduler`, says what an override is worth. A tick acts on a group only when its
active entry changes. It takes an override off the table only if it has ended: with the entry it was recorded
against (`EndsWithEntry`), or, if it was recorded against none, with the gap it was set in (`EndsWithGap`). And it
starts or stops the device only then, or if the tick's copy of the table had neither the device nor a
member. `EndsWithGap` is an exception the documentation does not make, see "Where the code stops short
without a run"; "the tick's copy" is another.

### Bounds

Engine and scheduler. The hot-swap races need a frame in each place it can be (the queue, the
sender's hand, the renderer's hand, the emitter) when the swap happens: a queue of two,
one of them behind the other, and four render times, tell them apart; three calls are a start, a
swap and a restart after a stop (`stop()` is not counted, so it may come
anywhere and repeatedly). `HighWater` 2 against `LowLatency` 1 is the case in which the
queue is smaller than the mark the renderer waits for. Two live threads of a kind suffice
to violate `OneThreadPair`, and to have a straggler beside its successor. In
`engine_full` the render times are dropped (`MaxTime` 0): its two properties do
not look at them; and with two calls no two senders that delay frames live at once, so for those the bound
of the buffer rests on `DelayAlwaysBounded`. Two requests of one client race every step of a tick; two
entries and none give every kind of transition: into, out of, and from one to
the next. The group and one member are the targets, because the other member is
symmetric to it.

Fleet. Nodes share nothing but the log of commands, in which the order of
two nodes' commands does not matter, so one node is enough; two callers race each other on
its limit of one; three calls are a start, its stop and another start, in two
seconds, so that an id may be given out twice; one fault of any kind.

Server. Two requests of two clients let a late response meet another call. Three
faults of an adapter are a crash, a restart and another; four of a session
replace a client twice. Three media sources are an old one, its replacement
and the next. Two writers on two nodes overtake each other. Three slots and three types
give chains, cycles and missing and double providers. Days of three hours and a week of three days, the third
without the sun's event, have entries that pass midnight, start before it and end at
the next event. Two strips around a single zone shift each other's zones. Numbers
modulo eight wrap within ten datagrams. Two locks are opened and closed alternately during a
confirmation of two seconds. Two addresses and two bulbs exchange places; with three timers, a
publish that one scan deferred, its old map read, may outlive the next scan and come after its publishes. The presence of bulbs changes twice around
a rediscover, so a member may appear between its steps, or go and come back. The
counters of faults, edits and restarts are bounds of the exploration, not of the code; every
bound is a constant with the word "bound" at its declaration.

### Fairness

The operating system schedules every runnable thread (weak fairness
of each loop and of a call that has begun); nobody has to make a call.
`RenderFrame` has strong fairness: `render()` may raise and the loop goes on,
but not every time for ever. The scheduler polls for ever and swallows what a
dispatch raises (scheduler_thread.py:90-97, 137-145), so `Tick` is weakly fair,
and a handler that has begun ends. Requests and the clock are not fair.
`PlayerGoesOn` is not claimed with an audio delay, because an `IndexError` may end the send
thread (engine.py:555), nor with one-shot effects, after which `start()` spawns no threads (`engine_transient`).

Elsewhere: a connected client receives what the broker has for it; timers fire and
intervals pass (heartbeat, staleness, silence, ACK timeout, confirmation); the
broker publishes the will of a dead connection in the end, and is reachable again in the end;
polling threads poll. Faults, requests, sensors and operators of switches are never fair, and
none of the properties needs a fault to happen. Since faults and
edits are bounded, what holds once they are over is written `<>[]` or `[]<>`.

## Proofs

tlapm checks every leaf; the theorems hold for every value of the constants that satisfies
the modules' assumptions, so for any number of callers, nodes, devices, calls and
faults: what is a bound in a run is any natural number here. Every invariant a run
checks is proved. Of a liveness property that a run checks the provers cannot show
the fairness argument; where one depends on a state that safety alone must rule out
(a request nobody has in hand any more, a table nobody will correct), that *safety half* is
stated and proved as an invariant of its own, and named below with the property.

The engine (bounds are naturals, the queue sizes are positive and `LowLatency <= HighWater`):

- `TypeCorrect`: `Spec => []TypeOK`. `TypeOK` contains `Len(pipeline) <= capacity`
  and `StartOrder`, which it needs: a frame carries the generation its renderer
  read, and frames of generation 0 do not exist because a thread exists only
  once a generation has been opened. One lemma per group of actions.
- `SerialThreadPair`: with one caller and joins that see the thread end
  (`Serial`), `Spec => []OneThreadPair`. The property alone is not inductive: a
  spawn preserves it only if no thread is left from before. The invariant
  `Owned` ties every live thread to its handle and every point of
  `start()` and `stop()` to what is alive there.
- `SerialQuiet`: under `Serial`, `Spec => QuietWhenStopped`, from the same invariant:
  between calls with `running` cleared no thread is live.
- `SerialFramesInOrder`: under `Serial` and without an audio
  delay (`NoDelay`), `Spec => FramesInOrder`. A frame may be in the emitters, in
  the sender's hands (the held one and the popped one), in the queue or in the
  renderer's hands. `InOrder` says that along this path frames never get
  younger to older, and adds what keeps the next frame last: a renderer that
  took its snapshot took a generation no older than that of any frame, and
  threads that are dead hold nothing (so that `Owned` leaves one chain only).
  A swap or a flush empties the queue and keeps the rest; a put extends it at the end.
- `SerialPlaysAsAsked`: under the same assumptions, one-shot effects included,
  `HistorySpec => PlaysAsAsked`: the engine implements `Player`. The send thread maps to `Show` only
  if its frame is of an effect asked for since `stop()` last returned. `Recent`
  says so of every frame on its way; `Owned` (no thread is live outside a play or a stop) and `InOrder` give
  the rest. One step lemma for the threads, one for the caller
  (`ThreadPlays`, `CallPlays`). The liveness half, `PlayerGoesOn`, is model-checked.
- `DelayAlwaysBounded`: `Spec => []DelayBounded`, with any number of callers, expired joins
  and stragglers. It is inductive with the types: a thread between its append and
  its popleft (`Holding`) accounts for one frame more, and a thread leaves that place only
  by taking a frame out, by finding the buffer empty, or by seeing that it is within the
  delay. That delay may be replaced while another thread holds a frame, so the bound is some
  delay that may be asked for and not the present one.

The scheduler, with `SchedulerAssumption` (groups have members and are not devices, and Matter
groups have no member that is loaded):

- `TypeCorrect`: `Spec => []TypeOK`.
- `NoOrphanAlways` and `OverridesRespected`: `Spec => []NoOrphan` and
  `Spec => RespectsOverrides`, if groups do not share an emitter
  (`DistinctDevices`; two groups that consist of the same single bulb do, and
  then each stops what the other plays). `OverridesRespected` adds `Warranted`: a group
  with actions left to do is in transition, and a release among them is of an override recorded against what
  went out. `NoOrphan` speaks of the time between ticks, so
  the inductive invariant `Sound` carries it through them. `Settled`: outside the dispatch
  nothing is left to do. `Lawful`: a start or stop that is left to do is for a
  device that the copied override table left to the schedule. `Current`: a
  device with no start or stop left to do plays nothing for the schedule but its current entry.
- `TickCarriesOut`: `HandledSpec => []CarriedOut`, also under `DistinctDevices`, the safety half of
  `TransitionReleasesOverride` and `TransitionStarts`. `handled` is a history variable beside `Next`: the
  devices a client marked, played on or stopped since the tick looked. When
  the list of a group is empty, the override of the old entry is gone, and the new entry plays unless an override
  held it back or the start failed. `Due` is what carries it: a release or a start that was not
  made is still in the list, the release first, the start last.

The fleet, with `FleetAssumption` (finitely many nodes and API threads):

- `TypeCorrect` and `TransportsOwnedAlways`: one invariant (`TypeInv`) for both, since an agent's
  table, the operator it is wiring and its transports are typed by each other; `WiringIsNew`
  (an operator in the making is not yet in the table) is what they need.
- `BooksBoundedAlways`. `BooksInv` counts the calls that have passed the check (`Past`) with
  the entries on the books, because the lock is free in between: `Backlog` is
  below the limit and the number of threads, and of a node that was heard to go offline it is
  at most the number of calls that were past the check then.
- `DeadNodeAlwaysSaysOffline`. Of a process that has exited the broker still holds the connection, a
  will, or what it said last: "offline", then "bye", in this order (`FarewellInv`).
- `BooksMatchNodeAlways`, the longest proof. On a node that was never heard of as lost or shut down
  (`CleanInv`): a stop is issued after its start, since only an id a client was
  told of is cancelled (`OrderInv`); an id that was given out once is on the books from the call that
  tracks it to the call that cancels it (`OnceInv`); messages go to their node
  (`AddressInv`); and of all commands for an assignment the last one is still at the
  bridge, or on its way behind all others, or what the node has done says so (`NodeInv`). The
  last survives the repeated sending of commands because the bridge sends again a suffix of
  the log, in order. What a step means for one assignment is one lemma
  (`AssignmentMoves`): it rests, or its start is issued, tracked, its stop issued, untracked.

The tables (`TableProofs`; an address of the registry is no pair of addresses, and
there is at least one device):

- `RegistryConsistentAlways` and `RegistryTypeCorrect`. `LabelsResolve` is inductive edit by edit.
  For the file, `SaveInv` adds that `save()` has one thread at a time, and that the copy it writes is
  the registry unless an edit is still to save.
- `DevicesConsistentAlways` and `DevicesTypeCorrect`. `TablesAgree` and `EnginesReachable` need to know what is in
  the hands of threads: a play under way holds a controller that is in the table or was
  overtaken by a rebuild (`PlayInv`). `GroupsAgree`, which holds between edits, is carried through
  them by what an editor knows at each of its steps (`EditInv`).
- `BulbsAlwaysOnce`: no bulb is known to the keepalive, or published, at two addresses. The scan evicts only the first
  stale address it meets; the invariant is why there is no second (`EvictedOnce`). There are
  finitely many addresses, at least one. (The server's copy may have a bulb twice, between the message of a new bulb and
  the next map.)
- `NothingEverLeftBehind`, the safety half of `BacklogDrains`: once start-up, reconciliations and
  rediscoveries are done, every bulb of the map is served, or a rediscover took it off the list, out of
  the group or closed it. Both the reconciliation and rediscover read the map twice, and it may change in
  between. `BacklogInv`: a bulb
  of the map that is on a list of missing ones has a thread that is still to go through that list
  (`NoticedInv`); a member is in its group, on a list, or forgotten (`GroupInv`); a bulb on no list is
  open, or in every load under way, and there is one (`OpenInv`).

Adapters, channels, sessions:

- `RpcTypeCorrect`, `NoPendingLeakAlways`, `PromiseKept` (AdapterRpcProofs): types;
  `AdapterRpcSpec => []NoPendingLeak`; and `AdapterRpcSpec => Promise!Spec`, the
  refinement without `Promise!Live`. `OneCallEach` (two calls in
  progress have two requests) keeps one call's end from taking the other's entry away. The
  refinement needs `Unreturned` (a call that waits has returned nothing) and
  `Truthful`: every outcome in a message, in the MQTT thread's hands or on
  a future is one the adapter produced for that request. One step lemma maps each action to
  `Ask`, `Answer`, `Abandon`, `Perform` or a stutter.
- `UdpTypeCorrect`, `NewestAlwaysWins` (ChannelProofs): for every even `SequenceModulus`, 2^32 among them. Within a
  run, numbers in flight differ as their frames do, up to one modulus (`Near`, `Behind`), so the
  comparison by half the modulus is that of the frames.
- `SilentAlways`: `AckWorkerSpec => []SilentAfterStop`, also when `stop()` raises. A worker
  that `stop()` did not know, because `submit()` had yet to start it, finds the stop
  event at the top of its loop (`StartedOnce`, `Announced`, `Closed`).
- `OneNetworkThreadAlways`: `ResilientSpec => []OneNetworkThread`.
  The thread that runs is that of `_client`, or of the client the watchdog is replacing,
  or there is none (`OneThread`).
- `NoNeedlessRecovery`: clients are created at most once more than the session had faults, so
  the watchdog replaces none that is well. `Answered` counts the deaf session that is still to be
  noticed (`Pending`) and the replacement that has begun (`Replacing`) with the clients created.
- `FramesAscend`, `LastFrameAlwaysKept` (`AckWorker`): frames are sent in the order of their submission, and the last one is
  in the slot, in the worker's hands, or sent, also when the device is closed meanwhile (the
  safety half of `LastFrameSent`). `FrameCarried`: what was taken from the slot is in the
  worker's hands until the wait that follows.
- `NodesAlwaysAgreeAtRest` (`SignalBus`; a process outside is no node), the safety half of `NodesAgree`: when all that
  was written is published and heard, the nodes have one value. `HeardByAll`: there is a value that ends every
  queue and that every node with nothing left to do holds, as soon as one message has reached
  all nodes since the last loss.

Algorithms (`AlgorithmProofs`):

- `DependenciesAlwaysFirst`: `_topo_sort()` for any number of slots, finitely many types, and any
  dependencies. `QueueInv`: a slot is placed or ready, once, exactly if its count is down to zero.
  `CountInv`, where every type has one provider: the count is that of the dependencies not yet provided. When
  the queue runs empty, the slots left are `Stuck`: each waits for a type that another of them, or nobody,
  provides.
- `FindsWhatRunsAlways`: `find_active_entry()` for any schedule, days, week and sun, if no offset carries a
  time of the sun past the midnight that ends its day (`NoTimePastMidnight`). Under it an occurrence lies within two
  days, which are the days the code resolves. Without it the theorem is false (see below); TLC
  finds the counterexample with a day of four hours, the sun at three, a start three and a
  stop two hours later.
- `MapAlwaysFollowsCounts` (members are finitely many, and strips are no single zones), the safety half of
  `GroupShowsEffect`: with no `reintrospect()` under way the zone map is that of the known
  zone counts, and the count is its length. `RebuildInv`: an outdated map has a
  thread that has learned its zones and has yet to rebuild, an outdated count one that is half way.

Other components (`ServerProofs`):

- `NoOrphanFfmpegAlways`: a process is set by the reader that will clean it up (`ProcessInv`); a
  reader outlives its source only while the call that stops it kills and joins (`ReaderInv`);
  only the registered source runs, or one about to be stopped (`RunningInv`).
- `ReadersAlwaysFollow`, from the same invariant: a running source has a reader (the safety half of
  `StreamRestored`), and between calls no other source has one.
- `UserAlwaysKeepsGroup`: once a user's request is complete, the trigger is inactive (`OverrideInv`).
- `LightsNeverForgotten`, the safety half of `WatchdogTurnsOff`: what the trigger turned on is in its care, with a time
  its watchdog counts from (`CareInv`), or a stop is about to turn it off.
- `AwayAlwaysConfirmed`: the timer never runs longer than all known locks have been locked, and not
  at all while one is known to be unlocked (`TimerInv`).
- `OccupancyAlwaysAgrees`, the safety half of `OccupancyFollowsLocks`: the bus and, unless a write failed, the database
  say what the operator holds; it holds no house away with a lock it knows to be unlocked; and
  its timer runs when the locks let it. It is inductive with `TimerInv` and the types.
- `NeverABindingCycle`: the check follows the chain from the source. A new cycle would
  pass through the new binding; the rest of it is where the chain leads, so the check would
  have met the target or found no end.
- `AlwaysInCallOrder`: the queue is in the order of the calls and all of it is yet to be performed;
  a caller waits for the youngest command only (`CommandInv`).
- `ServerTypeCorrect`: `ServerSpec => []ServerTypeOK`, for all eighteen components. `ServerInv` puts their inductive
  invariants side by side; a step is one component's and leaves the others' variables alone
  (`ComponentsStep`). Few types are inductive as they stand. The acknowledged frames need their order, the
  keepalive's timers the room that a scan keeps for the entries it has yet to read, the number of clients
  created the argument of `NoNeedlessRecovery`, and the zones that colours of all members add up to
  a sequence, whatever their number (`FlattenTyped`).

Only model-checked. All liveness (fairness and ENABLED are beyond the prover): that what is left to do is
done, for each of the safety halves above; the liveness halves of `CommandsKeepPromise` and of the
engine's refinement; `DeadNodeNoticed`, whose other half is `DeadNodeSaysOffline`; and `StragglersEnd`,
`DeafnessHealed`, `MapConverges`, `HealthFollowsAdapter`, `StateFollowsDevice` and `ValuesSettle`,
which have no such half worth stating.

Theorems by induction take an operator as a
parameter, which the provers cannot instantiate; where an argument needs induction over a
length or a set, it takes a least counterexample, whose existence the library's facts on well-founded
orders give, or a least closed set. The runs
`engine_concurrent`, `engine_full` and `engine_delay` show why `Serial` and
`NoDelay` cannot be dropped.

## Where the code stops short without a run

Some behaviours of the code are in the models, or bound what a property says, and no
document promises otherwise, or a hazard's note in `PROJECT.json` tells of them:

- Orchestrator, `AdapterProxy` and `proc_mqtt` subscribe once on a clean session: after
  a reconnect of their client they hear nothing more (`DeadNodeNoticed`,
  `HealthFollowsAdapter` and `NodesAgree` except that).
- An online node may be shown offline when the will of its old connection comes after
  its new status.
- An id given out twice in a second, or an operator the node cannot create or start, stays on the books.
- An override of the MQTT bridge that is set while no entry is active is cleared by the next entry that
  begins, which then plays: it records no entry, and the evaluator compares that with the
  previous entry, none either (evaluator.py:126-136). mqtt_bridge.py:469-470 has it persist until the
  user publishes a resume command. `RespectsOverrides` excepts the case by name (`EndsWithGap`).
- When a group's own override ends, the group is played over the override of a member (evaluator.py:136).
- An override set after a tick copied the table is overrun by that tick, or cleared with the one it
  replaced (scheduler_thread.py:109-145).
- Rediscover reads the keepalive's map twice, replaces the list and the groups one after the other, and gives
  nothing back to the lists of missing bulbs, so it is not "equivalent to the startup sequence"
  (handlers/discovery.py:137-139): a bulb that is off then is not loaded when it comes back, and one that a
  reconciliation brings in between two of its steps may be open and not in its group, for good.
- `close()` raises if it finds the ack worker's thread stored and not yet started (transport.py:829-830).
- A request whose save fails leaves its edit in the registry, to be written by the next save.
- After midnight an overnight entry loses to any later entry of today, whose occurrences come first.
- An entry that starts and, the wrong way round, stops on the day after its own (a sunset with an
  offset past midnight) has its stop moved to a third day, when nobody looks for
  it any more: the schedule is resolved for today and yesterday only.
- Locks that were on the bus before the occupancy operator started are unknown to it until they change.
- `MatterAdapter` calls `SignalBus.publish`, which does not exist (matter_adapter.py:270, swallowed at 274).
- `shutdown()` leaves controllers of groups running (device_manager.py:1776);
  `load_devices()` joins threads with the manager's lock held.
- An empty keepalive map is not published, so the last bulb to go stays in the server's copy;
  an address given to another bulb keeps the old entry.
- Edits of groups and of the schedule copy, save and assign without a lock.
- A restarted UDP sender is not heard until its numbers look new.

## Not modelled

- Of modelled components, code without a caller in the server: the UDP port pool and the
  selection of nodes (tests only), emitter assignments of agents (the API issues none),
  `MediaManager.release` and `check_idle`, `EmitterManager`, transports and routes of the bus.
- Handlers that read, and edits of the schedule beyond the deletion the scheduler model has; saved
  defaults; power states; grids; queries of tiles and zones; the publication
  of device state by the bridge; `timed_io`; health metrics of nodes.
- `motion_gate`, `combine`, `conditions`, `time_source`: one thread, or no state.
- Numerical code (effects, FFT, vision, solar geometry, colour conversion),
  packet layouts, encodings, SQLite, sockets: data, not control.
- The command line, the installer, the simulator, calibration and discovery tools, and the user
  interface: about two thirds of the lines, sequential input and output with
  no state that outlives a run. The modules cover about a tenth of the
  implementation's lines; more of it could be covered only by such code.

## Plan

1. An abstract light (what a client or the schedule last asked for) that engine
   and scheduler implement together; its parts, `PlaysAsAsked` and `TickCarriesOut`, are proved.
2. The colours a group shows when its map is right (`GroupShowsEffect`), as an invariant.
3. Handlers that edit the schedule, with their lost updates; a deaf orchestrator as a run.
