------------------------------ MODULE Devices ------------------------------
(***************************************************************************)
(* DeviceManager's tables of devices, group emitters and controllers        *)
(* (device_manager.py) under the requests that use and rebuild them: play,  *)
(* stop, the group editor (handlers/groups.py), rediscover                  *)
(* (handlers/discovery.py) and the shutdown.  A section of code under the   *)
(* manager's lock is one step; a request is several.                        *)
(*                                                                         *)
(* A device is named by the probe that made it, an emitter by the devices   *)
(* it writes to; a request holds on to what it looked up.                   *)
(***************************************************************************)
EXTENDS Naturals

CONSTANTS Ips, Names,      \* device addresses, group names
          Users,           \* API threads
          MaxProbes,       \* bound: load_devices() runs
          MaxControllers,  \* bound: controllers created
          MaxUses          \* bound: requests

ASSUME DevicesAssumption ==
  /\ {MaxProbes, MaxControllers, MaxUses} \subseteq Nat /\ MaxProbes > 0 /\ MaxControllers > 0
  /\ Ips # {} /\ Ips \intersect Names = {}

Ids == Ips \union Names
Probe == 0..MaxProbes       \* 0: no device
Controller == 1..MaxControllers
Groups == [Names -> SUBSET Ips]
Emitter == [Ips -> Probe]
NoEmitter == [i \in Ips |-> 0]

VARIABLES
  config, saved,  \* config["groups"] in memory and in the file; {} is no group
  groupConfig,    \* _group_config
  device,         \* _devices, and their emitters
  groupEmitter,   \* the groups' entries of _emitters
  controller,     \* _controllers; 0 is none
  drives,         \* the emitter each controller was made for
  playing,        \* controllers whose engine runs
  task,           \* what each API thread is in the middle of
  probes, madeControllers, uses, \* load_devices() runs, controllers made, requests begun
  down,           \* shutdown() has run
  edited,         \* two requests that edit the groups have overlapped
  overtaken       \* controllers dropped from the table while a play() held them

tables == <<groupConfig, device, groupEmitter, controller, drives, playing, madeControllers>>
files == <<config, saved>>
devicesVars == <<tables, files, task, probes, uses, down, edited, overtaken>>

Idle == [errand |-> "idle", about |-> "none", carries |-> 0]
Pc == {"play", "stop", "save", "set", "rebuild", "resolved", "assigned"}

DevicesTypeOK ==
  /\ {config, saved, groupConfig} \subseteq Groups
  /\ device \in Emitter /\ groupEmitter \in [Names -> Emitter]
  /\ controller \in [Ids -> Controller \union {0}]
  /\ drives \in [Controller -> Emitter] /\ playing \subseteq Controller
  /\ \A u \in Users : task[u].errand \in Pc \union {"idle"}
  /\ probes \in Probe /\ madeControllers \in 0..MaxControllers /\ uses \in 0..MaxUses
  /\ {down, edited} \subseteq BOOLEAN /\ overtaken \subseteq Controller

\* The server has loaded its devices and one group of all of them, which plays.
DevicesInit ==
  /\ \E n \in Names :
       /\ config = [m \in Names |-> IF m = n THEN Ips ELSE {}]
       /\ groupEmitter = [m \in Names |-> IF m = n THEN [i \in Ips |-> 1] ELSE NoEmitter]
       /\ controller = [x \in Ids |-> IF x = n THEN 1 ELSE 0]
       /\ drives = [k \in Controller |-> IF k = 1 THEN groupEmitter[n] ELSE NoEmitter]
  /\ playing = {1} /\ madeControllers = 1
  /\ saved = config /\ groupConfig = config
  /\ device = [i \in Ips |-> 1]
  /\ probes = 1
  /\ task = [u \in Users |-> Idle] /\ uses = 0
  /\ down = FALSE /\ edited = FALSE /\ overtaken = {}

EmitterOf(x) ==
  IF x \in Names THEN groupEmitter[x]
  ELSE [i \in Ips |-> IF i = x THEN device[i] ELSE 0]

BeginRequest(u, pc, id, with) ==
  /\ task[u].errand = "idle" /\ uses < MaxUses /\ ~down
  /\ uses' = uses + 1
  /\ task' = [task EXCEPT ![u] = [errand |-> pc, about |-> id, carries |-> with]]

Proceeds(u, pc) == task' = [task EXCEPT ![u].errand = pc]
Ends(u) == task' = [task EXCEPT ![u] = Idle]

----------------------------------------------------------------------------
(* Play and stop                                                           *)

\* get_or_create_controller()
LookUpController(u, pc, x) ==
  /\ EmitterOf(x) # NoEmitter
  /\ IF controller[x] # 0
     THEN /\ BeginRequest(u, pc, x, controller[x])
          /\ UNCHANGED <<controller, drives, madeControllers>>
     ELSE /\ madeControllers < MaxControllers
          /\ madeControllers' = madeControllers + 1
          /\ controller' = [controller EXCEPT ![x] = madeControllers + 1]
          /\ drives' = [drives EXCEPT ![madeControllers + 1] = EmitterOf(x)]
          /\ BeginRequest(u, pc, x, madeControllers + 1)
  /\ UNCHANGED <<groupConfig, device, groupEmitter, playing, files, probes, down,
                 edited, overtaken>>

BeginPlay(u, x) == LookUpController(u, "play", x)
BeginStop(u, x) == LookUpController(u, "stop", x)

\* The emitter is powered on, which takes a while, then the engine starts.
EndPlay(u) ==
  /\ task[u].errand = "play" /\ Ends(u)
  /\ playing' = playing \union {task[u].carries}
  /\ UNCHANGED <<groupConfig, device, groupEmitter, controller, drives, madeControllers,
                 files, probes, uses, down, edited, overtaken>>

EndStop(u) ==
  /\ task[u].errand = "stop" /\ Ends(u)
  /\ playing' = playing \ {task[u].carries}
  /\ UNCHANGED <<groupConfig, device, groupEmitter, controller, drives, madeControllers,
                 files, probes, uses, down, edited, overtaken>>

\* Controllers of the ids are stopped and dropped from the table.
Drop(dropped) ==
  LET gone == {controller[x] : x \in dropped} \ {0} IN
  /\ controller' = [x \in Ids |-> IF x \in dropped THEN 0 ELSE controller[x]]
  /\ playing' = playing \ gone
  /\ overtaken' = overtaken \union
       {k \in gone : \E u \in Users : task[u].errand = "play" /\ task[u].carries = k}

----------------------------------------------------------------------------
(* The group editor                                                        *)

Editing == \E u \in Users : task[u].errand \in {"save", "set", "rebuild", "resolved", "assigned"}

\* The handler copies config["groups"] with its change: the group `old` out,
\* the group `new` in with these members (none when the group is deleted).
EditGroup(u, old, new, members) ==
  /\ BeginRequest(u, "save", <<old, new>>,
              [[config EXCEPT ![old] = {}] EXCEPT ![new] = members])
  /\ edited' = (edited \/ Editing)
  /\ UNCHANGED <<tables, files, probes, down, overtaken>>

CreateGroup(u, n, members) == config[n] = {} /\ members # {} /\ EditGroup(u, n, n, members)
UpdateGroup(u, old, new, members) ==
  /\ config[old] # {} /\ (new # old => config[new] = {}) /\ members # {}
  /\ EditGroup(u, old, new, members)
DeleteGroup(u, n) == config[n] # {} /\ EditGroup(u, n, n, {})

\* _save_config_field(): the file's other fields stay, under a lock.
SaveGroups(u) ==
  /\ task[u].errand = "save" /\ Proceeds(u, "set")
  /\ saved' = task[u].carries
  /\ UNCHANGED <<tables, config, probes, uses, down, edited, overtaken>>

SetGroups(u) ==
  /\ task[u].errand = "set" /\ Proceeds(u, "rebuild")
  /\ config' = task[u].carries
  /\ UNCHANGED <<tables, saved, probes, uses, down, edited, overtaken>>

\* Mutant of GroupEmitterFor: a group that exists keeps its emitter.
GroupEmitterKept(n, members, devices) ==
  IF groupEmitter[n] # NoEmitter /\ members # {} THEN groupEmitter[n]
  ELSE [i \in Ips |-> IF i \in members THEN devices[i] ELSE 0]

\* A virtual emitter of the members that have devices; none without any.
GroupEmitterFor(n, members, devices) ==
  [i \in Ips |-> IF i \in members THEN devices[i] ELSE 0]

\* _rebuild_group_emitter_locked(), for the old name and the new one.
RebuildGroups(u) ==
  LET old == task[u].about[1]  new == task[u].about[2]  members == task[u].carries[new] IN
  /\ task[u].errand = "rebuild" /\ Ends(u)
  /\ groupConfig' = [[groupConfig EXCEPT ![old] = {}] EXCEPT ![new] = members]
  /\ groupEmitter' = [[groupEmitter EXCEPT ![old] = NoEmitter]
                        EXCEPT ![new] = GroupEmitterFor(new, members, device)]
  /\ Drop({old, new})
  /\ UNCHANGED <<device, drives, madeControllers, files, probes, uses, down, edited>>

----------------------------------------------------------------------------
(* Rediscover                                                              *)

\* The configured groups are resolved to the addresses that are online.
Rediscover(u, online) ==
  /\ probes < MaxProbes
  /\ BeginRequest(u, "resolved", online, [n \in Names |-> config[n] \intersect online])
  /\ edited' = (edited \/ Editing)
  /\ UNCHANGED <<tables, files, probes, down, overtaken>>

\* _device_ips and _group_config are replaced, without the lock.
Assign(u) ==
  /\ task[u].errand = "resolved" /\ Proceeds(u, "assigned")
  /\ groupConfig' = task[u].carries
  /\ UNCHANGED <<device, groupEmitter, controller, drives, playing, madeControllers,
                 files, probes, uses, down, edited, overtaken>>

\* Mutant of Replaced: controllers of devices only are dropped.
ReplacedDevices(devices, emitters) == Ips

\* Ids whose device or emitter load_devices() replaces or removes.
Replaced(devices, emitters) ==
  {i \in Ips : device[i] # 0}
    \union {n \in Names : groupEmitter[n] # NoEmitter \/ emitters[n] # NoEmitter}

\* load_devices(): probes without the lock, then rebuilds everything under it.
LoadDevices(u) ==
  LET devices == [i \in Ips |-> IF i \in task[u].about THEN probes + 1 ELSE 0]
      emitters == [n \in Names |-> GroupEmitterFor(n, groupConfig[n], devices)] IN
  /\ task[u].errand = "assigned" /\ probes < MaxProbes /\ Ends(u)
  /\ probes' = probes + 1
  /\ device' = devices /\ groupEmitter' = emitters
  /\ Drop(Replaced(devices, emitters))
  /\ UNCHANGED <<groupConfig, drives, madeControllers, files, uses, down, edited>>

\* shutdown(): devices and their controllers; those of groups stay.
ShutdownDevices ==
  /\ ~down /\ down' = TRUE
  /\ device' = NoEmitter
  /\ Drop({i \in Ips : device[i] # 0})
  /\ UNCHANGED <<groupConfig, groupEmitter, drives, madeControllers, files, task,
                 probes, uses, edited>>

----------------------------------------------------------------------------
DevicesNext ==
  \/ \E u \in Users :
       \/ \E x \in Ids : BeginPlay(u, x) \/ BeginStop(u, x)
       \/ EndPlay(u) \/ EndStop(u)
       \/ \E n \in Names : DeleteGroup(u, n)
       \/ \E n \in Names, members \in SUBSET Ips :
            CreateGroup(u, n, members) \/ \E m \in Names : UpdateGroup(u, n, m, members)
       \/ SaveGroups(u) \/ SetGroups(u) \/ RebuildGroups(u)
       \/ \E online \in SUBSET Ips : Rediscover(u, online)
       \/ Assign(u) \/ LoadDevices(u)
  \/ ShutdownDevices

DevicesSpec == DevicesInit /\ [][DevicesNext]_devicesVars

----------------------------------------------------------------------------
(* Properties                                                              *)

\* Until the shutdown, whatever overlaps: a controller in the table was made
\* for the emitter its id has now, and a group's emitter writes to devices
\* that are open.
TablesAgree ==
  ~down =>
    /\ \A x \in Ids : controller[x] # 0 =>
         EmitterOf(x) # NoEmitter /\ drives[controller[x]] = EmitterOf(x)
    /\ \A n \in Names, i \in Ips : groupEmitter[n][i] \in {0, device[i]}

\* An engine that runs can be stopped through the table, unless its controller
\* was dropped from it between a play()'s look-up and its start.
EnginesReachable ==
  \A k \in playing : k \in overtaken \/ \E x \in Ids : controller[x] = k

\* When no request is in progress and none edited the groups during another's
\* edit, the configuration, its file and the manager know the same groups, but
\* for members that were offline when they were resolved.
GroupsAgree ==
  ~edited /\ ~Editing => config = saved /\ \A n \in Names : groupConfig[n] \subseteq config[n]

\* The tables, the engines and the configuration agree, whatever overlaps.
DevicesConsistent == TablesAgree /\ EnginesReachable /\ GroupsAgree
=============================================================================
