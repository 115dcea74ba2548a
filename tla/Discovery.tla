----------------------------- MODULE Discovery -----------------------------
(***************************************************************************)
(* How the server loads its bulbs: the start-up of server.py (steps 3 to 5  *)
(* and the hooks), the reconciliation of the bulbs that were missing then,  *)
(* and rediscover (handlers/discovery.py).  The map of the bulbs that are   *)
(* there comes from the keepalive process over MQTT or, when there is no    *)
(* broker, from a BulbKeepAlive thread in the server itself.                *)
(*                                                                         *)
(* Bulbs keep their address here (module Keepalive has the moves), so a     *)
(* bulb stands for its address too.  All bulbs are registered.  The look-ups *)
(* of the group's identifiers are one step, and the read of the whole map   *)
(* that follows them is another.                                            *)
(***************************************************************************)
EXTENDS Naturals

CONSTANTS Lamps,           \* the registered bulbs
          Members,         \* those of the configured group
          MaxPresence,     \* bound: bulbs that come or go
          MaxRediscovers   \* bound: rediscover requests

ASSUME DiscoveryAssumption ==
  Members \subseteq Lamps /\ {MaxPresence, MaxRediscovers} \subseteq Nat

Thread == {"main", "mqtt", "keepalive", "api"}
NoThread == "none"

VARIABLES
  broker,           \* the server reached its broker
  present,          \* bulbs in the ARP table
  published,        \* the map the keepalive process published last
  lampMap,             \* the map in the server: the proxy's or the thread's _known
  at, loading,     \* where each thread is, and what load_devices() is loading (before
                    \* that: what the reconciliation has found for the group)
  resolved,         \* what rediscover has resolved, all bulbs and the group's
  hooked,           \* the callbacks reach _reconcile_devices()
  reconciler,       \* who holds _reconcile_lock
  unresolved, unloaded,         \* _pending_unresolved, _pending_registered
  deviceIps, groupIps, opened,  \* _device_ips, _group_config, _devices
  forgotten,        \* history: bulbs that a rediscover took off the list or out of
                    \* the group, or closed
  presences, rediscovers

books == <<unresolved, unloaded, deviceIps, groupIps, opened>>
bulbVars == <<broker, present, published, presences>>
discoveryVars ==
  <<bulbVars, lampMap, at, loading, resolved, hooked, reconciler, books, forgotten, rediscovers>>

NothingResolved == [all |-> {}, group |-> {}]

DiscoveryTypeOK ==
  /\ {broker, hooked} \subseteq BOOLEAN
  /\ at \in [Thread -> {"start", "groups", "extras", "hooks", "idle", "reconcile", "late",
                        "assign", "regroup", "assigned", "load"}]
  /\ loading \in [Thread -> SUBSET Lamps]
  /\ resolved \in [{"all", "group"} -> SUBSET Lamps]
  /\ reconciler \in {NoThread, "main", "mqtt", "keepalive"}
  /\ unresolved \subseteq Members
  /\ {present, published, lampMap, unloaded, deviceIps, groupIps, opened, forgotten}
       \subseteq SUBSET Lamps
  /\ presences \in 0..MaxPresence /\ rediscovers \in 0..MaxRediscovers

DiscoveryInit ==
  /\ broker \in BOOLEAN /\ present \in SUBSET Lamps /\ published = {} /\ lampMap = {}
  /\ at = [t \in Thread |-> IF t = "main" THEN "start" ELSE "idle"]
  /\ loading = [t \in Thread |-> {}] /\ resolved = NothingResolved
  /\ hooked = FALSE /\ reconciler = NoThread
  /\ unresolved = {} /\ unloaded = {} /\ deviceIps = {} /\ groupIps = {} /\ opened = {}
  /\ forgotten = {} /\ presences = 0 /\ rediscovers = 0

Goto(t, place) == at' = [at EXCEPT ![t] = place]

\* The map can be read: its lock is free.  The server's own keepalive thread
\* calls the callback with the lock held.
Readable == at["keepalive"] = "idle"

----------------------------------------------------------------------------
(* The network and the keepalive                                           *)

ChangePresence(b) ==
  /\ presences < MaxPresence /\ presences' = presences + 1
  /\ present' = IF b \in present THEN present \ {b} ELSE present \union {b}
  /\ UNCHANGED <<broker, published, lampMap, at, loading, resolved, hooked, reconciler,
                 books, forgotten, rediscovers>>

PublishMap ==
  /\ broker /\ published # present /\ published' = present
  /\ UNCHANGED <<broker, present, presences, lampMap, at, loading, resolved, hooked,
                 reconciler, books, forgotten, rediscovers>>

\* KeepaliveProxy: a map or a new bulb arrives, and the callbacks follow.
Hear(map) ==
  /\ broker /\ at["mqtt"] = "idle" /\ at["main"] # "start" /\ lampMap' = map
  /\ IF hooked THEN Goto("mqtt", "reconcile") ELSE at' = at
  /\ UNCHANGED <<bulbVars, loading, resolved, hooked, reconciler, books, forgotten,
                 rediscovers>>

HearPublished == Hear(published)
HearNewBulb(b) == b \in published \ lampMap /\ Hear(lampMap \union {b})

\* The server's own thread: an entry of a scan.
ScanNew(b) ==
  /\ ~broker /\ at["keepalive"] = "idle" /\ b \in present \ lampMap
  /\ lampMap' = lampMap \union {b}
  /\ IF hooked THEN Goto("keepalive", "reconcile") ELSE at' = at
  /\ UNCHANGED <<bulbVars, loading, resolved, hooked, reconciler, books, forgotten,
                 rediscovers>>

ScanExpired(b) ==
  /\ ~broker /\ at["keepalive"] = "idle" /\ b \in lampMap \ present
  /\ lampMap' = lampMap \ {b}
  /\ UNCHANGED <<bulbVars, at, loading, resolved, hooked, reconciler, books, forgotten,
                 rediscovers>>

----------------------------------------------------------------------------
(* Start-up                                                                *)

\* The wait for the first scan ends, or times out.
EndInitialWait ==
  /\ at["main"] = "start" /\ Goto("main", "groups")
  /\ UNCHANGED <<bulbVars, lampMap, loading, resolved, hooked, reconciler, books,
                 forgotten, rediscovers>>

\* _resolve_config_groups(), and the list of what it could not resolve.
ResolveGroups ==
  /\ at["main"] = "groups" /\ Readable /\ Goto("main", "extras")
  /\ groupIps' = Members \intersect lampMap /\ deviceIps' = groupIps'
  /\ unresolved' = Members \ lampMap
  /\ UNCHANGED <<bulbVars, lampMap, loading, resolved, hooked, reconciler, unloaded,
                 opened, forgotten, rediscovers>>

AddRegistered ==
  /\ at["main"] = "extras" /\ Readable /\ Goto("main", "load")
  /\ deviceIps' = deviceIps \union lampMap /\ unloaded' = Lamps \ lampMap
  /\ loading' = [loading EXCEPT !["main"] = deviceIps']
  /\ UNCHANGED <<bulbVars, lampMap, resolved, hooked, reconciler, unresolved, groupIps,
                 opened, forgotten, rediscovers>>

InstallHooks ==
  /\ at["main"] = "hooks" /\ Goto("main", "reconcile") /\ hooked' = TRUE
  /\ UNCHANGED <<bulbVars, lampMap, loading, resolved, reconciler, books, forgotten,
                 rediscovers>>

----------------------------------------------------------------------------
(* Reconciliation                                                          *)

\* Mutant of StillMissing: a backlog is dropped once it was gone through.
NoneMissing(backlog) == {}

\* What stays in a backlog.
StillMissing(backlog) == backlog \ lampMap

\* _reconcile_devices() takes its lock and looks up the group's backlog ...
ReconcileMembers(t) ==
  LET members == unresolved \intersect lampMap IN
  /\ at[t] = "reconcile" /\ Goto(t, "late")
  /\ reconciler = NoThread /\ reconciler' = t /\ Readable
  /\ unresolved' = StillMissing(unresolved)
  /\ groupIps' = groupIps \union members /\ deviceIps' = deviceIps \union members
  /\ loading' = [loading EXCEPT ![t] = members]
  /\ UNCHANGED <<bulbVars, lampMap, resolved, hooked, unloaded, opened, forgotten,
                 rediscovers>>

\* ... then the other registered bulbs', and reloads if it found a bulb.
ReconcileRegistered(t) ==
  LET registered == unloaded \intersect lampMap IN
  /\ at[t] = "late" /\ Readable
  /\ unloaded' = StillMissing(unloaded) /\ deviceIps' = deviceIps \union registered
  /\ IF loading[t] \union registered = {} THEN Goto(t, "idle") /\ reconciler' = NoThread
     ELSE Goto(t, "assigned") /\ UNCHANGED reconciler
  /\ UNCHANGED <<bulbVars, lampMap, loading, resolved, hooked, unresolved, groupIps, opened,
                 forgotten, rediscovers>>

\* load_devices() begins with the list as it is.
BeginLoad(t) ==
  /\ at[t] = "assigned" /\ Goto(t, "load")
  /\ loading' = [loading EXCEPT ![t] = deviceIps]
  /\ UNCHANGED <<bulbVars, lampMap, resolved, hooked, reconciler, books, forgotten,
                 rediscovers>>

\* load_devices() is done: what it set out to load is loaded, silent bulbs too,
\* and everything else is closed.
Loaded(t) ==
  /\ at[t] = "load" /\ opened' = loading[t]
  /\ loading' = [loading EXCEPT ![t] = {}]
  /\ reconciler' = IF reconciler = t THEN NoThread ELSE reconciler
  /\ Goto(t, IF t = "main" /\ ~hooked THEN "hooks" ELSE "idle")
  /\ forgotten' = IF t = "api" THEN forgotten \union (opened \ loading[t]) ELSE forgotten
  /\ UNCHANGED <<bulbVars, lampMap, resolved, hooked, unresolved, unloaded, deviceIps,
                 groupIps, rediscovers>>

----------------------------------------------------------------------------
(* Rediscover                                                                  *)

\* The group's identifiers are looked up again; the backlogs stay as they are.
ResolveGroupsAgain ==
  /\ at["api"] = "idle" /\ Goto("api", "extras") /\ hooked /\ Readable
  /\ rediscovers < MaxRediscovers /\ rediscovers' = rediscovers + 1
  /\ resolved' = [all |-> Members \intersect lampMap, group |-> Members \intersect lampMap]
  /\ UNCHANGED <<bulbVars, lampMap, loading, hooked, reconciler, books, forgotten>>

\* The map is read once more, for the registered bulbs that are in no group.
AddRegisteredAgain ==
  /\ at["api"] = "extras" /\ Goto("api", "assign") /\ Readable
  /\ resolved' = [resolved EXCEPT !.all = @ \union lampMap]
  /\ UNCHANGED <<bulbVars, lampMap, loading, hooked, reconciler, books, forgotten,
                 rediscovers>>

\* The manager's list and groups are replaced, one after the other and without a lock:
\* what a reconciliation put in them since they were read is lost, and no backlog has
\* it any more.
ReplaceList ==
  /\ at["api"] = "assign" /\ Goto("api", "regroup")
  /\ deviceIps' = resolved.all /\ resolved' = [resolved EXCEPT !.all = {}]
  /\ forgotten' = forgotten \union (deviceIps \ resolved.all)
  /\ UNCHANGED <<bulbVars, lampMap, loading, hooked, reconciler, unresolved, unloaded,
                 groupIps, opened, rediscovers>>

ReplaceGroups ==
  /\ at["api"] = "regroup" /\ Goto("api", "assigned")
  /\ groupIps' = resolved.group /\ resolved' = NothingResolved
  /\ forgotten' = forgotten \union (groupIps \ resolved.group)
  /\ UNCHANGED <<bulbVars, lampMap, loading, hooked, reconciler, unresolved, unloaded,
                 deviceIps, opened, rediscovers>>

----------------------------------------------------------------------------
Start == EndInitialWait \/ ResolveGroups \/ AddRegistered \/ InstallHooks
KeepaliveScan == \E b \in Lamps : ScanNew(b) \/ ScanExpired(b)
Load(t) == ReconcileMembers(t) \/ ReconcileRegistered(t) \/ BeginLoad(t) \/ Loaded(t)
FinishRediscover == AddRegisteredAgain \/ ReplaceList \/ ReplaceGroups

DiscoveryNext ==
  \/ Start \/ PublishMap \/ HearPublished \/ KeepaliveScan
  \/ \E b \in Lamps : HearNewBulb(b) \/ ChangePresence(b)
  \/ \E t \in Thread : Load(t)
  \/ ResolveGroupsAgain \/ FinishRediscover

\* Threads go on, and the process publishes its map again and again.
DiscoveryFairness ==
  /\ WF_discoveryVars(Start) /\ WF_discoveryVars(PublishMap) /\ WF_discoveryVars(HearPublished)
  /\ WF_discoveryVars(KeepaliveScan) /\ WF_discoveryVars(FinishRediscover)
  /\ \A t \in Thread : WF_discoveryVars(Load(t))

DiscoverySpec == DiscoveryInit /\ [][DiscoveryNext]_discoveryVars /\ DiscoveryFairness

----------------------------------------------------------------------------
(* Properties                                                              *)

Served(b) == b \in opened /\ (b \in Members => b \in groupIps)

\* Once bulbs stop coming and going: a registered bulb that is on is loaded, and
\* its group has it, whether it was there at the start or came later, unless a
\* rediscover took it away: it replaces the lists by what it resolved earlier and
\* gives nothing back to the backlogs.
AutoLoads == <>[](\A b \in present : Served(b) \/ b \in forgotten)

\* The same when the server has its broker: the keepalive process announces new
\* bulbs from a thread that holds no lock.
BacklogDrains == <>[](broker => \A b \in present : Served(b) \/ b \in forgotten)
=============================================================================
