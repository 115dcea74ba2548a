------------------------------- MODULE Zones -------------------------------
(***************************************************************************)
(* A group's VirtualMultizoneEmitter (emitters/virtual.py) under an engine, *)
(* while DeviceManager.reintrospect() asks members for their zones and      *)
(* rebuilds the zone map: handler, render and send threads share the map    *)
(* and the members' zone counts without a lock.                             *)
(*                                                                         *)
(* Members are numbered in the group's order.  The color an effect gives    *)
(* virtual zone i of n is <<n, i>>.                                         *)
(***************************************************************************)
EXTENDS Naturals, Sequences, FiniteSets, SequencesExt

CONSTANTS Strips, SingleZone,  \* the multizone and the single-zone members
          MaxZones,            \* bound: zones of a strip
          MaxPipeline,         \* bound: frames rendered ahead
          MaxRewirings,        \* bound: strips that change
          Introspectors        \* threads that run reintrospect()

GroupMembers == Strips \union SingleZone
Nobody == "nobody"

ASSUME ZonesAssumption ==
  /\ \E n \in 1..Cardinality(GroupMembers) : GroupMembers = 1..n
  /\ IsFiniteSet(GroupMembers) /\ Strips \intersect SingleZone = {}
  /\ {MaxZones, MaxPipeline} \subseteq Nat \ {0} /\ MaxRewirings \in Nat
  /\ Nobody \notin Introspectors

Sentinel == 0
Black == <<0, 0>>

VARIABLES
  strip,        \* the zones a member really has
  zoneCount,    \* LifxDevice.zone_count
  zoneMap,      \* _zone_map, the member and zone of each virtual zone
  virtualCount, \* _zone_count
  pipeline,     \* virtual zones of the frames rendered and not yet sent
  held,         \* those of last_colors, 0 before the first frame
  send,         \* send_zones(): the map it iterates and where it is
  shows,        \* the color of each zone a member has
  introspector,      \* where each reintrospect() is: [at, member]
  lockedBy,     \* the manager's lock, between the two assignments of a rebuild
  rewirings

frameVars == <<pipeline, held, send, shows>>
mapVars == <<zoneMap, virtualCount>>
zonesVars == <<strip, zoneCount, mapVars, frameVars, introspector, lockedBy, rewirings>>

ZonesTypeOK ==
  /\ strip \in [GroupMembers -> 1..MaxZones] /\ zoneCount \in [GroupMembers -> 1..MaxZones]
  /\ \A k \in DOMAIN zoneMap : zoneMap[k] \in GroupMembers \X (1..MaxZones \union {Sentinel})
  /\ pipeline \in Seq(Nat) /\ Len(pipeline) <= MaxPipeline
  /\ \A m \in GroupMembers : shows[m] \in [1..strip[m] -> Nat \X Nat]
  /\ send.at \in {"idle", "collect", "flush"}
  /\ introspector \in
       [Introspectors -> [at : {"idle", "query", "rebuild"}, member : GroupMembers]]
  /\ rewirings \in 0..MaxRewirings

\* The virtual zones of one member.
ZonesOf(m) ==
  IF m \in Strips THEN [z \in 1..zoneCount[m] |-> <<m, z>>] ELSE << <<m, Sentinel>> >>

\* Mutant of BuiltMap: a map is never shortened.
BuiltMapIfLonger ==
  LET new == FlattenSeq([m \in GroupMembers |-> ZonesOf(m)])
  IN IF Len(new) > Len(zoneMap) THEN new ELSE zoneMap

BuiltMap == FlattenSeq([m \in GroupMembers |-> ZonesOf(m)])

NoSend == [at |-> "idle", map |-> <<>>, colors |-> 0, member |-> 0, batches |-> <<>>]

AtRest == [at |-> "idle", member |-> 1]

\* One strip has more zones than when it was asked.
ZonesInit ==
  /\ strip = [m \in GroupMembers |-> IF m \in Strips THEN MaxZones ELSE 1]
  /\ zoneCount = [m \in GroupMembers |-> IF m \in Strips \ {1} THEN MaxZones ELSE 1]
  /\ zoneMap = FlattenSeq([m \in GroupMembers |-> ZonesOf(m)]) /\ virtualCount = Len(zoneMap)
  /\ pipeline = <<>> /\ held = 0 /\ send = NoSend
  /\ shows = [m \in GroupMembers |-> [z \in 1..strip[m] |-> Black]]
  /\ introspector = [h \in Introspectors |-> AtRest]
  /\ lockedBy = Nobody /\ rewirings = 0

----------------------------------------------------------------------------
(* The render and the send thread                                          *)

RenderGroup ==
  /\ Len(pipeline) < MaxPipeline /\ pipeline' = Append(pipeline, virtualCount)
  /\ UNCHANGED <<strip, zoneCount, mapVars, held, send, shows, introspector, lockedBy,
                 rewirings>>

\* The newest frame popped, or the last one again; the loop keeps the map that
\* it began with.
BeginFrame ==
  /\ send.at = "idle"
  /\ IF pipeline = <<>> THEN held # 0 /\ UNCHANGED <<held, pipeline>>
     ELSE held' = Head(pipeline) /\ pipeline' = Tail(pipeline)
  /\ send' = [NoSend EXCEPT !.at = "collect", !.map = zoneMap, !.colors = held', !.member = 1]
  /\ UNCHANGED <<strip, zoneCount, mapVars, shows, introspector, lockedBy, rewirings>>

\* The virtual zones of member m that the frame has a color for.
Collected(m) ==
  {k \in 1..Len(send.map) : k <= send.colors /\ send.map[k][1] = m}

ColorOf(k) == <<send.colors, k>>

\* What a device shows of the colors it is sent.
Painted(m, colors) ==
  [z \in 1..strip[m] |-> IF z <= Len(colors) THEN colors[z] ELSE shows[m][z]]

NextMember ==
  IF send.member + 1 \in GroupMembers THEN [send EXCEPT !.member = @ + 1]
  ELSE [send EXCEPT !.at = "flush"]

\* A single zone is sent at once.
CollectSingle ==
  /\ send.at = "collect" /\ send.member \in SingleZone
  /\ send' = NextMember
  /\ shows' = [shows EXCEPT ![send.member] =
                 Painted(send.member, SetToSeq({ColorOf(k) : k \in Collected(send.member)}))]
  /\ UNCHANGED <<strip, zoneCount, mapVars, pipeline, held, introspector, lockedBy,
                 rewirings>>

\* A strip's colors are batched, with room for the zones it is known to have
\* now: a zone of the map beyond them raises IndexError, and nothing is flushed.
CollectStrip ==
  LET m == send.member
      zones == {send.map[k][2] : k \in Collected(m)}
      batch == [z \in 1..zoneCount[m] |->
                  IF z \in zones THEN ColorOf(CHOOSE k \in Collected(m) : send.map[k][2] = z)
                  ELSE Black]
  IN /\ send.at = "collect" /\ m \in Strips
     /\ send' = IF \E z \in zones : z > zoneCount[m] THEN NoSend
                ELSE IF zones = {} THEN NextMember
                ELSE [NextMember EXCEPT !.batches = Append(@, <<m, batch>>)]
     /\ UNCHANGED <<strip, zoneCount, mapVars, pipeline, held, shows, introspector,
                    lockedBy, rewirings>>

FlushBatch ==
  /\ send.at = "flush"
  /\ IF send.batches = <<>> THEN send' = NoSend /\ UNCHANGED shows
     ELSE LET m == Head(send.batches)[1] IN
          /\ shows' = [shows EXCEPT ![m] = Painted(m, Head(send.batches)[2])]
          /\ send' = [send EXCEPT !.batches = Tail(@)]
  /\ UNCHANGED <<strip, zoneCount, mapVars, pipeline, held, introspector, lockedBy,
                 rewirings>>

----------------------------------------------------------------------------
(* reintrospect()                                                          *)

Reintrospect(h, m) ==
  /\ introspector[h].at = "idle"
  /\ introspector' = [introspector EXCEPT ![h] = [at |-> "query", member |-> m]]
  /\ UNCHANGED <<strip, zoneCount, mapVars, frameVars, lockedBy, rewirings>>

\* The device answers, or the query times out and the count stays.
QueryZones(h) ==
  LET m == introspector[h].member IN
  /\ introspector[h].at = "query" /\ introspector' = [introspector EXCEPT ![h].at = "rebuild"]
  /\ \/ zoneCount' = [zoneCount EXCEPT ![m] = strip[m]]
     \/ UNCHANGED zoneCount
  /\ UNCHANGED <<strip, mapVars, frameVars, lockedBy, rewirings>>

RebuildMap(h) ==
  /\ introspector[h].at = "rebuild" /\ lockedBy = Nobody /\ lockedBy' = h
  /\ zoneMap' = BuiltMap
  /\ UNCHANGED <<strip, zoneCount, virtualCount, frameVars, introspector, rewirings>>

RebuildCount(h) ==
  /\ lockedBy = h /\ lockedBy' = Nobody /\ virtualCount' = Len(zoneMap)
  /\ introspector' = [introspector EXCEPT ![h] = AtRest]
  /\ UNCHANGED <<strip, zoneCount, zoneMap, frameVars, rewirings>>

\* Somebody switches a strip off, changes it, and switches it on again.
Rewire(m) ==
  /\ rewirings < MaxRewirings /\ rewirings' = rewirings + 1
  /\ \E n \in 1..MaxZones \ {strip[m]} :
       /\ strip' = [strip EXCEPT ![m] = n]
       /\ shows' = [shows EXCEPT ![m] = [z \in 1..n |-> Black]]
  /\ UNCHANGED <<zoneCount, mapVars, pipeline, held, send, introspector, lockedBy>>

----------------------------------------------------------------------------
SendGroup == BeginFrame \/ CollectSingle \/ CollectStrip \/ FlushBatch

ZonesNext ==
  \/ RenderGroup \/ SendGroup
  \/ \E h \in Introspectors :
       \/ \E m \in Strips : Reintrospect(h, m)
       \/ QueryZones(h) \/ RebuildMap(h) \/ RebuildCount(h)
  \/ \E m \in Strips : Rewire(m)

\* The threads of the engine go on, and a handler ends what it began.
ZonesFairness ==
  /\ WF_zonesVars(RenderGroup) /\ WF_zonesVars(SendGroup)
  /\ \A h \in Introspectors : WF_zonesVars(QueryZones(h) \/ RebuildMap(h) \/ RebuildCount(h))

ZonesSpec == ZonesInit /\ [][ZonesNext]_zonesVars /\ ZonesFairness

----------------------------------------------------------------------------
(* Properties                                                              *)

ZonesBefore(m) ==
  Cardinality({p \in GroupMembers \X (1..MaxZones) : p[1] < m /\ p[2] <= strip[p[1]]})

\* Strips that change, and maps that are rebuilt, while frames are under way leave
\* no lasting damage: when the manager has learned what every member has, each
\* zone comes to show the effect's color for its place in the group, though frames
\* may have been dropped, cut or shifted meanwhile.
GroupShowsEffect ==
  <>[]((\A m \in GroupMembers : zoneCount[m] = strip[m])
       /\ (\A h \in Introspectors : introspector[h].at = "idle")
       => \A m \in GroupMembers : \A z \in 1..strip[m] :
            shows[m][z] = <<ZonesBefore(Cardinality(GroupMembers) + 1), ZonesBefore(m) + z>>)
=============================================================================
