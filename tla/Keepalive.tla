----------------------------- MODULE Keepalive -----------------------------
(***************************************************************************)
(* BulbKeepAlive (infrastructure/bulb_keepalive.py): a thread that reads    *)
(* the ARP table and keeps the map of the bulbs on the network, the process *)
(* that publishes the map (infrastructure/keepalive_process.py), and the    *)
(* server's copy of it, KeepaliveProxy (infrastructure/adapter_proxy.py).   *)
(*                                                                         *)
(* The thread holds its lock from the first entry of a scan to the last,    *)
(* the callback for a new bulb included.                                    *)
(***************************************************************************)
EXTENDS Naturals, Sequences, FiniteSets

CONSTANTS Addresses, Bulbs, NoBulb,
          ExpiryMisses,     \* EXPIRY_MISS_COUNT
          PowerQueryEvery,  \* power_query_every_n
          MaxMoves,         \* bound: changes of the ARP table, restarts of the process
          MaxTimers,        \* bound: deferred publishes at a time
          MaxMapMail        \* bound: messages on their way to the server

ASSUME KeepaliveAssumption ==
  /\ {ExpiryMisses, PowerQueryEvery, MaxMoves, MaxTimers, MaxMapMail} \subseteq Nat
  /\ ExpiryMisses > 0 /\ PowerQueryEvery > 0 /\ MaxMapMail > 0
  /\ NoBulb \notin Bulbs /\ Addresses # {} /\ IsFiniteSet(Addresses)
  /\ MaxTimers >= Cardinality(Addresses)

Table == [Addresses -> Bulbs \union {NoBulb}]
NoBulbs == [i \in Addresses |-> NoBulb]
Held(table) == {i \in Addresses : table[i] # NoBulb}

VARIABLES
  arp,          \* the host's ARP table, bulbs only
  known, misses,\* _known, _misses
  bulbAt,       \* where the keepalive thread is
  reading,      \* the part of the ARP table the scan has yet to go through
  absent,       \* the known addresses this scan read no entry for
  found,        \* the address the callback is called with
  cycle,        \* _arp_cycle_count modulo PowerQueryEvery
  greeted,      \* the process has published its first map
  timers,       \* the process's deferred publishes
  mapMail,      \* messages on their way to the server
  proxyKnown,   \* KeepaliveProxy._known
  moves

scanVars == <<known, misses, bulbAt, reading, absent, found, cycle>>
publishVars == <<greeted, timers, mapMail>>
keepaliveVars == <<arp, scanVars, publishVars, proxyKnown, moves>>

Map(table) == [kind |-> "map", table |-> table]
NewBulb(i, b) == [kind |-> "new", at |-> i, bulb |-> b]
Timer == [at : Addresses, bulb : Bulbs, next : {"event", "read"}, table : {NoBulbs}]
           \union [at : Addresses, bulb : Bulbs, next : {"publish"}, table : Table]

KeepaliveTypeOK ==
  /\ greeted \in BOOLEAN
  /\ {arp, known, reading, proxyKnown} \subseteq Table
  /\ misses \in [Addresses -> 0..ExpiryMisses]
  /\ bulbAt \in {"idle", "scan", "found", "query"}
  /\ absent \subseteq Addresses /\ found \in Addresses /\ cycle \in 0..PowerQueryEvery - 1
  /\ timers \subseteq Timer /\ Cardinality(timers) <= MaxTimers
  /\ Len(mapMail) <= MaxMapMail /\ moves \in 0..MaxMoves
  /\ \A k \in DOMAIN mapMail :
       \/ mapMail[k].kind = "map" /\ mapMail[k].table \in Table
       \/ mapMail[k].kind = "new" /\ mapMail[k].at \in Addresses /\ mapMail[k].bulb \in Bulbs

KeepaliveInit ==
  /\ arp = NoBulbs
  /\ known = NoBulbs /\ misses = [i \in Addresses |-> 0] /\ bulbAt = "idle" /\ reading = NoBulbs
  /\ absent = {} /\ cycle = 0 /\ found = CHOOSE i \in Addresses : TRUE
  /\ greeted = FALSE /\ timers = {} /\ mapMail = <<>> /\ proxyKnown = NoBulbs
  /\ moves = 0

\* Nobody holds _lock.
LockFree == bulbAt \notin {"scan", "found"}

----------------------------------------------------------------------------
(* The scan                                                                *)

\* A bulb comes, goes or gets another address; entries of an old address may
\* stay for a while.
ChangeArp(i, b) ==
  /\ moves < MaxMoves /\ moves' = moves + 1
  /\ b # arp[i] /\ arp' = [arp EXCEPT ![i] = b]
  /\ UNCHANGED <<scanVars, publishVars, proxyKnown>>

BeginScan ==
  /\ bulbAt = "idle" /\ bulbAt' = "scan"
  /\ Cardinality(timers) + Cardinality(Addresses) <= MaxTimers
  /\ reading' = arp /\ absent' = Held(known) \ Held(arp)
  /\ UNCHANGED <<arp, known, misses, found, cycle, publishVars, proxyKnown, moves>>

\* Addresses where the bulb was before; one of them is evicted.
OldPlaces(i, b) == {j \in Held(known) \ {i} : known[j] = b}

\* The map without one stale address of the bulb.
Evictions(i, b) ==
  IF OldPlaces(i, b) = {} THEN {known}
  ELSE {[known EXCEPT ![j] = NoBulb] : j \in OldPlaces(i, b)}

\* An address that is known is only marked present, whoever answers there now.
ScanEntry(i) ==
  /\ bulbAt = "scan" /\ reading[i] # NoBulb
  /\ reading' = [reading EXCEPT ![i] = NoBulb]
  /\ misses' = [misses EXCEPT ![i] = 0]
  /\ IF known[i] # NoBulb THEN UNCHANGED <<known, bulbAt, absent, found>>
     ELSE \E kept \in Evictions(i, reading[i]) :
            /\ known' = [kept EXCEPT ![i] = reading[i]]
            /\ absent' = absent \intersect Held(kept)
            /\ found' = i /\ bulbAt' = "found"
  /\ UNCHANGED <<arp, cycle, publishVars, proxyKnown, moves>>

\* Addresses that were absent count a miss; after ExpiryMisses they are dropped.
\* (An address evicted in this scan after its entry was read is not known.)
EndScan ==
  LET expired == {i \in absent : misses[i] + 1 = ExpiryMisses} IN
  /\ bulbAt = "scan" /\ reading = NoBulbs
  /\ known' = [i \in Addresses |-> IF i \in expired THEN NoBulb ELSE known[i]]
  /\ misses' = [i \in Addresses |->
                  IF i \in expired \/ known[i] = NoBulb THEN 0
                  ELSE IF i \in absent THEN misses[i] + 1 ELSE misses[i]]
  /\ absent' = {} /\ cycle' = (cycle + 1) % PowerQueryEvery
  /\ bulbAt' = IF cycle' = 0 THEN "query" ELSE "idle"
  /\ UNCHANGED <<arp, reading, found, publishVars, proxyKnown, moves>>

----------------------------------------------------------------------------
(* The process                                                             *)

Publish(messages) ==
  /\ Len(mapMail) + Len(messages) <= MaxMapMail
  /\ mapMail' = mapMail \o messages

\* The process's callback: everything is deferred to a timer thread.
DeferPublish ==
  /\ bulbAt = "found" /\ bulbAt' = "scan"
  /\ timers' = timers \union
       {[at |-> found, bulb |-> known[found], next |-> "event", table |-> NoBulbs]}
  /\ UNCHANGED <<arp, known, misses, reading, absent, found, cycle, greeted, mapMail,
                 proxyKnown, moves>>

Advance(t, next, table) ==
  timers' = (timers \ {t}) \union {[t EXCEPT !.next = next, !.table = table]}

TimerEvent(t) ==
  /\ t.next = "event" /\ Advance(t, "read", NoBulbs)
  /\ Publish(<<NewBulb(t.at, t.bulb)>>)
  /\ UNCHANGED <<arp, scanVars, greeted, proxyKnown, moves>>

\* _publish_discovered_map(): the map is read under the lock, published without.
TimerRead(t) ==
  /\ t.next = "read" /\ LockFree /\ Advance(t, "publish", known)
  /\ UNCHANGED <<arp, scanVars, greeted, mapMail, proxyKnown, moves>>

TimerPublish(t) ==
  /\ t.next = "publish" /\ timers' = timers \ {t} /\ Publish(<<Map(t.table)>>)
  /\ UNCHANGED <<arp, scanVars, greeted, proxyKnown, moves>>

\* Mutant of QueriedMap: the power query publishes power states only.
PowerOnly == <<>>

\* _on_power_query() publishes the map, unless no bulb is known.
QueriedMap == IF known = NoBulbs THEN <<>> ELSE <<Map(known)>>

PowerQuery ==
  /\ bulbAt = "query" /\ bulbAt' = "idle" /\ Publish(QueriedMap)
  /\ UNCHANGED <<arp, known, misses, reading, absent, found, cycle, greeted, timers,
                 proxyKnown, moves>>

\* run(), after the first scan or 30 seconds.
PublishFirstMap ==
  /\ ~greeted /\ LockFree /\ greeted' = TRUE /\ Publish(<<Map(known)>>)
  /\ UNCHANGED <<arp, scanVars, timers, proxyKnown, moves>>

\* The process dies and is started again.
RestartProcess ==
  /\ greeted /\ moves < MaxMoves /\ moves' = moves + 1
  /\ known' = NoBulbs /\ misses' = [i \in Addresses |-> 0] /\ bulbAt' = "idle"
  /\ reading' = NoBulbs /\ absent' = {} /\ cycle' = 0
  /\ greeted' = FALSE /\ timers' = {}
  /\ UNCHANGED <<arp, found, mapMail, proxyKnown>>

\* KeepaliveProxy._on_discovered() and _on_new_bulb_msg(), without the callbacks.
HearMap ==
  /\ mapMail # <<>> /\ mapMail' = Tail(mapMail)
  /\ LET message == Head(mapMail) IN
     proxyKnown' = IF message.kind = "map" THEN message.table
                   ELSE [proxyKnown EXCEPT ![message.at] = message.bulb]
  /\ UNCHANGED <<arp, scanVars, greeted, timers, moves>>

----------------------------------------------------------------------------
KeepaliveThread ==
  \/ BeginScan \/ EndScan \/ \E i \in Addresses : ScanEntry(i)
  \/ DeferPublish \/ PowerQuery

TimerThreads == \E t \in timers : TimerEvent(t) \/ TimerRead(t) \/ TimerPublish(t)

KeepaliveNext ==
  \/ KeepaliveThread \/ TimerThreads \/ PublishFirstMap \/ RestartProcess \/ HearMap
  \/ \E i \in Addresses, b \in Bulbs \union {NoBulb} : ChangeArp(i, b)

KeepaliveFairness ==
  /\ WF_keepaliveVars(KeepaliveThread) /\ WF_keepaliveVars(TimerThreads)
  /\ WF_keepaliveVars(PublishFirstMap) /\ WF_keepaliveVars(HearMap)

KeepaliveSpec == KeepaliveInit /\ [][KeepaliveNext]_keepaliveVars /\ KeepaliveFairness

----------------------------------------------------------------------------
(* Properties                                                              *)

\* No address has another bulb than the one the keepalive knows there.
NotReused == \A i \in Held(arp) : known[i] \in {arp[i], NoBulb}
Unambiguous == \A i, j \in Held(arp) : arp[i] = arp[j] => i = j

\* Once bulbs stop moving, whatever they did before and however publishes
\* overtook each other: when each bulb of the ARP table has one address, the
\* keepalive knows these addresses and no other, and the server the same (unless
\* none is left: an empty map is not published again).
MapConverges ==
  <>[](NotReused /\ Unambiguous => known = arp /\ (known = NoBulbs \/ proxyKnown = known))
=============================================================================
