------------------------------ MODULE MCServer ------------------------------
(***************************************************************************)
(* The components of the server beside its engine, its scheduler and its    *)
(* fleet, checked in one run.  They share no state: a behaviour is one of   *)
(* the component in focus, and the others stay as they begin.               *)
(***************************************************************************)
EXTENDS AdapterRpc, AdapterHealth, Resilient, Media, SignalBus, MatterAdapter, Trigger,
        Occupancy, Bindings, OperatorOrder, Entries, AckWorker, Zones, UdpChannel,
        Registry, Devices, Keepalive, Discovery

VARIABLE focus

\* The sun's event comes an hour later on the second day, and not on the third.
Sunlight == 0 :> 1 @@ 1 :> 2 @@ 2 :> NoSun
Hours == -1..1

\* Schedules of two entries, the second of them always on.
TwoEntries ==
  EntrySpec \X {e \in EntrySpec : e.days = {} /\ e.enabled /\ e.start[1] = "midnight"}

Focus == {"rpc", "health", "resilient", "media", "bus", "matter", "trigger",
          "occupancy", "bindings", "order", "entries", "ack", "zones", "udp",
          "registry", "devices", "keepalive", "discovery"}

everything ==
  <<focus, adapterRpcVars, healthVars, resilientVars, mediaVars, signalBusVars,
    matterVars, triggerVars, occupancyVars, bindingVars, orderVars, entriesVars,
    ackWorkerVars, zonesVars, udpVars, registryVars, devicesVars, keepaliveVars,
    discoveryVars>>

\* A component out of focus has one initial state.
ServerInit ==
  /\ focus \in Focus
  /\ HealthInit /\ ResilientInit /\ MediaInit /\ SignalBusInit /\ OccupancyInit
  /\ EntriesInit /\ AckWorkerInit /\ ZonesInit /\ UdpInit /\ RegistryInit
  /\ KeepaliveInit
  /\ AdapterRpcInit /\ (focus # "rpc" => adapter = "down")
  /\ MatterInit /\ (focus # "matter" => plug = "off" /\ ~reachable)
  /\ TriggerInit /\ (focus # "trigger" => ~sensor /\ offType = "watchdog")
  /\ BindingsInit /\ (focus # "bindings" => \A s \in Signal : value[s] = 0)
  /\ DevicesInit /\ (focus # "devices" => config[CHOOSE n \in Names : TRUE] # {})
  /\ DiscoveryInit /\ (focus # "discovery" => broker /\ present = {})
  /\ IF focus = "order" THEN OrderInit
     ELSE StartSort([s \in Slots |-> CHOOSE t \in Types : TRUE], [s \in Slots |-> {}])

ServerNext ==
  \/ /\ focus = "rpc" /\ AdapterRpcNext
     /\ UNCHANGED <<healthVars, resilientVars, mediaVars, signalBusVars, matterVars,
                    triggerVars, occupancyVars, bindingVars, orderVars, entriesVars,
                    ackWorkerVars, zonesVars, udpVars, registryVars, devicesVars,
                    keepaliveVars, discoveryVars, focus>>
  \/ /\ focus = "health" /\ HealthNext
     /\ UNCHANGED <<adapterRpcVars, resilientVars, mediaVars, signalBusVars, matterVars,
                    triggerVars, occupancyVars, bindingVars, orderVars, entriesVars,
                    ackWorkerVars, zonesVars, udpVars, registryVars, devicesVars,
                    keepaliveVars, discoveryVars, focus>>
  \/ /\ focus = "resilient" /\ ResilientNext
     /\ UNCHANGED <<adapterRpcVars, healthVars, mediaVars, signalBusVars, matterVars,
                    triggerVars, occupancyVars, bindingVars, orderVars, entriesVars,
                    ackWorkerVars, zonesVars, udpVars, registryVars, devicesVars,
                    keepaliveVars, discoveryVars, focus>>
  \/ /\ focus = "media" /\ MediaNext
     /\ UNCHANGED <<adapterRpcVars, healthVars, resilientVars, signalBusVars,
                    matterVars, triggerVars, occupancyVars, bindingVars, orderVars,
                    entriesVars, ackWorkerVars, zonesVars, udpVars, registryVars,
                    devicesVars, keepaliveVars, discoveryVars, focus>>
  \/ /\ focus = "bus" /\ SignalBusNext
     /\ UNCHANGED <<adapterRpcVars, healthVars, resilientVars, mediaVars, matterVars,
                    triggerVars, occupancyVars, bindingVars, orderVars, entriesVars,
                    ackWorkerVars, zonesVars, udpVars, registryVars, devicesVars,
                    keepaliveVars, discoveryVars, focus>>
  \/ /\ focus = "matter" /\ MatterNext
     /\ UNCHANGED <<adapterRpcVars, healthVars, resilientVars, mediaVars, signalBusVars,
                    triggerVars, occupancyVars, bindingVars, orderVars, entriesVars,
                    ackWorkerVars, zonesVars, udpVars, registryVars, devicesVars,
                    keepaliveVars, discoveryVars, focus>>
  \/ /\ focus = "trigger" /\ TriggerNext
     /\ UNCHANGED <<adapterRpcVars, healthVars, resilientVars, mediaVars, signalBusVars,
                    matterVars, occupancyVars, bindingVars, orderVars, entriesVars,
                    ackWorkerVars, zonesVars, udpVars, registryVars, devicesVars,
                    keepaliveVars, discoveryVars, focus>>
  \/ /\ focus = "occupancy" /\ OccupancyNext
     /\ UNCHANGED <<adapterRpcVars, healthVars, resilientVars, mediaVars, signalBusVars,
                    matterVars, triggerVars, bindingVars, orderVars, entriesVars,
                    ackWorkerVars, zonesVars, udpVars, registryVars, devicesVars,
                    keepaliveVars, discoveryVars, focus>>
  \/ /\ focus = "bindings" /\ BindingsNext
     /\ UNCHANGED <<adapterRpcVars, healthVars, resilientVars, mediaVars, signalBusVars,
                    matterVars, triggerVars, occupancyVars, orderVars, entriesVars,
                    ackWorkerVars, zonesVars, udpVars, registryVars, devicesVars,
                    keepaliveVars, discoveryVars, focus>>
  \/ /\ focus = "order" /\ OrderNext
     /\ UNCHANGED <<adapterRpcVars, healthVars, resilientVars, mediaVars, signalBusVars,
                    matterVars, triggerVars, occupancyVars, bindingVars, entriesVars,
                    ackWorkerVars, zonesVars, udpVars, registryVars, devicesVars,
                    keepaliveVars, discoveryVars, focus>>
  \/ /\ focus = "entries" /\ EntriesNext
     /\ UNCHANGED <<adapterRpcVars, healthVars, resilientVars, mediaVars, signalBusVars,
                    matterVars, triggerVars, occupancyVars, bindingVars, orderVars,
                    ackWorkerVars, zonesVars, udpVars, registryVars, devicesVars,
                    keepaliveVars, discoveryVars, focus>>
  \/ /\ focus = "ack" /\ AckWorkerNext
     /\ UNCHANGED <<adapterRpcVars, healthVars, resilientVars, mediaVars, signalBusVars,
                    matterVars, triggerVars, occupancyVars, bindingVars, orderVars,
                    entriesVars, zonesVars, udpVars, registryVars, devicesVars,
                    keepaliveVars, discoveryVars, focus>>
  \/ /\ focus = "zones" /\ ZonesNext
     /\ UNCHANGED <<adapterRpcVars, healthVars, resilientVars, mediaVars, signalBusVars,
                    matterVars, triggerVars, occupancyVars, bindingVars, orderVars,
                    entriesVars, ackWorkerVars, udpVars, registryVars, devicesVars,
                    keepaliveVars, discoveryVars, focus>>
  \/ /\ focus = "udp" /\ UdpNext
     /\ UNCHANGED <<adapterRpcVars, healthVars, resilientVars, mediaVars, signalBusVars,
                    matterVars, triggerVars, occupancyVars, bindingVars, orderVars,
                    entriesVars, ackWorkerVars, zonesVars, registryVars, devicesVars,
                    keepaliveVars, discoveryVars, focus>>
  \/ /\ focus = "registry" /\ RegistryNext
     /\ UNCHANGED <<adapterRpcVars, healthVars, resilientVars, mediaVars, signalBusVars,
                    matterVars, triggerVars, occupancyVars, bindingVars, orderVars,
                    entriesVars, ackWorkerVars, zonesVars, udpVars, devicesVars,
                    keepaliveVars, discoveryVars, focus>>
  \/ /\ focus = "devices" /\ DevicesNext
     /\ UNCHANGED <<adapterRpcVars, healthVars, resilientVars, mediaVars, signalBusVars,
                    matterVars, triggerVars, occupancyVars, bindingVars, orderVars,
                    entriesVars, ackWorkerVars, zonesVars, udpVars, registryVars,
                    keepaliveVars, discoveryVars, focus>>
  \/ /\ focus = "keepalive" /\ KeepaliveNext
     /\ UNCHANGED <<adapterRpcVars, healthVars, resilientVars, mediaVars, signalBusVars,
                    matterVars, triggerVars, occupancyVars, bindingVars, orderVars,
                    entriesVars, ackWorkerVars, zonesVars, udpVars, registryVars,
                    devicesVars, discoveryVars, focus>>
  \/ /\ focus = "discovery" /\ DiscoveryNext
     /\ UNCHANGED <<adapterRpcVars, healthVars, resilientVars, mediaVars, signalBusVars,
                    matterVars, triggerVars, occupancyVars, bindingVars, orderVars,
                    entriesVars, ackWorkerVars, zonesVars, udpVars, registryVars,
                    devicesVars, keepaliveVars, focus>>

\* Time and threads go on.  Out of focus a component has nothing to do at its
\* start, but for those that are named with their focus here.
ServerFairness ==
  /\ AdapterRpcFairness /\ HealthFairness /\ ResilientFairness /\ MediaFairness
  /\ SignalBusFairness /\ TriggerFairness /\ AckWorkerFairness
  /\ WF_bindingVars(focus = "bindings" /\ ResolveBindings)
  /\ WF_matterVars(focus = "matter" /\ MatterThread)
  /\ WF_matterVars(CallReturns \/ CallTimesOut)
  /\ WF_occupancyVars(focus = "occupancy" /\ ASecondPasses)
  /\ WF_occupancyVars(PollSignals)
  /\ \A l \in Locks : WF_occupancyVars(focus = "occupancy" /\ ReportLock(l))
  /\ WF_zonesVars(focus = "zones" /\ RenderGroup) /\ WF_zonesVars(SendGroup)
  /\ \A h \in Introspectors :
       WF_zonesVars(QueryZones(h) \/ RebuildMap(h) \/ RebuildCount(h))
  /\ WF_keepaliveVars(focus = "keepalive" /\ KeepaliveThread)
  /\ WF_keepaliveVars(TimerThreads) /\ WF_keepaliveVars(HearMap)
  /\ WF_keepaliveVars(focus = "keepalive" /\ PublishFirstMap)
  /\ WF_discoveryVars(focus = "discovery" /\ Start) /\ WF_discoveryVars(PublishMap)
  /\ WF_discoveryVars(focus = "discovery" /\ HearPublished)
  /\ WF_discoveryVars(KeepaliveScan)
  /\ WF_discoveryVars(FinishRediscover)
  /\ \A t \in Thread : WF_discoveryVars(Load(t))

ServerSpec == ServerInit /\ [][ServerNext]_everything /\ ServerFairness

\* The types of all components' variables.
ServerTypeOK ==
  /\ AdapterRpcTypeOK /\ HealthTypeOK /\ ResilientTypeOK /\ MediaTypeOK
  /\ SignalBusTypeOK /\ MatterTypeOK /\ TriggerTypeOK /\ OccupancyTypeOK
  /\ BindingsTypeOK /\ OrderTypeOK /\ EntriesTypeOK /\ AckWorkerTypeOK /\ ZonesTypeOK
  /\ UdpTypeOK /\ RegistryTypeOK /\ DevicesTypeOK /\ KeepaliveTypeOK
  /\ DiscoveryTypeOK

\* What media brings about: a running source whose ffmpeg died gets another, and
\* once writes end all nodes of the signal bus hold the same.
MediaSettles == StreamRestored /\ NodesAgree

\* What adapters bring about: the proxy's health follows the adapter's process,
\* and the reported state of a Matter device the device's.
AdaptersSettle == HealthFollowsAdapter /\ StateFollowsDevice

\* What operators bring about: a trigger turns off what it turned on, the bus and
\* the database follow the locks, and values pass along chains of bindings.
OperatorsSettle == WatchdogTurnsOff /\ OccupancyFollowsLocks /\ ValuesSettle

\* What is shown in the end: a device's worker sends the last frame, and every
\* zone of a group shows its colour.
LastColoursShown == LastFrameSent /\ GroupShowsEffect

\* What is on the network is in the map, and what is in the map gets loaded.
BulbsFound == MapConverges /\ BacklogDrains
=============================================================================
