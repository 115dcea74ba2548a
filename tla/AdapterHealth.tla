---------------------------- MODULE AdapterHealth ----------------------------
(***************************************************************************)
(* How the server knows whether an out-of-process adapter lives: the status *)
(* and heartbeat ProcessAdapterBase publishes (adapters/process_base.py),   *)
(* retained, with a last will, and what AdapterProxy makes of them          *)
(* (infrastructure/adapter_proxy.py).                                       *)
(*                                                                         *)
(* A process has its own client id, so the will of an old connection may    *)
(* come at any time after a new one.  The server's client has a clean       *)
(* session and subscribes once, in AdapterProxy's constructor.              *)
(***************************************************************************)
EXTENDS Naturals, Sequences, SequencesExt

CONSTANT MaxHealthFaults  \* bound: crashes, stops, lost connections, restarts

ASSUME HealthAssumption == MaxHealthFaults \in Nat

Message == {"online", "offline", "beat"}

VARIABLES
  adapterProcess,      \* "down", "up", "stopping" (run() returned), "leaving"
  linked,       \* its client is connected
  beating,      \* _publish_heartbeat() is running
  wills,        \* connections whose will is still to be published
  retained,     \* the status the broker retains, or "none"
  retainedBeat, \* it retains a heartbeat
  channel,      \* messages on their way to the server
  subscribed,   \* the server's subscriptions hold
  online,       \* _online
  beatAge,      \* age of _last_heartbeat_ts: "never", "fresh" or "stale"
  healthFaults

processVars == <<adapterProcess, linked, beating>>
brokerVars == <<wills, retained, retainedBeat, channel>>
proxyHealth == <<online, beatAge>>
healthVars == <<processVars, brokerVars, subscribed, proxyHealth, healthFaults>>

HealthTypeOK ==
  /\ adapterProcess \in {"down", "up", "stopping", "leaving"}
  /\ {linked, beating, retainedBeat, subscribed, online} \subseteq BOOLEAN
  /\ wills \in 0..MaxHealthFaults
  /\ retained \in {"none", "online", "offline"}
  /\ channel \in Seq(Message)
  /\ beatAge \in {"never", "fresh", "stale"}
  /\ healthFaults \in 0..MaxHealthFaults

HealthInit ==
  /\ adapterProcess = "down" /\ linked = FALSE /\ beating = FALSE
  /\ wills = 0 /\ retained = "none" /\ retainedBeat = FALSE /\ channel = <<>>
  /\ subscribed = TRUE /\ online = FALSE /\ beatAge = "never"
  /\ healthFaults = 0

Reach(message) == channel' = IF subscribed THEN Append(channel, message) ELSE channel
PublishStatus(s) == retained' = s /\ Reach(s) /\ UNCHANGED retainedBeat
HealthFault == healthFaults < MaxHealthFaults /\ healthFaults' = healthFaults + 1

----------------------------------------------------------------------------
(* The adapter process                                                     *)

\* start(): connect, then "online".
StartProcess ==
  /\ adapterProcess = "down"
  /\ adapterProcess' = "up" /\ linked' = TRUE
  /\ PublishStatus("online")
  /\ UNCHANGED <<beating, wills, subscribed, proxyHealth, healthFaults>>

\* The timer's thread enters _publish_heartbeat().  One heartbeat at a time is
\* on its way: a bound.
BeginHeartbeat ==
  /\ adapterProcess = "up" /\ ~beating /\ ~Contains(channel, "beat")
  /\ beating' = TRUE
  /\ UNCHANGED <<adapterProcess, linked, brokerVars, subscribed, proxyHealth,
                 healthFaults>>

\* It publishes, even if the process has said "offline" meanwhile, and without
\* a connection in vain.
PublishHeartbeat ==
  /\ adapterProcess # "down" /\ beating
  /\ beating' = FALSE
  /\ IF linked THEN retainedBeat' = TRUE /\ Reach("beat")
     ELSE UNCHANGED <<retainedBeat, channel>>
  /\ UNCHANGED <<adapterProcess, linked, wills, retained, subscribed, proxyHealth,
                 healthFaults>>

\* run() returns, or raises: _shutdown() begins.
StopProcess ==
  /\ HealthFault /\ adapterProcess = "up"
  /\ adapterProcess' = "stopping"
  /\ UNCHANGED <<linked, beating, brokerVars, subscribed, proxyHealth>>

SayOffline ==
  /\ adapterProcess = "stopping"
  /\ adapterProcess' = "leaving"
  /\ IF linked THEN PublishStatus("offline")
     ELSE UNCHANGED <<retained, retainedBeat, channel>>
  /\ UNCHANGED <<linked, beating, wills, subscribed, proxyHealth, healthFaults>>

LeaveBroker ==
  /\ adapterProcess = "leaving"
  /\ adapterProcess' = "down" /\ linked' = FALSE /\ beating' = FALSE
  /\ UNCHANGED <<brokerVars, subscribed, proxyHealth, healthFaults>>

\* paho connects again; nothing says "online" a second time.
RelinkProcess ==
  /\ adapterProcess \in {"up", "stopping"} /\ ~linked
  /\ linked' = TRUE
  /\ UNCHANGED <<adapterProcess, beating, brokerVars, subscribed, proxyHealth,
                 healthFaults>>

----------------------------------------------------------------------------
(* Faults and the broker                                                   *)

CrashProcess ==
  /\ HealthFault /\ adapterProcess # "down"
  /\ adapterProcess' = "down" /\ linked' = FALSE /\ beating' = FALSE
  /\ wills' = IF linked THEN wills + 1 ELSE wills
  /\ UNCHANGED <<retained, retainedBeat, channel, subscribed, proxyHealth>>

LoseLink ==
  /\ HealthFault /\ linked
  /\ linked' = FALSE /\ wills' = wills + 1
  /\ UNCHANGED <<adapterProcess, beating, retained, retainedBeat, channel, subscribed,
                 proxyHealth>>

PublishOldWill ==
  /\ wills > 0
  /\ wills' = wills - 1 /\ PublishStatus("offline")
  /\ UNCHANGED <<processVars, subscribed, proxyHealth, healthFaults>>

\* The server's client reconnects: its subscriptions are gone.
DeafenServer ==
  /\ HealthFault
  /\ subscribed' = FALSE /\ channel' = <<>>
  /\ UNCHANGED <<processVars, wills, retained, retainedBeat, proxyHealth>>

\* The server starts again.  It subscribes before it registers the callbacks:
\* of the retained messages, in either order, some may be missed.
RetainedMessages ==
  (IF retained = "none" THEN {} ELSE {retained}) \union (IF retainedBeat THEN {"beat"} ELSE {})

RestartServer ==
  /\ HealthFault
  /\ subscribed' = TRUE /\ online' = FALSE /\ beatAge' = "never"
  /\ channel' \in UNION {SetToSeqs(heard) : heard \in SUBSET RetainedMessages}
  /\ UNCHANGED <<processVars, wills, retained, retainedBeat>>

----------------------------------------------------------------------------
(* AdapterProxy                                                            *)

OnStatus ==
  /\ channel # <<>> /\ Head(channel) # "beat"
  /\ online' = (Head(channel) = "online") /\ beatAge' = beatAge

\* Mutant of OnHeartbeat: the status topic alone says who is online.
OnHeartbeatAge ==
  /\ channel # <<>> /\ Head(channel) = "beat"
  /\ online' = online /\ beatAge' = "fresh"

\* A heartbeat implies online.
OnHeartbeat ==
  /\ channel # <<>> /\ Head(channel) = "beat"
  /\ online' = TRUE /\ beatAge' = "fresh"

HearAdapter ==
  /\ OnStatus \/ OnHeartbeat
  /\ channel' = Tail(channel)
  /\ UNCHANGED <<processVars, wills, retained, retainedBeat, subscribed, healthFaults>>

\* HEARTBEAT_STALE_S passes.
BecomeStale ==
  /\ beatAge = "fresh"
  /\ beatAge' = "stale"
  /\ UNCHANGED <<processVars, brokerVars, subscribed, online, healthFaults>>

\* Mutant of is_alive: the last status and heartbeat decide, however old.
SaidOnline == online

is_alive == online /\ beatAge = "fresh"

----------------------------------------------------------------------------
Heartbeat == BeginHeartbeat \/ PublishHeartbeat
Leaving == SayOffline \/ LeaveBroker

HealthNext ==
  \/ StartProcess \/ Heartbeat \/ StopProcess \/ Leaving \/ RelinkProcess
  \/ CrashProcess \/ LoseLink \/ PublishOldWill
  \/ DeafenServer \/ RestartServer
  \/ HearAdapter \/ BecomeStale

\* Timers fire, shutdown and reconnects go on, the broker delivers, time
\* passes.  Nothing starts a process that is down.
HealthFairness ==
  /\ WF_healthVars(Heartbeat) /\ WF_healthVars(Leaving)
  /\ WF_healthVars(RelinkProcess) /\ WF_healthVars(PublishOldWill)
  /\ WF_healthVars(HearAdapter) /\ WF_healthVars(BecomeStale)

HealthSpec == HealthInit /\ [][HealthNext]_healthVars /\ HealthFairness

----------------------------------------------------------------------------
(* Properties                                                              *)

\* Once faults are over: an adapter that is down ends up reported as such,
\* whatever the order of its last words and even if the server heard none of
\* them; one that runs and is connected is found alive again and again, although
\* nothing repeats "online" after the will of a lost connection: unless the
\* server's client itself has reconnected.
HealthFollowsAdapter ==
  /\ <>[](adapterProcess = "down" => ~is_alive)
  /\ []<>(adapterProcess = "up" /\ linked /\ subscribed => is_alive)
=============================================================================
