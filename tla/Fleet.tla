------------------------------- MODULE Fleet -------------------------------
(***************************************************************************)
(* The distributed compute fleet: the orchestrator                         *)
(* (distributed/orchestrator.py) that shares the MQTT bridge's client, the *)
(* REST handler threads that call it (handlers/distributed.py), the broker *)
(* between them, and the worker agents (distributed/worker_agent.py).      *)
(*                                                                         *)
(* An assignment id is an operator name and a second, since the handler    *)
(* builds it from int(time()).  A call is split where the orchestrator     *)
(* gives its lock up.  Publishing with QoS 1 while the bridge's connection *)
(* is down queues the message, and what the broker did not acknowledge is  *)
(* sent again after a reconnect: commands are kept in one log, of which a  *)
(* prefix has been sent.  Every session is clean: the broker forgets a     *)
(* client's subscriptions and queue when its connection ends.              *)
(***************************************************************************)
EXTENDS Naturals, Sequences, FiniteSets, SequencesExt

CONSTANTS
  Nodes, Callers,
  Operators, Known,   \* operator names clients post; those _create_operator has
  MaxAssignments,     \* MAX_ASSIGNMENTS_PER_NODE
  MaxSecond,          \* bound: seconds of wall-clock time
  MaxCalls,           \* bound: API calls in a behaviour
  MaxFaults,          \* bound: crashes, shutdowns, lost connections and operators that
                      \* cannot be started
  None

Second == 1..MaxSecond
Id == Operators \X Second
Call == [node : Nodes, id : Id, pc : {"check", "publish", "track", "stop", "untrack"}]
Command == [node : Nodes, id : Id, action : {"start", "stop"}]

ASSUME FleetAssumption ==
  /\ IsFiniteSet(Nodes) /\ IsFiniteSet(Callers) /\ Known \subseteq Operators
  /\ {MaxAssignments, MaxSecond} \subseteq Nat \ {0} /\ {MaxCalls, MaxFaults} \subseteq Nat
  /\ None \notin Id \union Call

VARIABLES
  fleet,       \* _fleet: what the orchestrator knows of each node
  orchestrator,\* "new", "subscribed" (start() half way) or "listening"
  call,        \* API threads: the call in progress, or None
  answered,    \* assignments a client was told of: <<node, id>>
  now, calls, faults,
  bridge,      \* the bridge's client is connected
  subscribed,  \* its session holds the orchestrator's subscriptions
  log,         \* assignment messages published, in order
  sent,        \* how many of them the client has sent in this session
  acked,       \* how many are sure to be acknowledged
  toServer,    \* broker to bridge: capability and status messages
  retained,    \* retained capability and status of each node
  session,     \* the broker's view of a node's connection
  orphan,      \* the process's connection died and the broker has not noticed
  ghosts,      \* connections of dead processes the broker has not noticed
  uplink,      \* node to broker
  downlink,    \* broker to node: positions in log
  agent,       \* main thread of the agent: "off", "up", "sweeping", "leaving"
  sweep,       \* the snapshot of ids _shutdown() is stopping
  wiring,      \* id whose operator the network thread is building, or None
  operators,   \* _operators
  handles,     \* transports open per id
  disturbed,   \* history: nodes that lost a connection, missed a message or failed
               \* to start an operator
  late         \* history: calls that had found a node online when it went offline

serverVars == <<fleet, orchestrator, call, answered, now, calls>>
bridgeVars == <<bridge, subscribed, log, sent, acked>>
brokerVars == <<toServer, retained, session, orphan, ghosts, uplink, downlink>>
agentVars == <<agent, sweep, wiring, operators, handles>>
vars == <<serverVars, bridgeVars, brokerVars, agentVars, faults, disturbed, late>>

Unknown == [known |-> FALSE, online |-> FALSE, assignments |-> <<>>]
Fact == [node : Nodes, topic : {"capability", "status"}, online : BOOLEAN]

OrchestratorTypes ==
  /\ fleet \in [Nodes -> [known : BOOLEAN, online : BOOLEAN, assignments : Seq(Id)]]
  /\ orchestrator \in {"new", "subscribed", "listening"}
  /\ call \in [Callers -> Call \union {None}]
  /\ answered \subseteq Nodes \X Id
  /\ now \in Second /\ calls \in 0..MaxCalls
  /\ late \in [Nodes -> 0..Cardinality(Callers)]

ClientTypes ==
  /\ bridge \in BOOLEAN /\ subscribed \in BOOLEAN /\ (subscribed => bridge)
  /\ log \in Seq(Command) /\ sent \in 0..Len(log) /\ acked \in 0..sent

BrokerTypes ==
  /\ toServer \in Seq(Fact)
  /\ retained \in [Nodes -> [capability : BOOLEAN, status : {"none", "online", "offline"}]]
  /\ session \in [Nodes -> {"none", "open", "subscribed"}]
  /\ orphan \in [Nodes -> BOOLEAN] /\ ghosts \in [Nodes -> Nat]
  /\ uplink \in [Nodes -> Seq({"online", "capability", "subscribe", "offline", "bye"})]
  /\ downlink \in [Nodes -> Seq(1..Len(log))]

AgentTypes ==
  /\ agent \in [Nodes -> {"off", "up", "sweeping", "leaving"}]
  /\ sweep \in [Nodes -> SUBSET Id]
  /\ wiring \in [Nodes -> Id \union {None}]
  /\ operators \in [Nodes -> SUBSET Id]
  /\ handles \in [Nodes -> [Id -> Nat]]
  /\ faults \in 0..MaxFaults /\ disturbed \subseteq Nodes

TypeOK == OrchestratorTypes /\ ClientTypes /\ BrokerTypes /\ AgentTypes

Closed == [id \in Id |-> 0]

Init ==
  /\ fleet = [n \in Nodes |-> Unknown] /\ orchestrator = "new"
  /\ call = [c \in Callers |-> None] /\ answered = {}
  /\ now = 1 /\ calls = 0 /\ faults = 0
  /\ bridge = TRUE /\ subscribed = FALSE
  /\ log = <<>> /\ sent = 0 /\ acked = 0
  /\ toServer = <<>>
  /\ retained = [n \in Nodes |-> [capability |-> FALSE, status |-> "none"]]
  /\ session = [n \in Nodes |-> "none"]
  /\ orphan = [n \in Nodes |-> FALSE] /\ ghosts = [n \in Nodes |-> 0]
  /\ uplink = [n \in Nodes |-> <<>>] /\ downlink = [n \in Nodes |-> <<>>]
  /\ agent = [n \in Nodes |-> "off"] /\ sweep = [n \in Nodes |-> {}]
  /\ wiring = [n \in Nodes |-> None] /\ operators = [n \in Nodes |-> {}]
  /\ handles = [n \in Nodes |-> Closed] /\ disturbed = {}
  /\ late = [n \in Nodes |-> 0]

-----------------------------------------------------------------------------
(* The orchestrator's MQTT side.                                           *)

Capability(n) == [node |-> n, topic |-> "capability", online |-> TRUE]
Status(n, up) == [node |-> n, topic |-> "status", online |-> up]

\* Mutant: start() subscribes to the status topics first.
StatusFirst(ns) ==
  LET has == SetToSeq({n \in ns : retained[n].capability})
      said == SetToSeq({n \in ns : retained[n].status # "none"})
  IN [i \in DOMAIN said |-> Status(said[i], retained[said[i]].status = "online")]
     \o [i \in DOMAIN has |-> Capability(has[i])]

\* The retained messages a new subscription is served, capability topics
\* first because start() subscribes to them first.
RetainedFacts(ns) ==
  LET has == SetToSeq({n \in ns : retained[n].capability})
      said == SetToSeq({n \in ns : retained[n].status # "none"})
  IN [i \in DOMAIN has |-> Capability(has[i])]
     \o [i \in DOMAIN said |-> Status(said[i], retained[said[i]].status = "online")]

\* start(): the subscriptions.
StartSubscribe ==
  /\ orchestrator = "new"
  /\ orchestrator' = "subscribed"
  /\ subscribed' = bridge
  /\ toServer' = IF bridge THEN RetainedFacts(Nodes) ELSE toServer
  /\ UNCHANGED <<fleet, call, answered, now, calls, bridge, log, sent, acked, retained,
                 session, orphan, ghosts, uplink, downlink, agentVars, faults,
                 disturbed, late>>

\* start(): the callbacks; the API is given the orchestrator.
StartListen ==
  /\ orchestrator = "subscribed" /\ orchestrator' = "listening"
  /\ UNCHANGED <<fleet, call, answered, now, calls, bridgeVars, brokerVars, agentVars,
                 faults, disturbed, late>>

\* _on_capability_msg: a node heard of for the first time is online.
HearCapability(n) ==
  IF fleet[n].known THEN fleet
  ELSE [fleet EXCEPT ![n] = [known |-> TRUE, online |-> TRUE, assignments |-> <<>>]]

\* Mutant: the list of a node that went offline is kept.
HearStatusKeeps(n, up) ==
  IF fleet[n].known THEN [fleet EXCEPT ![n].online = up] ELSE fleet

\* _on_status_msg: of a node not heard of the status is ignored.
HearStatus(n, up) ==
  IF fleet[n].known
  THEN [fleet EXCEPT ![n].online = up,
                     ![n].assignments = IF up THEN @ ELSE <<>>]
  ELSE fleet

\* Call c has found node n online and is yet to track its assignment.
PastCheck(c, n) == call[c] # None /\ call[c].node = n /\ call[c].pc \in {"publish", "track"}

\* The bridge's network thread; before the callbacks are there a message goes
\* to the bridge's own handler, which ignores its topic.
Hear ==
  /\ bridge /\ toServer # <<>> /\ toServer' = Tail(toServer)
  /\ LET m == Head(toServer) IN
     fleet' = IF orchestrator # "listening" THEN fleet
              ELSE IF m.topic = "capability" THEN HearCapability(m.node)
              ELSE HearStatus(m.node, m.online)
  /\ LET m == Head(toServer) IN
     late' = IF orchestrator = "listening" /\ m.topic = "status" /\ ~m.online
             THEN [late EXCEPT ![m.node] = Cardinality({c \in Callers : PastCheck(c, m.node)})]
             ELSE late
  /\ UNCHANGED <<orchestrator, call, answered, now, calls, bridgeVars, retained,
                 session, orphan, ghosts, uplink, downlink, agentVars, faults,
                 disturbed>>

\* The broker ends the bridge's session: subscriptions and queue are gone.
BridgeDrop ==
  /\ bridge /\ faults < MaxFaults /\ faults' = faults + 1
  /\ bridge' = FALSE /\ subscribed' = FALSE /\ toServer' = <<>>
  /\ UNCHANGED <<serverVars, log, sent, acked, retained, session, orphan, ghosts,
                 uplink, downlink, agentVars, disturbed, late>>

\* paho reconnects and sends what was not acknowledged; the bridge subscribes
\* to its own topics again, and nobody to the orchestrator's.
BridgeReconnect ==
  /\ ~bridge /\ bridge' = TRUE
  /\ \E k \in acked..sent : sent' = k /\ acked' = k
  /\ UNCHANGED <<serverVars, subscribed, log, brokerVars, agentVars, faults, disturbed,
                 late>>

-----------------------------------------------------------------------------
(* The REST handlers and the orchestrator's calls.                         *)

Request(c, n, id, pc) ==
  /\ call[c] = None /\ calls < MaxCalls /\ orchestrator = "listening"
  /\ call' = [call EXCEPT ![c] = [node |-> n, id |-> id, pc |-> pc]]
  /\ calls' = calls + 1
  /\ UNCHANGED <<fleet, orchestrator, answered, bridgeVars, brokerVars, agentVars,
                 faults, disturbed, late>>

\* Time passes between requests; two in one second share their id.
PostAssign(c) ==
  \E n \in Nodes, op \in Operators, second \in now..MaxSecond :
    Request(c, n, <<op, second>>, "check") /\ now' = second
PostCancel(c) == \E a \in answered : Request(c, a[1], a[2], "stop") /\ UNCHANGED now

At(c, pc) == call[c] # None /\ call[c].pc = pc
Goto(c, pc) == call' = [call EXCEPT ![c].pc = pc]
Return(c) == call' = [call EXCEPT ![c] = None]

\* Mutant: the limit is not tested.
AssignCheckUnlimited(c) ==
  /\ At(c, "check")
  /\ LET node == fleet[call[c].node] IN
     IF node.known /\ node.online THEN Goto(c, "publish") ELSE Return(c)
  /\ UNCHANGED <<fleet, orchestrator, answered, now, calls, bridgeVars, brokerVars,
                 agentVars, faults, disturbed, late>>

\* assign_work up to the first release of the lock.
AssignCheck(c) ==
  /\ At(c, "check")
  /\ LET node == fleet[call[c].node] IN
     IF node.known /\ node.online /\ Len(node.assignments) < MaxAssignments
     THEN Goto(c, "publish") ELSE Return(c)
  /\ UNCHANGED <<fleet, orchestrator, answered, now, calls, bridgeVars, brokerVars,
                 agentVars, faults, disturbed, late>>

Publish(c, action, next) ==
  /\ log' = Append(log, [node |-> call[c].node, id |-> call[c].id, action |-> action])
  /\ Goto(c, next)
  /\ UNCHANGED <<fleet, orchestrator, answered, now, calls, bridge, subscribed, sent,
                 acked, brokerVars, agentVars, faults, disturbed, late>>

AssignPublish(c) == At(c, "publish") /\ Publish(c, "start", "track")

\* publish() raises, in either call: the caller is told so, and nothing was tracked or
\* untracked.
PublishFails(c) ==
  /\ At(c, "publish") \/ At(c, "stop")
  /\ Return(c)
  /\ UNCHANGED <<fleet, orchestrator, answered, now, calls, bridgeVars, brokerVars,
                 agentVars, faults, disturbed, late>>

\* The second critical section: it looks at nothing but the node's presence.
AssignTrack(c) ==
  /\ At(c, "track")
  /\ fleet' = [fleet EXCEPT ![call[c].node].assignments = Append(@, call[c].id)]
  /\ answered' = answered \union {<<call[c].node, call[c].id>>}
  /\ Return(c)
  /\ UNCHANGED <<orchestrator, now, calls, bridgeVars, brokerVars, agentVars, faults,
                 disturbed, late>>

\* Mutant: a cancelled assignment is only struck off the books.
CancelPublishNothing(c) ==
  /\ At(c, "stop") /\ Goto(c, "untrack")
  /\ UNCHANGED <<fleet, orchestrator, answered, now, calls, bridgeVars, brokerVars,
                 agentVars, faults, disturbed, late>>

CancelPublish(c) == At(c, "stop") /\ Publish(c, "stop", "untrack")

CancelUntrack(c) ==
  /\ At(c, "untrack")
  /\ fleet' = [fleet EXCEPT ![call[c].node].assignments =
                  RemoveFirst(@, call[c].id)]
  /\ Return(c)
  /\ UNCHANGED <<orchestrator, answered, now, calls, bridgeVars, brokerVars, agentVars,
                 faults, disturbed, late>>

-----------------------------------------------------------------------------
(* The broker.                                                             *)

\* What the bridge's session is sent.
Notify(facts) == toServer' = IF subscribed THEN toServer \o facts ELSE toServer

\* The next assignment message: delivered to the node's session if that has
\* subscribed to its topic, else gone, since it is not retained.
Deliver ==
  /\ bridge /\ sent < Len(log) /\ sent' = sent + 1
  /\ LET n == log[sent + 1].node IN
     IF session[n] = "subscribed"
     THEN downlink' = [downlink EXCEPT ![n] = Append(@, sent + 1)] /\ UNCHANGED disturbed
     ELSE disturbed' = disturbed \union {n} /\ UNCHANGED downlink
  /\ UNCHANGED <<serverVars, bridge, subscribed, log, acked, toServer, retained,
                 session, orphan, ghosts, uplink, agentVars, faults, late>>

\* A packet of node n arrives.
Receive(n) ==
  /\ session[n] # "none" /\ uplink[n] # <<>>
  /\ uplink' = [uplink EXCEPT ![n] = Tail(@)]
  /\ LET packet == Head(uplink[n]) IN
     /\ retained' = CASE packet = "capability" -> [retained EXCEPT ![n].capability = TRUE]
                      [] packet \in {"online", "offline"} -> [retained EXCEPT ![n].status = packet]
                      [] OTHER -> retained
     /\ Notify(CASE packet = "capability" -> <<Capability(n)>>
                 [] packet \in {"online", "offline"} -> <<Status(n, packet = "online")>>
                 [] OTHER -> <<>>)
     /\ session' = [session EXCEPT ![n] = CASE packet = "subscribe" -> "subscribed"
                                            [] packet = "bye" -> "none"
                                            [] OTHER -> @]
     /\ downlink' = [downlink EXCEPT ![n] = IF packet = "bye" THEN <<>> ELSE @]
  /\ UNCHANGED <<serverVars, bridgeVars, orphan, ghosts, agentVars, faults, disturbed,
                 late>>

\* The keepalive of a dead connection runs out: its last will is published.
PublishWill(n) ==
  /\ orphan[n] \/ ghosts[n] > 0
  /\ IF ghosts[n] > 0
     THEN ghosts' = [ghosts EXCEPT ![n] = @ - 1] /\ UNCHANGED orphan
     ELSE orphan' = [orphan EXCEPT ![n] = FALSE] /\ UNCHANGED ghosts
  /\ retained' = [retained EXCEPT ![n].status = "offline"]
  /\ Notify(<<Status(n, FALSE)>>)
  /\ UNCHANGED <<serverVars, bridgeVars, session, uplink, downlink, agentVars, faults,
                 disturbed, late>>

-----------------------------------------------------------------------------
(* The worker agent.                                                       *)

\* run(): a new process, with a client id of its own.
AgentStart(n) ==
  /\ agent[n] = "off" /\ session[n] = "none"
  /\ agent' = [agent EXCEPT ![n] = "up"]
  /\ UNCHANGED <<serverVars, bridgeVars, brokerVars, sweep, wiring, operators, handles,
                 faults, disturbed, late>>

\* Connected: _on_connect publishes and subscribes.  A connection of the same
\* client id that the broker still believes in is ended first, with its will.
AgentConnect(n) ==
  /\ agent[n] \in {"up", "sweeping"} /\ session[n] = "none"
  /\ session' = [session EXCEPT ![n] = "open"]
  /\ uplink' = [uplink EXCEPT ![n] = <<"online", "capability", "subscribe">>]
  /\ orphan' = [orphan EXCEPT ![n] = FALSE]
  /\ IF orphan[n]
     THEN /\ retained' = [retained EXCEPT ![n].status = "offline"]
          /\ Notify(<<Status(n, FALSE)>>)
     ELSE UNCHANGED <<retained, toServer>>
  /\ UNCHANGED <<serverVars, bridgeVars, ghosts, downlink, agentVars, faults, disturbed,
                 late>>

\* The connection dies; operators keep running (_on_disconnect only logs).
LinkLost(n) ==
  /\ session[n] # "none" /\ agent[n] # "off" /\ faults < MaxFaults /\ faults' = faults + 1
  /\ session' = [session EXCEPT ![n] = "none"] /\ orphan' = [orphan EXCEPT ![n] = TRUE]
  /\ uplink' = [uplink EXCEPT ![n] = <<>>] /\ downlink' = [downlink EXCEPT ![n] = <<>>]
  /\ disturbed' = disturbed \union {n}
  /\ UNCHANGED <<serverVars, bridgeVars, toServer, retained, ghosts, agentVars, late>>

Gone(n) ==
  /\ agent' = [agent EXCEPT ![n] = "off"] /\ sweep' = [sweep EXCEPT ![n] = {}]
  /\ wiring' = [wiring EXCEPT ![n] = None] /\ operators' = [operators EXCEPT ![n] = {}]
  /\ handles' = [handles EXCEPT ![n] = Closed]

\* The process or its host dies.
AgentCrash(n) ==
  /\ agent[n] # "off" /\ faults < MaxFaults /\ faults' = faults + 1
  /\ Gone(n)
  /\ ghosts' = [ghosts EXCEPT ![n] = @ + (IF orphan[n] \/ session[n] # "none" THEN 1 ELSE 0)]
  /\ orphan' = [orphan EXCEPT ![n] = FALSE] /\ session' = [session EXCEPT ![n] = "none"]
  /\ uplink' = [uplink EXCEPT ![n] = <<>>] /\ downlink' = [downlink EXCEPT ![n] = <<>>]
  /\ disturbed' = disturbed \union {n}
  /\ UNCHANGED <<serverVars, bridgeVars, toServer, retained, late>>

\* The next assignment message of node n, on the agent's network thread.
Incoming(n) == log[Head(downlink[n])]
Take(n) ==
  /\ agent[n] # "off" /\ wiring[n] = None /\ downlink[n] # <<>>
  /\ downlink' = [downlink EXCEPT ![n] = Tail(@)]
  /\ UNCHANGED <<serverVars, bridgeVars, toServer, retained, session, orphan, ghosts,
                 uplink, agent, sweep, faults, disturbed, late>>

\* Mutant: an id that runs already is started again.
TakeStartAgain(n) ==
  /\ Take(n) /\ Incoming(n).action = "start"
  /\ LET id == Incoming(n).id IN
     IF id[1] \in Known
     THEN /\ wiring' = [wiring EXCEPT ![n] = id]
          /\ handles' = [handles EXCEPT ![n][id] = @ + 1]
     ELSE UNCHANGED <<wiring, handles>>
  /\ UNCHANGED operators

\* _start_operator up to the wiring: not twice, and only what it can create.
TakeStart(n) ==
  /\ Take(n) /\ Incoming(n).action = "start"
  /\ LET id == Incoming(n).id IN
     IF id \notin operators[n] /\ id[1] \in Known
     THEN /\ wiring' = [wiring EXCEPT ![n] = id]
          /\ handles' = [handles EXCEPT ![n][id] = @ + 1]
     ELSE UNCHANGED <<wiring, handles>>
  /\ UNCHANGED operators

\* Mutant: the transports are closed whether or not the entry was there.
TakeStopBlind(n) ==
  /\ Take(n) /\ Incoming(n).action = "stop"
  /\ operators' = [operators EXCEPT ![n] = @ \ {Incoming(n).id}]
  /\ handles' = [handles EXCEPT ![n][Incoming(n).id] = @ - 1]
  /\ UNCHANGED wiring

\* _stop_assignment: the entry is popped and its transports are closed.
TakeStop(n) ==
  /\ Take(n) /\ Incoming(n).action = "stop"
  /\ LET id == Incoming(n).id IN
     /\ operators' = [operators EXCEPT ![n] = @ \ {id}]
     /\ handles' = [handles EXCEPT ![n][id] = IF id \in operators[n] THEN @ - 1 ELSE @]
  /\ UNCHANGED wiring

\* _start_operator: the operator is entered in the table.
Started(n) ==
  /\ wiring[n] # None
  /\ operators' = [operators EXCEPT ![n] = @ \union {wiring[n]}]
  /\ wiring' = [wiring EXCEPT ![n] = None]
  /\ UNCHANGED <<serverVars, bridgeVars, brokerVars, agent, sweep, handles, faults,
                 disturbed, late>>

\* _start_operator: an input or output cannot be set up; what was opened is closed.
StartFails(n) ==
  /\ wiring[n] # None /\ faults < MaxFaults /\ faults' = faults + 1
  /\ handles' = [handles EXCEPT ![n][wiring[n]] = @ - 1]
  /\ wiring' = [wiring EXCEPT ![n] = None]
  /\ disturbed' = disturbed \union {n}
  /\ UNCHANGED <<serverVars, bridgeVars, brokerVars, agent, sweep, operators, late>>

\* stop(): _shutdown begins with a snapshot of the ids.
ShutdownBegin(n) ==
  /\ agent[n] = "up" /\ faults < MaxFaults /\ faults' = faults + 1
  /\ agent' = [agent EXCEPT ![n] = "sweeping"]
  /\ sweep' = [sweep EXCEPT ![n] = operators[n]]
  /\ disturbed' = disturbed \union {n}
  /\ UNCHANGED <<serverVars, bridgeVars, brokerVars, wiring, operators, handles, late>>

ShutdownStop(n) ==
  /\ agent[n] = "sweeping"
  /\ \E id \in sweep[n] :
       /\ sweep' = [sweep EXCEPT ![n] = @ \ {id}]
       /\ operators' = [operators EXCEPT ![n] = @ \ {id}]
       /\ handles' = [handles EXCEPT ![n][id] = IF id \in operators[n] THEN @ - 1 ELSE @]
  /\ UNCHANGED <<serverVars, bridgeVars, brokerVars, agent, wiring, faults, disturbed,
                 late>>

\* Mutant of ShutdownPublish: the offline status is left to the last will, which
\* a clean disconnect suppresses.
ShutdownSilent(n) ==
  /\ agent[n] = "sweeping" /\ sweep[n] = {}
  /\ agent' = [agent EXCEPT ![n] = "leaving"]
  /\ UNCHANGED <<serverVars, bridgeVars, brokerVars, sweep, wiring, operators, handles,
                 faults, disturbed, late>>

\* The offline status is published and the network thread told to end.
ShutdownPublish(n) ==
  /\ agent[n] = "sweeping" /\ sweep[n] = {}
  /\ agent' = [agent EXCEPT ![n] = "leaving"]
  /\ uplink' = [uplink EXCEPT ![n] = IF session[n] = "none" THEN @ ELSE Append(@, "offline")]
  /\ UNCHANGED <<serverVars, bridgeVars, toServer, retained, session, orphan, ghosts,
                 downlink, sweep, wiring, operators, handles, faults, disturbed, late>>

\* loop_stop() has joined the network thread: disconnect and exit.
ShutdownExit(n) ==
  /\ agent[n] = "leaving" /\ wiring[n] = None
  /\ Gone(n)
  /\ uplink' = [uplink EXCEPT ![n] = IF session[n] = "none" THEN @ ELSE Append(@, "bye")]
  /\ ghosts' = [ghosts EXCEPT ![n] = @ + (IF orphan[n] THEN 1 ELSE 0)]
  /\ orphan' = [orphan EXCEPT ![n] = FALSE]
  /\ UNCHANGED <<serverVars, bridgeVars, toServer, retained, session, downlink, faults,
                 disturbed, late>>

-----------------------------------------------------------------------------
Caller(c) ==
  \/ PostAssign(c) \/ AssignCheck(c) \/ AssignPublish(c) \/ AssignTrack(c)
  \/ PostCancel(c) \/ CancelPublish(c) \/ CancelUntrack(c)
  \/ PublishFails(c)

Agent(n) ==
  \/ AgentStart(n) \/ AgentConnect(n) \/ LinkLost(n) \/ AgentCrash(n)
  \/ TakeStart(n) \/ TakeStop(n) \/ Started(n) \/ StartFails(n)
  \/ ShutdownBegin(n) \/ ShutdownStop(n) \/ ShutdownPublish(n) \/ ShutdownExit(n)

Next ==
  \/ StartSubscribe \/ StartListen \/ Hear \/ BridgeDrop \/ BridgeReconnect
  \/ \E c \in Callers : Caller(c)
  \/ Deliver
  \/ \E n \in Nodes : Receive(n) \/ PublishWill(n) \/ Agent(n)

Spec == Init /\ [][Next]_vars

\* The broker and the network threads run; a dead connection is noticed.
Fairness ==
  /\ WF_vars(StartSubscribe) /\ WF_vars(StartListen) /\ WF_vars(Hear)
  /\ \A n \in Nodes :
       /\ WF_vars(Receive(n)) /\ WF_vars(PublishWill(n))
       /\ WF_vars(ShutdownStop(n)) /\ WF_vars(ShutdownPublish(n)) /\ WF_vars(ShutdownExit(n))
       /\ WF_vars(Started(n))

FairSpec == Spec /\ Fairness

-----------------------------------------------------------------------------
(* Properties.                                                             *)

\* The limit of a node is exceeded by no more than the calls that passed its
\* check at the same time: assign_work tests it and appends in two critical
\* sections.
CapacityBound ==
  \A n \in Nodes : Len(fleet[n].assignments) < MaxAssignments + Cardinality(Callers)

\* A node that went offline is left with nothing on the books but what calls
\* that had found it online tracked after its list was cleared.
OfflineBacklog ==
  \A n \in Nodes : fleet[n].online \/ Len(fleet[n].assignments) <= late[n]

\* Concurrent calls and a node that goes offline leave a bounded excess on the books.
BooksBounded == CapacityBound /\ OfflineBacklog

\* Whatever the order of starts, stops, redeliveries and the shutdown sweep,
\* an open transport belongs to the operator in the table or in the making:
\* none is left open by a second start of an id, and none closed twice.
TransportsOwned ==
  \A n \in Nodes, id \in Id :
     handles[n][id] = (IF id \in operators[n] THEN 1 ELSE 0) + (IF wiring[n] = id THEN 1 ELSE 0)

IssuedOnce(n, id) ==
  Cardinality({i \in DOMAIN log : log[i] = [node |-> n, id |-> id, action |-> "start"]}) = 1
Quiet(n) ==
  /\ \A c \in Callers : call[c] = None
  /\ \A i \in sent + 1..Len(log) : log[i].node # n
  /\ downlink[n] = <<>> /\ wiring[n] = None

\* On a node that kept its connection and started what it could create, once no call
\* and no message is under way, the fleet's books and the node agree on every
\* assignment whose id was given out once, even if a publish failed, or the bridge
\* lost its connection and sent commands twice: a start and its stop are never applied
\* in the wrong order.  (An operator the node cannot create or start stays on the books.)
BooksMatchNode ==
  \A n \in Nodes \ disturbed, id \in Known \X Second :
     Quiet(n) /\ IssuedOnce(n, id)
     => ((\E i \in DOMAIN fleet[n].assignments : fleet[n].assignments[i] = id)
         <=> id \in operators[n])

\* When the broker has dealt with all a node sent and with its dead
\* connections, a node that does not run is retained as offline, whether it
\* crashed, lost its network first, or was stopped.
DeadNodeSaysOffline ==
  \A n \in Nodes :
     agent[n] = "off" /\ session[n] = "none" /\ ~orphan[n] /\ ghosts[n] = 0
     => retained[n].status # "online"

\* A node that is down is shown offline, or comes back, as long as the
\* orchestrator's subscriptions last.
DeadNodeNoticed ==
  \A n \in Nodes :
    agent[n] = "off" ~> \/ ~fleet[n].online \/ agent[n] # "off"
                       \/ (orchestrator = "listening" /\ ~subscribed)
=============================================================================
