---------------------------- MODULE FleetProofs ----------------------------
(***************************************************************************)
(* Theorems about Fleet for every finite set of nodes and API threads, any *)
(* operators, any limit of assignments, and any number of calls, faults and *)
(* seconds.                                                                *)
(***************************************************************************)
EXTENDS Fleet, FiniteSetTheorems, SequenceTheorems, TLAPS

-----------------------------------------------------------------------------
(* Sequences and sets.                                                     *)

\* A set of natural numbers has a least element.
LEMMA LeastExists ==
  ASSUME NEW I, I \subseteq Nat, I # {}
  PROVE  Min(I) \in I /\ \A j \in I : Min(I) <= j
<1>1. PICK x \in I : \A y \in I : ~(<<y, x>> \in OpToRel(<, Nat))
  BY NatLessThanWellFounded, WFMin
<1>2. \A y \in I : x <= y
  <2> TAKE y \in I
  <2>1. x \in Nat /\ y \in Nat
    OBVIOUS
  <2>2. y < x => <<y, x>> \in OpToRel(<, Nat)
    BY <2>1 DEF OpToRel
  <2>3. ~(<<y, x>> \in OpToRel(<, Nat))
    BY <1>1, Zenon
  <2>4. ~(y < x)
    BY <2>2, <2>3, Zenon
  <2> QED BY <2>1, <2>4
<1> QED BY <1>2 DEF Min

\* list.remove(): one occurrence is taken out, the others keep their order.
LEMMA RemoveFirstProperties ==
  ASSUME NEW S, NEW s \in Seq(S), NEW e
  PROVE  /\ RemoveFirst(s, e) \in Seq(S)
         /\ Len(RemoveFirst(s, e)) <= Len(s)
         /\ (\A i \in 1 .. Len(s) : s[i] # e) => RemoveFirst(s, e) = s
         /\ (\E i \in 1 .. Len(s) : s[i] = e) =>
              \E k \in 1 .. Len(s) :
                /\ s[k] = e /\ Len(RemoveFirst(s, e)) = Len(s) - 1
                /\ \A i \in 1 .. Len(s) - 1 :
                     RemoveFirst(s, e)[i] = IF i < k THEN s[i] ELSE s[i + 1]
<1> DEFINE I == {i \in 1 .. Len(s) : s[i] = e}
<1>0. Len(s) \in Nat /\ \A i \in 1 .. Len(s) : s[i] \in S
  BY LenProperties, ElementOfSeq
<1>1. CASE I = {}
  <2>1. RemoveFirst(s, e) = s
    BY <1>1 DEF RemoveFirst
  <2> QED BY <1>0, <1>1, <2>1
<1>2. CASE I # {}
  <2> DEFINE k == Min(I)
             front == SubSeq(s, 1, k - 1)
             back == SubSeq(s, k + 1, Len(s))
  <2>1. k \in I
    <3>1. I \subseteq Nat
      OBVIOUS
    <3> QED BY <1>2, <3>1, LeastExists
  <2>2. RemoveFirst(s, e) = front \o back
    <3>1. SelectInSeq(s, LAMBDA v : v = e) = k
      BY <1>2 DEF SelectInSeq
    <3>2. \E i \in 1 .. Len(s) : s[i] = e
      BY <1>2
    <3> QED BY <3>1, <3>2, Zenon DEF RemoveFirst, RemoveAt
  <2> HIDE DEF k
  <2>3. k \in 1 .. Len(s) /\ s[k] = e
    BY <2>1
  <2>4. /\ front \in Seq(S) /\ Len(front) = k - 1
        /\ \A i \in 1 .. k - 1 : front[i] = s[i]
    <3>1. 1 \in Int /\ k - 1 \in Int /\ \A i \in 1 .. k - 1 : s[i] \in S
      BY <1>0, <2>3
    <3> QED BY <1>0, <2>3, <3>1, SubSeqProperties
  <2>5. /\ back \in Seq(S) /\ Len(back) = Len(s) - k
        /\ \A i \in 1 .. Len(s) - k : back[i] = s[k + i]
    <3>1. k + 1 \in Int /\ Len(s) \in Int /\ \A i \in k + 1 .. Len(s) : s[i] \in S
      BY <1>0, <2>3
    <3> QED BY <1>0, <2>3, <3>1, SubSeqProperties
  <2> HIDE DEF front, back
  <2>6. /\ front \o back \in Seq(S) /\ Len(front \o back) = Len(s) - 1
        /\ \A i \in 1 .. Len(s) - 1 :
             (front \o back)[i] = IF i < k THEN s[i] ELSE s[i + 1]
    BY <1>0, <2>3, <2>4, <2>5, ConcatProperties
  <2>7. /\ Len(front \o back) <= Len(s)
        /\ \E i \in 1 .. Len(s) : s[i] = e
    BY <1>0, <2>3, <2>6
  <2> QED BY <2>2, <2>3, <2>6, <2>7, Zenon
<1> QED BY <1>1, <1>2

LEMMA SetToSeqTyped ==
  ASSUME NEW S, IsFiniteSet(S)
  PROVE  /\ Cardinality(S) \in Nat
         /\ SetToSeq(S) \in [1 .. Cardinality(S) -> S]
<1>1. Cardinality(S) \in Nat /\ ExistsBijection(1 .. Cardinality(S), S)
  BY FS_CardinalityType
<1>2. PICK f \in Bijection(1 .. Cardinality(S), S) : TRUE
  BY <1>1 DEF ExistsBijection
<1>3. f \in [1 .. Cardinality(S) -> S] /\ IsInjective(f)
  BY <1>2 DEF Bijection, Injection, IsInjective
<1>4. SetToSeq(S) \in [1 .. Cardinality(S) -> S] /\ IsInjective(SetToSeq(S))
  BY <1>3 DEF SetToSeq
<1> QED BY <1>1, <1>4

\* What a new subscription is served: facts, and "offline" only of a node that
\* is retained as offline.
LEMMA RetainedFactsTyped ==
  ASSUME BrokerTypes
  PROVE  /\ RetainedFacts(Nodes) \in Seq(Fact)
         /\ \A i \in 1 .. Len(RetainedFacts(Nodes)) :
              LET m == RetainedFacts(Nodes)[i] IN
              ~m.online => retained[m.node].status = "offline"
<1> DEFINE Has == {n \in Nodes : retained[n].capability}
           Said == {n \in Nodes : retained[n].status # "none"}
           first == [i \in DOMAIN SetToSeq(Has) |-> Capability(SetToSeq(Has)[i])]
           second == [i \in DOMAIN SetToSeq(Said) |->
                        Status(SetToSeq(Said)[i],
                               retained[SetToSeq(Said)[i]].status = "online")]
<1>1. IsFiniteSet(Has) /\ IsFiniteSet(Said)
  BY FS_Subset, FleetAssumption DEF FleetAssumption
<1>2. /\ Cardinality(Has) \in Nat /\ SetToSeq(Has) \in [1 .. Cardinality(Has) -> Has]
      /\ Cardinality(Said) \in Nat /\ SetToSeq(Said) \in [1 .. Cardinality(Said) -> Said]
  BY <1>1, SetToSeqTyped
<1>3. RetainedFacts(Nodes) = first \o second
  BY DEF RetainedFacts
<1> DEFINE h == Cardinality(Has)
           g == Cardinality(Said)
<1>4. /\ first \in [1 .. h -> Fact] /\ \A i \in 1 .. h : first[i].online
      /\ second \in [1 .. g -> Fact]
      /\ \A i \in 1 .. g :
           ~second[i].online => retained[second[i].node].status = "offline"
  <2>1. \A i \in 1 .. h : Capability(SetToSeq(Has)[i]) \in Fact
                          /\ Capability(SetToSeq(Has)[i]).online
    BY <1>2 DEF Capability, Fact
  <2>2. \A i \in 1 .. g :
          LET n == SetToSeq(Said)[i] IN
          /\ n \in Nodes
          /\ Status(n, retained[n].status = "online") \in Fact
          /\ Status(n, retained[n].status = "online").node = n
          /\ Status(n, retained[n].status = "online").online <=> retained[n].status = "online"
          /\ retained[n].status \in {"online", "offline"}
    BY <1>2 DEF Status, Fact, BrokerTypes
  <2>3. DOMAIN SetToSeq(Has) = 1 .. h /\ DOMAIN SetToSeq(Said) = 1 .. g
    BY <1>2
  <2> QED BY <2>1, <2>2, <2>3
<1> HIDE DEF first, second, h, g
<1>5. h \in Nat /\ g \in Nat
  BY <1>2 DEF h, g
<1>6. first \in Seq(Fact) /\ Len(first) = h /\ second \in Seq(Fact) /\ Len(second) = g
  BY <1>4, <1>5
<1>7. /\ first \o second \in Seq(Fact) /\ Len(first \o second) = h + g
      /\ \A i \in 1 .. h + g :
           (first \o second)[i] = IF i <= h THEN first[i] ELSE second[i - h]
  BY <1>6, ConcatProperties
<1>8. ASSUME NEW i \in 1 .. h + g, ~(first \o second)[i].online
      PROVE  retained[(first \o second)[i].node].status = "offline"
  <2>1. CASE i <= h
    BY <1>4, <1>5, <1>7, <1>8, <2>1
  <2>2. CASE ~(i <= h)
    <3>1. i - h \in 1 .. g /\ (first \o second)[i] = second[i - h]
      BY <1>5, <1>7, <2>2
    <3> QED BY <1>4, <1>8, <3>1
  <2> QED BY <2>1, <2>2
<1> QED BY <1>3, <1>7, <1>8

-----------------------------------------------------------------------------
(* Which actions touch which part of the state.                            *)

\* The books change by a message heard or by a call.
LEMMA OrchestratorSteps ==
  ASSUME [Next]_vars
  PROVE  \/ UNCHANGED <<fleet, orchestrator, call, answered, now, calls, late>>
         \/ StartSubscribe \/ StartListen \/ Hear \/ \E c \in Callers : Caller(c)
<1> USE DEF vars, serverVars, bridgeVars, brokerVars, agentVars
<1>1. CASE BridgeDrop \/ BridgeReconnect \/ Deliver
  BY <1>1 DEF BridgeDrop, BridgeReconnect, Deliver
<1>2. ASSUME NEW n \in Nodes, Receive(n) \/ PublishWill(n)
      PROVE  UNCHANGED <<serverVars, late>>
  BY <1>2 DEF Receive, PublishWill
<1>3. ASSUME NEW n \in Nodes, Agent(n) PROVE UNCHANGED <<serverVars, late>>
  BY <1>3 DEF Agent, AgentStart, AgentConnect, LinkLost, AgentCrash, Take, TakeStart,
              TakeStop, Started, StartFails, ShutdownBegin, ShutdownStop,
              ShutdownPublish, ShutdownExit
<1> QED BY <1>1, <1>2, <1>3 DEF Next

\* The bridge's client: its log grows by one command at a time.
LEMMA ClientSteps ==
  ASSUME [Next]_vars
  PROVE  \/ UNCHANGED <<bridge, subscribed, log, sent, acked>>
         \/ StartSubscribe \/ BridgeDrop \/ BridgeReconnect \/ Deliver
         \/ \E c \in Callers : AssignPublish(c) \/ CancelPublish(c)
<1> USE DEF vars, serverVars, bridgeVars, brokerVars, agentVars
<1>1. CASE StartListen \/ Hear
  BY <1>1 DEF StartListen, Hear
<1>2. ASSUME NEW n \in Nodes, Receive(n) \/ PublishWill(n)
      PROVE  UNCHANGED bridgeVars
  BY <1>2 DEF Receive, PublishWill
<1>3. ASSUME NEW n \in Nodes, Agent(n) PROVE UNCHANGED bridgeVars
  BY <1>3 DEF Agent, AgentStart, AgentConnect, LinkLost, AgentCrash, Take, TakeStart,
              TakeStop, Started, StartFails, ShutdownBegin, ShutdownStop,
              ShutdownPublish, ShutdownExit
<1>4. ASSUME NEW c \in Callers, Caller(c)
      PROVE  UNCHANGED bridgeVars \/ AssignPublish(c) \/ CancelPublish(c)
  BY <1>4 DEF Caller, PostAssign, PostCancel, Request, AssignCheck, AssignTrack,
              CancelUntrack, PublishFails
<1> QED BY <1>1, <1>2, <1>3, <1>4 DEF Next

\* The broker's queues, retained messages and sessions.
LEMMA BrokerSteps ==
  ASSUME [Next]_vars
  PROVE  \/ UNCHANGED <<toServer, retained, session, orphan, ghosts, uplink, downlink>>
         \/ StartSubscribe \/ Hear \/ BridgeDrop \/ Deliver
         \/ \E n \in Nodes :
              \/ Receive(n) \/ PublishWill(n) \/ AgentConnect(n) \/ LinkLost(n)
              \/ AgentCrash(n) \/ TakeStart(n) \/ TakeStop(n)
              \/ ShutdownPublish(n) \/ ShutdownExit(n)
<1> USE DEF vars, serverVars, bridgeVars, brokerVars, agentVars
<1>1. CASE StartListen \/ BridgeReconnect
  BY <1>1 DEF StartListen, BridgeReconnect
<1>2. ASSUME NEW n \in Nodes, AgentStart(n) \/ Started(n) \/ StartFails(n)
                               \/ ShutdownBegin(n) \/ ShutdownStop(n)
      PROVE  UNCHANGED brokerVars
  BY <1>2 DEF AgentStart, Started, StartFails, ShutdownBegin, ShutdownStop
<1>3. ASSUME NEW c \in Callers, Caller(c) PROVE UNCHANGED brokerVars
  BY <1>3 DEF Caller, PostAssign, PostCancel, Request, AssignCheck, AssignPublish,
              CancelPublish, Publish, AssignTrack, CancelUntrack, PublishFails
<1> QED BY <1>1, <1>2, <1>3 DEF Next, Agent

\* The agents' own state, and what happened to their connections.
LEMMA AgentSteps ==
  ASSUME [Next]_vars
  PROVE  \/ UNCHANGED <<agent, sweep, wiring, operators, handles, faults, disturbed>>
         \/ BridgeDrop \/ Deliver
         \/ \E n \in Nodes : LinkLost(n) \/ AgentStart(n) \/ AgentCrash(n) \/ TakeStart(n)
              \/ TakeStop(n) \/ Started(n) \/ StartFails(n) \/ ShutdownBegin(n)
              \/ ShutdownStop(n) \/ ShutdownPublish(n) \/ ShutdownExit(n)
<1> USE DEF vars, serverVars, bridgeVars, brokerVars, agentVars
<1>1. CASE StartSubscribe \/ StartListen \/ Hear \/ BridgeReconnect
  BY <1>1 DEF StartSubscribe, StartListen, Hear, BridgeReconnect
<1>2. ASSUME NEW n \in Nodes, Receive(n) \/ PublishWill(n) \/ AgentConnect(n)
      PROVE  UNCHANGED <<agentVars, faults, disturbed>>
  BY <1>2 DEF Receive, PublishWill, AgentConnect
<1>3. ASSUME NEW c \in Callers, Caller(c) PROVE UNCHANGED <<agentVars, faults, disturbed>>
  BY <1>3 DEF Caller, PostAssign, PostCancel, Request, AssignCheck, AssignPublish,
              CancelPublish, Publish, AssignTrack, CancelUntrack, PublishFails
<1> QED BY <1>1, <1>2, <1>3 DEF Next, Agent

-----------------------------------------------------------------------------
(* Types.                                                                  *)

Books == [known : BOOLEAN, online : BOOLEAN, assignments : Seq(Id)]

LEMMA PastCheckBounded ==
  \A n : Cardinality({c \in Callers : PastCheck(c, n)}) \in 0 .. Cardinality(Callers)
<1> TAKE n
<1>1. /\ Cardinality(Callers) \in Nat /\ IsFiniteSet({c \in Callers : PastCheck(c, n)})
      /\ Cardinality({c \in Callers : PastCheck(c, n)}) <= Cardinality(Callers)
  BY FS_CardinalityType, FS_Subset, FleetAssumption DEF FleetAssumption
<1>2. Cardinality({c \in Callers : PastCheck(c, n)}) \in Nat
  BY <1>1, FS_CardinalityType
<1> QED BY <1>1, <1>2

\* What a status message does to the books.
LEMMA HearStatusEffect ==
  ASSUME OrchestratorTypes, NEW n \in Nodes, NEW up \in BOOLEAN
  PROVE  /\ HearStatus(n, up) \in [Nodes -> Books]
         /\ \A k \in Nodes \ {n} : HearStatus(n, up)[k] = fleet[k]
         /\ ~fleet[n].known => HearStatus(n, up)[n] = fleet[n]
         /\ fleet[n].known =>
              /\ HearStatus(n, up)[n].known
              /\ HearStatus(n, up)[n].online = up
              /\ HearStatus(n, up)[n].assignments =
                   IF up THEN fleet[n].assignments ELSE <<>>
<1> DEFINE list == IF up THEN fleet[n].assignments ELSE <<>>
           one == [fleet EXCEPT ![n].online = up]
           two == [one EXCEPT ![n].assignments = list]
<1>1. fleet \in [Nodes -> Books] /\ list \in Seq(Id)
  BY DEF OrchestratorTypes, Books
<1>2. one \in [Nodes -> Books]
  BY <1>1 DEF Books
<1>3. two \in [Nodes -> Books]
  BY <1>1, <1>2 DEF Books
<1>4. /\ \A k \in Nodes \ {n} : two[k] = fleet[k]
      /\ two[n].known = fleet[n].known /\ two[n].online = up
      /\ two[n].assignments = list
  BY <1>1, <1>2 DEF Books
<1>5. HearStatus(n, up) =
        IF fleet[n].known THEN two ELSE fleet
  BY <1>1 DEF HearStatus
<1> HIDE DEF one, two
<1> QED BY <1>1, <1>3, <1>4, <1>5

LEMMA OrchestratorTyped ==
  ASSUME OrchestratorTypes, BrokerTypes, [Next]_vars
  PROVE  OrchestratorTypes'
<1> USE DEF OrchestratorTypes
<1>1. CASE UNCHANGED <<fleet, orchestrator, call, answered, now, calls, late>>
  BY <1>1
<1>2. CASE StartSubscribe \/ StartListen
  BY <1>2 DEF StartSubscribe, StartListen
<1>3. CASE Hear
  <2>1. Head(toServer) \in Fact
    BY <1>3, HeadTailProperties DEF Hear, BrokerTypes
  <2> DEFINE m == Head(toServer)
  <2>2. m.node \in Nodes /\ m.online \in BOOLEAN
    BY <2>1 DEF Fact
  <2>3. fleet' \in [Nodes -> Books]
    <3>1. HearCapability(m.node) \in [Nodes -> Books]
      BY <2>2 DEF HearCapability, Books
    <3>2. HearStatus(m.node, m.online) \in [Nodes -> Books]
      BY <2>2, HearStatusEffect
    <3> QED BY <1>3, <3>1, <3>2 DEF Hear, Books
  <2>4. late' \in [Nodes -> 0 .. Cardinality(Callers)]
    <3>1. Cardinality({c \in Callers : PastCheck(c, m.node)}) \in 0 .. Cardinality(Callers)
      BY PastCheckBounded
    <3> QED BY <1>3, <2>2, <3>1 DEF Hear
  <2> QED BY <1>3, <2>3, <2>4 DEF Hear, Books
<1>4. ASSUME NEW c \in Callers, Caller(c) PROVE OrchestratorTypes'
  <2>1. ASSUME NEW n \in Nodes, NEW id \in Id, NEW pc \in {"check", "stop"},
               Request(c, n, id, pc), now' \in Second
        PROVE  OrchestratorTypes'
    <3>1. [node |-> n, id |-> id, pc |-> pc] \in Call
      BY DEF Call
    <3>2. calls' \in 0 .. MaxCalls
      BY <2>1, FleetAssumption DEF Request, FleetAssumption
    <3> QED BY <2>1, <3>1, <3>2 DEF Request
  <2>2. CASE PostAssign(c)
    <3>1. PICK n \in Nodes, op \in Operators, second \in now .. MaxSecond :
            Request(c, n, <<op, second>>, "check") /\ now' = second
      BY <2>2 DEF PostAssign
    <3>2. second \in Second
      BY FleetAssumption DEF Second, FleetAssumption
    <3>3. <<op, second>> \in Id
      BY <3>2 DEF Id
    <3> QED BY <2>1, <3>1, <3>2, <3>3
  <2>3. CASE PostCancel(c)
    <3>1. PICK a \in answered : Request(c, a[1], a[2], "stop") /\ UNCHANGED now
      BY <2>3 DEF PostCancel
    <3>2. a[1] \in Nodes /\ a[2] \in Id
      OBVIOUS
    <3> QED BY <2>1, <3>1, <3>2
  <2>4. call[c] # None => call[c] \in Call
    OBVIOUS
  <2>5. ASSUME NEW pc \in {"check", "publish", "track", "stop", "untrack"}, call[c] # None
        PROVE  [call EXCEPT ![c].pc = pc] \in [Callers -> Call \union {None}]
    BY <2>4, <2>5 DEF Call
  <2>6. [call EXCEPT ![c] = None] \in [Callers -> Call \union {None}]
    OBVIOUS
  <2>7. CASE AssignCheck(c)
    BY <2>5, <2>6, <2>7, Zenon DEF AssignCheck, At, Goto, Return
  <2>8. CASE AssignPublish(c) \/ CancelPublish(c)
    BY <2>5, <2>8 DEF AssignPublish, CancelPublish, Publish, At, Goto
  <2>9. ASSUME NEW list \in Seq(Id), call[c] # None,
               fleet' = [fleet EXCEPT ![call[c].node].assignments = list]
        PROVE  fleet' \in [Nodes -> Books]
    <3>1. call[c].node \in Nodes
      BY <2>4, <2>9 DEF Call
    <3> QED BY <2>9, <3>1 DEF Books
  <2>10. CASE AssignTrack(c)
    <3>1. call[c] # None /\ call[c].node \in Nodes /\ call[c].id \in Id
      BY <2>4, <2>10 DEF AssignTrack, At, Call
    <3>2. Append(fleet[call[c].node].assignments, call[c].id) \in Seq(Id)
      BY <3>1
    <3>3. fleet' \in [Nodes -> Books]
      BY <2>9, <2>10, <3>1, <3>2 DEF AssignTrack
    <3> QED BY <2>6, <2>10, <3>1, <3>3 DEF AssignTrack, Return, Books
  <2>11. CASE CancelUntrack(c)
    <3>1. call[c] # None /\ call[c].node \in Nodes /\ call[c].id \in Id
      BY <2>4, <2>11 DEF CancelUntrack, At, Call
    <3>2. RemoveFirst(fleet[call[c].node].assignments, call[c].id) \in Seq(Id)
      BY <3>1, RemoveFirstProperties
    <3>3. fleet' \in [Nodes -> Books]
      BY <2>9, <2>11, <3>1, <3>2 DEF CancelUntrack
    <3> QED BY <2>6, <2>11, <3>3 DEF CancelUntrack, Return, Books
  <2>12. CASE PublishFails(c)
    BY <2>6, <2>12 DEF PublishFails, Return
  <2> QED BY <1>4, <2>2, <2>3, <2>7, <2>8, <2>10, <2>11, <2>12 DEF Caller
<1> QED BY <1>1, <1>2, <1>3, <1>4, OrchestratorSteps

LEMMA ClientTyped ==
  ASSUME OrchestratorTypes, ClientTypes, [Next]_vars
  PROVE  ClientTypes' /\ Len(log) <= Len(log')
<1> USE DEF ClientTypes
<1>0. Len(log) \in Nat
  OBVIOUS
<1>1. CASE UNCHANGED <<bridge, subscribed, log, sent, acked>>
  BY <1>0, <1>1
<1>2. CASE StartSubscribe \/ BridgeDrop
  <2>1. UNCHANGED <<log, sent, acked>>
    BY <1>2 DEF StartSubscribe, BridgeDrop
  <2>2. bridge' \in BOOLEAN /\ subscribed' \in BOOLEAN /\ (subscribed' => bridge')
    <3>1. CASE StartSubscribe
      <4>1. subscribed' = bridge /\ bridge' = bridge
        BY <3>1 DEF StartSubscribe
      <4> QED BY <4>1
    <3>2. CASE BridgeDrop
      <4>1. bridge' = FALSE /\ subscribed' = FALSE
        BY <3>2 DEF BridgeDrop
      <4> QED BY <4>1
    <3> QED BY <1>2, <3>1, <3>2
  <2> QED BY <1>0, <2>1, <2>2
<1>3. CASE BridgeReconnect
  BY <1>0, <1>3 DEF BridgeReconnect
<1>4. CASE Deliver
  BY <1>0, <1>4 DEF Deliver
<1>5. ASSUME NEW c \in Callers, NEW action \in {"start", "stop"}, NEW next,
             call[c] # None, Publish(c, action, next)
      PROVE  ClientTypes' /\ Len(log) <= Len(log')
  <2>1. [node |-> call[c].node, id |-> call[c].id, action |-> action] \in Command
    BY <1>5 DEF OrchestratorTypes, Call, Command
  <2>2. log' \in Seq(Command) /\ Len(log') = Len(log) + 1
    BY <1>5, <2>1 DEF Publish
  <2> QED BY <1>0, <1>5, <2>2 DEF Publish
<1> QED BY <1>1, <1>2, <1>3, <1>4, <1>5, ClientSteps DEF AssignPublish, CancelPublish, At

Packet == {"online", "capability", "subscribe", "offline", "bye"}

LEMMA LogGrowsDownlink ==
  ASSUME BrokerTypes, ClientTypes, ClientTypes', Len(log) <= Len(log')
  PROVE  \A n \in Nodes : downlink[n] \in Seq(1 .. Len(log'))
<1> TAKE n \in Nodes
<1>1. Len(log) \in Nat /\ Len(log') \in Nat
  BY DEF ClientTypes
<1>2. 1 .. Len(log) \subseteq 1 .. Len(log')
  BY <1>1
<1>3. downlink[n] \in Seq(1 .. Len(log))
  BY DEF BrokerTypes
<1> QED BY <1>2, <1>3, SeqMonotonic

LEMMA NotifyTyped ==
  ASSUME BrokerTypes, NEW facts \in Seq(Fact), Notify(facts)
  PROVE  toServer' \in Seq(Fact)
BY ConcatProperties DEF Notify, BrokerTypes

LEMMA BrokerTyped ==
  ASSUME OrchestratorTypes, ClientTypes, BrokerTypes, ClientTypes', Len(log) <= Len(log'),
         [Next]_vars
  PROVE  BrokerTypes'
<1>0. /\ Len(log) \in Nat /\ \A n \in Nodes : downlink[n] \in Seq(1 .. Len(log'))
      /\ DOMAIN downlink = Nodes /\ downlink \in [Nodes -> Seq(1 .. Len(log'))]
  BY LogGrowsDownlink DEF BrokerTypes, ClientTypes
<1> USE DEF Packet
<1>1. CASE UNCHANGED <<toServer, retained, session, orphan, ghosts, uplink, downlink>>
  BY <1>0, <1>1 DEF BrokerTypes
<1>2. CASE StartSubscribe
  BY <1>0, <1>2, RetainedFactsTyped DEF BrokerTypes, StartSubscribe
<1>3. CASE Hear
  <2>1. toServer' \in Seq(Fact)
    BY <1>3, HeadTailProperties DEF BrokerTypes, Hear
  <2> QED BY <1>0, <1>3, <2>1 DEF BrokerTypes, Hear
<1>4. CASE BridgeDrop
  BY <1>0, <1>4 DEF BrokerTypes, BridgeDrop
<1>5. CASE Deliver
  <2>1. sent + 1 \in 1 .. Len(log) /\ log' = log
    BY <1>5 DEF Deliver, ClientTypes
  <2>2. downlink' \in [Nodes -> Seq(1 .. Len(log))]
    <3>1. \/ downlink' = downlink
          \/ \E n \in Nodes : downlink' = [downlink EXCEPT ![n] = Append(@, sent + 1)]
      <4>1. log[sent + 1] \in Command
        BY <2>1, ElementOfSeq DEF ClientTypes
      <4>2. log[sent + 1].node \in Nodes
        BY <4>1 DEF Command
      <4> QED BY <1>5, <4>2 DEF Deliver
    <3>2. downlink \in [Nodes -> Seq(1 .. Len(log))]
      BY DEF BrokerTypes
    <3> HIDE DEF Packet
    <3>3. ASSUME NEW n \in Nodes PROVE Append(downlink[n], sent + 1) \in Seq(1 .. Len(log))
      <4> DEFINE Position == 1 .. Len(log)
      <4>1. downlink[n] \in Seq(Position) /\ sent + 1 \in Position
        BY <2>1, <3>2
      <4> HIDE DEF Position
      <4>2. Append(downlink[n], sent + 1) \in Seq(Position)
        BY <4>1
      <4> QED BY <4>2 DEF Position
    <3> QED BY <3>1, <3>2, <3>3
  <2> QED BY <1>5, <2>1, <2>2 DEF BrokerTypes, Deliver
<1>6. ASSUME NEW n \in Nodes, Receive(n) PROVE BrokerTypes'
  <2> DEFINE packet == Head(uplink[n])
  <2>1. packet \in Packet /\ uplink' \in [Nodes -> Seq(Packet)]
    BY <1>6, HeadTailProperties DEF BrokerTypes, Receive
  <2> HIDE DEF packet
  <2>2. /\ retained' = CASE packet = "capability" -> [retained EXCEPT ![n].capability = TRUE]
                         [] packet \in {"online", "offline"} -> [retained EXCEPT ![n].status = packet]
                         [] OTHER -> retained
        /\ Notify(CASE packet = "capability" -> <<Capability(n)>>
                    [] packet \in {"online", "offline"} -> <<Status(n, packet = "online")>>
                    [] OTHER -> <<>>)
        /\ session' = [session EXCEPT ![n] = CASE packet = "subscribe" -> "subscribed"
                                               [] packet = "bye" -> "none"
                                               [] OTHER -> @]
        /\ downlink' = [downlink EXCEPT ![n] = IF packet = "bye" THEN <<>> ELSE @]
        /\ UNCHANGED <<orphan, ghosts>>
    BY <1>6 DEF Receive, packet
  <2>3. retained' \in [Nodes -> [capability : BOOLEAN, status : {"none", "online", "offline"}]]
    BY <2>1, <2>2 DEF BrokerTypes
  <2>4. toServer' \in Seq(Fact)
    <3>1. <<Capability(n)>> \in Seq(Fact) /\ <<>> \in Seq(Fact)
          /\ <<Status(n, packet = "online")>> \in Seq(Fact)
      BY DEF Capability, Status, Fact
    <3> QED BY <2>1, <2>2, <3>1, NotifyTyped
  <2>5. session' \in [Nodes -> {"none", "open", "subscribed"}]
    BY <2>1, <2>2 DEF BrokerTypes
  <2>6. downlink' \in [Nodes -> Seq(1 .. Len(log'))]
    <3>1. downlink' = [downlink EXCEPT ![n] = IF packet = "bye" THEN <<>> ELSE @]
      BY <2>2
    <3> DEFINE Queue == Seq(1 .. Len(log'))
    <3>2. downlink \in [Nodes -> Queue] /\ <<>> \in Queue
      BY <1>0
    <3> HIDE DEF Queue
    <3>3. downlink' \in [Nodes -> Queue]
      BY <3>1, <3>2
    <3> QED BY <3>3 DEF Queue
  <2>7. orphan' \in [Nodes -> BOOLEAN] /\ ghosts' \in [Nodes -> Nat]
    BY <2>2 DEF BrokerTypes
  <2> QED BY <2>1, <2>3, <2>4, <2>5, <2>6, <2>7 DEF BrokerTypes
<1>7. ASSUME NEW n \in Nodes
      PROVE  <<Status(n, FALSE)>> \in Seq(Fact)
  BY DEF Status, Fact
<1>8. ASSUME NEW n \in Nodes, PublishWill(n) PROVE BrokerTypes'
  <2>1. toServer' \in Seq(Fact)
    BY <1>7, <1>8, NotifyTyped DEF PublishWill
  <2>2. retained' \in [Nodes -> [capability : BOOLEAN, status : {"none", "online", "offline"}]]
    BY <1>8 DEF PublishWill, BrokerTypes
  <2>3. orphan' \in [Nodes -> BOOLEAN] /\ ghosts' \in [Nodes -> Nat]
    <3>1. CASE ghosts[n] > 0
      <4>1. ghosts' = [ghosts EXCEPT ![n] = @ - 1] /\ orphan' = orphan
        BY <1>8, <3>1 DEF PublishWill
      <4>2. ghosts[n] - 1 \in Nat
        BY <3>1 DEF BrokerTypes
      <4> QED BY <4>1, <4>2 DEF BrokerTypes
    <3>2. CASE ~(ghosts[n] > 0)
      <4>1. orphan' = [orphan EXCEPT ![n] = FALSE] /\ ghosts' = ghosts
        BY <1>8, <3>2 DEF PublishWill
      <4> QED BY <4>1 DEF BrokerTypes
    <3> QED BY <3>1, <3>2
  <2> QED BY <1>0, <1>8, <2>1, <2>2, <2>3 DEF PublishWill, BrokerTypes
<1>9. ASSUME NEW n \in Nodes, AgentConnect(n) PROVE BrokerTypes'
  <2>1. toServer' \in Seq(Fact)
    BY <1>7, <1>9, NotifyTyped DEF AgentConnect, BrokerTypes
  <2>2. retained' \in [Nodes -> [capability : BOOLEAN, status : {"none", "online", "offline"}]]
    <3>1. retained' = [retained EXCEPT ![n].status = "offline"] \/ retained' = retained
      BY <1>9 DEF AgentConnect
    <3>2. retained \in [Nodes -> [capability : BOOLEAN, status : {"none", "online", "offline"}]]
      BY DEF BrokerTypes
    <3> QED BY <3>1, <3>2
  <2>3. <<"online", "capability", "subscribe">> \in Seq(Packet)
    OBVIOUS
  <2>4. uplink' \in [Nodes -> Seq(Packet)]
    BY <1>9, <2>3 DEF AgentConnect, BrokerTypes, Packet
  <2>5. session' \in [Nodes -> {"none", "open", "subscribed"}] /\ orphan' \in [Nodes -> BOOLEAN]
    BY <1>9 DEF AgentConnect, BrokerTypes
  <2>6. UNCHANGED <<ghosts, downlink, log>>
    BY <1>9 DEF AgentConnect, serverVars, bridgeVars
  <2> QED BY <1>0, <2>1, <2>2, <2>4, <2>5, <2>6 DEF BrokerTypes, Packet
<1>10. ASSUME NEW n \in Nodes, LinkLost(n) PROVE BrokerTypes'
  BY <1>0, <1>10 DEF LinkLost, BrokerTypes
<1>11. ASSUME NEW n \in Nodes, AgentCrash(n) PROVE BrokerTypes'
  BY <1>0, <1>11 DEF AgentCrash, BrokerTypes
<1>12. ASSUME NEW n \in Nodes, TakeStart(n) \/ TakeStop(n) PROVE BrokerTypes'
  <2>1. Take(n)
    BY <1>12 DEF TakeStart, TakeStop
  <2>2. Tail(downlink[n]) \in Seq(1 .. Len(log'))
    BY <1>0, <2>1, HeadTailProperties DEF Take
  <2> QED BY <1>0, <2>1, <2>2 DEF Take, BrokerTypes
<1>13. ASSUME NEW n \in Nodes, ShutdownPublish(n) \/ ShutdownExit(n) PROVE BrokerTypes'
  <2>1. Append(uplink[n], "offline") \in Seq(Packet) /\ Append(uplink[n], "bye") \in Seq(Packet)
    BY DEF BrokerTypes
  <2>2. uplink' \in [Nodes -> Seq(Packet)]
    BY <1>13, <2>1 DEF ShutdownPublish, ShutdownExit, BrokerTypes
  <2>3. orphan' \in [Nodes -> BOOLEAN] /\ ghosts' \in [Nodes -> Nat]
    <3>1. CASE ShutdownPublish(n)
      BY <3>1 DEF ShutdownPublish, BrokerTypes
    <3>2. CASE ShutdownExit(n)
      <4>1. PICK d \in {0, 1} : ghosts' = [ghosts EXCEPT ![n] = @ + d]
        BY <3>2 DEF ShutdownExit
      <4>2. orphan' = [orphan EXCEPT ![n] = FALSE]
        BY <3>2 DEF ShutdownExit
      <4> QED BY <4>1, <4>2 DEF BrokerTypes
    <3> QED BY <1>13, <3>1, <3>2
  <2> QED BY <1>0, <1>13, <2>2, <2>3 DEF ShutdownPublish, ShutdownExit, BrokerTypes
<1> QED BY <1>1, <1>2, <1>3, <1>4, <1>5, <1>6, <1>8, <1>9, <1>10, <1>11, <1>12, <1>13,
           BrokerSteps

\* What makes the types and TransportsOwned inductive: while an operator is
\* being wired its id is not in the table.
WiringIsNew == \A n \in Nodes : wiring[n] \notin operators[n]

AgentInv == AgentTypes /\ WiringIsNew /\ TransportsOwned

LEMMA AgentInvStep ==
  ASSUME OrchestratorTypes, ClientTypes, BrokerTypes, AgentInv, [Next]_vars
  PROVE  AgentInv'
<1>0. None \notin Id /\ MaxFaults \in Nat
  BY FleetAssumption DEF FleetAssumption
<1>1. CASE UNCHANGED <<agent, sweep, wiring, operators, handles, faults, disturbed>>
  BY <1>1 DEF AgentInv, AgentTypes, WiringIsNew, TransportsOwned
<1>2. CASE BridgeDrop
  BY <1>0, <1>2 DEF BridgeDrop, AgentInv, AgentTypes, WiringIsNew, TransportsOwned, agentVars
<1>3. CASE Deliver
  <2>1. log[sent + 1] \in Command
    <3>1. sent + 1 \in 1 .. Len(log)
      BY <1>3 DEF Deliver, ClientTypes
    <3> QED BY <3>1, ElementOfSeq DEF ClientTypes
  <2>2. disturbed' \subseteq Nodes
    BY <1>3, <2>1 DEF Deliver, AgentInv, AgentTypes, Command
  <2>3. UNCHANGED <<agent, sweep, wiring, operators, handles, faults>>
    BY <1>3 DEF Deliver, agentVars
  <2> QED BY <2>2, <2>3 DEF AgentInv, AgentTypes, WiringIsNew, TransportsOwned
<1>4. ASSUME NEW n \in Nodes, LinkLost(n) PROVE AgentInv'
  BY <1>0, <1>4 DEF LinkLost, AgentInv, AgentTypes, WiringIsNew, TransportsOwned, agentVars
<1>5. ASSUME NEW n \in Nodes, AgentStart(n) PROVE AgentInv'
  BY <1>0, <1>5 DEF AgentStart, AgentInv, AgentTypes, WiringIsNew, TransportsOwned
<1>6. ASSUME NEW n \in Nodes, Gone(n) PROVE
        /\ agent' \in [Nodes -> {"off", "up", "sweeping", "leaving"}]
        /\ sweep' \in [Nodes -> SUBSET Id] /\ wiring' \in [Nodes -> Id \union {None}]
        /\ operators' \in [Nodes -> SUBSET Id] /\ handles' \in [Nodes -> [Id -> Nat]]
        /\ WiringIsNew' /\ TransportsOwned'
  <2>1. Closed \in [Id -> Nat] /\ \A id \in Id : Closed[id] = 0
    BY DEF Closed
  <2>2. /\ agent' \in [Nodes -> {"off", "up", "sweeping", "leaving"}]
        /\ sweep' \in [Nodes -> SUBSET Id] /\ wiring' \in [Nodes -> Id \union {None}]
        /\ operators' \in [Nodes -> SUBSET Id] /\ handles' \in [Nodes -> [Id -> Nat]]
    BY <1>6, <2>1 DEF Gone, AgentInv, AgentTypes
  <2>3. /\ wiring'[n] = None /\ operators'[n] = {} /\ handles'[n] = Closed
        /\ \A k \in Nodes \ {n} : /\ wiring'[k] = wiring[k] /\ operators'[k] = operators[k]
                                  /\ handles'[k] = handles[k]
    BY <1>6 DEF Gone, AgentInv, AgentTypes
  <2>4. WiringIsNew'
    BY <2>3 DEF AgentInv, WiringIsNew
  <2>5. TransportsOwned'
    <3> SUFFICES ASSUME NEW k \in Nodes, NEW id \in Id
                 PROVE  handles'[k][id] = (IF id \in operators'[k] THEN 1 ELSE 0)
                                          + (IF wiring'[k] = id THEN 1 ELSE 0)
      BY DEF TransportsOwned
    <3>1. CASE k = n
      BY <1>0, <2>1, <2>3, <3>1
    <3>2. CASE k # n
      BY <2>3, <3>2 DEF AgentInv, TransportsOwned
    <3> QED BY <3>1, <3>2
  <2> QED BY <2>2, <2>4, <2>5
<1>7. ASSUME NEW n \in Nodes, AgentCrash(n) PROVE AgentInv'
  BY <1>0, <1>6, <1>7 DEF AgentCrash, AgentInv, AgentTypes
<1>8. ASSUME NEW n \in Nodes, ShutdownExit(n) PROVE AgentInv'
  BY <1>6, <1>8 DEF ShutdownExit, AgentInv, AgentTypes
<1>9. ASSUME NEW n \in Nodes, Take(n) PROVE Incoming(n).id \in Id /\ wiring[n] = None
  <2>1. Head(downlink[n]) \in 1 .. Len(log)
    BY <1>9, HeadTailProperties DEF Take, BrokerTypes
  <2>2. Incoming(n) \in Command
    BY <2>1, ElementOfSeq DEF Incoming, ClientTypes
  <2> QED BY <1>9, <2>2 DEF Command, Take
<1>10. ASSUME NEW n \in Nodes, TakeStart(n) PROVE AgentInv'
  <2>1. Incoming(n).id \in Id /\ wiring[n] = None
        /\ UNCHANGED <<agent, sweep, faults, disturbed, operators>>
    BY <1>9, <1>10 DEF TakeStart, Take
  <2>2. CASE UNCHANGED <<wiring, handles>>
    BY <2>1, <2>2 DEF AgentInv, AgentTypes, WiringIsNew, TransportsOwned
  <2>3. CASE /\ Incoming(n).id \notin operators[n]
             /\ wiring' = [wiring EXCEPT ![n] = Incoming(n).id]
             /\ handles' = [handles EXCEPT ![n][Incoming(n).id] = @ + 1]
    BY <1>0, <2>1, <2>3 DEF AgentInv, AgentTypes, WiringIsNew, TransportsOwned
  <2> QED BY <1>10, <2>2, <2>3 DEF TakeStart
<1>11. ASSUME NEW n \in Nodes, NEW id \in Id,
              operators' = [operators EXCEPT ![n] = @ \ {id}],
              handles' = [handles EXCEPT ![n][id] = IF id \in operators[n] THEN @ - 1 ELSE @],
              UNCHANGED wiring
       PROVE  /\ operators' \in [Nodes -> SUBSET Id] /\ handles' \in [Nodes -> [Id -> Nat]]
              /\ WiringIsNew' /\ TransportsOwned'
  <2>1. operators' \in [Nodes -> SUBSET Id] /\ WiringIsNew'
    BY <1>11 DEF AgentInv, AgentTypes, WiringIsNew
  <2>2. id \in operators[n] => handles[n][id] = 1 /\ wiring[n] # id
    BY DEF AgentInv, AgentTypes, WiringIsNew, TransportsOwned
  <2>3. handles' \in [Nodes -> [Id -> Nat]]
    BY <1>11, <2>2 DEF AgentInv, AgentTypes
  <2>4. TransportsOwned'
    BY <1>11, <2>2 DEF AgentInv, AgentTypes, TransportsOwned
  <2> QED BY <2>1, <2>3, <2>4
<1>12. ASSUME NEW n \in Nodes, TakeStop(n) PROVE AgentInv'
  <2>1. Incoming(n).id \in Id /\ UNCHANGED <<agent, sweep, faults, disturbed, wiring>>
    BY <1>9, <1>12 DEF TakeStop, Take
  <2> QED BY <1>11, <1>12, <2>1 DEF TakeStop, AgentInv, AgentTypes
<1>13. ASSUME NEW n \in Nodes, Started(n) PROVE AgentInv'
  BY <1>0, <1>13 DEF Started, AgentInv, AgentTypes, WiringIsNew, TransportsOwned
<1>14. ASSUME NEW n \in Nodes, ShutdownBegin(n) PROVE AgentInv'
  BY <1>0, <1>14 DEF ShutdownBegin, AgentInv, AgentTypes, WiringIsNew, TransportsOwned
<1>15. ASSUME NEW n \in Nodes, ShutdownStop(n) PROVE AgentInv'
  <2>1. PICK id \in sweep[n] :
          /\ sweep' = [sweep EXCEPT ![n] = @ \ {id}]
          /\ operators' = [operators EXCEPT ![n] = @ \ {id}]
          /\ handles' = [handles EXCEPT ![n][id] = IF id \in operators[n] THEN @ - 1 ELSE @]
    BY <1>15 DEF ShutdownStop
  <2>2. id \in Id /\ UNCHANGED <<agent, wiring, faults, disturbed>>
    BY <1>15 DEF ShutdownStop, AgentInv, AgentTypes
  <2>3. sweep' \in [Nodes -> SUBSET Id]
    BY <2>1 DEF AgentInv, AgentTypes
  <2> QED BY <1>11, <2>1, <2>2, <2>3 DEF AgentInv, AgentTypes
<1>16. ASSUME NEW n \in Nodes, ShutdownPublish(n) PROVE AgentInv'
  BY <1>16 DEF ShutdownPublish, AgentInv, AgentTypes, WiringIsNew, TransportsOwned
<1>17. ASSUME NEW n \in Nodes, StartFails(n) PROVE AgentInv'
  <2>1. wiring[n] \in Id /\ wiring[n] \notin operators[n] /\ handles[n][wiring[n]] = 1
    BY <1>0, <1>17 DEF StartFails, AgentInv, AgentTypes, WiringIsNew, TransportsOwned
  <2> QED BY <1>0, <1>17, <2>1
          DEF StartFails, AgentInv, AgentTypes, WiringIsNew, TransportsOwned
<1> QED BY <1>1, <1>2, <1>3, <1>4, <1>5, <1>7, <1>8, <1>10, <1>12, <1>13, <1>14, <1>15,
           <1>16, <1>17, AgentSteps

TypeInv == TypeOK /\ WiringIsNew /\ TransportsOwned

LEMMA InitTyped == Init => TypeInv
<1> SUFFICES ASSUME Init PROVE TypeInv
  OBVIOUS
<1>1. /\ MaxSecond \in Nat \ {0} /\ {MaxCalls, MaxFaults} \subseteq Nat /\ None \notin Id
      /\ Cardinality(Callers) \in Nat
  BY FS_CardinalityType, FleetAssumption DEF FleetAssumption
<1>2. OrchestratorTypes
  <2>1. Unknown \in Books
    BY DEF Unknown, Books
  <2> QED BY <1>1, <2>1 DEF Init, OrchestratorTypes, Books, Second
<1>3. ClientTypes
  <2>1. log = <<>> /\ sent = 0 /\ acked = 0 /\ bridge = TRUE /\ subscribed = FALSE
    BY DEF Init
  <2>2. bridge \in BOOLEAN /\ subscribed \in BOOLEAN /\ (subscribed => bridge)
    BY <2>1, Zenon
  <2>3. log \in Seq(Command) /\ sent \in 0 .. Len(log) /\ acked \in 0 .. sent
    BY <2>1
  <2> QED BY <2>2, <2>3 DEF ClientTypes
<1>4. BrokerTypes
  BY DEF Init, BrokerTypes
<1>5. AgentTypes /\ WiringIsNew /\ TransportsOwned
  BY <1>1 DEF Init, AgentTypes, Closed, WiringIsNew, TransportsOwned
<1> QED BY <1>2, <1>3, <1>4, <1>5 DEF TypeInv, TypeOK

LEMMA TypeInvStep == TypeInv /\ [Next]_vars => TypeInv'
<1> SUFFICES ASSUME TypeInv, [Next]_vars PROVE TypeInv'
  OBVIOUS
<1>1. OrchestratorTypes /\ ClientTypes /\ BrokerTypes /\ AgentInv
  BY DEF TypeInv, TypeOK, AgentInv
<1>2. OrchestratorTypes' /\ ClientTypes' /\ BrokerTypes' /\ AgentInv'
  BY <1>1, OrchestratorTyped, ClientTyped, BrokerTyped, AgentInvStep
<1> QED BY <1>2 DEF TypeInv, TypeOK, AgentInv

LEMMA TypeInvAlways == Spec => []TypeInv
BY InitTyped, TypeInvStep, PTL DEF Spec

\* The type invariant, for every behaviour.
THEOREM TypeCorrect == Spec => []TypeOK
<1>1. TypeInv => TypeOK
  BY DEF TypeInv
<1> QED BY <1>1, TypeInvAlways, PTL

\* Whatever the order of starts, stops, repeated deliveries, crashes and the
\* shutdown's sweep: a transport that is open belongs to the operator in the
\* table or in the making (_start_operator, _stop_assignment, _shutdown).
THEOREM TransportsOwnedAlways == Spec => []TransportsOwned
<1>1. TypeInv => TransportsOwned
  BY DEF TypeInv
<1> QED BY <1>1, TypeInvAlways, PTL

-----------------------------------------------------------------------------
(* The books are bounded.                                                  *)

\* Calls that have found node n online and are yet to track.
Past(n) == Cardinality({c \in Callers : PastCheck(c, n)})
Backlog(n) == Len(fleet[n].assignments) + Past(n)

\* BooksBounded counts what is on the books.  What is inductive counts the
\* calls on their way to the books with it.
BooksInv ==
  \A n \in Nodes :
    /\ Backlog(n) < MaxAssignments + Cardinality(Callers)
    /\ fleet[n].online \/ Backlog(n) <= late[n]
    /\ ~fleet[n].known => /\ ~fleet[n].online /\ fleet[n].assignments = <<>>
                          /\ \A c \in Callers : ~PastCheck(c, n)

LEMMA Counted ==
  /\ MaxAssignments \in Nat \ {0} /\ Cardinality(Callers) \in Nat
  /\ \A n : Past(n) \in 0 .. Cardinality(Callers)
BY PastCheckBounded, FS_CardinalityType, FleetAssumption DEF FleetAssumption, Past

\* One call moves: the count follows.
LEMMA PastChange ==
  ASSUME NEW n, NEW c \in Callers, \A d \in Callers \ {c} : call'[d] = call[d]
  PROVE  /\ PastCheck(c, n) /\ ~PastCheck(c, n)' => Past(n)' = Past(n) - 1
         /\ ~PastCheck(c, n) /\ PastCheck(c, n)' =>
              Past(n)' = Past(n) + 1 /\ Past(n)' <= Cardinality(Callers)
         /\ (PastCheck(c, n)' <=> PastCheck(c, n)) => Past(n)' = Past(n)
<1> DEFINE S == {d \in Callers : PastCheck(d, n)}
           T == {d \in Callers : PastCheck(d, n)'}
<1>1. \A d \in Callers \ {c} : PastCheck(d, n)' <=> PastCheck(d, n)
  BY DEF PastCheck
<1>2. /\ IsFiniteSet(Callers) /\ S \subseteq Callers /\ T \subseteq Callers
      /\ IsFiniteSet(S) /\ IsFiniteSet(T) /\ Cardinality(T) <= Cardinality(Callers)
  BY FS_Subset, FleetAssumption DEF FleetAssumption
<1>3. Past(n) = Cardinality(S) /\ Past(n)' = Cardinality(T)
  BY DEF Past
<1>4. c \in S <=> PastCheck(c, n)
  OBVIOUS
<1>5. c \in T <=> PastCheck(c, n)'
  OBVIOUS
<1>6. \A d \in Callers \ {c} : d \in S <=> d \in T
  BY <1>1
<1> HIDE DEF S, T
<1>7. CASE c \in S /\ c \notin T
  <2>1. T = S \ {c}
    BY <1>2, <1>6, <1>7
  <2>2. Cardinality(T) = Cardinality(S) - 1
    BY <1>2, <1>7, <2>1, FS_RemoveElement
  <2> QED BY <1>3, <1>4, <1>5, <1>7, <2>2
<1>8. CASE c \notin S /\ c \in T
  <2>1. T = S \union {c}
    BY <1>2, <1>6, <1>8
  <2>2. Cardinality(T) = Cardinality(S) + 1
    BY <1>2, <1>8, <2>1, FS_AddElement
  <2> QED BY <1>2, <1>3, <1>4, <1>5, <1>8, <2>2
<1>9. CASE c \in S <=> c \in T
  <2>1. T = S
    BY <1>2, <1>6, <1>9
  <2> QED BY <1>3, <1>4, <1>5, <1>9, <2>1
<1> QED BY <1>7, <1>8, <1>9

\* What a call does to the books and to itself.
LEMMA CallerEffect ==
  ASSUME OrchestratorTypes, NEW c \in Callers, Caller(c)
  PROVE  /\ \A d \in Callers \ {c} : call'[d] = call[d]
         /\ late' = late
         /\ \/ /\ fleet' = fleet
               /\ \A n \in Nodes : PastCheck(c, n)' => PastCheck(c, n)
            \/ /\ AssignCheck(c) /\ fleet' = fleet
               /\ fleet[call[c].node].known /\ fleet[call[c].node].online
               /\ Len(fleet[call[c].node].assignments) < MaxAssignments
               /\ \A n \in Nodes : /\ ~PastCheck(c, n)
                                   /\ PastCheck(c, n)' <=> n = call[c].node
            \/ /\ AssignTrack(c)
               /\ \A n \in Nodes : /\ PastCheck(c, n) <=> n = call[c].node
                                   /\ ~PastCheck(c, n)'
            \/ /\ CancelUntrack(c)
               /\ \A n \in Nodes : ~PastCheck(c, n) /\ ~PastCheck(c, n)'
<1>1. /\ DOMAIN call = Callers /\ None \notin Call
      /\ \A d \in Callers : call[d] # None => call[d] \in Call
  BY FleetAssumption DEF OrchestratorTypes, FleetAssumption
<1>2. ASSUME NEW pc \in {"check", "publish", "track", "stop", "untrack"}, call[c] # None,
             Goto(c, pc)
      PROVE  /\ call'[c] # None /\ call'[c].node = call[c].node /\ call'[c].pc = pc
             /\ \A d \in Callers \ {c} : call'[d] = call[d]
  <2>1. call[c] \in Call /\ [call[c] EXCEPT !.pc = pc] \in Call
    BY <1>1, <1>2 DEF Call
  <2>2. call'[c] = [call[c] EXCEPT !.pc = pc]
    BY <1>1, <1>2 DEF Goto
  <2> QED BY <1>1, <1>2, <2>1, <2>2 DEF Goto, Call
<1>3. ASSUME NEW n \in Nodes, NEW id \in Id, NEW pc \in {"check", "stop"},
             Request(c, n, id, pc)
      PROVE  /\ \A d \in Callers \ {c} : call'[d] = call[d]
             /\ late' = late /\ fleet' = fleet
             /\ \A m \in Nodes : PastCheck(c, m)' <=> PastCheck(c, m)
  <2>1. call[c] = None /\ call'[c] = [node |-> n, id |-> id, pc |-> pc]
    BY <1>1, <1>3 DEF Request
  <2>2. \A m : ~PastCheck(c, m) /\ ~PastCheck(c, m)'
    BY <2>1 DEF PastCheck
  <2> QED BY <1>1, <1>3, <2>2 DEF Request
<1>4. CASE PostAssign(c)
  <2>1. PICK n \in Nodes, op \in Operators, second \in now .. MaxSecond :
          Request(c, n, <<op, second>>, "check")
    BY <1>4 DEF PostAssign
  <2>2. now \in 1 .. MaxSecond /\ MaxSecond \in Nat
    BY FleetAssumption DEF OrchestratorTypes, Second, FleetAssumption
  <2>3. <<op, second>> \in Id
    BY <2>2 DEF Id, Second
  <2> QED BY <1>3, <2>1, <2>3
<1>5. CASE PostCancel(c)
  <2>1. PICK a \in answered : Request(c, a[1], a[2], "stop")
    BY <1>5 DEF PostCancel
  <2>2. a[1] \in Nodes /\ a[2] \in Id
    BY DEF OrchestratorTypes
  <2> QED BY <1>3, <2>1, <2>2
<1>6. CASE AssignCheck(c)
  <2>1. call[c] # None /\ call[c].pc = "check" /\ fleet' = fleet /\ late' = late
    BY <1>6 DEF AssignCheck, At
  <2>2. CASE Return(c)
    BY <1>1, <2>1, <2>2 DEF Return, PastCheck
  <2>3. CASE ~Return(c)
    <3>1. /\ Goto(c, "publish")
          /\ fleet[call[c].node].known /\ fleet[call[c].node].online
          /\ Len(fleet[call[c].node].assignments) < MaxAssignments
      BY <1>6, <2>3 DEF AssignCheck
    <3>2. \A n \in Nodes : ~PastCheck(c, n) /\ (PastCheck(c, n)' <=> n = call[c].node)
      BY <1>2, <2>1, <3>1 DEF PastCheck
    <3> QED BY <1>2, <1>6, <2>1, <3>1, <3>2
  <2> QED BY <2>2, <2>3
<1>7. CASE AssignPublish(c)
  <2>1. /\ call[c] # None /\ call[c].pc = "publish" /\ Goto(c, "track")
        /\ fleet' = fleet /\ late' = late
    BY <1>7 DEF AssignPublish, Publish, At
  <2>2. \A n \in Nodes : PastCheck(c, n)' <=> PastCheck(c, n)
    BY <1>2, <2>1 DEF PastCheck
  <2> QED BY <1>2, <2>1, <2>2
<1>8. CASE CancelPublish(c)
  <2>1. /\ call[c] # None /\ call[c].pc = "stop" /\ Goto(c, "untrack")
        /\ fleet' = fleet /\ late' = late
    BY <1>8 DEF CancelPublish, Publish, At
  <2>2. \A n \in Nodes : PastCheck(c, n)' <=> PastCheck(c, n)
    BY <1>2, <2>1 DEF PastCheck
  <2> QED BY <1>2, <2>1, <2>2
<1>9. CASE AssignTrack(c)
  BY <1>1, <1>9 DEF AssignTrack, At, Return, PastCheck
<1>10. CASE CancelUntrack(c)
  BY <1>1, <1>10 DEF CancelUntrack, At, Return, PastCheck
<1>11. CASE PublishFails(c)
  BY <1>1, <1>11 DEF PublishFails, Return, PastCheck
<1> QED BY <1>4, <1>5, <1>6, <1>7, <1>8, <1>9, <1>10, <1>11 DEF Caller

LEMMA BooksInvStep == TypeOK /\ BooksInv /\ [Next]_vars => BooksInv'
<1> SUFFICES ASSUME TypeOK, BooksInv, [Next]_vars, NEW n \in Nodes
             PROVE  /\ Backlog(n)' < MaxAssignments + Cardinality(Callers)
                    /\ fleet'[n].online \/ Backlog(n)' <= late'[n]
                    /\ ~fleet'[n].known =>
                         /\ ~fleet'[n].online /\ fleet'[n].assignments = <<>>
                         /\ \A c \in Callers : ~PastCheck(c, n)'
  BY DEF BooksInv
<1>0. /\ OrchestratorTypes /\ BrokerTypes
      /\ fleet[n] \in Books /\ Len(fleet[n].assignments) \in Nat /\ late[n] \in Nat
  <2>1. Cardinality(Callers) \in Nat
    BY Counted
  <2> QED BY <2>1 DEF TypeOK, OrchestratorTypes, Books
<1>1. /\ Len(fleet[n].assignments) + Past(n) < MaxAssignments + Cardinality(Callers)
      /\ fleet[n].online \/ Len(fleet[n].assignments) + Past(n) <= late[n]
      /\ ~fleet[n].known => /\ ~fleet[n].online /\ fleet[n].assignments = <<>>
                            /\ \A c \in Callers : ~PastCheck(c, n)
  BY DEF BooksInv, Backlog
<1>2. Past(n) \in 0 .. Cardinality(Callers) /\ Past(n)' \in 0 .. Cardinality(Callers)
  <2> DEFINE T == {c \in Callers : PastCheck(c, n)'}
  <2>1. /\ IsFiniteSet(T) /\ Cardinality(T) <= Cardinality(Callers)
    BY FS_Subset, FleetAssumption DEF FleetAssumption
  <2>2. Cardinality(T) \in 0 .. Cardinality(Callers)
    BY <2>1, FS_CardinalityType, Counted
  <2>3. Past(n)' = Cardinality(T)
    BY DEF Past
  <2> QED BY <2>2, <2>3, Counted
<1>3. Backlog(n)' = Len(fleet'[n].assignments) + Past(n)'
  BY DEF Backlog
<1>4. CASE UNCHANGED <<fleet, call, late>>
  BY <1>1, <1>3, <1>4 DEF Past, PastCheck
<1>5. CASE StartSubscribe \/ StartListen
  BY <1>4, <1>5 DEF StartSubscribe, StartListen
<1>6. CASE Hear
  <2> DEFINE m == Head(toServer)
  <2>1. m \in Fact /\ call' = call
    BY <1>0, <1>6, HeadTailProperties DEF Hear, BrokerTypes
  <2>2. m.node \in Nodes /\ m.online \in BOOLEAN
    BY <2>1 DEF Fact
  <2>3. Past(n)' = Past(n) /\ \A c \in Callers : PastCheck(c, n)' <=> PastCheck(c, n)
    BY <2>1 DEF Past, PastCheck
  <2>4. CASE orchestrator # "listening"
    BY <1>4, <1>6, <2>1, <2>4 DEF Hear
  <2>5. CASE orchestrator = "listening" /\ m.topic = "capability"
    <3>1. fleet' = HearCapability(m.node) /\ late' = late
      BY <1>6, <2>5 DEF Hear
    <3>2. \/ fleet'[n] = fleet[n]
          \/ /\ ~fleet[n].known /\ fleet'[n].known /\ fleet'[n].online
             /\ fleet'[n].assignments = <<>>
      BY <1>0, <2>2, <3>1 DEF HearCapability, OrchestratorTypes
    <3> QED BY <1>0, <1>1, <1>2, <1>3, <2>3, <3>1, <3>2
  <2>6. CASE orchestrator = "listening" /\ m.topic = "status"
    <3>1. fleet' = HearStatus(m.node, m.online)
      BY <1>6, <2>6 DEF Hear
    <3>2. CASE m.node # n
      <4>1. fleet'[n] = fleet[n]
        BY <1>0, <2>2, <3>1, <3>2, HearStatusEffect
      <4>2. late'[n] = late[n]
        BY <1>6, <3>2, <1>0 DEF Hear, OrchestratorTypes
      <4> QED BY <1>1, <1>3, <2>3, <4>1, <4>2
    <3>3. CASE m.node = n /\ m.online
      <4>1. late' = late
        BY <1>6, <3>3 DEF Hear
      <4>2. \/ fleet'[n] = fleet[n]
            \/ /\ fleet'[n].known /\ fleet'[n].online
               /\ fleet'[n].assignments = fleet[n].assignments
        BY <1>0, <2>2, <3>1, <3>3, HearStatusEffect
      <4> QED BY <1>1, <1>3, <2>3, <4>1, <4>2
    <3>4. CASE m.node = n /\ ~m.online
      <4>1. late'[n] = Past(n)
        BY <1>0, <1>6, <2>6, <3>4 DEF Hear, OrchestratorTypes, Past
      <4>2. \/ ~fleet[n].known /\ fleet'[n] = fleet[n]
            \/ fleet'[n].known /\ fleet'[n].assignments = <<>>
        BY <1>0, <2>2, <3>1, <3>4, HearStatusEffect
      <4>3. Len(fleet'[n].assignments) = 0
        BY <1>1, <4>2
      <4> QED BY <1>1, <1>2, <1>3, <2>3, <4>1, <4>2, <4>3, Counted
    <3> QED BY <3>2, <3>3, <3>4
  <2>7. m.topic \in {"capability", "status"}
    BY <2>1 DEF Fact
  <2> QED BY <2>4, <2>5, <2>6, <2>7
<1>7. ASSUME NEW c \in Callers, Caller(c)
      PROVE  /\ Backlog(n)' < MaxAssignments + Cardinality(Callers)
             /\ fleet'[n].online \/ Backlog(n)' <= late'[n]
             /\ ~fleet'[n].known =>
                  /\ ~fleet'[n].online /\ fleet'[n].assignments = <<>>
                  /\ \A d \in Callers : ~PastCheck(d, n)'
  <2>0. /\ \A d \in Callers \ {c} : call'[d] = call[d]
        /\ late' = late
        /\ \A d \in Callers \ {c} : PastCheck(d, n)' <=> PastCheck(d, n)
    BY <1>0, <1>7, CallerEffect DEF PastCheck
  <2>1. CASE fleet' = fleet /\ (PastCheck(c, n)' => PastCheck(c, n))
    <3>1. Past(n)' \in {Past(n), Past(n) - 1}
      BY <2>0, <2>1, PastChange
    <3> QED BY <1>0, <1>1, <1>2, <1>3, <2>0, <2>1, <3>1, Counted
  <2>2. CASE /\ fleet' = fleet /\ fleet[n].known /\ fleet[n].online
             /\ Len(fleet[n].assignments) < MaxAssignments
             /\ ~PastCheck(c, n) /\ PastCheck(c, n)'
    <3>1. Past(n)' <= Cardinality(Callers)
      BY <2>0, <2>2, PastChange
    <3> QED BY <1>0, <1>2, <1>3, <2>2, <3>1, Counted
  <2>3. CASE /\ AssignTrack(c)
             /\ \A m \in Nodes : /\ PastCheck(c, m) <=> m = call[c].node
                                 /\ ~PastCheck(c, m)'
    <3>1. CASE n = call[c].node
      <4>1. Past(n)' = Past(n) - 1
        BY <2>0, <2>3, <3>1, PastChange
      <4>2. /\ fleet'[n].assignments = Append(fleet[n].assignments, call[c].id)
            /\ fleet'[n].known = fleet[n].known /\ fleet'[n].online = fleet[n].online
        BY <1>0, <2>3, <3>1 DEF AssignTrack, OrchestratorTypes
      <4>3. Len(fleet'[n].assignments) = Len(fleet[n].assignments) + 1
        BY <1>0, <4>2 DEF Books
      <4>4. fleet[n].known
        BY <1>1, <2>3, <3>1
      <4> QED BY <1>0, <1>1, <1>2, <1>3, <2>0, <4>1, <4>2, <4>3, <4>4
    <3>2. CASE n # call[c].node
      <4>1. Past(n)' = Past(n)
        BY <2>0, <2>3, <3>2, PastChange
      <4>2. fleet'[n] = fleet[n]
        BY <1>0, <2>3, <3>2 DEF AssignTrack, OrchestratorTypes
      <4> QED BY <1>1, <1>3, <2>0, <2>3, <4>1, <4>2
    <3> QED BY <3>1, <3>2
  <2>4. CASE CancelUntrack(c) /\ ~PastCheck(c, n) /\ ~PastCheck(c, n)'
    <3>1. Past(n)' = Past(n)
      BY <2>0, <2>4, PastChange
    <3>2. CASE n = call[c].node
      <4>1. /\ fleet'[n].assignments = RemoveFirst(fleet[n].assignments, call[c].id)
            /\ fleet'[n].known = fleet[n].known /\ fleet'[n].online = fleet[n].online
        BY <1>0, <2>4, <3>2 DEF CancelUntrack, OrchestratorTypes
      <4>2. /\ fleet[n].assignments \in Seq(Id) /\ fleet'[n].assignments \in Seq(Id)
            /\ Len(fleet'[n].assignments) <= Len(fleet[n].assignments)
        <5>1. fleet[n].assignments \in Seq(Id)
          BY <1>0 DEF Books
        <5> QED BY <4>1, <5>1, RemoveFirstProperties
      <4>3. Len(fleet'[n].assignments) \in Nat
        BY <4>2
      <4>4. fleet[n].assignments = <<>> => fleet'[n].assignments = <<>>
        BY <4>2
      <4> QED BY <1>0, <1>1, <1>2, <1>3, <2>0, <2>4, <3>1, <4>1, <4>2, <4>3, <4>4, Counted
    <3>3. CASE n # call[c].node
      <4>1. fleet'[n] = fleet[n]
        BY <1>0, <2>4, <3>3 DEF CancelUntrack, OrchestratorTypes
      <4> QED BY <1>1, <1>3, <2>0, <2>4, <3>1, <4>1
    <3> QED BY <3>2, <3>3
  <2> QED BY <1>0, <1>7, <2>1, <2>2, <2>3, <2>4, CallerEffect
<1> QED BY <1>4, <1>5, <1>6, <1>7, OrchestratorSteps

LEMMA BooksInvAlways == Spec => []BooksInv
<1>1. Init => BooksInv
  <2> SUFFICES ASSUME Init, NEW n \in Nodes
               PROVE  /\ Backlog(n) < MaxAssignments + Cardinality(Callers)
                      /\ fleet[n].online \/ Backlog(n) <= late[n]
                      /\ ~fleet[n].known =>
                           /\ ~fleet[n].online /\ fleet[n].assignments = <<>>
                           /\ \A c \in Callers : ~PastCheck(c, n)
    BY DEF BooksInv
  <2>1. \A c \in Callers : ~PastCheck(c, n)
    BY DEF Init, PastCheck
  <2>2. Past(n) = 0
    <3>1. {c \in Callers : PastCheck(c, n)} = {}
      BY <2>1
    <3> QED BY <3>1, FS_EmptySet DEF Past
  <2>3. fleet[n] = Unknown /\ late[n] = 0
    BY DEF Init
  <2>4. Backlog(n) = 0
    BY <2>2, <2>3 DEF Backlog, Unknown
  <2> QED BY <2>1, <2>3, <2>4, Counted DEF Unknown
<1> QED BY <1>1, BooksInvStep, TypeCorrect, PTL DEF Spec

\* The limit of a node is exceeded by no more than the calls that passed its
\* check at the same time, and a node that went offline is left with no more
\* than the calls that had found it online: for any limit and any number of
\* threads, since assign_work gives its lock up between its check and its append.
THEOREM BooksBoundedAlways == Spec => []BooksBounded
<1>1. TypeOK /\ BooksInv => BooksBounded
  <2> SUFFICES ASSUME TypeOK, BooksInv, NEW n \in Nodes
               PROVE  /\ Len(fleet[n].assignments) < MaxAssignments + Cardinality(Callers)
                      /\ fleet[n].online \/ Len(fleet[n].assignments) <= late[n]
    BY DEF BooksBounded, CapacityBound, OfflineBacklog
  <2>1. Len(fleet[n].assignments) \in Nat /\ late[n] \in Nat
    BY Counted DEF TypeOK, OrchestratorTypes
  <2>2. /\ Backlog(n) < MaxAssignments + Cardinality(Callers)
        /\ fleet[n].online \/ Backlog(n) <= late[n]
    BY DEF BooksInv
  <2>3. Past(n) \in Nat /\ MaxAssignments \in Nat /\ Cardinality(Callers) \in Nat
    BY Counted
  <2>4. Backlog(n) = Len(fleet[n].assignments) + Past(n)
    BY DEF Backlog
  <2> QED BY <2>1, <2>2, <2>3, <2>4
<1> QED BY <1>1, BooksInvAlways, TypeCorrect, PTL

-----------------------------------------------------------------------------
(* A node that is gone is retained as offline.                             *)

\* The process has exited and the broker still holds its connection: what it
\* said last is in the queue.
Ended(n) == agent[n] = "off" /\ session[n] # "none"

\* A node says "offline" before it says "bye", and "bye" last.
Spoken(n) == IF Ended(n) THEN Len(uplink[n]) - 1 ELSE Len(uplink[n])
Leaves(n) ==
  /\ session[n] = "none" => uplink[n] = <<>>
  /\ session[n] = "none" /\ ~orphan[n] /\ ghosts[n] = 0 => retained[n].status # "online"
  /\ \A i \in 1 .. Len(uplink[n]) : uplink[n][i] = "bye" <=> Ended(n) /\ i = Len(uplink[n])
  /\ Ended(n) => uplink[n] # <<>>
  /\ (agent[n] = "leaving" \/ Ended(n)) /\ session[n] # "none" =>
       IF Spoken(n) = 0 THEN retained[n].status = "offline"
       ELSE uplink[n][Spoken(n)] = "offline"
FarewellInv == \A n \in Nodes : Leaves(n)

LEMMA LeavesFrame ==
  ASSUME NEW n, Leaves(n),
         agent'[n] = agent[n] \/ (agent[n] = "up" /\ agent'[n] = "sweeping"),
         session'[n] = session[n], uplink'[n] = uplink[n], retained'[n] = retained[n],
         orphan'[n] = orphan[n], ghosts'[n] = ghosts[n]
  PROVE  Leaves(n)'
BY DEF Leaves, Spoken, Ended

LEMMA FarewellStep == TypeOK /\ FarewellInv /\ [Next]_vars => FarewellInv'
<1> SUFFICES ASSUME TypeOK, FarewellInv, [Next]_vars, NEW n \in Nodes
             PROVE  Leaves(n)'
  BY DEF FarewellInv
<1>0. /\ agent \in [Nodes -> {"off", "up", "sweeping", "leaving"}]
      /\ retained \in [Nodes -> [capability : BOOLEAN, status : {"none", "online", "offline"}]]
      /\ session \in [Nodes -> {"none", "open", "subscribed"}]
      /\ orphan \in [Nodes -> BOOLEAN] /\ ghosts \in [Nodes -> Nat]
      /\ uplink \in [Nodes -> Seq(Packet)] /\ Leaves(n)
  BY DEF TypeOK, BrokerTypes, AgentTypes, Packet, FarewellInv
<1> DEFINE Same == /\ agent'[n] = agent[n] \/ (agent[n] = "up" /\ agent'[n] = "sweeping")
                   /\ session'[n] = session[n] /\ uplink'[n] = uplink[n]
                   /\ retained'[n] = retained[n]
                   /\ orphan'[n] = orphan[n] /\ ghosts'[n] = ghosts[n]
<1>1. CASE Same
  BY <1>0, <1>1, LeavesFrame
<1>2. ASSUME NEW k \in Nodes, k # n, Receive(k) \/ PublishWill(k) \/ Agent(k) PROVE Same
  <2>1. CASE Receive(k)
    BY <1>0, <1>2, <2>1 DEF Receive, agentVars
  <2>2. CASE PublishWill(k)
    BY <1>0, <1>2, <2>2 DEF PublishWill, agentVars
  <2>3. CASE AgentStart(k) \/ AgentConnect(k) \/ LinkLost(k) \/ AgentCrash(k)
    BY <1>0, <1>2, <2>3
       DEF AgentStart, AgentConnect, LinkLost, AgentCrash, Gone, agentVars, brokerVars
  <2>4. CASE TakeStart(k) \/ TakeStop(k) \/ Started(k) \/ StartFails(k) \/ ShutdownStop(k)
    BY <2>4 DEF TakeStart, TakeStop, Take, Started, StartFails, ShutdownStop, brokerVars
  <2>5. CASE ShutdownBegin(k) \/ ShutdownPublish(k) \/ ShutdownExit(k)
    BY <1>0, <1>2, <2>5 DEF ShutdownBegin, ShutdownPublish, ShutdownExit, Gone, brokerVars
  <2> QED BY <1>2, <2>1, <2>2, <2>3, <2>4, <2>5 DEF Agent
<1>3. CASE StartSubscribe \/ StartListen \/ Hear \/ BridgeDrop \/ BridgeReconnect \/ Deliver
  <2>1. UNCHANGED <<agent, session, uplink, retained, orphan, ghosts>>
    BY <1>3 DEF StartSubscribe, StartListen, Hear, BridgeDrop, BridgeReconnect, Deliver,
                agentVars, brokerVars
  <2> QED BY <1>1, <2>1
<1>4. ASSUME NEW c \in Callers, Caller(c) PROVE Same
  BY <1>4 DEF Caller, PostAssign, PostCancel, Request, AssignCheck, AssignPublish,
              CancelPublish, Publish, AssignTrack, CancelUntrack, PublishFails, agentVars, brokerVars
<1>5. CASE UNCHANGED vars
  BY <1>1, <1>5 DEF vars, agentVars, brokerVars
<1>6. CASE Receive(n)
  <2> DEFINE packet == Head(uplink[n])
             rest == Tail(uplink[n])
  <2>1. /\ session[n] # "none" /\ uplink[n] # <<>> /\ uplink'[n] = rest
        /\ agent' = agent /\ orphan' = orphan /\ ghosts' = ghosts
    BY <1>0, <1>6 DEF Receive, agentVars
  <2>2. /\ packet \in Packet /\ rest \in Seq(Packet) /\ Len(rest) = Len(uplink[n]) - 1
        /\ \A i \in 1 .. Len(rest) : rest[i] = uplink[n][i + 1]
        /\ Len(uplink[n]) \in Nat \ {0} /\ packet = uplink[n][1]
    BY <1>0, <2>1, HeadTailProperties
  <2>3. /\ packet = "bye" => session'[n] = "none"
        /\ packet # "bye" => session'[n] # "none"
    <3>1. session' = [session EXCEPT ![n] = CASE packet = "subscribe" -> "subscribed"
                                            [] packet = "bye" -> "none"
                                            [] OTHER -> @]
      BY <1>6 DEF Receive
    <3>2. session'[n] = CASE packet = "subscribe" -> "subscribed"
                          [] packet = "bye" -> "none"
                          [] OTHER -> session[n]
      BY <1>0, <3>1
    <3> HIDE DEF packet
    <3> QED BY <2>1, <3>2
  <2>4. /\ packet \in {"online", "offline"} => retained'[n].status = packet
        /\ packet \notin {"online", "offline"} => retained'[n].status = retained[n].status
    <3>1. retained' = CASE packet = "capability" -> [retained EXCEPT ![n].capability = TRUE]
                        [] packet \in {"online", "offline"} -> [retained EXCEPT ![n].status = packet]
                        [] OTHER -> retained
      BY <1>6 DEF Receive
    <3> HIDE DEF packet
    <3> QED BY <1>0, <3>1
  <2> HIDE DEF packet, rest
  <2>9. packet = "bye" <=> Ended(n) /\ 1 = Len(uplink[n])
    <3>1. 1 \in 1 .. Len(uplink[n])
      BY <2>2
    <3>2. uplink[n][1] = "bye" <=> Ended(n) /\ 1 = Len(uplink[n])
      BY <1>0, <3>1, Zenon DEF Leaves
    <3> QED BY <2>2, <3>2, Zenon
  <2>5. CASE packet = "bye"
    <3>1. Ended(n) /\ Len(uplink[n]) = 1
      BY <2>5, <2>9, Zenon
    <3>2. rest = <<>> /\ retained[n].status = "offline"
      BY <1>0, <2>2, <3>1 DEF Leaves, Ended, Spoken
    <3> QED BY <1>0, <2>1, <2>3, <2>4, <2>5, <3>2 DEF Leaves, Ended
  <2>6. CASE packet # "bye"
    <3>1. Ended(n)' <=> Ended(n)
      BY <2>1, <2>3, <2>6 DEF Ended
    <3>2. Ended(n) => Len(uplink[n]) # 1
      BY <2>6, <2>9, Zenon
    <3>3. \A i \in 1 .. Len(rest) : rest[i] = "bye" <=> Ended(n) /\ i = Len(rest)
      <4> TAKE i \in 1 .. Len(rest)
      <4>1. i + 1 \in 1 .. Len(uplink[n]) /\ rest[i] = uplink[n][i + 1]
        BY <2>2
      <4>2. uplink[n][i + 1] = "bye" <=> Ended(n) /\ i + 1 = Len(uplink[n])
        BY <1>0, <4>1 DEF Leaves
      <4> QED BY <2>2, <4>1, <4>2
    <3>4. Spoken(n)' = Spoken(n) - 1 /\ Spoken(n) \in Nat \ {0}
      BY <2>1, <2>2, <3>1, <3>2 DEF Spoken
    <3>5. ASSUME agent[n] = "leaving" \/ Ended(n)
          PROVE  IF Spoken(n)' = 0 THEN retained'[n].status = "offline"
                 ELSE rest[Spoken(n)'] = "offline"
      <4>1. uplink[n][Spoken(n)] = "offline"
        BY <1>0, <2>1, <3>4, <3>5 DEF Leaves
      <4>2. CASE Spoken(n) = 1
        BY <2>2, <2>4, <3>4, <4>1, <4>2
      <4>3. CASE Spoken(n) # 1
        <5>1. Spoken(n) - 1 \in 1 .. Len(rest)
          <6>1. Spoken(n) <= Len(uplink[n])
            BY <2>2 DEF Spoken
          <6>2. Spoken(n) \in Nat \ {0} /\ Spoken(n) # 1
            BY <3>4, <4>3
          <6> QED BY <2>2, <6>1, <6>2
        <5>2. rest[Spoken(n) - 1] = uplink[n][(Spoken(n) - 1) + 1]
          BY <2>2, <5>1
        <5>3. (Spoken(n) - 1) + 1 = Spoken(n)
          BY <3>4
        <5> QED BY <3>4, <4>1, <4>3, <5>2, <5>3
      <4> QED BY <4>2, <4>3
    <3>6. Ended(n) => rest # <<>>
      <4>1. Len(rest) = Len(uplink[n]) - 1
        BY <2>2
      <4>2. ASSUME rest = <<>> PROVE Len(uplink[n]) = 1
        <5>1. Len(rest) = 0
          BY <4>2
        <5>2. Len(uplink[n]) \in Nat
          BY <2>2
        <5> QED BY <4>1, <5>1, <5>2
      <4> QED BY <3>2, <4>2, Zenon
    <3> QED BY <2>1, <2>3, <2>6, <3>1, <3>3, <3>5, <3>6 DEF Leaves
  <2> QED BY <2>5, <2>6
<1>7. CASE PublishWill(n)
  <2>1. /\ retained'[n].status = "offline"
        /\ agent' = agent /\ session' = session /\ uplink' = uplink
    BY <1>0, <1>7 DEF PublishWill, agentVars
  <2> QED BY <1>0, <2>1 DEF Leaves, Ended, Spoken
<1>8. CASE AgentStart(n)
  <2>1. /\ session[n] = "none" /\ agent[n] = "off" /\ agent'[n] = "up"
        /\ UNCHANGED <<session, uplink, retained, orphan, ghosts>>
    BY <1>0, <1>8 DEF AgentStart, brokerVars
  <2> QED BY <1>0, <2>1 DEF Leaves, Ended, Spoken
<1>9. CASE AgentConnect(n)
  <2>1. /\ agent[n] \in {"up", "sweeping"} /\ agent' = agent
        /\ session'[n] = "open" /\ uplink'[n] = <<"online", "capability", "subscribe">>
    BY <1>0, <1>9 DEF AgentConnect, agentVars
  <2> QED BY <2>1 DEF Leaves, Ended, Spoken
<1>10. CASE LinkLost(n)
  <2>1. agent' = agent /\ session'[n] = "none" /\ uplink'[n] = <<>> /\ orphan'[n]
    BY <1>0, <1>10 DEF LinkLost, agentVars
  <2> QED BY <2>1 DEF Leaves, Ended, Spoken
<1>11. CASE AgentCrash(n)
  <2>1. /\ session'[n] = "none" /\ uplink'[n] = <<>> /\ retained' = retained
        /\ orphan[n] \/ session[n] # "none" => ghosts'[n] = ghosts[n] + 1
        /\ ~(orphan[n] \/ session[n] # "none") => ghosts'[n] = ghosts[n]
    BY <1>0, <1>11 DEF AgentCrash
  <2> QED BY <1>0, <2>1 DEF Leaves, Ended, Spoken
<1>12. CASE TakeStart(n) \/ TakeStop(n) \/ Started(n) \/ StartFails(n) \/ ShutdownStop(n)
  <2>1. Same
    BY <1>12 DEF TakeStart, TakeStop, Take, Started, StartFails, ShutdownStop, brokerVars
  <2> QED BY <1>1, <2>1
<1>13. CASE ShutdownBegin(n)
  <2>1. Same
    BY <1>0, <1>13 DEF ShutdownBegin, brokerVars
  <2> QED BY <1>1, <2>1
<1>14. CASE ShutdownPublish(n)
  <2>1. /\ agent[n] = "sweeping" /\ agent'[n] = "leaving"
        /\ UNCHANGED <<session, retained, orphan, ghosts>>
        /\ uplink'[n] = IF session[n] = "none" THEN uplink[n] ELSE Append(uplink[n], "offline")
    BY <1>0, <1>14 DEF ShutdownPublish
  <2>2. ~Ended(n) /\ ~Ended(n)'
    BY <2>1 DEF Ended
  <2>3. CASE session[n] = "none"
    <3>1. uplink[n] = <<>> /\ uplink'[n] = <<>> /\ session'[n] = "none"
      BY <1>0, <2>1, <2>3 DEF Leaves
    <3>2. ~orphan'[n] /\ ghosts'[n] = 0 => retained'[n].status # "online"
      BY <1>0, <2>1, <2>3 DEF Leaves
    <3>3. Len(uplink'[n]) = 0
      BY <3>1
    <3> QED BY <2>2, <3>1, <3>2, <3>3 DEF Leaves
  <2>4. CASE session[n] # "none"
    <3>1. /\ uplink'[n] \in Seq(Packet) /\ Len(uplink'[n]) = Len(uplink[n]) + 1
          /\ uplink'[n][Len(uplink[n]) + 1] = "offline"
          /\ \A i \in 1 .. Len(uplink[n]) : uplink'[n][i] = uplink[n][i]
          /\ Len(uplink[n]) \in Nat
      BY <1>0, <2>1, <2>4 DEF Packet
    <3>2. \A i \in 1 .. Len(uplink'[n]) : uplink'[n][i] # "bye"
      <4>1. \A i \in 1 .. Len(uplink[n]) : uplink[n][i] # "bye"
        BY <1>0, <2>2, Zenon DEF Leaves
      <4> QED BY <3>1, <4>1
    <3>3. Spoken(n)' = Len(uplink[n]) + 1 /\ Spoken(n)' # 0
      BY <2>2, <3>1 DEF Spoken
    <3> QED BY <2>1, <2>2, <2>4, <3>1, <3>2, <3>3 DEF Leaves
  <2> QED BY <2>3, <2>4
<1>15. CASE ShutdownExit(n)
  <2>1. /\ agent[n] = "leaving" /\ agent'[n] = "off" /\ session' = session
        /\ retained' = retained
        /\ uplink'[n] = IF session[n] = "none" THEN uplink[n] ELSE Append(uplink[n], "bye")
        /\ orphan[n] => ghosts'[n] = ghosts[n] + 1
        /\ ~orphan[n] => ghosts'[n] = ghosts[n]
    BY <1>0, <1>15 DEF ShutdownExit, Gone
  <2>2. CASE session[n] = "none"
    <3>1. uplink[n] = <<>> /\ uplink'[n] = <<>> /\ session'[n] = "none"
      BY <1>0, <2>1, <2>2 DEF Leaves
    <3>2. ~orphan[n] /\ ghosts[n] = 0 => retained'[n].status # "online"
      BY <1>0, <2>1, <2>2 DEF Leaves
    <3>3. ~orphan[n] /\ ghosts'[n] = 0 => retained'[n].status # "online"
      BY <2>1, <3>2
    <3>4. orphan[n] => ghosts'[n] # 0
      BY <1>0, <2>1
    <3>5. Len(uplink'[n]) = 0 /\ ~Ended(n)'
      BY <3>1 DEF Ended
    <3> QED BY <3>1, <3>3, <3>4, <3>5 DEF Leaves
  <2>3. CASE session[n] # "none"
    <3>0. ~Ended(n) /\ Ended(n)'
      BY <2>1, <2>3 DEF Ended
    <3>1. /\ uplink'[n] \in Seq(Packet) /\ Len(uplink'[n]) = Len(uplink[n]) + 1
          /\ uplink'[n][Len(uplink[n]) + 1] = "bye"
          /\ \A i \in 1 .. Len(uplink[n]) : uplink'[n][i] = uplink[n][i]
          /\ Len(uplink[n]) \in Nat
      BY <1>0, <2>1, <2>3 DEF Packet
    <3>2. \A i \in 1 .. Len(uplink'[n]) : uplink'[n][i] = "bye" <=> i = Len(uplink'[n])
      <4>1. \A i \in 1 .. Len(uplink[n]) : uplink[n][i] # "bye"
        BY <1>0, <3>0, Zenon DEF Leaves
      <4> QED BY <3>1, <4>1
    <3>3. Spoken(n)' = Len(uplink[n]) /\ Spoken(n) = Len(uplink[n])
      BY <3>0, <3>1 DEF Spoken
    <3>4. IF Spoken(n) = 0 THEN retained[n].status = "offline"
          ELSE uplink[n][Spoken(n)] = "offline"
      BY <1>0, <2>1, <2>3 DEF Leaves
    <3>5. IF Spoken(n)' = 0 THEN retained'[n].status = "offline"
          ELSE uplink'[n][Spoken(n)'] = "offline"
      BY <2>1, <3>1, <3>3, <3>4
    <3>6. uplink'[n] # <<>>
      BY <3>1
    <3> QED BY <2>1, <2>3, <3>0, <3>2, <3>5, <3>6 DEF Leaves
  <2> QED BY <2>2, <2>3
<1>16. CASE \E k \in Nodes : Receive(k) \/ PublishWill(k) \/ Agent(k)
  <2>1. PICK k \in Nodes : Receive(k) \/ PublishWill(k) \/ Agent(k)
    BY <1>16
  <2>2. CASE k # n
    BY <1>1, <1>2, <2>1, <2>2
  <2>3. CASE k = n
    BY <2>1, <2>3, <1>6, <1>7, <1>8, <1>9, <1>10, <1>11, <1>12, <1>13, <1>14, <1>15 DEF Agent
  <2> QED BY <2>2, <2>3
<1> QED BY <1>1, <1>3, <1>4, <1>5, <1>16 DEF Next

LEMMA FarewellAlways == Spec => []FarewellInv
<1>1. Init => FarewellInv
  <2> SUFFICES ASSUME Init, NEW n \in Nodes PROVE Leaves(n)
    BY DEF FarewellInv
  <2>1. /\ session[n] = "none" /\ uplink[n] = <<>> /\ retained[n].status = "none"
        /\ agent[n] = "off"
    BY DEF Init
  <2> QED BY <2>1 DEF Leaves, Ended
<1> QED BY <1>1, FarewellStep, TypeCorrect, PTL DEF Spec

\* Once the broker has dealt with all a node sent and with its dead connections,
\* a node that does not run is retained as offline, for any number of nodes,
\* crashes and lost connections (worker_agent.py, its will and its shutdown).
THEOREM DeadNodeAlwaysSaysOffline == Spec => []DeadNodeSaysOffline
<1>1. FarewellInv => DeadNodeSaysOffline
  BY DEF FarewellInv, Leaves, DeadNodeSaysOffline
<1> QED BY <1>1, FarewellAlways, PTL

-----------------------------------------------------------------------------
(* The books match the node.                                               *)

LEMMA DisturbedGrows == TypeOK /\ [Next]_vars => disturbed \subseteq disturbed'
<1> SUFFICES ASSUME TypeOK, [Next]_vars PROVE disturbed \subseteq disturbed'
  OBVIOUS
<1>1. CASE UNCHANGED <<agent, sweep, wiring, operators, handles, faults, disturbed>>
  BY <1>1
<1>2. CASE BridgeDrop \/ Deliver
  BY <1>2 DEF BridgeDrop, Deliver
<1>3. ASSUME NEW n \in Nodes,
             LinkLost(n) \/ AgentStart(n) \/ AgentCrash(n) \/ TakeStart(n) \/ TakeStop(n)
               \/ Started(n) \/ StartFails(n) \/ ShutdownBegin(n) \/ ShutdownStop(n)
               \/ ShutdownPublish(n) \/ ShutdownExit(n)
      PROVE  disturbed \subseteq disturbed'
  BY <1>3 DEF LinkLost, AgentStart, AgentCrash, Take, TakeStart, TakeStop, Started, StartFails,
              ShutdownBegin, ShutdownStop, ShutdownPublish, ShutdownExit
<1> QED BY <1>1, <1>2, <1>3, AgentSteps

\* A node that lost no connection was never shut down, and nobody ever said of
\* it that it is offline.
Clean(n) ==
  /\ agent[n] \in {"off", "up"} /\ ~orphan[n] /\ ghosts[n] = 0
  /\ agent[n] = "off" => session[n] = "none"
  /\ retained[n].status # "offline"
  /\ \A i \in 1 .. Len(uplink[n]) : uplink[n][i] \notin {"offline", "bye"}
NoBadNews(n) == \A i \in 1 .. Len(toServer) : toServer[i].node = n => toServer[i].online
CleanInv == \A n \in Nodes \ disturbed : Clean(n) /\ NoBadNews(n)

LEMMA NotifyNews ==
  ASSUME TypeOK, NEW n \in Nodes, NoBadNews(n), NEW facts \in Seq(Fact), Notify(facts),
         \A i \in 1 .. Len(facts) : facts[i].node = n => facts[i].online
  PROVE  NoBadNews(n)'
<1>1. toServer \in Seq(Fact)
  BY DEF TypeOK, BrokerTypes
<1>2. CASE toServer' = toServer
  BY <1>2 DEF NoBadNews
<1>3. CASE toServer' = toServer \o facts
  <2>1. /\ Len(toServer \o facts) = Len(toServer) + Len(facts)
        /\ \A i \in 1 .. Len(toServer) + Len(facts) :
             (toServer \o facts)[i] = IF i <= Len(toServer) THEN toServer[i]
                                      ELSE facts[i - Len(toServer)]
        /\ Len(toServer) \in Nat /\ Len(facts) \in Nat
    BY <1>1, ConcatProperties, LenProperties
  <2> SUFFICES ASSUME NEW i \in 1 .. Len(toServer) + Len(facts),
                      (toServer \o facts)[i].node = n
               PROVE  (toServer \o facts)[i].online
    BY <1>3, <2>1 DEF NoBadNews
  <2>2. CASE i <= Len(toServer)
    <3>1. i \in 1 .. Len(toServer) /\ (toServer \o facts)[i] = toServer[i]
      BY <2>1, <2>2
    <3> QED BY <3>1 DEF NoBadNews
  <2>3. CASE ~(i <= Len(toServer))
    <3>1. /\ i - Len(toServer) \in 1 .. Len(facts)
          /\ (toServer \o facts)[i] = facts[i - Len(toServer)]
      BY <2>1, <2>3
    <3> QED BY <3>1
  <2> QED BY <2>2, <2>3
<1> QED BY <1>2, <1>3 DEF Notify

LEMMA OneFactNews ==
  ASSUME TypeOK, NEW n \in Nodes, NoBadNews(n), NEW m \in Fact, Notify(<<m>>),
         m.node = n => m.online
  PROVE  NoBadNews(n)'
<1>1. <<m>> \in Seq(Fact) /\ Len(<<m>>) = 1 /\ <<m>>[1] = m
  OBVIOUS
<1>2. \A i \in 1 .. Len(<<m>>) : <<m>>[i] = m
  BY <1>1
<1> QED BY <1>1, <1>2, NotifyNews

LEMMA CleanStep == TypeOK /\ CleanInv /\ [Next]_vars => CleanInv'
<1> SUFFICES ASSUME TypeOK, CleanInv, [Next]_vars, NEW n \in Nodes \ disturbed'
             PROVE  Clean(n)' /\ NoBadNews(n)'
  BY DEF CleanInv
<1>0. /\ agent \in [Nodes -> {"off", "up", "sweeping", "leaving"}]
      /\ retained \in [Nodes -> [capability : BOOLEAN, status : {"none", "online", "offline"}]]
      /\ session \in [Nodes -> {"none", "open", "subscribed"}]
      /\ orphan \in [Nodes -> BOOLEAN] /\ ghosts \in [Nodes -> Nat]
      /\ uplink \in [Nodes -> Seq(Packet)] /\ toServer \in Seq(Fact) /\ n \in Nodes
      /\ n \notin disturbed /\ Clean(n) /\ NoBadNews(n) /\ disturbed \subseteq Nodes
  BY DisturbedGrows DEF TypeOK, BrokerTypes, AgentTypes, Packet, CleanInv
<1> DEFINE Same == /\ agent'[n] = agent[n] /\ session'[n] = session[n]
                   /\ uplink'[n] = uplink[n] /\ retained'[n] = retained[n]
                   /\ orphan'[n] = orphan[n] /\ ghosts'[n] = ghosts[n]
<1>1. ASSUME Same PROVE Clean(n)'
  BY <1>0, <1>1 DEF Clean
<1>2. ASSUME toServer' = toServer PROVE NoBadNews(n)'
  BY <1>0, <1>2 DEF NoBadNews
<1>3. CASE StartSubscribe
  <2>1. Same
    BY <1>3 DEF StartSubscribe, agentVars
  <2>2. ASSUME toServer' = RetainedFacts(Nodes) PROVE NoBadNews(n)'
    <3>1. \A i \in 1 .. Len(RetainedFacts(Nodes)) :
            LET m == RetainedFacts(Nodes)[i] IN
            ~m.online => retained[m.node].status = "offline"
      BY RetainedFactsTyped DEF TypeOK
    <3>2. \A i \in 1 .. Len(toServer') : toServer'[i].node = n => toServer'[i].online
      <4> HIDE DEF Same
      <4> QED BY <1>0, <2>2, <3>1 DEF Clean
    <3> QED BY <3>2 DEF NoBadNews
  <2> QED BY <1>1, <1>2, <1>3, <2>1, <2>2 DEF StartSubscribe
<1>4. CASE Hear
  <2>1. Same /\ toServer # <<>> /\ toServer' = Tail(toServer)
    BY <1>4 DEF Hear, agentVars
  <2>2. /\ Len(toServer') = Len(toServer) - 1 /\ Len(toServer) \in Nat
        /\ \A i \in 1 .. Len(toServer') : toServer'[i] = toServer[i + 1]
    BY <1>0, <2>1, HeadTailProperties, LenProperties
  <2>3. \A i \in 1 .. Len(toServer') : i + 1 \in 1 .. Len(toServer)
    BY <2>2
  <2> QED BY <1>0, <1>1, <2>1, <2>2, <2>3 DEF NoBadNews
<1>5. CASE BridgeDrop
  <2>1. Same /\ toServer' = <<>>
    BY <1>5 DEF BridgeDrop, agentVars
  <2> QED BY <1>1, <2>1 DEF NoBadNews
<1>6. CASE StartListen \/ BridgeReconnect \/ Deliver
  BY <1>1, <1>2, <1>6 DEF StartListen, BridgeReconnect, Deliver, agentVars, brokerVars
<1>7. ASSUME NEW c \in Callers, Caller(c) PROVE Same /\ toServer' = toServer
  BY <1>7 DEF Caller, PostAssign, PostCancel, Request, AssignCheck, AssignPublish,
              CancelPublish, Publish, AssignTrack, CancelUntrack, PublishFails, agentVars, brokerVars
<1>8. CASE UNCHANGED vars
  BY <1>1, <1>2, <1>8 DEF vars, agentVars, brokerVars
<1>9. ASSUME NEW k \in Nodes, Receive(k) PROVE Clean(n)' /\ NoBadNews(n)'
  <2> DEFINE packet == Head(uplink[k])
             facts == CASE packet = "capability" -> <<Capability(k)>>
                        [] packet \in {"online", "offline"} -> <<Status(k, packet = "online")>>
                        [] OTHER -> <<>>
  <2>1. /\ uplink[k] # <<>> /\ uplink' = [uplink EXCEPT ![k] = Tail(@)]
        /\ agent' = agent /\ orphan' = orphan /\ ghosts' = ghosts /\ Notify(facts)
    BY <1>9 DEF Receive, agentVars
  <2>2. /\ packet \in Packet /\ Tail(uplink[k]) \in Seq(Packet)
        /\ Len(Tail(uplink[k])) = Len(uplink[k]) - 1
        /\ \A i \in 1 .. Len(Tail(uplink[k])) : Tail(uplink[k])[i] = uplink[k][i + 1]
        /\ Len(uplink[k]) \in Nat \ {0} /\ packet = uplink[k][1]
    BY <1>0, <2>1, HeadTailProperties
  <2>3. k = n => packet \notin {"offline", "bye"}
    <3>1. 1 \in 1 .. Len(uplink[k])
      BY <2>2
    <3> QED BY <1>0, <2>2, <3>1 DEF Clean
  <2>4. NoBadNews(n)'
    <3>1. CASE packet = "capability"
      <4>1. Capability(k) \in Fact /\ Capability(k).online /\ facts = <<Capability(k)>>
        BY <3>1 DEF Capability, Fact
      <4> QED BY <1>0, <2>1, <4>1, OneFactNews
    <3>2. CASE packet \in {"online", "offline"}
      <4>1. /\ facts = <<Status(k, packet = "online")>> /\ Status(k, packet = "online") \in Fact
            /\ Status(k, packet = "online").node = k
            /\ (Status(k, packet = "online").online <=> packet = "online")
        BY <3>2 DEF Status, Fact
      <4>2. k = n => packet = "online"
        BY <2>3, <3>2
      <4> HIDE DEF packet, facts
      <4> QED BY <1>0, <2>1, <4>1, <4>2, OneFactNews
    <3>3. CASE packet \notin {"capability", "online", "offline"}
      <4>1. facts = <<>>
        BY <3>3
      <4>2. toServer \o <<>> = toServer
        BY <1>0, ConcatEmptySeq
      <4>3. toServer' = toServer
        BY <2>1, <4>1, <4>2 DEF Notify
      <4> QED BY <1>2, <4>3
    <3> QED BY <3>1, <3>2, <3>3
  <2>5. CASE k # n
    <3>1. Same
      BY <1>0, <1>9, <2>5 DEF Receive, agentVars
    <3> QED BY <1>1, <2>4, <3>1
  <2>6. CASE k = n
    <3>1. retained'[n].status # "offline"
      <4>1. retained' = CASE packet = "capability" -> [retained EXCEPT ![k].capability = TRUE]
                          [] packet \in {"online", "offline"} -> [retained EXCEPT ![k].status = packet]
                          [] OTHER -> retained
        BY <1>9 DEF Receive
      <4> HIDE DEF packet
      <4> QED BY <1>0, <2>3, <2>6, <4>1 DEF Clean
    <3>2. \A i \in 1 .. Len(uplink'[n]) : uplink'[n][i] \notin {"offline", "bye"}
      <4>1. uplink'[n] = Tail(uplink[n])
        BY <1>0, <2>1, <2>6
      <4>2. \A i \in 1 .. Len(Tail(uplink[n])) : i + 1 \in 1 .. Len(uplink[n])
        BY <2>2, <2>6
      <4> QED BY <1>0, <2>2, <2>6, <4>1, <4>2 DEF Clean
    <3>3. agent[n] # "off"
      BY <1>0, <1>9, <2>6 DEF Clean, Receive
    <3> QED BY <1>0, <2>1, <2>4, <3>1, <3>2, <3>3 DEF Clean
  <2> QED BY <2>5, <2>6
<1>10. ASSUME NEW k \in Nodes, PublishWill(k) PROVE Clean(n)' /\ NoBadNews(n)'
  <2>1. k # n
    BY <1>0, <1>10 DEF Clean, PublishWill
  <2>2. Same /\ Notify(<<Status(k, FALSE)>>)
    BY <1>0, <1>10, <2>1 DEF PublishWill, agentVars
  <2>3. NoBadNews(n)'
    <3>1. Status(k, FALSE) \in Fact /\ Status(k, FALSE).node = k
      BY DEF Status, Fact
    <3> QED BY <1>0, <2>1, <2>2, <3>1, OneFactNews
  <2> QED BY <1>1, <2>2, <2>3
<1>11. ASSUME NEW k \in Nodes, AgentConnect(k) PROVE Clean(n)' /\ NoBadNews(n)'
  <2>1. CASE k # n
    <3>1. Same
      BY <1>0, <1>11, <2>1 DEF AgentConnect, agentVars
    <3>2. NoBadNews(n)'
      <4>1. Status(k, FALSE) \in Fact /\ Status(k, FALSE).node = k
        BY DEF Status, Fact
      <4>2. CASE Notify(<<Status(k, FALSE)>>)
        BY <1>0, <2>1, <4>1, <4>2, OneFactNews
      <4> QED BY <1>2, <1>11, <4>2 DEF AgentConnect
    <3> QED BY <1>1, <3>1, <3>2
  <2>2. CASE k = n
    <3>1. /\ uplink'[n] = <<"online", "capability", "subscribe">> /\ ~orphan'[n]
          /\ agent' = agent /\ ghosts' = ghosts /\ agent[n] # "off"
          /\ retained' = retained /\ toServer' = toServer
      BY <1>0, <1>11, <2>2 DEF AgentConnect, agentVars, Clean
    <3> QED BY <1>0, <1>2, <3>1 DEF Clean
  <2> QED BY <2>1, <2>2
<1>12. ASSUME NEW k \in Nodes, AgentStart(k) PROVE Clean(n)' /\ NoBadNews(n)'
  <2>1. /\ UNCHANGED <<retained, session, orphan, ghosts, uplink, toServer>>
        /\ agent'[n] \in {"off", "up"} /\ session[k] = "none"
        /\ agent'[n] = "off" => agent[n] = "off"
    BY <1>0, <1>12 DEF AgentStart, brokerVars, Clean
  <2> QED BY <1>0, <1>2, <2>1 DEF Clean
<1>13. ASSUME NEW k \in Nodes, LinkLost(k) \/ AgentCrash(k) \/ ShutdownBegin(k)
       PROVE  Same /\ toServer' = toServer
  <2>1. k # n
    BY <1>0, <1>13 DEF LinkLost, AgentCrash, ShutdownBegin
  <2> QED BY <1>0, <1>13, <2>1
          DEF LinkLost, AgentCrash, ShutdownBegin, Gone, agentVars, brokerVars
<1>14. ASSUME NEW k \in Nodes, ShutdownPublish(k) \/ ShutdownExit(k)
       PROVE  Same /\ toServer' = toServer
  <2>1. k # n
    BY <1>0, <1>14 DEF ShutdownPublish, ShutdownExit, Clean
  <2> QED BY <1>0, <1>14, <2>1 DEF ShutdownPublish, ShutdownExit, Gone
<1>15. ASSUME NEW k \in Nodes, TakeStart(k) \/ TakeStop(k) \/ Started(k) \/ StartFails(k)
                                \/ ShutdownStop(k)
       PROVE  Same /\ toServer' = toServer
  BY <1>15 DEF TakeStart, TakeStop, Take, Started, StartFails, ShutdownStop, brokerVars
<1> QED BY <1>1, <1>2, <1>3, <1>4, <1>5, <1>6, <1>7, <1>8, <1>9, <1>10, <1>11, <1>12, <1>13,
           <1>14, <1>15 DEF Next, Agent

LEMMA CleanAlways == Spec => []CleanInv
<1>1. Init => CleanInv
  <2> SUFFICES ASSUME Init, NEW n \in Nodes PROVE Clean(n) /\ NoBadNews(n)
    BY DEF CleanInv
  <2>1. /\ agent[n] = "off" /\ orphan[n] = FALSE /\ ghosts[n] = 0 /\ session[n] = "none"
        /\ retained[n].status = "none" /\ uplink[n] = <<>> /\ toServer = <<>>
    BY DEF Init
  <2> QED BY <2>1 DEF Clean, NoBadNews
<1> QED BY <1>1, CleanStep, TypeCorrect, PTL DEF Spec

\* Where an element stands in a sequence.
Places(s, e) == {i \in 1 .. Len(s) : s[i] = e}
Once(S) == \A i, j \in S : i = j

LEMMA AppendPlaces ==
  ASSUME NEW S, NEW s \in Seq(S), NEW x \in S, NEW e
  PROVE  /\ x # e => Places(Append(s, x), e) = Places(s, e)
         /\ Places(Append(s, e), e) = Places(s, e) \union {Len(s) + 1}
<1>1. \A y : /\ Len(Append(s, y)) = Len(s) + 1 /\ Append(s, y)[Len(s) + 1] = y
             /\ \A i \in 1 .. Len(s) : Append(s, y)[i] = s[i]
  OBVIOUS
<1>2. Len(s) \in Nat
  OBVIOUS
<1> QED BY <1>1, <1>2 DEF Places

LEMMA RemoveFirstPlaces ==
  ASSUME NEW S, NEW s \in Seq(S), NEW x, NEW e
  PROVE  LET t == RemoveFirst(s, x) IN
         /\ x # e => (Places(t, e) = {} <=> Places(s, e) = {})
                     /\ (Once(Places(s, e)) => Once(Places(t, e)))
         /\ Places(t, e) # {} => Places(s, e) # {}
         /\ Once(Places(s, x)) => Places(t, x) = {}
<1> DEFINE t == RemoveFirst(s, x)
<1>0. Len(s) \in Nat /\ t \in Seq(S) /\ Len(t) \in Nat
  BY RemoveFirstProperties
<1>1. CASE \A i \in 1 .. Len(s) : s[i] # x
  <2>1. t = s
    BY <1>1, RemoveFirstProperties
  <2>2. Places(s, x) = {}
    BY <1>1 DEF Places
  <2> QED BY <2>1, <2>2
<1>2. CASE \E i \in 1 .. Len(s) : s[i] = x
  <2>1. PICK k \in 1 .. Len(s) :
          /\ s[k] = x /\ Len(t) = Len(s) - 1
          /\ \A i \in 1 .. Len(s) - 1 : t[i] = IF i < k THEN s[i] ELSE s[i + 1]
    BY <1>2, RemoveFirstProperties
  <2> DEFINE Old(i) == IF i < k THEN i ELSE i + 1
  <2> HIDE DEF t
  <2>2. \A i \in 1 .. Len(t) : Old(i) \in 1 .. Len(s) /\ Old(i) # k /\ t[i] = s[Old(i)]
    BY <1>0, <2>1
  <2>3. \A i, j \in 1 .. Len(t) : Old(i) = Old(j) => i = j
    BY <1>0, <2>1
  <2>4. \A i \in 1 .. Len(s) \ {k} : \E j \in 1 .. Len(t) : Old(j) = i
    <3> TAKE i \in 1 .. Len(s) \ {k}
    <3>1. CASE i < k
      BY <1>0, <2>1, <3>1
    <3>2. CASE ~(i < k)
      <4>1. i - 1 \in 1 .. Len(t) /\ Old(i - 1) = i
        BY <1>0, <2>1, <3>2
      <4> QED BY <4>1
    <3> QED BY <3>1, <3>2
  <2> HIDE DEF Old
  <2>5. \A y : \A i \in Places(t, y) : Old(i) \in Places(s, y) \ {k}
    BY <2>2 DEF Places
  <2>6. ASSUME NEW y, Once(Places(s, y)) PROVE Once(Places(t, y))
    <3>1. \A i, j \in Places(t, y) : Old(i) = Old(j)
      BY <2>5, <2>6 DEF Once
    <3> QED BY <2>3, <3>1 DEF Once, Places
  <2>7. x # e /\ Places(s, e) # {} => Places(t, e) # {}
    <3> SUFFICES ASSUME x # e, NEW i \in Places(s, e) PROVE Places(t, e) # {}
      OBVIOUS
    <3>1. i \in 1 .. Len(s) \ {k} /\ s[i] = e
      BY <2>1 DEF Places
    <3>2. PICK j \in 1 .. Len(t) : Old(j) = i
      BY <2>4, <3>1
    <3>3. t[j] = e
      BY <2>2, <3>1, <3>2
    <3> QED BY <3>3 DEF Places
  <2>8. Once(Places(s, x)) => Places(t, x) = {}
    <3>1. k \in Places(s, x)
      BY <2>1 DEF Places
    <3> QED BY <2>5, <3>1 DEF Once
  <2> QED BY <2>5, <2>6, <2>7, <2>8 DEF t
<1> QED BY <1>1, <1>2

-----------------------------------------------------------------------------
(* The life of one assignment: the commands issued for it, the calls on     *)
(* their way to the books, its entries there, and whether a client knows it. *)

Issued(n, id, action) ==
  {i \in 1 .. Len(log) : log[i].node = n /\ log[i].id = id /\ log[i].action = action}
On(n, id) == Issued(n, id, "start") \union Issued(n, id, "stop")
Doing(c, n, id, pc) == At(c, pc) /\ call[c].node = n /\ call[c].id = id
Who(n, id, pc) == {c \in Callers : Doing(c, n, id, pc)}
Entries(n, id) == Places(fleet[n].assignments, id)
Told(n, id) == <<n, id>> \in answered

KeepsLog(n, id) == \A a \in {"start", "stop"} : Issued(n, id, a)' = Issued(n, id, a)
KeepsCalls(n, id) == \A pc \in {"track", "untrack"} : Who(n, id, pc)' = Who(n, id, pc)
KeepsStops(n, id) == Told(n, id) \/ Who(n, id, "stop")' \subseteq Who(n, id, "stop")
KeepsEntries(n, id) ==
  /\ Entries(n, id)' # {} => Entries(n, id) # {}
  /\ n \notin disturbed => /\ Entries(n, id) # {} => Entries(n, id)' # {}
                           /\ Once(Entries(n, id)) => Once(Entries(n, id)')
KeepsTold(n, id) == Told(n, id)' <=> Told(n, id)

\* Nothing happens to the assignment but that a client may ask to cancel it.
Rests(n, id) ==
  /\ KeepsLog(n, id) /\ KeepsCalls(n, id) /\ KeepsStops(n, id)
  /\ KeepsEntries(n, id) /\ KeepsTold(n, id)
StartIssued(n, id) ==
  /\ Issued(n, id, "start")' = Issued(n, id, "start") \union {Len(log) + 1}
  /\ Issued(n, id, "stop")' = Issued(n, id, "stop")
  /\ \E c \in Callers : Who(n, id, "track")' = Who(n, id, "track") \union {c}
  /\ Who(n, id, "untrack")' = Who(n, id, "untrack")
  /\ KeepsStops(n, id) /\ Entries(n, id)' = Entries(n, id) /\ KeepsTold(n, id)
Tracked(n, id) ==
  /\ KeepsLog(n, id) /\ Who(n, id, "untrack")' = Who(n, id, "untrack")
  /\ \E c \in Who(n, id, "track") : Who(n, id, "track")' = Who(n, id, "track") \ {c}
  /\ Entries(n, id)' = Entries(n, id) \union {Len(fleet[n].assignments) + 1}
  /\ Told(n, id)' /\ KeepsStops(n, id)
StopIssued(n, id) ==
  /\ Issued(n, id, "stop")' = Issued(n, id, "stop") \union {Len(log) + 1}
  /\ Issued(n, id, "start")' = Issued(n, id, "start")
  /\ \E c \in Who(n, id, "stop") : Who(n, id, "untrack")' = Who(n, id, "untrack") \union {c}
  /\ Who(n, id, "track")' = Who(n, id, "track")
  /\ KeepsStops(n, id) /\ Entries(n, id)' = Entries(n, id) /\ KeepsTold(n, id)
Untracked(n, id) ==
  /\ KeepsLog(n, id) /\ Who(n, id, "track")' = Who(n, id, "track")
  /\ \E c \in Who(n, id, "untrack") : Who(n, id, "untrack")' = Who(n, id, "untrack") \ {c}
  /\ Entries(n, id)' # {} => Entries(n, id) # {}
  /\ Once(Entries(n, id)) => Entries(n, id)' = {}
  /\ KeepsTold(n, id) /\ KeepsStops(n, id)

LEMMA WhoChange ==
  ASSUME NEW c \in Callers, \A d \in Callers \ {c} : call'[d] = call[d],
         NEW n, NEW id, NEW pc
  PROVE  /\ Doing(c, n, id, pc)' => Who(n, id, pc)' = Who(n, id, pc) \union {c}
         /\ ~Doing(c, n, id, pc)' => Who(n, id, pc)' = Who(n, id, pc) \ {c}
         /\ (Doing(c, n, id, pc)' <=> Doing(c, n, id, pc)) => Who(n, id, pc)' = Who(n, id, pc)
<1> DEFINE T == {d \in Callers : Doing(d, n, id, pc)'}
<1>1. Who(n, id, pc)' = T
  BY DEF Who
<1>2. \A d \in Callers \ {c} : Doing(d, n, id, pc)' <=> Doing(d, n, id, pc)
  BY DEF Doing, At
<1> QED BY <1>1, <1>2 DEF Who

LEMMA PublishEffect ==
  ASSUME TypeOK, NEW c \in Callers, call[c] # None, NEW action \in {"start", "stop"},
         NEW next, Publish(c, action, next), NEW n, NEW id
  PROVE  /\ ~(call[c].node = n /\ call[c].id = id) => KeepsLog(n, id)
         /\ \A a \in {"start", "stop"} \ {action} : Issued(n, id, a)' = Issued(n, id, a)
         /\ call[c].node = n /\ call[c].id = id
              => Issued(n, id, action)' = Issued(n, id, action) \union {Len(log) + 1}
         /\ Len(log') = Len(log) + 1 /\ sent' = sent
         /\ \A i \in 1 .. Len(log) : log'[i] = log[i]
<1> DEFINE m == [node |-> call[c].node, id |-> call[c].id, action |-> action]
<1>1. log \in Seq(Command) /\ log' = Append(log, m)
  BY DEF TypeOK, ClientTypes, Publish
<1>2. /\ m.node = call[c].node /\ m.id = call[c].id /\ m.action = action
  OBVIOUS
<1> HIDE DEF m
<1>3. /\ Len(log) \in Nat /\ Len(log') = Len(log) + 1 /\ log'[Len(log) + 1] = m
      /\ \A i \in 1 .. Len(log) : log'[i] = log[i]
  BY <1>1
<1>4. \A a : Issued(n, id, a)' =
               {i \in 1 .. Len(log) + 1 :
                  log'[i].node = n /\ log'[i].id = id /\ log'[i].action = a}
  BY <1>3 DEF Issued
<1>5. \A a : ~(call[c].node = n /\ call[c].id = id /\ a = action)
                => Issued(n, id, a)' = Issued(n, id, a)
  BY <1>2, <1>3, <1>4 DEF Issued
<1>6. call[c].node = n /\ call[c].id = id
        => Issued(n, id, action)' = Issued(n, id, action) \union {Len(log) + 1}
  BY <1>2, <1>3, <1>4 DEF Issued
<1>7. ~(call[c].node = n /\ call[c].id = id) => KeepsLog(n, id)
  BY <1>5, Zenon DEF KeepsLog
<1> QED BY <1>3, <1>5, <1>6, <1>7 DEF Publish

\* What a step means for one assignment.
LEMMA AssignmentMoves ==
  ASSUME TypeOK, BooksInv, CleanInv, [Next]_vars, NEW n \in Nodes, NEW id \in Id
  PROVE  \/ Rests(n, id) \/ StartIssued(n, id) \/ Tracked(n, id) \/ StopIssued(n, id)
         \/ Untracked(n, id)
<1>0. /\ OrchestratorTypes /\ BrokerTypes /\ fleet[n] \in Books
      /\ fleet[n].assignments \in Seq(Id)
  BY DEF TypeOK, OrchestratorTypes, Books
<1>1. ASSUME UNCHANGED <<call, answered>>, KeepsLog(n, id), KeepsEntries(n, id)
      PROVE  Rests(n, id)
  BY <1>1 DEF Rests, KeepsCalls, KeepsStops, KeepsTold, Who, Doing, At, Told
<1>2. ASSUME log' = log PROVE KeepsLog(n, id)
  BY <1>2 DEF KeepsLog, Issued
<1>3. ASSUME fleet'[n].assignments = fleet[n].assignments
      PROVE  Entries(n, id)' = Entries(n, id) /\ KeepsEntries(n, id)
  BY <1>3 DEF KeepsEntries, Entries
<1>4. CASE UNCHANGED vars
  BY <1>1, <1>2, <1>3, <1>4 DEF vars, serverVars, bridgeVars
<1>5. CASE StartSubscribe \/ StartListen \/ BridgeDrop \/ BridgeReconnect \/ Deliver
  BY <1>1, <1>2, <1>3, <1>5
     DEF StartSubscribe, StartListen, BridgeDrop, BridgeReconnect, Deliver, serverVars,
         bridgeVars
<1>6. ASSUME NEW k \in Nodes, Receive(k) \/ PublishWill(k) \/ Agent(k)
      PROVE  UNCHANGED <<serverVars, bridgeVars>>
  BY <1>6 DEF Receive, PublishWill, Agent, AgentStart, AgentConnect, LinkLost, AgentCrash,
              Take, TakeStart, TakeStop, Started, StartFails, ShutdownBegin, ShutdownStop,
              ShutdownPublish, ShutdownExit
<1>7. CASE Hear
  <2> DEFINE m == Head(toServer)
  <2>1. /\ m \in Fact /\ m = toServer[1] /\ 1 \in 1 .. Len(toServer)
    BY <1>0, <1>7, HeadTailProperties DEF Hear, BrokerTypes
  <2>2. m.node \in Nodes /\ m.online \in BOOLEAN
    BY <2>1 DEF Fact
  <2>3. n \notin disturbed /\ m.node = n => m.online
    BY <2>1 DEF CleanInv, NoBadNews
  <2>4. \/ fleet'[n].assignments = fleet[n].assignments
        \/ fleet'[n].assignments = <<>> /\ n \in disturbed
    <3>1. CASE fleet' = fleet
      BY <3>1
    <3>2. CASE fleet' = HearCapability(m.node)
      <4>1. ~fleet[n].known => fleet[n].assignments = <<>>
        BY DEF BooksInv
      <4> QED BY <1>0, <2>2, <3>2, <4>1 DEF HearCapability, OrchestratorTypes
    <3>3. CASE fleet' = HearStatus(m.node, m.online)
      <4>1. CASE m.node # n
        BY <1>0, <2>2, <3>3, <4>1, HearStatusEffect
      <4>2. CASE m.node = n
        <5>1. \/ fleet'[n] = fleet[n]
              \/ fleet'[n].assignments = IF m.online THEN fleet[n].assignments ELSE <<>>
          BY <1>0, <2>2, <3>3, <4>2, HearStatusEffect
        <5> QED BY <2>3, <4>2, <5>1
      <4> QED BY <4>1, <4>2
    <3> QED BY <1>7, <3>1, <3>2, <3>3 DEF Hear
  <2>5. KeepsEntries(n, id)
    <3>1. ASSUME fleet'[n].assignments = <<>>, n \in disturbed PROVE KeepsEntries(n, id)
      BY <3>1 DEF KeepsEntries, Entries, Places
    <3> QED BY <1>3, <2>4, <3>1
  <2>6. UNCHANGED <<call, answered, log>>
    BY <1>7 DEF Hear, bridgeVars
  <2> QED BY <1>1, <1>2, <2>5, <2>6
<1>8. ASSUME NEW c \in Callers, Caller(c)
      PROVE  \/ Rests(n, id) \/ StartIssued(n, id) \/ Tracked(n, id) \/ StopIssued(n, id)
             \/ Untracked(n, id)
  <2>0. /\ \A d \in Callers \ {c} : call'[d] = call[d]
        /\ DOMAIN call = Callers /\ None \notin Call
        /\ \A d \in Callers : call[d] # None => call[d] \in Call
    BY <1>0, <1>8, CallerEffect, FleetAssumption DEF OrchestratorTypes, FleetAssumption
  <2> DEFINE Mine == call[c].node = n /\ call[c].id = id
  <2>1. ASSUME NEW pc \in {"check", "publish", "track", "stop", "untrack"}, call[c] # None,
               Goto(c, pc)
        PROVE  /\ call'[c] # None /\ call'[c].node = call[c].node /\ call'[c].id = call[c].id
               /\ call'[c].pc = pc
    <3>1. call[c] \in Call /\ [call[c] EXCEPT !.pc = pc] \in Call
      BY <2>0, <2>1 DEF Call
    <3>2. call'[c] = [call[c] EXCEPT !.pc = pc]
      BY <2>0, <2>1 DEF Goto
    <3> QED BY <2>0, <2>1, <3>1, <3>2 DEF Call
  <2>2. ASSUME fleet' = fleet, UNCHANGED <<answered, log>>,
               \A pc \in {"track", "untrack"} : Doing(c, n, id, pc)' <=> Doing(c, n, id, pc),
               Told(n, id) \/ ~Doing(c, n, id, "stop")'
        PROVE  Rests(n, id)
    <3>1. KeepsCalls(n, id) /\ KeepsStops(n, id)
      BY <2>0, <2>2, WhoChange DEF KeepsCalls, KeepsStops
    <3> QED BY <1>2, <1>3, <2>2, <3>1 DEF Rests, KeepsTold, Told
  <2>3. ASSUME call[c] = None, NEW k \in Nodes, NEW x \in Id, NEW pc \in {"check", "stop"},
               call' = [call EXCEPT ![c] = [node |-> k, id |-> x, pc |-> pc]],
               fleet' = fleet, UNCHANGED <<answered, log>>,
               pc = "stop" => <<k, x>> \in answered
        PROVE  Rests(n, id)
    <3>1. call'[c] = [node |-> k, id |-> x, pc |-> pc]
      BY <2>0, <2>3
    <3>2. /\ \A p \in {"track", "untrack"} : ~Doing(c, n, id, p) /\ ~Doing(c, n, id, p)'
          /\ Doing(c, n, id, "stop")' => pc = "stop" /\ k = n /\ x = id
      BY <2>3, <3>1 DEF Doing, At
    <3>3. Told(n, id) \/ ~Doing(c, n, id, "stop")'
      BY <2>3, <3>2 DEF Told
    <3> QED BY <2>2, <2>3, <3>2, <3>3
  <2>4. CASE PostAssign(c)
    <3>1. PICK k \in Nodes, op \in Operators, second \in now .. MaxSecond :
            Request(c, k, <<op, second>>, "check")
      BY <2>4 DEF PostAssign
    <3>2. now \in 1 .. MaxSecond /\ MaxSecond \in Nat
      BY <1>0, FleetAssumption DEF OrchestratorTypes, Second, FleetAssumption
    <3>3. <<op, second>> \in Id
      BY <3>2 DEF Id, Second
    <3> QED BY <2>3, <3>1, <3>3 DEF Request, bridgeVars
  <2>5. CASE PostCancel(c)
    <3>1. PICK a \in answered : Request(c, a[1], a[2], "stop")
      BY <2>5 DEF PostCancel
    <3>2. a \in Nodes \X Id
      BY <1>0 DEF OrchestratorTypes
    <3>3. a[1] \in Nodes /\ a[2] \in Id /\ a = <<a[1], a[2]>>
      BY <3>2
    <3>4. <<a[1], a[2]>> \in answered
      BY <3>3, Zenon
    <3> QED BY <2>3, <3>1, <3>3, <3>4 DEF Request, bridgeVars
  <2>6. CASE AssignCheck(c)
    <3>1. /\ call[c] # None /\ call[c].pc = "check" /\ fleet' = fleet
          /\ UNCHANGED <<answered, log>> /\ (Goto(c, "publish") \/ Return(c))
      BY <2>6 DEF AssignCheck, At, bridgeVars
    <3>2. call'[c] = None \/ call'[c].pc = "publish"
      BY <2>0, <2>1, <3>1 DEF Return
    <3>3. \A pc \in {"track", "untrack", "stop"} : ~Doing(c, n, id, pc) /\ ~Doing(c, n, id, pc)'
      BY <3>1, <3>2 DEF Doing, At
    <3> QED BY <2>2, <3>1, <3>3
  <2>7. ASSUME NEW a \in {"start", "stop"}, NEW pc \in {"publish", "stop"},
               NEW next \in {"track", "untrack"}, At(c, pc), Publish(c, a, next),
               <<a, pc, next>> \in {<<"start", "publish", "track">>,
                                    <<"stop", "stop", "untrack">>}
        PROVE  Rests(n, id) \/ StartIssued(n, id) \/ StopIssued(n, id)
    <3>1. /\ call[c] # None /\ call[c].pc = pc /\ Goto(c, next)
          /\ fleet' = fleet /\ answered' = answered
      BY <2>7 DEF At, Publish
    <3>2. /\ call'[c] # None /\ call'[c].node = call[c].node /\ call'[c].id = call[c].id
          /\ call'[c].pc = next
      BY <2>1, <3>1
    <3>3. /\ Entries(n, id)' = Entries(n, id) /\ KeepsEntries(n, id) /\ KeepsTold(n, id)
      BY <1>3, <3>1 DEF KeepsTold, Told
    <3>4. KeepsStops(n, id)
      <4>1. ~Doing(c, n, id, "stop")'
        BY <3>2 DEF Doing, At
      <4> QED BY <2>0, <4>1, WhoChange DEF KeepsStops
    <3>5. CASE ~Mine
      <4>1. KeepsLog(n, id)
        BY <2>7, <3>1, <3>5, PublishEffect
      <4>2. \A p : ~Doing(c, n, id, p) /\ ~Doing(c, n, id, p)'
        BY <3>2, <3>5 DEF Doing, At
      <4>3. KeepsCalls(n, id)
        BY <2>0, <4>2, WhoChange DEF KeepsCalls
      <4> QED BY <3>3, <3>4, <4>1, <4>3 DEF Rests
    <3>6. CASE Mine /\ a = "start"
      <4>1. pc = "publish" /\ next = "track"
        BY <2>7, <3>6
      <4>2. /\ Doing(c, n, id, "track")'
            /\ ~Doing(c, n, id, "untrack") /\ ~Doing(c, n, id, "untrack")'
        BY <3>1, <3>2, <3>6, <4>1 DEF Doing, At
      <4>3. /\ Issued(n, id, "start")' = Issued(n, id, "start") \union {Len(log) + 1}
            /\ Issued(n, id, "stop")' = Issued(n, id, "stop")
        BY <2>7, <3>1, <3>6, PublishEffect
      <4>4. /\ Who(n, id, "track")' = Who(n, id, "track") \union {c}
            /\ Who(n, id, "untrack")' = Who(n, id, "untrack")
        BY <2>0, <4>2, WhoChange
      <4> QED BY <3>3, <3>4, <4>3, <4>4 DEF StartIssued
    <3>7. CASE Mine /\ a = "stop"
      <4>1. pc = "stop" /\ next = "untrack"
        BY <2>7, <3>7
      <4>2. /\ Doing(c, n, id, "untrack")' /\ Doing(c, n, id, "stop")
            /\ ~Doing(c, n, id, "track") /\ ~Doing(c, n, id, "track")'
        BY <3>1, <3>2, <3>7, <4>1 DEF Doing, At
      <4>3. /\ Issued(n, id, "stop")' = Issued(n, id, "stop") \union {Len(log) + 1}
            /\ Issued(n, id, "start")' = Issued(n, id, "start")
        BY <2>7, <3>1, <3>7, PublishEffect
      <4>4. /\ Who(n, id, "untrack")' = Who(n, id, "untrack") \union {c}
            /\ Who(n, id, "track")' = Who(n, id, "track")
        BY <2>0, <4>2, WhoChange
      <4>5. c \in Who(n, id, "stop")
        BY <4>2 DEF Who
      <4> QED BY <3>3, <3>4, <4>3, <4>4, <4>5 DEF StopIssued
    <3> QED BY <3>5, <3>6, <3>7
  <2>8. CASE AssignTrack(c) \/ CancelUntrack(c)
    <3> DEFINE pc == IF AssignTrack(c) THEN "track" ELSE "untrack"
    <3>1. /\ call[c] # None /\ call[c] \in Call /\ call'[c] = None /\ log' = log
      BY <2>0, <2>8 DEF AssignTrack, CancelUntrack, PublishFails, At, Return, bridgeVars
    <3>2. /\ KeepsLog(n, id) /\ \A p : ~Doing(c, n, id, p)'
      BY <1>2, <3>1 DEF Doing, At
    <3>3. /\ KeepsStops(n, id)
          /\ \A p \in {"track", "untrack"} : Who(n, id, p)' = Who(n, id, p) \ {c}
          /\ \A p \in {"track", "untrack"} :
               ~Doing(c, n, id, p) => Who(n, id, p)' = Who(n, id, p)
      BY <2>0, <3>2, WhoChange DEF KeepsStops
    <3>4. CASE AssignTrack(c)
      <4>1. /\ call[c].pc = "track"
            /\ fleet' = [fleet EXCEPT ![call[c].node].assignments = Append(@, call[c].id)]
            /\ answered' = answered \union {<<call[c].node, call[c].id>>}
        BY <3>4 DEF AssignTrack, At
      <4>2. ~Doing(c, n, id, "untrack")
        BY <4>1 DEF Doing, At
      <4>3. CASE Mine
        <5>1. fleet'[n].assignments = Append(fleet[n].assignments, id)
          BY <1>0, <4>1, <4>3 DEF OrchestratorTypes
        <5>2. Entries(n, id)' = Entries(n, id) \union {Len(fleet[n].assignments) + 1}
          BY <1>0, <5>1, AppendPlaces DEF Entries
        <5>3. Told(n, id)' /\ c \in Who(n, id, "track")
          BY <3>1, <4>1, <4>3 DEF Told, Who, Doing, At
        <5> QED BY <3>2, <3>3, <4>2, <5>2, <5>3 DEF Tracked
      <4>4. CASE ~Mine
        <5>1. Entries(n, id)' = Entries(n, id)
          <6>1. CASE call[c].node = n
            <7>1. fleet'[n].assignments = Append(fleet[n].assignments, call[c].id)
              BY <1>0, <4>1, <6>1 DEF OrchestratorTypes
            <7>2. call[c].id \in Id /\ call[c].id # id
              BY <3>1, <4>4, <6>1 DEF Call
            <7> QED BY <1>0, <7>1, <7>2, AppendPlaces DEF Entries
          <6>2. CASE call[c].node # n
            BY <1>0, <4>1, <6>2 DEF Entries, OrchestratorTypes
          <6> QED BY <6>1, <6>2
        <5>2. KeepsTold(n, id)
          BY <4>1, <4>4 DEF KeepsTold, Told
        <5>3. \A p : ~Doing(c, n, id, p)
          BY <4>4 DEF Doing
        <5> QED BY <3>2, <3>3, <5>1, <5>2, <5>3 DEF Rests, KeepsCalls, KeepsEntries
      <4> QED BY <4>3, <4>4
    <3>5. CASE CancelUntrack(c)
      <4>1. /\ call[c].pc = "untrack" /\ answered' = answered
            /\ fleet' = [fleet EXCEPT ![call[c].node].assignments = RemoveFirst(@, call[c].id)]
        BY <3>5 DEF CancelUntrack, At
      <4>2. ~Doing(c, n, id, "track") /\ KeepsTold(n, id)
        BY <4>1 DEF Doing, At, KeepsTold, Told
      <4>3. CASE Mine
        <5>1. fleet'[n].assignments = RemoveFirst(fleet[n].assignments, id)
          BY <1>0, <4>1, <4>3 DEF OrchestratorTypes
        <5>2. /\ Entries(n, id)' # {} => Entries(n, id) # {}
              /\ Once(Entries(n, id)) => Entries(n, id)' = {}
          BY <1>0, <5>1, RemoveFirstPlaces DEF Entries
        <5>3. c \in Who(n, id, "untrack")
          BY <3>1, <4>1, <4>3 DEF Who, Doing, At
        <5> QED BY <3>2, <3>3, <4>2, <5>2, <5>3 DEF Untracked
      <4>4. CASE ~Mine
        <5>1. KeepsEntries(n, id)
          <6>1. CASE call[c].node = n
            <7>1. fleet'[n].assignments = RemoveFirst(fleet[n].assignments, call[c].id)
              BY <1>0, <4>1, <6>1 DEF OrchestratorTypes
            <7>2. call[c].id # id
              BY <4>4, <6>1
            <7>3. /\ Entries(n, id)' = {} <=> Entries(n, id) = {}
                  /\ Once(Entries(n, id)) => Once(Entries(n, id)')
              BY <1>0, <7>1, <7>2, RemoveFirstPlaces DEF Entries
            <7> QED BY <7>3 DEF KeepsEntries
          <6>2. CASE call[c].node # n
            BY <1>0, <1>3, <4>1, <6>2 DEF OrchestratorTypes
          <6> QED BY <6>1, <6>2
        <5>2. \A p : ~Doing(c, n, id, p)
          BY <4>4 DEF Doing
        <5> QED BY <3>2, <3>3, <4>2, <5>1, <5>2 DEF Rests, KeepsCalls
      <4> QED BY <4>3, <4>4
    <3> QED BY <2>8, <3>4, <3>5
  <2>9. CASE PublishFails(c)
    <3>1. /\ call[c] # None /\ call[c].pc \in {"publish", "stop"} /\ call'[c] = None
          /\ fleet' = fleet /\ UNCHANGED <<answered, log>>
      BY <2>0, <2>9 DEF PublishFails, At, Return, bridgeVars
    <3>2. /\ \A pc \in {"track", "untrack"} : ~Doing(c, n, id, pc) /\ ~Doing(c, n, id, pc)'
          /\ ~Doing(c, n, id, "stop")'
      BY <3>1 DEF Doing, At
    <3> QED BY <2>2, <3>1, <3>2
  <2> QED BY <1>8, <2>4, <2>5, <2>6, <2>7, <2>8, <2>9 DEF Caller, AssignPublish, CancelPublish
<1>9. CASE \E k \in Nodes : Receive(k) \/ PublishWill(k) \/ Agent(k)
  BY <1>1, <1>2, <1>3, <1>6, <1>9 DEF serverVars, bridgeVars
<1> QED BY <1>4, <1>5, <1>7, <1>8, <1>9 DEF Next

\* A stop is issued after a start: only what a client was told of is cancelled,
\* and it is told after the start was published.
Ordered(n, id) ==
  /\ \A q \in Issued(n, id, "stop") : \E p \in Issued(n, id, "start") : p < q
  /\ Told(n, id) \/ Entries(n, id) # {} \/ Who(n, id, "track") # {}
       => Issued(n, id, "start") # {}
  /\ Who(n, id, "stop") \union Who(n, id, "untrack") # {} => Told(n, id)
OrderInv == \A n \in Nodes, id \in Id : Ordered(n, id)

LEMMA OrderStep == TypeOK /\ BooksInv /\ CleanInv /\ OrderInv /\ [Next]_vars => OrderInv'
<1> SUFFICES ASSUME TypeOK, BooksInv, CleanInv, OrderInv, [Next]_vars,
                    NEW n \in Nodes, NEW id \in Id
             PROVE  Ordered(n, id)'
  BY DEF OrderInv
<1>0. Ordered(n, id) /\ Len(log) \in Nat /\ \A a : Issued(n, id, a) \subseteq 1 .. Len(log)
  BY DEF OrderInv, TypeOK, ClientTypes, Issued
<1>1. CASE Rests(n, id)
  <2>1. /\ Issued(n, id, "start")' = Issued(n, id, "start")
        /\ Issued(n, id, "stop")' = Issued(n, id, "stop")
        /\ Who(n, id, "track")' = Who(n, id, "track")
        /\ Who(n, id, "untrack")' = Who(n, id, "untrack")
        /\ Told(n, id) \/ Who(n, id, "stop")' \subseteq Who(n, id, "stop")
        /\ Entries(n, id)' # {} => Entries(n, id) # {}
        /\ Told(n, id)' <=> Told(n, id)
    BY <1>1 DEF Rests, KeepsLog, KeepsCalls, KeepsStops, KeepsEntries, KeepsTold
  <2> QED BY <1>0, <2>1 DEF Ordered
<1>2. CASE StartIssued(n, id)
  <2>1. /\ Issued(n, id, "start")' = Issued(n, id, "start") \union {Len(log) + 1}
        /\ Issued(n, id, "stop")' = Issued(n, id, "stop")
        /\ Who(n, id, "untrack")' = Who(n, id, "untrack")
        /\ Told(n, id) \/ Who(n, id, "stop")' \subseteq Who(n, id, "stop")
        /\ Told(n, id)' <=> Told(n, id)
    BY <1>2 DEF StartIssued, KeepsStops, KeepsTold
  <2> QED BY <1>0, <2>1 DEF Ordered
<1>3. CASE Tracked(n, id)
  <2>1. /\ Issued(n, id, "start")' = Issued(n, id, "start")
        /\ Issued(n, id, "stop")' = Issued(n, id, "stop")
        /\ Who(n, id, "track") # {} /\ Told(n, id)'
    BY <1>3 DEF Tracked, KeepsLog
  <2> QED BY <1>0, <2>1 DEF Ordered
<1>4. CASE StopIssued(n, id)
  <2>1. /\ Issued(n, id, "start")' = Issued(n, id, "start")
        /\ Issued(n, id, "stop")' = Issued(n, id, "stop") \union {Len(log) + 1}
        /\ Who(n, id, "stop") # {} /\ (Told(n, id)' <=> Told(n, id))
    BY <1>4 DEF StopIssued, KeepsTold
  <2>2. Told(n, id) /\ Issued(n, id, "start") # {}
    BY <1>0, <2>1 DEF Ordered
  <2>3. \E p \in Issued(n, id, "start") : p < Len(log) + 1
    BY <1>0, <2>2
  <2> QED BY <1>0, <2>1, <2>2, <2>3 DEF Ordered
<1>5. CASE Untracked(n, id)
  <2>1. /\ Issued(n, id, "start")' = Issued(n, id, "start")
        /\ Issued(n, id, "stop")' = Issued(n, id, "stop")
        /\ Who(n, id, "untrack") # {} /\ (Told(n, id)' <=> Told(n, id))
    BY <1>5 DEF Untracked, KeepsLog, KeepsTold
  <2>2. Told(n, id) /\ Issued(n, id, "start") # {}
    BY <1>0, <2>1 DEF Ordered
  <2> QED BY <1>0, <2>1, <2>2 DEF Ordered
<1> QED BY <1>1, <1>2, <1>3, <1>4, <1>5, AssignmentMoves

\* Of an id that was given out once, on a node that kept its connection: it is
\* on the books from the call that tracks it to the call that cancels it.
Balanced(n, id) ==
  /\ Once(Entries(n, id))
  /\ \A c \in Who(n, id, "track") :
       Entries(n, id) = {} /\ ~Told(n, id) /\ Who(n, id, "track") = {c}
  /\ Issued(n, id, "start") # {} /\ Entries(n, id) = {}
       => Issued(n, id, "stop") # {} \/ Who(n, id, "track") # {}
  /\ Issued(n, id, "stop") # {} => Told(n, id)
  /\ Entries(n, id) # {} /\ Issued(n, id, "stop") # {} => Who(n, id, "untrack") # {}
  /\ Who(n, id, "untrack") # {} => Issued(n, id, "stop") # {}
OnceInv ==
  \A n \in Nodes \ disturbed, id \in Id : Once(Issued(n, id, "start")) => Balanced(n, id)

LEMMA OnceStep ==
  TypeOK /\ BooksInv /\ CleanInv /\ OrderInv /\ OnceInv /\ [Next]_vars => OnceInv'
<1> SUFFICES ASSUME TypeOK, BooksInv, CleanInv, OrderInv, OnceInv, [Next]_vars,
                    NEW n \in Nodes \ disturbed', NEW id \in Id,
                    Once(Issued(n, id, "start")')
             PROVE  Balanced(n, id)'
  BY DEF OnceInv, Once
<1> DEFINE starts == Issued(n, id, "start")
           stops == Issued(n, id, "stop")
           tracks == Who(n, id, "track")
           untracks == Who(n, id, "untrack")
           entries == Entries(n, id)
<1>0. /\ n \in Nodes /\ n \notin disturbed /\ Ordered(n, id) /\ Len(log) \in Nat
      /\ \A a : Issued(n, id, a) \subseteq 1 .. Len(log)
      /\ Once(starts) => Balanced(n, id)
  BY DisturbedGrows DEF OrderInv, OnceInv, TypeOK, ClientTypes, Issued
<1>1. CASE Rests(n, id)
  <2>1. /\ starts' = starts /\ stops' = stops /\ tracks' = tracks /\ untracks' = untracks
        /\ entries' # {} <=> entries # {}
        /\ Once(entries) => Once(entries')
        /\ Told(n, id)' <=> Told(n, id)
    BY <1>0, <1>1 DEF Rests, KeepsLog, KeepsCalls, KeepsEntries, KeepsTold
  <2>2. Balanced(n, id)
    BY <1>0, <2>1
  <2> QED BY <2>1, <2>2 DEF Balanced, Once
<1>2. CASE StartIssued(n, id)
  <2>1. /\ starts' = starts \union {Len(log) + 1} /\ stops' = stops /\ untracks' = untracks
        /\ entries' = entries /\ (Told(n, id)' <=> Told(n, id))
    BY <1>2 DEF StartIssued, KeepsTold
  <2>2. PICK c \in Callers : tracks' = tracks \union {c}
    BY <1>2 DEF StartIssued
  <2>3. starts = {}
    <3>1. \A p \in starts : p = Len(log) + 1
      BY <2>1 DEF Once
    <3> QED BY <1>0, <3>1
  <2>4. stops = {} /\ entries = {} /\ tracks = {} /\ untracks = {} /\ ~Told(n, id)
    BY <1>0, <2>3 DEF Ordered
  <2> QED BY <2>1, <2>2, <2>4 DEF Balanced, Once
<1>3. CASE Tracked(n, id)
  <2>1. /\ starts' = starts /\ stops' = stops /\ untracks' = untracks /\ Told(n, id)'
        /\ entries' = entries \union {Len(fleet[n].assignments) + 1}
    BY <1>3 DEF Tracked, KeepsLog
  <2>2. PICK c \in tracks : tracks' = tracks \ {c}
    BY <1>3 DEF Tracked
  <2>3. Balanced(n, id)
    BY <1>0, <2>1
  <2>4. entries = {} /\ ~Told(n, id) /\ tracks' = {} /\ stops = {}
    BY <2>2, <2>3 DEF Balanced
  <2> QED BY <2>1, <2>3, <2>4 DEF Balanced, Once
<1>4. CASE StopIssued(n, id)
  <2>1. /\ starts' = starts /\ stops' = stops \union {Len(log) + 1} /\ tracks' = tracks
        /\ entries' = entries /\ (Told(n, id)' <=> Told(n, id))
        /\ Who(n, id, "stop") # {} /\ untracks' # {}
    BY <1>4 DEF StopIssued, KeepsTold
  <2>2. Balanced(n, id) /\ Told(n, id)
    BY <1>0, <2>1 DEF Ordered
  <2> QED BY <2>1, <2>2 DEF Balanced, Once
<1>5. CASE Untracked(n, id)
  <2>1. /\ starts' = starts /\ stops' = stops /\ tracks' = tracks
        /\ Once(entries) => entries' = {}
        /\ untracks # {} /\ (Told(n, id)' <=> Told(n, id))
    BY <1>5 DEF Untracked, KeepsLog, KeepsTold
  <2>2. Balanced(n, id)
    BY <1>0, <2>1
  <2>3. entries' = {} /\ stops # {}
    BY <2>1, <2>2 DEF Balanced
  <2> QED BY <2>1, <2>2, <2>3 DEF Balanced, Once
<1> QED BY <1>0, <1>1, <1>2, <1>3, <1>4, <1>5, AssignmentMoves

LEMMA AssignmentsAlways == Spec => [](BooksInv /\ CleanInv /\ OrderInv /\ OnceInv)
<1>1. Init => OrderInv /\ OnceInv
  <2> SUFFICES ASSUME Init, NEW n \in Nodes, NEW id \in Id
               PROVE  Ordered(n, id) /\ Balanced(n, id)
    BY DEF OrderInv, OnceInv
  <2>1. /\ fleet[n].assignments = <<>> /\ answered = {} /\ log = <<>>
        /\ \A c \in Callers : call[c] = None
    BY DEF Init, Unknown
  <2>2. /\ \A a : Issued(n, id, a) = {}
        /\ \A pc : Who(n, id, pc) = {}
        /\ Entries(n, id) = {} /\ ~Told(n, id)
    BY <2>1 DEF Issued, Who, Doing, At, Entries, Places, Told
  <2> QED BY <2>2 DEF Ordered, Balanced, Once
<1> QED BY <1>1, OrderStep, OnceStep, BooksInvAlways, CleanAlways, TypeCorrect, PTL DEF Spec

-----------------------------------------------------------------------------
(* Commands on their way to a node, and what it has made of them.          *)

\* The log of commands only grows, and then nothing else of this moves.
LEMMA LogMoves ==
  ASSUME TypeOK, [Next]_vars
  PROVE  \/ log' = log
         \/ /\ Len(log') = Len(log) + 1 /\ sent' = sent
            /\ \A i \in 1 .. Len(log) : log'[i] = log[i]
            /\ UNCHANGED <<downlink, operators, wiring, disturbed>>
<1>1. ASSUME NEW c \in Callers, AssignPublish(c) \/ CancelPublish(c)
      PROVE  /\ Len(log') = Len(log) + 1 /\ sent' = sent
             /\ \A i \in 1 .. Len(log) : log'[i] = log[i]
             /\ UNCHANGED <<downlink, operators, wiring, disturbed>>
  <2> DEFINE Entry(a) == [node |-> call[c].node, id |-> call[c].id, action |-> a]
  <2>1. /\ sent' = sent /\ UNCHANGED <<downlink, operators, wiring, disturbed>>
        /\ \E a \in {"start", "stop"} : log' = Append(log, Entry(a))
    BY <1>1 DEF AssignPublish, CancelPublish, Publish, brokerVars, agentVars
  <2>2. log \in Seq(Command)
    BY DEF TypeOK, ClientTypes
  <2> HIDE DEF Entry
  <2> QED BY <2>1, <2>2
<1>2. CASE StartSubscribe \/ BridgeDrop \/ BridgeReconnect \/ Deliver
  BY <1>2 DEF StartSubscribe, BridgeDrop, BridgeReconnect, Deliver
<1> QED BY <1>1, <1>2, ClientSteps

LEMMA DownlinkMoves ==
  ASSUME TypeOK, [Next]_vars, NEW n \in Nodes
  PROVE  \/ downlink'[n] \in {downlink[n], <<>>}
         \/ Deliver /\ log[sent + 1].node = n /\ downlink'[n] = Append(downlink[n], sent + 1)
         \/ Take(n) /\ downlink'[n] = Tail(downlink[n])
<1>0. downlink \in [Nodes -> Seq(1 .. Len(log))]
  BY DEF TypeOK, BrokerTypes
<1>1. CASE UNCHANGED <<toServer, retained, session, orphan, ghosts, uplink, downlink>>
  BY <1>1
<1>2. CASE StartSubscribe \/ Hear \/ BridgeDrop
  BY <1>2 DEF StartSubscribe, Hear, BridgeDrop
<1>3. CASE Deliver
  <2> DEFINE m == log[sent + 1].node
  <2>1. downlink' = downlink \/ downlink' = [downlink EXCEPT ![m] = Append(@, sent + 1)]
    BY <1>3 DEF Deliver
  <2> QED BY <1>0, <1>3, <2>1
<1>4. ASSUME NEW k \in Nodes,
             \/ Receive(k) \/ PublishWill(k) \/ AgentConnect(k) \/ LinkLost(k)
             \/ AgentCrash(k) \/ ShutdownPublish(k) \/ ShutdownExit(k)
      PROVE  downlink'[n] \in {downlink[n], <<>>}
  BY <1>0, <1>4 DEF Receive, PublishWill, AgentConnect, LinkLost, AgentCrash,
                    ShutdownPublish, ShutdownExit
<1>5. ASSUME NEW k \in Nodes, Take(k)
      PROVE  \/ downlink'[n] = downlink[n]
             \/ Take(n) /\ downlink'[n] = Tail(downlink[n])
  BY <1>0, <1>5 DEF Take
<1> QED BY <1>1, <1>2, <1>3, <1>4, <1>5, BrokerSteps DEF TakeStart, TakeStop

\* A node is sent its own commands.
Addressed(n) == \A j \in 1 .. Len(downlink[n]) : log[downlink[n][j]].node = n
AddressInv == \A n \in Nodes : Addressed(n)

LEMMA AddressStep == TypeOK /\ AddressInv /\ [Next]_vars => AddressInv'
<1> SUFFICES ASSUME TypeOK, AddressInv, [Next]_vars, NEW n \in Nodes PROVE Addressed(n)'
  BY DEF AddressInv
<1> DEFINE D == downlink[n]
           L == Len(log)
<1>0. /\ D \in Seq(1 .. L) /\ Addressed(n) /\ L \in Nat
      /\ \A j \in 1 .. Len(D) : D[j] \in 1 .. L
  <2>1. D \in Seq(1 .. L) /\ log \in Seq(Command)
    BY DEF TypeOK, BrokerTypes, ClientTypes
  <2> HIDE DEF D, L
  <2>2. \A j \in 1 .. Len(D) : D[j] \in 1 .. L
    BY <2>1, ElementOfSeq
  <2> QED BY <2>1, <2>2, LenProperties DEF AddressInv, L
<1>1. \A i \in 1 .. L : log'[i] = log[i]
  BY LogMoves
<1>2. CASE downlink'[n] = D
  BY <1>0, <1>1, <1>2 DEF Addressed
<1>3. CASE downlink'[n] = <<>>
  BY <1>3 DEF Addressed
<1>4. CASE Deliver /\ log[sent + 1].node = n /\ downlink'[n] = Append(D, sent + 1)
  <2>1. /\ Len(Append(D, sent + 1)) = Len(D) + 1 /\ Append(D, sent + 1)[Len(D) + 1] = sent + 1
        /\ \A j \in 1 .. Len(D) : Append(D, sent + 1)[j] = D[j]
        /\ Len(D) \in Nat
    <3> HIDE DEF D
    <3> QED BY <1>0
  <2>2. log' = log
    BY <1>4 DEF Deliver
  <2> HIDE DEF D, L
  <2>3. \A j \in 1 .. Len(D) : log[D[j]].node = n
    BY <1>0 DEF Addressed, D
  <2> QED BY <1>4, <2>1, <2>2, <2>3 DEF Addressed
<1>5. CASE Take(n) /\ downlink'[n] = Tail(D)
  <2>1. /\ Len(Tail(D)) = Len(D) - 1 /\ Len(D) \in Nat
        /\ \A j \in 1 .. Len(Tail(D)) : Tail(D)[j] = D[j + 1]
    <3>1. D # <<>>
      BY <1>5 DEF Take
    <3> HIDE DEF D, L
    <3> QED BY <1>0, <3>1, HeadTailProperties, LenProperties
  <2>2. \A j \in 1 .. Len(Tail(D)) : j + 1 \in 1 .. Len(D)
    <3> HIDE DEF D
    <3> QED BY <2>1
  <2>3. \A j \in 1 .. Len(D) : D[j] \in 1 .. L /\ log[D[j]].node = n
    BY <1>0 DEF Addressed
  <2> HIDE DEF D, L
  <2> QED BY <1>1, <1>5, <2>1, <2>2, <2>3 DEF Addressed
<1> QED BY <1>2, <1>3, <1>4, <1>5, DownlinkMoves

\* How a step reaches a node that keeps its connection: a command delivered, a
\* command taken, or an operator entered in the table.
LEMMA NodeMoves ==
  ASSUME TypeOK, CleanInv, [Next]_vars, NEW n \in Nodes \ disturbed'
  PROVE  \/ /\ sent' <= sent /\ downlink'[n] = downlink[n]
            /\ operators'[n] = operators[n] /\ wiring'[n] = wiring[n]
         \/ Deliver \/ TakeStart(n) \/ TakeStop(n) \/ Started(n)
<1> DEFINE Same == /\ sent' <= sent /\ downlink'[n] = downlink[n]
                   /\ operators'[n] = operators[n] /\ wiring'[n] = wiring[n]
<1>0. /\ n \in Nodes /\ n \notin disturbed /\ Clean(n)
      /\ downlink \in [Nodes -> Seq(1 .. Len(log))]
      /\ wiring \in [Nodes -> Id \union {None}] /\ operators \in [Nodes -> SUBSET Id]
      /\ uplink \in [Nodes -> Seq(Packet)] /\ disturbed \subseteq Nodes
      /\ sent \in Nat /\ acked \in 0 .. sent
  BY DisturbedGrows DEF CleanInv, TypeOK, ClientTypes, BrokerTypes, AgentTypes, Packet
<1>1. CASE StartSubscribe \/ StartListen \/ Hear \/ BridgeDrop \/ UNCHANGED vars
  BY <1>0, <1>1 DEF StartSubscribe, StartListen, Hear, BridgeDrop, vars, bridgeVars,
                    brokerVars, agentVars
<1>2. CASE BridgeReconnect
  <2>1. sent' <= sent
    BY <1>0, <1>2 DEF BridgeReconnect
  <2> QED BY <1>2, <2>1 DEF BridgeReconnect, brokerVars, agentVars
<1>3. ASSUME NEW c \in Callers, Caller(c) PROVE Same
  BY <1>0, <1>3 DEF Caller, PostAssign, PostCancel, Request, AssignCheck, AssignPublish,
              CancelPublish, Publish, AssignTrack, CancelUntrack, PublishFails, agentVars, brokerVars,
              bridgeVars
<1>4. ASSUME NEW k \in Nodes, Receive(k) PROVE Same
  <2>1. sent' = sent /\ operators' = operators /\ wiring' = wiring
    BY <1>4 DEF Receive, bridgeVars, agentVars
  <2>2. k = n => Head(uplink[k]) # "bye"
    <3>1. uplink[k] \in Seq(Packet) /\ uplink[k] # <<>>
      BY <1>0, <1>4 DEF Receive
    <3>2. Head(uplink[k]) = uplink[k][1] /\ 1 \in 1 .. Len(uplink[k])
      BY <3>1, HeadTailProperties, LenProperties
    <3> QED BY <1>0, <3>2 DEF Clean
  <2>3. downlink'[n] = downlink[n]
    BY <1>0, <1>4, <2>2 DEF Receive
  <2> QED BY <1>0, <2>1, <2>3
<1>5. ASSUME NEW k \in Nodes, PublishWill(k) \/ AgentStart(k) \/ AgentConnect(k)
                               \/ ShutdownBegin(k)
      PROVE  Same
  BY <1>0, <1>5 DEF PublishWill, AgentStart, AgentConnect, ShutdownBegin, agentVars,
                    bridgeVars, brokerVars
<1>6. ASSUME NEW k \in Nodes, LinkLost(k) \/ AgentCrash(k) \/ StartFails(k) PROVE Same
  <2>1. k # n
    BY <1>0, <1>6 DEF LinkLost, AgentCrash, StartFails
  <2> QED BY <1>0, <1>6, <2>1
          DEF LinkLost, AgentCrash, StartFails, Gone, bridgeVars, brokerVars, agentVars
<1>7. ASSUME NEW k \in Nodes, ShutdownStop(k) \/ ShutdownPublish(k) \/ ShutdownExit(k)
      PROVE  Same
  <2>1. k # n
    BY <1>0, <1>7 DEF ShutdownStop, ShutdownPublish, ShutdownExit, Clean
  <2> QED BY <1>0, <1>7, <2>1
          DEF ShutdownStop, ShutdownPublish, ShutdownExit, Gone, bridgeVars, brokerVars
<1>8. ASSUME NEW k \in Nodes \ {n}, TakeStart(k) \/ TakeStop(k) \/ Started(k) PROVE Same
  BY <1>0, <1>8 DEF TakeStart, TakeStop, Take, Started, bridgeVars, brokerVars
<1> QED BY <1>1, <1>2, <1>3, <1>4, <1>5, <1>6, <1>7, <1>8 DEF Next, Agent

\* The last command issued for an assignment, and what becomes of it: it waits
\* at the bridge, or it is on its way and the last to arrive, or the node has
\* done what it says.
Latest(n, id, last) == last \in On(n, id) /\ \A i \in On(n, id) : i <= last
Arriving(n, id, last) ==
  \E j \in 1 .. Len(downlink[n]) :
    /\ downlink[n][j] = last
    /\ \A k \in j + 1 .. Len(downlink[n]) : downlink[n][k] \notin On(n, id)
Reflects(n, id, action) ==
  IF action = "start" THEN id \in operators[n] \/ wiring[n] = id
  ELSE id \notin operators[n] /\ wiring[n] # id
Applied(n, id, last) ==
  /\ \A j \in 1 .. Len(downlink[n]) : downlink[n][j] \notin On(n, id)
  /\ Reflects(n, id, log[last].action)
LastWins(n, id, last) == last > sent \/ Arriving(n, id, last) \/ Applied(n, id, last)
NodeInv ==
  \A n \in Nodes \ disturbed, id \in Known \X Second : \A last \in Nat :
    Latest(n, id, last) => LastWins(n, id, last)

\* A command is appended to what is on its way to the node.
LEMMA DeliverKeeps ==
  ASSUME TypeOK, Deliver, NEW n \in Nodes \ disturbed', NEW id, NEW last \in Nat,
         Latest(n, id, last), LastWins(n, id, last)
  PROVE  LastWins(n, id, last)'
<1> DEFINE D == downlink[n]
           k == sent + 1
<1>0. /\ D \in Seq(1 .. Len(log)) /\ sent \in Nat /\ On(n, id) \subseteq Nat
      /\ downlink \in [Nodes -> Seq(1 .. Len(log))]
  BY DEF TypeOK, BrokerTypes, ClientTypes, On, Issued
<1>1. /\ log' = log /\ sent' = k /\ operators' = operators /\ wiring' = wiring
      /\ On(n, id)' = On(n, id)
  BY DEF Deliver, agentVars, On, Issued
<1>2. CASE log[k].node # n
  <2>1. downlink'[n] = D
    BY <1>0, <1>2 DEF Deliver
  <2>2. k \notin On(n, id)
    BY <1>2 DEF On, Issued
  <2>3. last > sent => last > k
    BY <1>0, <2>2 DEF Latest
  <2> QED BY <1>1, <2>1, <2>3 DEF LastWins, Arriving, Applied, Reflects
<1>3. CASE log[k].node = n
  <2>1. downlink'[n] = Append(D, k)
    BY <1>0, <1>3 DEF Deliver
  <2>2. /\ Len(Append(D, k)) = Len(D) + 1 /\ Append(D, k)[Len(D) + 1] = k
        /\ \A j \in 1 .. Len(D) : Append(D, k)[j] = D[j]
        /\ Len(D) \in Nat
    <3> HIDE DEF D, k
    <3> QED BY <1>0
  <2> HIDE DEF D
  <2>3. CASE last > k
    BY <1>1, <2>3 DEF LastWins
  <2>4. CASE last = k
    <3>1. Arriving(n, id, last)'
      <4>1. Len(D) + 1 \in 1 .. Len(downlink'[n]) /\ downlink'[n][Len(D) + 1] = last
        BY <2>1, <2>2, <2>4
      <4>2. Len(D) + 1 + 1 .. Len(downlink'[n]) = {}
        BY <2>1, <2>2
      <4> QED BY <4>1, <4>2 DEF Arriving
    <3> QED BY <3>1 DEF LastWins
  <2>5. CASE last <= sent
    <3>1. k \notin On(n, id)
      BY <1>0, <2>5 DEF Latest
    <3>2. CASE Arriving(n, id, last)
      <4>1. PICK j \in 1 .. Len(D) :
              D[j] = last /\ \A i \in j + 1 .. Len(D) : D[i] \notin On(n, id)
        BY <3>2 DEF Arriving, D
      <4>2. j \in 1 .. Len(downlink'[n]) /\ downlink'[n][j] = last
        BY <2>1, <2>2, <4>1
      <4>3. \A i \in j + 1 .. Len(downlink'[n]) : downlink'[n][i] \notin On(n, id)
        BY <2>1, <2>2, <3>1, <4>1
      <4>4. Arriving(n, id, last)'
        BY <1>1, <4>2, <4>3 DEF Arriving
      <4> QED BY <4>4 DEF LastWins
    <3>3. CASE Applied(n, id, last)
      <4>1. \A j \in 1 .. Len(D) : D[j] \notin On(n, id)
        BY <3>3 DEF Applied, D
      <4>2. \A j \in 1 .. Len(downlink'[n]) : downlink'[n][j] \notin On(n, id)
        BY <2>1, <2>2, <3>1, <4>1
      <4>3. Reflects(n, id, log[last].action)'
        BY <1>1, <3>3 DEF Applied, Reflects
      <4>4. Applied(n, id, last)'
        BY <1>1, <4>2, <4>3 DEF Applied
      <4> QED BY <4>4 DEF LastWins
    <3> QED BY <1>0, <2>5, <3>2, <3>3 DEF LastWins
  <2> QED BY <1>0, <2>3, <2>4, <2>5
<1> QED BY <1>2, <1>3

\* The first command on its way is taken: the node's state follows it.
LEMMA TakeKeeps ==
  ASSUME TypeOK, NEW n \in Nodes, Addressed(n), TakeStart(n) \/ TakeStop(n),
         NEW id \in Known \X Second, NEW last \in Nat,
         Latest(n, id, last), LastWins(n, id, last)
  PROVE  LastWins(n, id, last)'
<1> DEFINE D == downlink[n]
           h == Head(D)
<1>0. /\ D \in Seq(1 .. Len(log)) /\ D # <<>> /\ wiring[n] = None /\ None # id /\ id \in Id
      /\ wiring \in [Nodes -> Id \union {None}] /\ operators \in [Nodes -> SUBSET Id]
      /\ log \in Seq(Command) /\ downlink \in [Nodes -> Seq(1 .. Len(log))]
  BY FleetAssumption DEF TypeOK, ClientTypes, BrokerTypes, AgentTypes, TakeStart, TakeStop,
     Take, FleetAssumption, Id
<1>1. /\ log' = log /\ sent' = sent /\ downlink'[n] = Tail(D)
      /\ On(n, id)' = On(n, id)
  BY <1>0 DEF TakeStart, TakeStop, Take, bridgeVars, On, Issued
<1>2. /\ Len(Tail(D)) = Len(D) - 1 /\ Len(D) \in Nat \ {0} /\ h = D[1]
      /\ \A j \in 1 .. Len(Tail(D)) : Tail(D)[j] = D[j + 1]
  <2> DEFINE R == 1 .. Len(log)
  <2> HIDE DEF D, R
  <2>1. D \in Seq(R) /\ D # <<>>
    BY <1>0 DEF R
  <2>2. Len(D) \in Nat \ {0}
    BY <2>1, EmptySeq, LenProperties
  <2> QED BY <2>1, <2>2, HeadTailProperties DEF h
<1>3. log[h].node = n /\ log[h].action \in {"start", "stop"} /\ h \in 1 .. Len(log)
  <2>1. 1 \in 1 .. Len(D)
    BY <1>2
  <2>2. D[1] \in 1 .. Len(log)
    <3> DEFINE R == 1 .. Len(log)
    <3> HIDE DEF D, R
    <3>1. D \in Seq(R)
      BY <1>0 DEF R
    <3> QED BY <2>1, <3>1, ElementOfSeq DEF R
  <2>3. log[h] \in Command
    BY <1>0, <1>2, <2>2, ElementOfSeq
  <2>4. log[h].node = n
    BY <1>2, <2>1 DEF Addressed
  <2> QED BY <1>2, <2>2, <2>3, <2>4 DEF Command
<1>4. CASE log[h].id # id
  <2>1. h \notin On(n, id)
    BY <1>4 DEF On, Issued
  <2>2. (id \in operators'[n] <=> id \in operators[n]) /\ wiring'[n] # id
    BY <1>0, <1>4 DEF TakeStart, TakeStop, Incoming
  <2>3. CASE last > sent
    BY <1>1, <2>3 DEF LastWins
  <2>4. CASE Arriving(n, id, last)
    <3>1. PICK j \in 1 .. Len(D) :
            D[j] = last /\ \A i \in j + 1 .. Len(D) : D[i] \notin On(n, id)
      BY <2>4 DEF Arriving
    <3> HIDE DEF D
    <3>2. j # 1
      BY <1>2, <2>1, <3>1 DEF Latest
    <3>3. j - 1 \in 1 .. Len(Tail(D)) /\ Tail(D)[j - 1] = last
      BY <1>2, <3>1, <3>2
    <3>4. \A i \in (j - 1) + 1 .. Len(Tail(D)) : Tail(D)[i] \notin On(n, id)
      BY <1>2, <3>1
    <3>5. Arriving(n, id, last)'
      BY <1>1, <3>3, <3>4 DEF Arriving
    <3> QED BY <3>5 DEF LastWins
  <2>5. CASE Applied(n, id, last)
    <3>1. \A j \in 1 .. Len(D) : D[j] \notin On(n, id)
      BY <2>5 DEF Applied
    <3> HIDE DEF D
    <3>2. \A j \in 1 .. Len(Tail(D)) : Tail(D)[j] \notin On(n, id)
      BY <1>2, <3>1
    <3>3. Reflects(n, id, log[last].action)'
      BY <1>0, <1>1, <2>2, <2>5 DEF Applied, Reflects
    <3>4. Applied(n, id, last)'
      BY <1>1, <3>2, <3>3 DEF Applied
    <3> QED BY <3>4 DEF LastWins
  <2> QED BY <2>3, <2>4, <2>5 DEF LastWins
<1>5. CASE log[h].id = id
  <2>1. h \in On(n, id)
    BY <1>3, <1>5 DEF On, Issued
  <2>2. CASE last > sent
    BY <1>1, <2>2 DEF LastWins
  <2>3. CASE Arriving(n, id, last)
    <3>1. PICK j \in 1 .. Len(D) :
            D[j] = last /\ \A i \in j + 1 .. Len(D) : D[i] \notin On(n, id)
      BY <2>3 DEF Arriving
    <3>2. CASE j = 1
      <4>1. \A i \in 1 .. Len(Tail(D)) : Tail(D)[i] \notin On(n, id)
        <5> HIDE DEF D
        <5> QED BY <1>2, <3>1, <3>2
      <4>2. h = last
        BY <1>2, <3>1, <3>2
      <4>3. Reflects(n, id, log[last].action)'
        <5>1. CASE TakeStart(n)
          <6>1. /\ log[h].action = "start" /\ operators' = operators
                /\ id \in operators[n] \/ id[1] \notin Known
                     \/ wiring' = [wiring EXCEPT ![n] = id]
            BY <1>5, <5>1 DEF TakeStart, Incoming
          <6>2. id[1] \in Known
            OBVIOUS
          <6> QED BY <1>0, <1>1, <4>2, <6>1, <6>2 DEF Reflects
        <5>2. CASE TakeStop(n)
          <6>1. /\ log[h].action = "stop" /\ wiring' = wiring
                /\ operators' = [operators EXCEPT ![n] = @ \ {id}]
            BY <1>5, <5>2 DEF TakeStop, Incoming
          <6> QED BY <1>0, <1>1, <4>2, <6>1 DEF Reflects
        <5> QED BY <5>1, <5>2
      <4>4. Applied(n, id, last)'
        BY <1>1, <4>1, <4>2, <4>3 DEF Applied
      <4> QED BY <4>4 DEF LastWins
    <3>3. CASE j # 1
      <4> HIDE DEF D
      <4>1. j - 1 \in 1 .. Len(Tail(D)) /\ Tail(D)[j - 1] = last
        BY <1>2, <3>1, <3>3
      <4>2. \A i \in (j - 1) + 1 .. Len(Tail(D)) : Tail(D)[i] \notin On(n, id)
        BY <1>2, <3>1
      <4>3. Arriving(n, id, last)'
        BY <1>1, <4>1, <4>2 DEF Arriving
      <4> QED BY <4>3 DEF LastWins
    <3> QED BY <3>2, <3>3
  <2>4. CASE Applied(n, id, last)
    <3>1. 1 \in 1 .. Len(D)
      BY <1>2
    <3> QED BY <1>2, <2>1, <2>4, <3>1 DEF Applied
  <2> QED BY <2>2, <2>3, <2>4 DEF LastWins
<1> QED BY <1>4, <1>5

LEMMA NodeStep ==
  TypeOK /\ CleanInv /\ AddressInv /\ NodeInv /\ [Next]_vars => NodeInv'
<1> SUFFICES ASSUME TypeOK, CleanInv, AddressInv, NodeInv, [Next]_vars,
                    NEW n \in Nodes \ disturbed', NEW id \in Known \X Second,
                    NEW last \in Nat, Latest(n, id, last)'
             PROVE  LastWins(n, id, last)'
  BY DEF NodeInv
<1> DEFINE D == downlink[n]
<1>0. /\ n \in Nodes /\ n \notin disturbed /\ Addressed(n) /\ Len(log) \in Nat
      /\ \A j \in 1 .. Len(D) : D[j] \in 1 .. Len(log)
      /\ wiring \in [Nodes -> Id \union {None}] /\ operators \in [Nodes -> SUBSET Id]
      /\ Latest(n, id, last) => LastWins(n, id, last)
      /\ sent \in 0 .. Len(log)
  <2>1. /\ D \in Seq(1 .. Len(log)) /\ Len(log) \in Nat /\ sent \in 0 .. Len(log)
        /\ wiring \in [Nodes -> Id \union {None}] /\ operators \in [Nodes -> SUBSET Id]
    BY DisturbedGrows DEF TypeOK, ClientTypes, BrokerTypes, AgentTypes
  <2>2. \A j \in 1 .. Len(D) : D[j] \in 1 .. Len(log)
    <3> DEFINE R == 1 .. Len(log)
    <3>1. D \in Seq(R)
      BY <2>1
    <3> HIDE DEF D, R
    <3>2. \A j \in 1 .. Len(D) : D[j] \in R
      BY <3>1, ElementOfSeq
    <3> QED BY <3>2 DEF R
  <2> QED BY <2>1, <2>2, DisturbedGrows DEF NodeInv, AddressInv
<1>1. CASE log' # log
  <2>1. /\ Len(log') = Len(log) + 1 /\ sent' = sent
        /\ \A i \in 1 .. Len(log) : log'[i] = log[i]
        /\ UNCHANGED <<downlink, operators, wiring, disturbed>>
    BY <1>1, LogMoves
  <2>2. \A i \in 1 .. Len(log) : i \in On(n, id)' <=> i \in On(n, id)
    BY <1>0, <2>1 DEF On, Issued
  <2>3. On(n, id)' \subseteq 1 .. Len(log) + 1 /\ On(n, id) \subseteq 1 .. Len(log)
    BY <2>1 DEF On, Issued
  <2>4. CASE last = Len(log) + 1
    BY <1>0, <2>1, <2>4 DEF LastWins
  <2>5. CASE last # Len(log) + 1
    <3>1. last \in 1 .. Len(log)
      BY <1>0, <2>3, <2>5 DEF Latest
    <3>2. Latest(n, id, last)
      BY <2>2, <2>3, <3>1 DEF Latest
    <3>3. \A j \in 1 .. Len(D) : D[j] \in On(n, id)' <=> D[j] \in On(n, id)
      BY <1>0, <2>2
    <3>4. log'[last] = log[last]
      BY <2>1, <3>1
    <3>5. CASE last > sent
      BY <2>1, <3>5 DEF LastWins
    <3>6. CASE Arriving(n, id, last)
      <4>1. PICK j \in 1 .. Len(D) :
              D[j] = last /\ \A k \in j + 1 .. Len(D) : D[k] \notin On(n, id)
        BY <3>6 DEF Arriving
      <4>2. \A k \in j + 1 .. Len(D) : D[k] \notin On(n, id)'
        <5>1. \A k \in j + 1 .. Len(D) : k \in 1 .. Len(D)
          OBVIOUS
        <5> QED BY <3>3, <4>1, <5>1
      <4>3. Arriving(n, id, last)'
        BY <2>1, <4>1, <4>2 DEF Arriving
      <4> QED BY <4>3 DEF LastWins
    <3>7. CASE Applied(n, id, last)
      <4>1. Applied(n, id, last)'
        BY <2>1, <3>3, <3>4, <3>7 DEF Applied, Reflects
      <4> QED BY <4>1 DEF LastWins
    <3> QED BY <1>0, <3>2, <3>5, <3>6, <3>7 DEF LastWins
  <2> QED BY <2>4, <2>5
<1>2. CASE log' = log
  <2>1. On(n, id)' = On(n, id) /\ Latest(n, id, last) /\ LastWins(n, id, last)
    BY <1>0, <1>2 DEF Latest, On, Issued
  <2>2. CASE /\ sent' <= sent /\ downlink'[n] = downlink[n]
             /\ operators'[n] = operators[n] /\ wiring'[n] = wiring[n]
    <3>1. last > sent => last > sent'
      <4>1. sent' \in Nat
        BY ClientTyped DEF TypeOK, ClientTypes
      <4> QED BY <1>0, <2>2, <4>1
    <3> QED BY <1>2, <2>1, <2>2, <3>1 DEF LastWins, Arriving, Applied, Reflects
  <2>3. CASE Deliver
    BY <2>1, <2>3, DeliverKeeps
  <2>4. CASE TakeStart(n) \/ TakeStop(n)
    BY <1>0, <2>1, <2>4, TakeKeeps
  <2>5. CASE Started(n)
    <3>1. /\ sent' = sent /\ downlink' = downlink
          /\ wiring[n] # None /\ wiring'[n] = None
          /\ operators'[n] = operators[n] \union {wiring[n]} /\ None # id
      BY <1>0, <2>5, FleetAssumption
         DEF Started, bridgeVars, brokerVars, FleetAssumption, Id
    <3>2. \A a : Reflects(n, id, a) => Reflects(n, id, a)'
      BY <3>1 DEF Reflects
    <3>3. Applied(n, id, last) => Applied(n, id, last)'
      BY <1>2, <2>1, <3>1, <3>2 DEF Applied
    <3>4. Arriving(n, id, last) => Arriving(n, id, last)'
      BY <2>1, <3>1 DEF Arriving
    <3> QED BY <2>1, <3>1, <3>3, <3>4 DEF LastWins
  <2> QED BY <2>2, <2>3, <2>4, <2>5, NodeMoves
<1> QED BY <1>1, <1>2

LEMMA NodeAlways == Spec => []NodeInv
<1>1. Init => AddressInv /\ NodeInv
  <2> SUFFICES ASSUME Init PROVE AddressInv /\ NodeInv
    OBVIOUS
  <2>1. log = <<>> /\ \A n \in Nodes : downlink[n] = <<>>
    BY DEF Init
  <2>2. \A n, id : On(n, id) = {}
    BY <2>1 DEF On, Issued
  <2> QED BY <2>1, <2>2 DEF AddressInv, Addressed, NodeInv, Latest
<1> QED BY <1>1, AddressStep, NodeStep, CleanAlways, TypeCorrect, PTL DEF Spec

\* A finite set of natural numbers that is not empty has a greatest element.
LEMMA GreatestExists ==
  ASSUME NEW I, NEW b \in Nat, I \subseteq 0 .. b, I # {}
  PROVE  \E x \in I : \A y \in I : y <= x
<1> DEFINE J == {b - y : y \in I}
<1>1. J \subseteq Nat /\ J # {}
  OBVIOUS
<1>2. Min(J) \in J /\ \A j \in J : Min(J) <= j
  BY <1>1, LeastExists
<1>3. PICK x \in I : Min(J) = b - x
  BY <1>2
<1>4. \A y \in I : y <= x
  BY <1>2, <1>3
<1> QED BY <1>4

\* On a node that kept its connection, once no call and no message is under
\* way, the books and the node agree on every assignment whose id was given out
\* once: for any number of nodes, threads, calls and reconnects of the bridge,
\* which sends commands a second time.
THEOREM BooksMatchNodeAlways == Spec => []BooksMatchNode
<1>1. TypeOK /\ OrderInv /\ OnceInv /\ NodeInv => BooksMatchNode
  <2> SUFFICES ASSUME TypeOK, OrderInv, OnceInv, NodeInv,
                      NEW n \in Nodes \ disturbed, NEW id \in Known \X Second,
                      Quiet(n), IssuedOnce(n, id)
               PROVE  (\E i \in DOMAIN fleet[n].assignments : fleet[n].assignments[i] = id)
                        <=> id \in operators[n]
    BY DEF BooksMatchNode
  <2> DEFINE starts == Issued(n, id, "start")
             stops == Issued(n, id, "stop")
  <2>0. /\ id \in Id /\ None # id /\ Len(log) \in Nat /\ sent \in 0 .. Len(log)
        /\ fleet[n].assignments \in Seq(Id) /\ log \in Seq(Command)
    BY FleetAssumption
       DEF FleetAssumption, Id, TypeOK, OrchestratorTypes, ClientTypes
  <2>1. PICK p : starts = {p}
    <3> DEFINE S == {i \in DOMAIN log : log[i] = [node |-> n, id |-> id, action |-> "start"]}
    <3>1. S = starts
      <4>1. \A i \in 1 .. Len(log) : log[i] \in Command
        BY <2>0, ElementOfSeq
      <4> QED BY <2>0, <4>1 DEF Issued, Command
    <3>2. IsFiniteSet(S)
      <4>1. IsFiniteSet(1 .. Len(log))
        BY <2>0, FS_Interval
      <4>2. S \subseteq 1 .. Len(log)
        BY <3>1 DEF Issued
      <4> QED BY <4>1, <4>2, FS_Subset
    <3>3. Cardinality(S) = 1
      BY DEF IssuedOnce
    <3> QED BY <3>1, <3>2, <3>3, FS_Singleton
  <2>2. Once(starts) /\ Ordered(n, id) /\ Balanced(n, id)
    BY <2>0, <2>1 DEF Once, OrderInv, OnceInv
  <2>3. \A pc : Who(n, id, pc) = {}
    BY DEF Quiet, Who, Doing, At
  <2>4. Entries(n, id) # {} <=> stops = {}
    BY <2>1, <2>2, <2>3 DEF Balanced
  <2>5. PICK last \in On(n, id) : \A i \in On(n, id) : i <= last
    <3>1. On(n, id) \subseteq 0 .. Len(log) /\ On(n, id) # {}
      BY <2>0, <2>1 DEF On, Issued
    <3> HIDE DEF On
    <3> QED BY <2>0, <3>1, GreatestExists
  <2>6. /\ last \in 1 .. Len(log) /\ log[last].node = n /\ last <= sent /\ downlink[n] = <<>>
        /\ wiring[n] = None
    BY <2>0, <2>5 DEF On, Issued, Quiet
  <2>7. Reflects(n, id, log[last].action)
    <3>1. last \in Nat /\ ~(last > sent) /\ Len(downlink[n]) = 0
      BY <2>0, <2>6
    <3>2. Latest(n, id, last)
      BY <2>5 DEF Latest
    <3>3. LastWins(n, id, last)
      BY <3>1, <3>2 DEF NodeInv
    <3>4. ~Arriving(n, id, last)
      BY <3>1 DEF Arriving
    <3> QED BY <3>1, <3>3, <3>4, Zenon DEF LastWins, Applied
  <2>8. CASE stops = {}
    <3>1. log[last].action = "start"
      BY <2>5, <2>8 DEF On, Issued
    <3> QED BY <2>0, <2>4, <2>6, <2>7, <2>8, <3>1 DEF Reflects, Entries, Places
  <2>9. CASE stops # {}
    <3>1. PICK q \in stops : p < q
      BY <2>1, <2>2, <2>9 DEF Ordered
    <3>2. last # p
      BY <2>0, <2>5, <3>1, <2>1 DEF On, Issued
    <3>3. log[last].action = "stop"
      <4>1. last \in stops
        BY <2>1, <2>5, <3>2 DEF On
      <4> QED BY <4>1 DEF Issued
    <3> QED BY <2>0, <2>4, <2>6, <2>7, <2>9, <3>3 DEF Reflects, Entries, Places
  <2> QED BY <2>8, <2>9
<1> QED BY <1>1, AssignmentsAlways, NodeAlways, TypeCorrect, PTL
=============================================================================
