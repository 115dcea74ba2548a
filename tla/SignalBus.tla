------------------------------ MODULE SignalBus ------------------------------
(***************************************************************************)
(* SignalBus (media/__init__.py): every node keeps the newest value of a    *)
(* signal, publishes what its own threads write and merges what it hears.   *)
(* A node hears its own messages too.  The hub has a second session,        *)
(* proc_mqtt of server.py, that merges the same topic with write_local().   *)
(*                                                                         *)
(* One signal; a value is the number of the write.  Messages have quality   *)
(* of service 0 and are not retained.                                       *)
(***************************************************************************)
EXTENDS Naturals, Sequences, Functions

CONSTANTS Hub, Remotes,   \* nodes
          Writers,        \* threads that write, on each node
          MaxWrites,      \* bound: writes
          MaxBusFaults    \* bound: connections lost

Nodes == Remotes \union {Hub}
Process == "proc"

ASSUME SignalBusAssumption ==
  /\ Hub \notin Remotes /\ Process \notin Nodes
  /\ {MaxWrites, MaxBusFaults} \subseteq Nat

Sessions == Nodes \union {Process}
NodeOf(s) == IF s = Process THEN Hub ELSE s

VARIABLES
  signal,     \* _signals, per node
  writing,    \* the write each thread has yet to publish, 0 if none
  linkUp,     \* _mqtt_connected, and the connection of proc_mqtt
  undelivered,\* messages the broker has sent to each session
  writes,     \* writes so far
  missed,     \* a node may have missed a message and none has reached all since
  busFaults

signalBusVars == <<signal, writing, linkUp, undelivered, writes, missed, busFaults>>

BusMessage == [value : 1..MaxWrites, from : Nodes]

SignalBusTypeOK ==
  /\ signal \in [Nodes -> 0..MaxWrites] /\ writes \in 0..MaxWrites
  /\ writing \in [Nodes \X Writers -> 0..MaxWrites]
  /\ linkUp \in [Sessions -> BOOLEAN] /\ missed \in BOOLEAN
  /\ \A s \in Sessions : Range(undelivered[s]) \subseteq BusMessage
  /\ busFaults \in 0..MaxBusFaults

SignalBusInit ==
  /\ signal = [n \in Nodes |-> 0] /\ writing = [t \in Nodes \X Writers |-> 0]
  /\ linkUp = [s \in Sessions |-> TRUE] /\ undelivered = [s \in Sessions |-> <<>>]
  /\ writes = 0 /\ missed = FALSE /\ busFaults = 0

\* write(): the value is set under the lock ...
WriteSignal(n, w) ==
  /\ writing[<<n, w>>] = 0 /\ writes < MaxWrites /\ writes' = writes + 1
  /\ signal' = [signal EXCEPT ![n] = writes + 1]
  /\ writing' = [writing EXCEPT ![<<n, w>>] = writes + 1]
  /\ UNCHANGED <<linkUp, undelivered, missed, busFaults>>

\* ... and published without it, unless the node is not connected.
PublishSignal(n, w) ==
  /\ writing[<<n, w>>] # 0 /\ writing' = [writing EXCEPT ![<<n, w>>] = 0]
  /\ IF linkUp[n]
     THEN /\ undelivered' = [s \in Sessions |->
               IF linkUp[s]
               THEN Append(undelivered[s], [value |-> writing[<<n, w>>], from |-> n])
               ELSE undelivered[s]]
          /\ missed' = \/ \E m \in Nodes : ~linkUp[m]
                       \/ ~linkUp[Process] /\ undelivered[Process] # <<>>
     ELSE missed' = TRUE /\ UNCHANGED undelivered
  /\ UNCHANGED <<signal, linkUp, writes, busFaults>>

LoseSession(s) ==
  /\ linkUp[s] /\ linkUp' = [linkUp EXCEPT ![s] = FALSE] /\ missed' = TRUE
  /\ busFaults < MaxBusFaults /\ busFaults' = busFaults + 1

\* The connection is lost while the message is on its way to the broker.
LosePublish(n, w) ==
  /\ writing[<<n, w>>] # 0 /\ writing' = [writing EXCEPT ![<<n, w>>] = 0]
  /\ LoseSession(n) /\ UNCHANGED <<signal, undelivered, writes>>

\* Mutant of Merged: a node skips what it has published itself.
MergedOthers(n, message) == IF message.from = n THEN signal[n] ELSE message.value

\* on_message() and write_local(): the value is replaced, whoever wrote it.
Merged(n, message) == message.value

HearSignal(s) ==
  /\ undelivered[s] # <<>> /\ undelivered' = [undelivered EXCEPT ![s] = Tail(@)]
  /\ signal' = [signal EXCEPT ![NodeOf(s)] = Merged(NodeOf(s), Head(undelivered[s]))]
  /\ UNCHANGED <<writing, linkUp, writes, missed, busFaults>>

\* The broker has lost a session; what its client has received it still reads.
LoseBus(s) ==
  /\ LoseSession(s)
  /\ \E k \in 0..Len(undelivered[s]) :
       undelivered' = [undelivered EXCEPT ![s] = SubSeq(@, 1, k)]
  /\ UNCHANGED <<signal, writing, writes>>

\* on_connect() subscribes again; proc_mqtt has none and stays deaf.
RejoinBus(s) ==
  /\ s # Process /\ ~linkUp[s] /\ linkUp' = [linkUp EXCEPT ![s] = TRUE]
  /\ undelivered' = [undelivered EXCEPT ![s] = <<>>]
  /\ UNCHANGED <<signal, writing, writes, missed, busFaults>>

----------------------------------------------------------------------------
SignalBusNext ==
  \/ \E n \in Nodes, w \in Writers :
       WriteSignal(n, w) \/ PublishSignal(n, w) \/ LosePublish(n, w)
  \/ \E s \in Sessions : HearSignal(s) \/ LoseBus(s) \/ RejoinBus(s)

\* Threads publish what they wrote, and clients read what they received.
SignalBusFairness ==
  /\ \A n \in Nodes, w \in Writers : WF_signalBusVars(PublishSignal(n, w))
  /\ \A s \in Sessions : WF_signalBusVars(HearSignal(s))

SignalBusSpec == SignalBusInit /\ [][SignalBusNext]_signalBusVars /\ SignalBusFairness

----------------------------------------------------------------------------
(* Properties                                                              *)

\* When writes end, however the threads of the nodes overtook each other, all
\* nodes have the same value of the signal, unless messages were lost and none was
\* published after that with all nodes there (and nothing left of a session of
\* proc_mqtt that is gone).
NodesAgree == <>[](~missed => \A m, n \in Nodes : signal[m] = signal[n])
=============================================================================
