----------------------------- MODULE Resilient -----------------------------
(***************************************************************************)
(* MqttResilientClient (infrastructure/mqtt_resilient_client.py): a paho    *)
(* client whose subscriptions are renewed on every connect, and a watchdog  *)
(* thread that replaces the client after a long silence.                    *)
(*                                                                         *)
(* A client is named by its _reconnect_count.  Its session is the broker's  *)
(* side: "deaf" is the half-open or zombie session, on which nothing more   *)
(* arrives.  The interval since the last message matters only as shorter or *)
(* longer than the silence threshold.                                       *)
(***************************************************************************)
EXTENDS Naturals, FiniteSets

CONSTANT MaxSessionFaults  \* bound: lost or deaf sessions, and silent producers

ASSUME ResilientAssumption == MaxSessionFaults \in Nat

Client == 1..(MaxSessionFaults + 1)

VARIABLES
  running, current,  \* _running, _client (0 is None)
  created,           \* _reconnect_count
  loops,             \* clients whose network thread runs
  session,           \* "none", "live" or "deaf"
  connected,         \* _connected
  last,              \* _last_message_time: "never", "recent" or "silent"
  watchdog,          \* "off", "watching", "reset" or "torn"
  replaced,          \* the client the watchdog is replacing
  stopping, ending,  \* progress of stop(): "no", "begun", "done"; the client it read
  sessionFaults

resilientVars == <<running, current, created, loops, session, connected, last, watchdog,
                   replaced, stopping, ending, sessionFaults>>

ResilientTypeOK ==
  /\ running \in BOOLEAN /\ connected \in BOOLEAN
  /\ current \in Client \union {0} /\ created \in Client \union {0}
  /\ replaced \in Client \union {0} /\ stopping \in {"no", "begun", "done"}
  /\ ending \in Client \union {0}
  /\ loops \subseteq Client
  /\ session \in [Client -> {"none", "live", "deaf"}]
  /\ last \in {"never", "recent", "silent"}
  /\ watchdog \in {"off", "watching", "reset", "torn"}
  /\ sessionFaults \in 0..MaxSessionFaults

ResilientInit ==
  /\ running = FALSE /\ current = 0 /\ created = 0 /\ loops = {}
  /\ session = [i \in Client |-> "none"]
  /\ connected = FALSE /\ last = "never"
  /\ watchdog = "off" /\ replaced = 0 /\ stopping = "no" /\ ending = 0
  /\ sessionFaults = 0

SessionFault == sessionFaults < MaxSessionFaults /\ sessionFaults' = sessionFaults + 1

\* _create_and_start_client(): whether or not the first connect succeeds, the
\* network thread starts and paho keeps connecting.
CreateClient ==
  /\ created' = created + 1
  /\ loops' = loops \union {created + 1}
  /\ current' = created + 1

\* The owning daemon starts its client once and stops it once.
StartClient ==
  /\ created = 0 /\ stopping = "no"
  /\ running' = TRUE /\ connected' = FALSE /\ last' = "never"
  /\ CreateClient
  /\ watchdog' = "watching"
  /\ UNCHANGED <<session, replaced, stopping, ending, sessionFaults>>

StopRequest ==
  /\ running
  /\ running' = FALSE /\ stopping' = "begun" /\ ending' = current
  /\ UNCHANGED <<current, created, loops, session, connected, last, watchdog, replaced,
                 sessionFaults>>

\* loop_stop() joins the client's network thread, disconnect() ends its session.
EndClient(i) ==
  /\ loops' = loops \ {i}
  /\ session' = [j \in Client |-> IF j = i THEN "none" ELSE session[j]]

StopClient ==
  /\ stopping = "begun"
  /\ EndClient(ending)
  /\ connected' = FALSE /\ stopping' = "done"
  /\ UNCHANGED <<running, current, created, last, watchdog, replaced, ending,
                 sessionFaults>>

----------------------------------------------------------------------------
(* Callbacks on a client's network thread                                  *)

\* _on_connect() subscribes anew: the session hears everything.
OnConnect(i) ==
  /\ i \in loops /\ session[i] = "none"
  /\ session' = [session EXCEPT ![i] = "live"]
  /\ connected' = TRUE
  /\ UNCHANGED <<running, current, created, loops, last, watchdog, replaced, stopping,
                 ending, sessionFaults>>

OnDisconnect(i) ==
  /\ SessionFault /\ i \in loops /\ session[i] # "none"
  /\ session' = [session EXCEPT ![i] = "none"]
  /\ connected' = FALSE
  /\ UNCHANGED <<running, current, created, loops, last, watchdog, replaced, stopping,
                 ending>>

OnMessage(i) ==
  /\ i \in loops /\ session[i] = "live"
  /\ last' = "recent"
  /\ UNCHANGED <<running, current, created, loops, session, connected, watchdog,
                 replaced, stopping, ending, sessionFaults>>

GoDeaf(i) ==
  /\ SessionFault /\ session[i] = "live"
  /\ session' = [session EXCEPT ![i] = "deaf"]
  /\ UNCHANGED <<running, current, created, loops, connected, last, watchdog, replaced,
                 stopping, ending>>

\* The threshold passes without a message: the session is deaf, or producers
\* are quiet or the connection is down for that long, which is a fault.
FallSilent ==
  /\ last = "recent"
  /\ IF current # 0 /\ session[current] = "deaf"
       THEN UNCHANGED sessionFaults ELSE SessionFault
  /\ last' = "silent"
  /\ UNCHANGED <<running, current, created, loops, session, connected, watchdog,
                 replaced, stopping, ending>>

----------------------------------------------------------------------------
(* The watchdog thread                                                     *)

\* _watchdog_check() and the first steps of _recover_from_silence().
Check ==
  /\ watchdog = "watching" /\ running
  /\ last = "silent" /\ connected
  /\ last' = "never" /\ connected' = FALSE
  /\ replaced' = current /\ current' = 0
  /\ watchdog' = "reset"
  /\ UNCHANGED <<running, created, loops, session, stopping, ending, sessionFaults>>

\* Mutant of TearDown: the old client is disconnected, its thread goes on.
Disconnect ==
  /\ watchdog = "reset"
  /\ session' = [j \in Client |-> IF j = replaced THEN "none" ELSE session[j]]
  /\ connected' = FALSE
  /\ watchdog' = "torn"
  /\ UNCHANGED <<running, current, created, loops, last, replaced, stopping, ending,
                 sessionFaults>>

TearDown ==
  /\ watchdog = "reset"
  /\ EndClient(replaced)
  /\ connected' = FALSE
  /\ watchdog' = "torn"
  /\ UNCHANGED <<running, current, created, last, replaced, stopping, ending,
                 sessionFaults>>

\* Mutant of Rebuild: the old client connects again under its client id, and
\* the broker resumes the zombie session (the first fix the docstring recalls).
Resume ==
  /\ watchdog = "torn"
  /\ loops' = loops \union {replaced} /\ current' = replaced
  /\ session' = [session EXCEPT ![replaced] = "deaf"]
  /\ connected' = TRUE
  /\ watchdog' = "watching" /\ replaced' = 0
  /\ UNCHANGED <<running, created, last, stopping, ending, sessionFaults>>

Rebuild ==
  /\ watchdog = "torn"
  /\ CreateClient
  /\ watchdog' = "watching" /\ replaced' = 0
  /\ UNCHANGED <<running, session, connected, last, stopping, ending, sessionFaults>>

ExitWatchdog ==
  /\ watchdog = "watching" /\ ~running
  /\ watchdog' = "off"
  /\ UNCHANGED <<running, current, created, loops, session, connected, last, replaced,
                 stopping, ending, sessionFaults>>

----------------------------------------------------------------------------
Watch == Check \/ TearDown \/ Rebuild \/ ExitWatchdog

ResilientNext ==
  \/ StartClient \/ StopRequest \/ StopClient
  \/ \E i \in Client : OnConnect(i) \/ OnDisconnect(i) \/ OnMessage(i) \/ GoDeaf(i)
  \/ FallSilent
  \/ Watch

\* The broker is reachable in the end, time passes, and the threads run.
ResilientFairness ==
  /\ \A i \in Client : WF_resilientVars(OnConnect(i))
  /\ WF_resilientVars(FallSilent) /\ WF_resilientVars(Watch)
  /\ WF_resilientVars(StopClient)

ResilientSpec ==
  ResilientInit /\ [][ResilientNext]_resilientVars /\ ResilientFairness

----------------------------------------------------------------------------
(* Properties                                                              *)

\* However recoveries, reconnects and stop() interleave, one network thread
\* at most runs: a second would deliver every message twice.
OneNetworkThread == Cardinality(loops) <= 1

\* A session that goes deaf after a first message is replaced by one that
\* hears, unless the client is stopped.
DeafnessHealed ==
  (current # 0 /\ session[current] = "deaf" /\ last # "never")
    ~> (~running \/ \E i \in loops : session[i] = "live")
=============================================================================
