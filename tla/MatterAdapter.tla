---------------------------- MODULE MatterAdapter ----------------------------
(***************************************************************************)
(* MatterAdapter (adapters/matter_adapter.py): commands arrive on one       *)
(* thread, which queues them and waits; the adapter's own thread connects   *)
(* to the Matter server, performs what is queued and polls the state of     *)
(* the device.  One device; a command is numbered as it is queued.          *)
(***************************************************************************)
EXTENDS Naturals, Sequences

CONSTANTS MaxCommands,     \* bound: commands
          MaxMatterFaults  \* bound: connections that fail or are lost, devices that go

ASSUME MatterAssumption == {MaxCommands, MaxMatterFaults} \subseteq Nat

Powers == {"on", "off"}
Orders == Powers \union {"toggle"}

VARIABLES
  plug,        \* the state of the device
  cached,      \* _power_states
  reachable,   \* the Matter server reaches the device
  client,      \* _client is set
  socket,      \* the WebSocket is open
  loop,        \* the thread: "connect", "sync", "listen", "drain", "close", "sleep", "ended"
  matterRunning,     \* _running
  queue,       \* _cmd_queue
  awaited,     \* the command whose future the caller waits for, 0 if none
  done,        \* what that future was set to, "no" while it is not
  lastResult,  \* what the last call returned
  lastEffect,  \* what the last command performed left the device in
  ordersGiven, \* commands queued so far
  lastPerformed, \* the last command performed
  matterFaults

threadVars == <<loop, client, socket>>
callVars == <<awaited, done, lastResult, ordersGiven>>
deviceVars == <<plug, lastEffect, lastPerformed>>
matterVars ==
  <<deviceVars, cached, reachable, threadVars, matterRunning, queue, callVars, matterFaults>>

NotYet == "no"

MatterTypeOK ==
  /\ {plug, cached, lastEffect} \subseteq Powers \union {"unknown"}
  /\ {reachable, client, socket, matterRunning} \subseteq BOOLEAN
  /\ loop \in {"connect", "sync", "listen", "drain", "close", "sleep", "ended"}
  /\ \A k \in 1..Len(queue) : queue[k].order \in Orders /\ queue[k].id \in 1..ordersGiven
  /\ awaited \in 0..ordersGiven /\ lastPerformed \in 0..ordersGiven
  /\ done \in {NotYet, "sent", "failed"} /\ lastResult \in {"none", "ok", "failed", "refused"}
  /\ ordersGiven \in 0..MaxCommands /\ matterFaults \in 0..MaxMatterFaults

\* start() has run.
MatterInit ==
  /\ plug \in Powers /\ cached = "unknown" /\ reachable \in BOOLEAN
  /\ client = FALSE /\ socket = FALSE /\ loop = "connect" /\ matterRunning = TRUE
  /\ queue = <<>> /\ awaited = 0 /\ done = NotYet /\ lastResult = "none"
  /\ lastEffect = plug /\ ordersGiven = 0 /\ lastPerformed = 0 /\ matterFaults = 0

MatterFault == matterFaults < MaxMatterFaults /\ matterFaults' = matterFaults + 1

----------------------------------------------------------------------------
(* The caller: _power_command()                                            *)

\* Refused at once without a client; one that is not connected (yet) will do.
PowerCommand(order) ==
  /\ awaited = 0 /\ ordersGiven < MaxCommands /\ ordersGiven' = ordersGiven + 1
  /\ IF client
     THEN /\ queue' = Append(queue, [order |-> order, id |-> ordersGiven + 1])
          /\ awaited' = ordersGiven + 1 /\ done' = NotYet /\ UNCHANGED lastResult
     ELSE lastResult' = "refused" /\ UNCHANGED <<queue, awaited, done>>
  /\ UNCHANGED <<deviceVars, cached, reachable, threadVars, matterRunning,
                 matterFaults>>

CallReturns ==
  /\ awaited # 0 /\ done # NotYet /\ awaited' = 0 /\ done' = NotYet
  /\ lastResult' = IF done = "sent" THEN "ok" ELSE "failed"
  /\ UNCHANGED <<deviceVars, cached, reachable, threadVars, matterRunning, queue,
                 ordersGiven, matterFaults>>

\* The future is not done after ten seconds; its command stays in the queue.
CallTimesOut ==
  /\ awaited # 0 /\ done = NotYet /\ awaited' = 0 /\ lastResult' = "failed"
  /\ UNCHANGED <<deviceVars, cached, reachable, threadVars, matterRunning, queue, done,
                 ordersGiven, matterFaults>>

----------------------------------------------------------------------------
(* The thread                                                              *)

At(from, to) == loop = from /\ loop' = to

Connect ==
  /\ matterRunning /\ At("connect", "sync") /\ client' = TRUE /\ socket' = TRUE
  /\ UNCHANGED <<deviceVars, cached, reachable, matterRunning, queue, callVars,
                 matterFaults>>

\* connect() raises: nothing clears _client.
ConnectFails ==
  /\ matterRunning /\ At("connect", "sleep") /\ client' = TRUE /\ MatterFault
  /\ UNCHANGED <<deviceVars, cached, reachable, socket, matterRunning, queue, callVars>>

\* _sync_state(), before the loop and after each pass of it.  When the socket is
\* closed the client knows the last state it was told.
SyncState ==
  /\ At("sync", "listen")
  /\ \/ reachable /\ cached' = plug
     \/ ~(reachable /\ socket) /\ UNCHANGED cached
  /\ UNCHANGED <<deviceVars, reachable, client, socket, matterRunning, queue, callVars,
                 matterFaults>>

CheckSocket ==
  /\ loop = "listen" /\ loop' = IF socket /\ matterRunning THEN "drain" ELSE "close"
  /\ UNCHANGED <<deviceVars, cached, reachable, client, socket, matterRunning, queue,
                 callVars, matterFaults>>

After(order) ==
  CASE order = "toggle" -> IF plug = "on" THEN "off" ELSE "on"
    [] OTHER -> order

\* The device does what the head of the queue says.
Performs ==
  /\ plug' = After(Head(queue).order) /\ lastEffect' = plug' /\ lastPerformed' = Head(queue).id

\* Mutant of Settle: whoever waits is told, though his command is another.
SettleAny(outcome) == done' = IF awaited # 0 THEN outcome ELSE done

\* The command's future is done; a caller that gave up does not look at it.
Settle(outcome) == done' = IF awaited = Head(queue).id THEN outcome ELSE done

SendCommand ==
  /\ loop = "drain" /\ queue # <<>> /\ socket /\ reachable
  /\ Performs /\ Settle("sent") /\ queue' = Tail(queue)
  /\ UNCHANGED <<cached, reachable, threadVars, matterRunning, awaited, lastResult,
                 ordersGiven, matterFaults>>

\* send_device_command() raises; the device may have heard the command.
SendFails ==
  /\ loop = "drain" /\ queue # <<>>
  /\ IF socket /\ reachable THEN MatterFault /\ (Performs \/ UNCHANGED deviceVars)
     ELSE UNCHANGED <<deviceVars, matterFaults>>
  /\ Settle("failed") /\ queue' = Tail(queue)
  /\ UNCHANGED <<cached, reachable, threadVars, matterRunning, awaited, lastResult,
                 ordersGiven>>

\* CancelledError, when the socket closes meanwhile: the future is never done.
SendCancelled ==
  /\ loop = "drain" /\ queue # <<>> /\ socket /\ MatterFault
  /\ (reachable /\ Performs) \/ UNCHANGED deviceVars
  /\ socket' = FALSE /\ queue' = Tail(queue) /\ loop' = "sleep" /\ client' = FALSE
  /\ UNCHANGED <<cached, reachable, matterRunning, callVars>>

\* Mutant of Drained: the state is polled only when the thread connects.
DrainedUnpolled ==
  /\ queue = <<>> /\ At("drain", "listen")
  /\ UNCHANGED <<deviceVars, cached, reachable, client, socket, matterRunning, queue,
                 callVars, matterFaults>>

Drained ==
  /\ queue = <<>> /\ At("drain", "sync")
  /\ UNCHANGED <<deviceVars, cached, reachable, client, socket, matterRunning, queue,
                 callVars, matterFaults>>

\* The finally clause; the outer loop goes on at once.
CloseClient ==
  /\ At("close", "connect") /\ client' = FALSE /\ socket' = FALSE
  /\ UNCHANGED <<deviceVars, cached, reachable, matterRunning, queue, callVars,
                 matterFaults>>

WakeUp ==
  /\ At("sleep", "connect")
  /\ UNCHANGED <<deviceVars, cached, reachable, client, socket, matterRunning, queue,
                 callVars, matterFaults>>

EndLoop ==
  /\ ~matterRunning /\ At("connect", "ended")
  /\ UNCHANGED <<deviceVars, cached, reachable, client, socket, matterRunning, queue,
                 callVars, matterFaults>>

----------------------------------------------------------------------------
(* The world                                                               *)

LoseSocket ==
  /\ socket /\ MatterFault /\ socket' = FALSE
  /\ UNCHANGED <<deviceVars, cached, reachable, client, loop, matterRunning, queue,
                 callVars>>

ChangeReach ==
  /\ MatterFault \/ (~reachable /\ UNCHANGED matterFaults)
  /\ reachable' = ~reachable
  /\ UNCHANGED <<deviceVars, cached, threadVars, matterRunning, queue, callVars>>

\* Somebody uses the switch.
UseSwitch ==
  /\ MatterFault /\ plug' = After("toggle")
  /\ UNCHANGED <<lastEffect, lastPerformed, cached, reachable, threadVars,
                 matterRunning, queue, callVars>>

StopAdapterThread ==
  /\ matterRunning /\ matterRunning' = FALSE
  /\ UNCHANGED <<deviceVars, cached, reachable, threadVars, queue, callVars,
                 matterFaults>>

----------------------------------------------------------------------------
MatterThread ==
  \/ Connect \/ ConnectFails \/ SyncState \/ CheckSocket
  \/ SendCommand \/ SendFails \/ SendCancelled \/ Drained
  \/ CloseClient \/ WakeUp \/ EndLoop

MatterNext ==
  \/ MatterThread \/ LoseSocket \/ ChangeReach \/ UseSwitch \/ StopAdapterThread
  \/ \E order \in Orders : PowerCommand(order)
  \/ CallReturns \/ CallTimesOut

MatterFairness == WF_matterVars(MatterThread) /\ WF_matterVars(CallReturns \/ CallTimesOut)

MatterSpec == MatterInit /\ [][MatterNext]_matterVars /\ MatterFairness

----------------------------------------------------------------------------
(* Properties                                                              *)

\* Commands are performed in the order of the calls and at most once, those
\* whose caller gave up included: when a call has returned ok, no older command
\* is performed after it.
InCallOrder ==
  /\ \A j \in 1..Len(queue) :
       queue[j].id > lastPerformed /\ \A k \in 1..j - 1 : queue[k].id < queue[j].id
  /\ awaited = 0 /\ lastResult = "ok" => lastPerformed = ordersGiven /\ queue = <<>>

\* When commands and faults have ended, the queue is empty and the state the
\* adapter reports is the device's, whatever was sent, lost or switched by hand.
StateFollowsDevice == <>[](matterRunning /\ reachable => queue = <<>> /\ cached = plug)
=============================================================================
