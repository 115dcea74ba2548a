------------------------------ MODULE AckWorker ------------------------------
(***************************************************************************)
(* _AckWorker (transport.py): the thread that sends a device's frames, one  *)
(* at a time, each after the acknowledgement of the one before or after     *)
(* ACK_TIMEOUT.  submit() overwrites a slot of one frame; close() stops the *)
(* worker while another thread may be in submit().                          *)
(*                                                                         *)
(* Frames are numbered in the order of their submission.  An acknowledgement *)
(* is any Acknowledgement on the socket: its sequence number is not looked  *)
(* at.  ACK_RETRIES is 0.  One thread submits, the engine's send thread.    *)
(***************************************************************************)
EXTENDS Naturals

CONSTANTS MaxFrames,  \* bound: frames submitted
          MaxWaits    \* bound: waits that end by their timeout with nothing to send

ASSUME AckWorkerAssumption == {MaxFrames, MaxWaits} \subseteq Nat

VARIABLES
  submitted,   \* frames submitted
  submitter,   \* where submit() is: "idle", "wake", "test", "start", "begin"
  slot,        \* _slot, 0 when empty
  slotEvent, stopEvent,  \* _slot_event and _stop_event
  started,     \* _started
  thread,      \* _thread is set
  worker,      \* where _run() is: "none", "top", "wait", "take", "clear",
               \* "send", "ack", "ended"
  packets,     \* the frame taken from the slot
  sentFrame,   \* the frame sent last
  acks,        \* acknowledgements on their way or in the socket's buffer
  closer,      \* where stop() is: "idle", "wake", "join", "done", "raised"
  sentLate,    \* history: a frame was sent after stop() returned or raised
  waits

workerVars == <<worker, packets, sentFrame, sentLate>>
ackWorkerVars == <<submitted, submitter, slot, slotEvent, stopEvent, started, thread,
                   workerVars, acks, closer, waits>>

AckWorkerTypeOK ==
  /\ submitted \in 0..MaxFrames /\ slot \in 0..submitted
  /\ submitter \in {"idle", "wake", "test", "start", "begin"}
  /\ {slotEvent, stopEvent, started, thread, sentLate} \subseteq BOOLEAN
  /\ worker \in {"none", "top", "wait", "take", "clear", "send", "ack", "ended"}
  /\ packets \in 0..submitted /\ sentFrame \in 0..submitted
  /\ acks \in 0..sentFrame
  /\ closer \in {"idle", "wake", "join", "done", "raised"} /\ waits \in 0..MaxWaits

AckWorkerInit ==
  /\ submitted = 0 /\ submitter = "idle" /\ slot = 0
  /\ slotEvent = FALSE /\ stopEvent = FALSE
  /\ started = FALSE /\ thread = FALSE
  /\ worker = "none" /\ packets = 0 /\ sentFrame = 0 /\ sentLate = FALSE
  /\ acks = 0 /\ closer = "idle" /\ waits = 0

----------------------------------------------------------------------------
(* submit()                                                                *)

\* The slot is overwritten under its lock ...
Submit ==
  /\ submitter = "idle" /\ submitted < MaxFrames
  /\ submitted' = submitted + 1 /\ slot' = submitted + 1
  /\ submitter' = "wake"
  /\ UNCHANGED <<slotEvent, stopEvent, started, thread, workerVars, acks, closer, waits>>

\* ... then the event is set, outside it.
SetSlotEvent ==
  /\ submitter = "wake"
  /\ slotEvent' = TRUE /\ submitter' = "test"
  /\ UNCHANGED <<submitted, slot, stopEvent, started, thread, workerVars, acks, closer,
                 waits>>

TestStarted ==
  /\ submitter = "test"
  /\ submitter' = IF started THEN "idle" ELSE "start"
  /\ started' = TRUE
  /\ UNCHANGED <<submitted, slot, slotEvent, stopEvent, thread, workerVars, acks, closer,
                 waits>>

\* _start() stores the thread, then starts it.
CreateWorker ==
  /\ submitter = "start"
  /\ submitter' = "begin" /\ thread' = TRUE
  /\ UNCHANGED <<submitted, slot, slotEvent, stopEvent, started, workerVars, acks, closer,
                 waits>>

StartWorker ==
  /\ submitter = "begin"
  /\ submitter' = "idle" /\ worker' = "top"
  /\ UNCHANGED <<submitted, slot, slotEvent, stopEvent, started, thread, packets, sentFrame,
                 sentLate, acks, closer, waits>>

----------------------------------------------------------------------------
(* _run(), from one shared access to the next                              *)

LoopTop ==
  /\ worker = "top"
  /\ worker' = IF stopEvent THEN "ended" ELSE "wait"
  /\ UNCHANGED <<submitted, submitter, slot, slotEvent, stopEvent, started, thread,
                 packets, sentFrame, sentLate, acks, closer, waits>>

\* Mutant of Woken: wait() without a timeout.
WokenByEvent ==
  /\ worker = "wait" /\ slotEvent
  /\ worker' = IF stopEvent THEN "ended" ELSE "take"
  /\ UNCHANGED <<submitted, submitter, slot, slotEvent, stopEvent, started, thread,
                 packets, sentFrame, sentLate, acks, closer, waits>>

\* wait() returns because the event is set, or after ACK_TIMEOUT; a timeout
\* that finds nothing to do is counted.
Woken ==
  /\ worker = "wait"
  /\ IF slotEvent \/ slot # 0 THEN waits' = waits
     ELSE waits < MaxWaits /\ waits' = waits + 1
  /\ worker' = IF stopEvent THEN "ended" ELSE "take"
  /\ UNCHANGED <<submitted, submitter, slot, slotEvent, stopEvent, started, thread,
                 packets, sentFrame, sentLate, acks, closer>>

TakeSlot ==
  /\ worker = "take"
  /\ packets' = slot /\ slot' = 0
  /\ worker' = "clear"
  /\ UNCHANGED <<submitted, submitter, slotEvent, stopEvent, started, thread, sentFrame,
                 sentLate, acks, closer, waits>>

ClearSlotEvent ==
  /\ worker = "clear"
  /\ slotEvent' = FALSE
  /\ worker' = IF packets = 0 THEN "top" ELSE "send"
  /\ UNCHANGED <<submitted, submitter, slot, stopEvent, started, thread, packets,
                 sentFrame, sentLate, acks, closer, waits>>

\* sendto(), of a frame the device will acknowledge or of one that is lost.
SendFrame ==
  /\ worker = "send"
  /\ sentFrame' = packets /\ worker' = "ack"
  /\ acks' \in {acks, acks + 1}
  /\ sentLate' = (sentLate \/ closer \in {"done", "raised"})
  /\ UNCHANGED <<submitted, submitter, slot, slotEvent, stopEvent, started, thread,
                 packets, closer, waits>>

\* _wait_for_ack(): an acknowledgement, of this frame or of an earlier one,
\* or the timeout.
WaitForAck ==
  /\ worker = "ack"
  /\ acks' \in {acks} \union {a \in {acks - 1} : acks > 0}
  /\ packets' = 0 /\ worker' = "top"
  /\ UNCHANGED <<submitted, submitter, slot, slotEvent, stopEvent, started, thread,
                 sentFrame, sentLate, closer, waits>>

----------------------------------------------------------------------------
(* stop(), called by close()                                               *)

SetStopEvent ==
  /\ closer = "idle"
  /\ stopEvent' = TRUE /\ closer' = "wake"
  /\ UNCHANGED <<submitted, submitter, slot, slotEvent, started, thread, workerVars, acks,
                 waits>>

WakeWorker ==
  /\ closer = "wake"
  /\ slotEvent' = TRUE /\ closer' = "join"
  /\ UNCHANGED <<submitted, submitter, slot, stopEvent, started, thread, workerVars, acks,
                 waits>>

\* Mutant of JoinWorker: stop() does not wait.
DropWorker ==
  /\ closer = "join"
  /\ thread' = FALSE /\ closer' = "done"
  /\ UNCHANGED <<submitted, submitter, slot, slotEvent, stopEvent, started, workerVars,
                 acks, waits>>

\* The worker is between two looks at the event for ACK_TIMEOUT at most: the
\* join of two seconds sees it end.
JoinWorker ==
  /\ closer = "join"
  /\ thread => worker = "ended"
  /\ thread' = FALSE /\ closer' = "done"
  /\ UNCHANGED <<submitted, submitter, slot, slotEvent, stopEvent, started, workerVars,
                 acks, waits>>

\* A thread that was not started cannot be joined: RuntimeError, and close() goes no
\* further.
JoinRaises ==
  /\ closer = "join" /\ thread /\ worker = "none"
  /\ closer' = "raised"
  /\ UNCHANGED <<submitted, submitter, slot, slotEvent, stopEvent, started, thread,
                 workerVars, acks, waits>>

----------------------------------------------------------------------------
Submitting == Submit \/ SetSlotEvent \/ TestStarted \/ CreateWorker \/ StartWorker
Run == LoopTop \/ Woken \/ TakeSlot \/ ClearSlotEvent \/ SendFrame \/ WaitForAck
Stopping == SetStopEvent \/ WakeWorker \/ JoinWorker \/ JoinRaises

AckWorkerNext == Submitting \/ Run \/ Stopping

\* Threads run; a caller need not submit another frame or close the device.
AckWorkerFairness ==
  /\ WF_ackWorkerVars(SetSlotEvent \/ TestStarted \/ CreateWorker \/ StartWorker)
  /\ WF_ackWorkerVars(Run)
  /\ WF_ackWorkerVars(WakeWorker \/ JoinWorker \/ JoinRaises)

AckWorkerSpec ==
  AckWorkerInit /\ [][AckWorkerNext]_ackWorkerVars /\ AckWorkerFairness

----------------------------------------------------------------------------
(* Properties                                                              *)

\* The slot and its event are changed by two threads under different rules,
\* and frames are dropped on purpose; the last one submitted is sent all the
\* same, unless the device is closed.
LastFrameSent == <>[](submitted > 0 /\ ~stopEvent => sentFrame = submitted)

\* Once stop() has returned the device's socket is closed: nothing is sent, even if
\* stop() met the first submit() before it had stored the thread, or started it.
SilentAfterStop == ~sentLate
=============================================================================
