----------------------------- MODULE UdpChannel -----------------------------
(***************************************************************************)
(* The UDP signal channel (distributed/udp_channel.py): UdpSender numbers   *)
(* its frames modulo 2^32, UdpReceiver drops those older than the last one  *)
(* of the same signal.  The frames modelled carry one signal; the sender's  *)
(* counter is shared with its other signals.                                *)
(*                                                                         *)
(* The network loses, repeats and reorders frames, but none is delayed past *)
(* half the sequence space behind the newest of its sender, and the sender  *)
(* gets no more than half the space ahead of what was delivered: 2^31       *)
(* numbers are more than a year of frames.  A frame is known by its         *)
(* sender's run, its place in that run and its number on the wire.          *)
(***************************************************************************)
EXTENDS Integers

CONSTANTS
  SequenceModulus,   \* 2^32 in the code
  MaxUdpFrames,      \* bound: numbers used in one run of the sender
  MaxUdpRestarts     \* bound: restarts of the sender and of the receiver

ASSUME UdpAssumption ==
  /\ SequenceModulus \in Nat \ {0} /\ SequenceModulus % 2 = 0
  /\ {MaxUdpFrames, MaxUdpRestarts} \subseteq Nat

Half == SequenceModulus \div 2
Frame == [run : 0..MaxUdpRestarts, place : 0..MaxUdpFrames, sequence : 0..SequenceModulus - 1]
NoFrame == [run |-> 0, place |-> 0 - 1, sequence |-> 0]

VARIABLES
  senderRun, place,  \* the sender's run and how many numbers it has used
  sequence,          \* _sequence
  flying,            \* frames the network may still deliver
  lastSeq,           \* _last_seq of the signal, or -1
  delivered,         \* history: the frame handed to the callbacks last
  dropped,           \* history: the frame the last reception dropped, or NoFrame
  restarts

udpVars ==
  <<senderRun, place, sequence, flying, lastSeq, delivered, dropped, restarts>>

UdpTypeOK ==
  /\ senderRun \in 0..MaxUdpRestarts /\ place \in 0..MaxUdpFrames
  /\ sequence \in 0..SequenceModulus - 1
  /\ flying \subseteq Frame
  /\ lastSeq \in (0 - 1)..SequenceModulus - 1
  /\ delivered \in Frame \union {NoFrame} /\ dropped \in Frame \union {NoFrame}
  /\ restarts \in 0..MaxUdpRestarts

UdpInit ==
  /\ senderRun = 0 /\ place = 0 /\ sequence = 0
  /\ flying = {} /\ lastSeq = 0 - 1
  /\ delivered = NoFrame /\ dropped = NoFrame /\ restarts = 0

\* What may still arrive once the sender has used n numbers of its run.
Recent(n) == {f \in flying : f.run = senderRun /\ n - f.place < Half}

\* Mutant of NextNumber: the counter is not masked.
NextNumberUnmasked == sequence + 1
NextNumber == (sequence + 1) % SequenceModulus

\* send(): the number is taken under the lock, whatever the signal.
TakeNumber ==
  /\ place < MaxUdpFrames
  /\ (delivered # NoFrame /\ delivered.run = senderRun) => place - delivered.place < Half
  /\ place' = place + 1
  /\ sequence' = NextNumber
  /\ UNCHANGED <<senderRun, lastSeq, delivered, dropped, restarts>>

SendSignal ==
  /\ TakeNumber
  /\ flying' = Recent(place) \union
       {[run |-> senderRun, place |-> place, sequence |-> sequence]}

SendOther == TakeNumber /\ flying' = Recent(place)

\* Mutant of Stale: numbers are compared as they are.
StaleByNumber(f) == lastSeq # 0 - 1 /\ f.sequence < lastSeq

Stale(f) ==
  lastSeq # 0 - 1 /\ (f.sequence - lastSeq) % SequenceModulus > Half - 1

\* One round of _recv_loop(); a frame that stays in flight is a repeated one.
ReceiveFrame(f) ==
  /\ f \in flying
  /\ flying' \in {flying, flying \ {f}}
  /\ IF Stale(f) THEN dropped' = f /\ UNCHANGED <<lastSeq, delivered>>
     ELSE dropped' = NoFrame /\ lastSeq' = f.sequence /\ delivered' = f
  /\ UNCHANGED <<senderRun, place, sequence, restarts>>

LoseFrame(f) ==
  /\ f \in flying
  /\ flying' = flying \ {f}
  /\ UNCHANGED <<senderRun, place, sequence, lastSeq, delivered, dropped, restarts>>

Restart == restarts < MaxUdpRestarts /\ restarts' = restarts + 1

\* The sender's process starts again: it counts from zero.
RestartSender ==
  /\ Restart
  /\ senderRun' = senderRun + 1 /\ place' = 0 /\ sequence' = 0
  /\ UNCHANGED <<flying, lastSeq, delivered, dropped>>

\* stop() and start() of the receiver, which forgets the numbers; the socket's
\* buffer is lost with it.
RestartReceiver ==
  /\ Restart
  /\ flying' = {} /\ lastSeq' = 0 - 1
  /\ delivered' = NoFrame /\ dropped' = NoFrame
  /\ UNCHANGED <<senderRun, place, sequence>>

UdpNext ==
  \/ SendSignal \/ SendOther
  \/ \E f \in flying : ReceiveFrame(f) \/ LoseFrame(f)
  \/ RestartSender \/ RestartReceiver

UdpSpec == UdpInit /\ [][UdpNext]_udpVars

----------------------------------------------------------------------------
(* Properties                                                              *)

\* Within one run of the sender, and across the wrap of its numbers, the
\* receiver never goes back to an older frame and never drops one newer than
\* what it has delivered.
NewestWins ==
  [][/\ (delivered' # delivered /\ NoFrame \notin {delivered, delivered'}
            /\ delivered'.run = delivered.run)
          => delivered'.place > delivered.place
     /\ (dropped' # NoFrame /\ dropped'.run = delivered'.run)
          => dropped'.place < delivered'.place]_udpVars
=============================================================================
