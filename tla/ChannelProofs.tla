---------------------------- MODULE ChannelProofs ----------------------------
(***************************************************************************)
(* Theorems about the server's channels to the outside, for every value of *)
(* their bounds: the UDP signal channel (its numbers wrap and still the    *)
(* newest frame wins), the acknowledged frames of the LIFX transport (a    *)
(* closed worker is silent, frames go out in order, and the last one is    *)
(* never forgotten), the MQTT client that heals itself (two network        *)
(* threads never run side by side, and no client is replaced without a     *)
(* fault) and the signal bus (its nodes agree when nothing is under way).  *)
(***************************************************************************)
EXTENDS UdpChannel, AckWorker, Resilient, SignalBus, FiniteSetTheorems, SequenceTheorems, TLAPS

-----------------------------------------------------------------------------
(* The numbers of the UDP signal channel.                                  *)

LEMMA Halves ==
  /\ SequenceModulus \in Nat /\ Half \in Nat /\ SequenceModulus = Half + Half /\ Half > 0
  /\ MaxUdpFrames \in Nat /\ MaxUdpRestarts \in Nat
<1>1. SequenceModulus \in Nat /\ SequenceModulus > 0 /\ SequenceModulus % 2 = 0
      /\ MaxUdpFrames \in Nat /\ MaxUdpRestarts \in Nat
  BY UdpAssumption DEF UdpAssumption
<1>2. Half \in Nat /\ SequenceModulus = Half + Half
  BY <1>1 DEF Half
<1> QED BY <1>1, <1>2

\* A remainder of what is at most one modulus away.
LEMMA Remainder ==
  \A m \in Nat \ {0} : \A z \in 1 - m .. m - 1 : z % m = IF z < 0 THEN z + m ELSE z
  OBVIOUS

LEMMA NextNumberIs ==
  ASSUME sequence \in 0 .. SequenceModulus - 1
  PROVE  NextNumber = IF sequence + 1 = SequenceModulus THEN 0 ELSE sequence + 1
<1>1. SequenceModulus \in Nat \ {0}
  BY Halves
<1> DEFINE m == SequenceModulus
<1>2. CASE sequence + 1 = m
  <2>1. m % m = 0
    BY <1>1
  <2> QED BY <1>2, <2>1 DEF NextNumber
<1>3. CASE sequence + 1 # m
  <2>1. sequence + 1 \in 1 - m .. m - 1
    BY <1>1, <1>3
  <2>2. (sequence + 1) % m = sequence + 1
    BY <1>1, <2>1, Remainder
  <2> QED BY <1>3, <2>2 DEF NextNumber
<1> QED BY <1>2, <1>3

\* Numbers compare as the places do, as long as these are less than half the
\* modulus apart.
LEMMA Compares ==
  ASSUME NEW a \in 0 .. SequenceModulus - 1, NEW b \in 0 .. SequenceModulus - 1,
         NEW x \in Int, 0 - Half < x, x < Half,
         a - b \in {x, x - SequenceModulus, x + SequenceModulus}
  PROVE  (a - b) % SequenceModulus > Half - 1 <=> x < 0
<1> DEFINE m == SequenceModulus
           z == a - b
<1>1. m \in Nat \ {0} /\ Half \in Nat /\ m = Half + Half
  BY Halves
<1>2. z \in 1 - m .. m - 1
  BY <1>1
<1>3. z % m = IF z < 0 THEN z + m ELSE z
  BY <1>1, <1>2, Remainder
<1>4. z = x \/ z = x - m \/ z = x + m
  OBVIOUS
<1> HIDE DEF m, z
<1>5. z % m > Half - 1 <=> x < 0
  BY <1>1, <1>2, <1>3, <1>4
<1> QED BY <1>5 DEF m, z

\* The frames whose numbers still matter: those in flight and the last one
\* delivered.
Known == flying \union ({delivered} \ {NoFrame})

\* A sender is restarted no more than restarts are counted.
NumbersInv == UdpTypeOK /\ senderRun <= restarts

\* The sender's frames are behind it, by half the modulus at most, and its
\* number is ahead of theirs by as much, or by that less one modulus.
Behind(f) ==
  LET d == place - f.place IN
  /\ 0 < d /\ d <= Half
  /\ sequence - f.sequence \in {d, d - SequenceModulus}
SenderInv == \A f \in Known : f.run <= senderRun /\ (f.run = senderRun => Behind(f))

\* Two frames of one run are closer than half the modulus, and so are their
\* numbers, but for the wrap.
Near(f, g) ==
  LET x == f.place - g.place IN
  /\ 0 - Half < x /\ x < Half
  /\ f.sequence - g.sequence \in {x, x - SequenceModulus, x + SequenceModulus}
PairInv == \A f, g \in Known : f.run = g.run => Near(f, g)

\* The receiver remembers the number of what it delivered last, and what it
\* dropped since was older.
ReceiverInv ==
  /\ delivered = NoFrame => lastSeq = 0 - 1 /\ dropped = NoFrame
  /\ delivered # NoFrame => lastSeq = delivered.sequence
  /\ dropped # NoFrame /\ dropped.run = delivered.run => dropped.place < delivered.place

UdpInv == NumbersInv /\ SenderInv /\ PairInv /\ ReceiverInv

LEMMA FrameFields ==
  /\ NoFrame \notin Frame
  /\ \A f \in Frame : /\ f.run \in Nat /\ f.place \in Nat
                      /\ f.sequence \in 0 .. SequenceModulus - 1 /\ f.sequence \in Nat
<1>1. MaxUdpRestarts \in Nat /\ MaxUdpFrames \in Nat /\ SequenceModulus \in Nat
  BY Halves
<1> QED BY <1>1 DEF Frame, NoFrame

LEMMA KnownFrames == NumbersInv => Known \subseteq Frame
  BY DEF NumbersInv, UdpTypeOK, Known

LEMMA UdpBegin == UdpInit => UdpInv
<1> SUFFICES ASSUME UdpInit PROVE UdpInv
  OBVIOUS
<1>1. Known = {}
  BY DEF UdpInit, Known
<1>2. NumbersInv
  BY Halves DEF UdpInit, NumbersInv, UdpTypeOK
<1>3. ReceiverInv
  BY DEF UdpInit, ReceiverInv
<1> QED BY <1>1, <1>2, <1>3 DEF UdpInv, SenderInv, PairInv

\* A number is taken, and what the network may still deliver is recent.
LEMMA NumberStep ==
  ASSUME UdpInv, TakeNumber,
         \/ flying' = Recent(place) \union
              {[run |-> senderRun, place |-> place, sequence |-> sequence]}
         \/ flying' = Recent(place)
  PROVE  UdpInv'
<1> DEFINE new == [run |-> senderRun, place |-> place, sequence |-> sequence]
           m == SequenceModulus
<1>0. /\ m \in Nat /\ Half \in Nat /\ m = Half + Half /\ Half > 0
      /\ MaxUdpFrames \in Nat /\ MaxUdpRestarts \in Nat
  BY Halves
<1>1. /\ place \in Nat /\ place < MaxUdpFrames /\ place' = place + 1
      /\ sequence \in 0 .. m - 1
      /\ (delivered # NoFrame /\ delivered.run = senderRun) => place - delivered.place < Half
      /\ UNCHANGED <<senderRun, lastSeq, delivered, dropped, restarts>>
      /\ senderRun \in 0 .. MaxUdpRestarts
  BY <1>0 DEF TakeNumber, UdpInv, NumbersInv, UdpTypeOK
<1>2. sequence' = IF sequence + 1 = m THEN 0 ELSE sequence + 1
  BY <1>1, NextNumberIs DEF TakeNumber
<1>3. new \in Frame /\ sequence' \in 0 .. m - 1
  BY <1>0, <1>1, <1>2 DEF Frame
<1>4. /\ \A f \in Known' : f = new \/ f \in Known
      /\ \A f \in Known' : f \in Known /\ f.run = senderRun => place - f.place < Half
  <2>1. \A f \in Known' : f = new \/ f \in Recent(place)
                          \/ (f = delivered /\ delivered # NoFrame)
    BY <1>1 DEF Known
  <2>2. \A f \in Recent(place) : f \in flying /\ place - f.place < Half
    BY DEF Recent
  <2>3. new.run = senderRun /\ place - new.place < Half
    BY <1>0, <1>1
  <2> HIDE DEF new, m
  <2> QED BY <1>1, <2>1, <2>2, <2>3 DEF Known
<1>5. NumbersInv'
  <2>1. flying' \subseteq Frame
    BY <1>3 DEF Recent, UdpInv, NumbersInv, UdpTypeOK
  <2>2. place' \in 0 .. MaxUdpFrames
    BY <1>0, <1>1
  <2> QED BY <1>1, <1>3, <2>1, <2>2 DEF UdpInv, NumbersInv, UdpTypeOK
<1>6. SenderInv'
  <2> SUFFICES ASSUME NEW f \in Known'
               PROVE  f.run <= senderRun' /\ (f.run = senderRun' => Behind(f)')
    BY DEF SenderInv
  <2>1. CASE f = new
    <3>1. f.run = senderRun /\ f.place = place /\ f.sequence = sequence
      BY <2>1
    <3>2. place' - f.place = 1
      BY <1>1, <3>1
    <3>3. sequence' - f.sequence \in {1, 1 - m}
      BY <1>0, <1>1, <1>2, <3>1
    <3> QED BY <1>0, <1>1, <3>1, <3>2, <3>3 DEF Behind
  <2>2. CASE f # new
    <3>0. f \in Known /\ f \in Frame
      BY <1>4, <2>2, KnownFrames DEF UdpInv
    <3>1. f.run <= senderRun
      BY <3>0 DEF UdpInv, SenderInv
    <3>2. ASSUME f.run = senderRun PROVE Behind(f)'
      <4> DEFINE d == place - f.place
      <4>1. 0 < d /\ d < Half /\ sequence - f.sequence \in {d, d - m}
        BY <1>4, <3>0, <3>2 DEF UdpInv, SenderInv, Behind
      <4>2. /\ f.place \in Nat /\ f.sequence \in 0 .. m - 1
            /\ place' - f.place = d + 1 /\ d \in Int
        BY <1>1, <3>0, FrameFields
      <4>3. sequence' - f.sequence \in {d + 1, d + 1 - m}
        <5> HIDE DEF d, m
        <5> QED BY <1>0, <1>1, <1>2, <4>1, <4>2
      <4> HIDE DEF d, m
      <4>4. 0 < d + 1 /\ d + 1 <= Half
        BY <1>0, <4>1, <4>2
      <4>5. /\ 0 < place' - f.place /\ place' - f.place <= Half
            /\ \/ sequence' - f.sequence = place' - f.place
               \/ sequence' - f.sequence = (place' - f.place) - m
        BY <1>0, <1>1, <4>2, <4>3, <4>4
      <4> QED BY <4>5 DEF Behind, m
    <3> QED BY <1>1, <3>1, <3>2
  <2> QED BY <2>1, <2>2
<1>7. ASSUME NEW f \in Known', f # new, f.run = senderRun PROVE Near(f, new) /\ Near(new, f)
  <2> DEFINE d == place - f.place
  <2>0. f \in Known /\ f \in Frame
    BY <1>4, <1>7, KnownFrames DEF UdpInv
  <2>1. 0 < d /\ d < Half /\ sequence - f.sequence \in {d, d - m}
    BY <1>4, <1>7, <2>0 DEF UdpInv, SenderInv, Behind
  <2>2. f.place \in Nat /\ f.sequence \in 0 .. m - 1 /\ d \in Int
    BY <1>1, <2>0, FrameFields
  <2>3. new.place = place /\ new.sequence = sequence
    OBVIOUS
  <2>4. /\ new.place - f.place = d /\ f.place - new.place = 0 - d
        /\ new.sequence - f.sequence \in {d, d - m}
        /\ f.sequence - new.sequence \in {0 - d, m - d}
    BY <1>0, <1>1, <2>1, <2>2, <2>3
  <2> HIDE DEF new, m, d
  <2>5. Near(new, f)
    BY <1>0, <2>1, <2>2, <2>4 DEF Near, m
  <2>6. f.sequence - new.sequence \in {0 - d, (0 - d) + m}
    BY <1>0, <2>2, <2>4
  <2>7. Near(f, new)
    BY <1>0, <2>1, <2>2, <2>4, <2>6 DEF Near, m
  <2> QED BY <2>5, <2>7
<1>8. Near(new, new)
  BY <1>0, <1>1 DEF Near
<1>9. PairInv'
  <2> SUFFICES ASSUME NEW f \in Known', NEW g \in Known', f.run = g.run PROVE Near(f, g)
    BY DEF PairInv, Near
  <2>1. new.run = senderRun
    OBVIOUS
  <2> HIDE DEF new
  <2>2. CASE f = new \/ g = new
    BY <1>7, <1>8, <2>1, <2>2
  <2>3. CASE f # new /\ g # new
    BY <1>4, <2>3 DEF UdpInv, PairInv
  <2> QED BY <2>2, <2>3
<1>10. ReceiverInv'
  BY <1>1 DEF UdpInv, ReceiverInv
<1> QED BY <1>5, <1>6, <1>9, <1>10 DEF UdpInv

\* Whether a frame is stale is decided by its place, not by its number.
LEMMA StaleIs ==
  ASSUME UdpInv, NEW f \in flying, delivered # NoFrame, f.run = delivered.run
  PROVE  Stale(f) <=> f.place < delivered.place
<1> DEFINE x == f.place - delivered.place
<1>1. f \in Known /\ delivered \in Known /\ f \in Frame /\ delivered \in Frame
  BY KnownFrames DEF Known, UdpInv
<1>2. /\ f.place \in Nat /\ delivered.place \in Nat
      /\ f.sequence \in 0 .. SequenceModulus - 1
      /\ delivered.sequence \in 0 .. SequenceModulus - 1
  BY <1>1, FrameFields
<1>3. Near(f, delivered)
  BY <1>1 DEF UdpInv, PairInv
<1>4. /\ 0 - Half < x /\ x < Half /\ x \in Int
      /\ f.sequence - delivered.sequence \in {x, x - SequenceModulus, x + SequenceModulus}
  BY <1>2, <1>3 DEF Near
<1>5. lastSeq = delivered.sequence /\ lastSeq # 0 - 1
  BY <1>2, Halves DEF UdpInv, ReceiverInv
<1>6. (f.sequence - delivered.sequence) % SequenceModulus > Half - 1 <=> x < 0
  <2> HIDE DEF x
  <2> QED BY <1>2, <1>4, Compares
<1>7. x < 0 <=> f.place < delivered.place
  BY <1>2
<1> QED BY <1>5, <1>6, <1>7 DEF Stale

LEMMA ReceiveStep ==
  ASSUME UdpInv, NEW f \in flying, ReceiveFrame(f)
  PROVE  UdpInv'
<1>1. /\ flying' \subseteq flying /\ UNCHANGED <<senderRun, place, sequence, restarts>>
      /\ \/ /\ Stale(f) /\ dropped' = f /\ UNCHANGED <<lastSeq, delivered>>
         \/ /\ ~Stale(f) /\ dropped' = NoFrame /\ lastSeq' = f.sequence /\ delivered' = f
  BY DEF ReceiveFrame
<1>2. f \in Frame /\ f # NoFrame /\ f.sequence \in 0 .. SequenceModulus - 1
  BY FrameFields DEF UdpInv, NumbersInv, UdpTypeOK
<1>3. Known' \subseteq Known
  BY <1>1, <1>2 DEF Known
<1>4. NumbersInv'
  <2>1. f.sequence \in (0 - 1) .. SequenceModulus - 1
    BY <1>2, Halves
  <2> QED BY <1>1, <1>2, <2>1 DEF UdpInv, NumbersInv, UdpTypeOK
<1>5. SenderInv'
  BY <1>1, <1>3 DEF UdpInv, SenderInv, Behind
<1>6. PairInv'
  BY <1>3 DEF UdpInv, PairInv, Near
<1>7. ReceiverInv'
  <2>1. CASE Stale(f)
    <3>1. delivered # NoFrame
      BY <2>1 DEF UdpInv, ReceiverInv, Stale
    <3>2. f.run = delivered.run => f.place < delivered.place
      BY <2>1, <3>1, StaleIs
    <3> QED BY <1>1, <2>1, <3>1, <3>2 DEF UdpInv, ReceiverInv
  <2>2. CASE ~Stale(f)
    BY <1>1, <1>2, <2>2 DEF ReceiverInv
  <2> QED BY <2>1, <2>2
<1> QED BY <1>4, <1>5, <1>6, <1>7 DEF UdpInv

LEMMA UdpStep == UdpInv /\ [UdpNext]_udpVars => UdpInv'
<1> SUFFICES ASSUME UdpInv, [UdpNext]_udpVars PROVE UdpInv'
  OBVIOUS
<1>1. CASE SendSignal \/ SendOther
  BY <1>1, NumberStep DEF SendSignal, SendOther
<1>2. ASSUME NEW f \in flying, ReceiveFrame(f) PROVE UdpInv'
  BY <1>2, ReceiveStep
<1>3. ASSUME flying' \subseteq flying,
             UNCHANGED <<senderRun, place, sequence, lastSeq, delivered, dropped, restarts>>
      PROVE  UdpInv'
  <2>1. Known' \subseteq Known
    BY <1>3 DEF Known
  <2>2. NumbersInv' /\ ReceiverInv'
    BY <1>3 DEF UdpInv, NumbersInv, UdpTypeOK, ReceiverInv
  <2>3. SenderInv'
    BY <1>3, <2>1 DEF UdpInv, SenderInv, Behind
  <2>4. PairInv'
    BY <2>1 DEF UdpInv, PairInv, Near
  <2> QED BY <2>2, <2>3, <2>4 DEF UdpInv
<1>4. ASSUME NEW f \in flying, LoseFrame(f) PROVE UdpInv'
  BY <1>3, <1>4 DEF LoseFrame
<1>5. CASE RestartSender
  <2>1. /\ senderRun' = senderRun + 1 /\ place' = 0 /\ sequence' = 0
        /\ restarts' = restarts + 1 /\ restarts < MaxUdpRestarts
        /\ UNCHANGED <<flying, lastSeq, delivered, dropped>>
    BY <1>5 DEF RestartSender, Restart
  <2>2. /\ senderRun \in Nat /\ restarts \in Nat /\ senderRun <= restarts
        /\ MaxUdpRestarts \in Nat /\ MaxUdpFrames \in Nat /\ SequenceModulus \in Nat
        /\ SequenceModulus > 0
    BY Halves DEF UdpInv, NumbersInv, UdpTypeOK
  <2>3. /\ senderRun' \in 0 .. MaxUdpRestarts /\ restarts' \in 0 .. MaxUdpRestarts
        /\ senderRun' <= restarts' /\ place' \in 0 .. MaxUdpFrames
        /\ sequence' \in 0 .. SequenceModulus - 1
    BY <2>1, <2>2
  <2>4. NumbersInv'
    BY <2>1, <2>3 DEF UdpInv, NumbersInv, UdpTypeOK
  <2>5. Known' = Known
    BY <2>1 DEF Known
  <2>6. SenderInv'
    <3>1. \A f \in Known : f.run \in Nat /\ f.run <= senderRun
      BY KnownFrames, FrameFields DEF UdpInv, SenderInv
    <3>2. \A f \in Known : f.run <= senderRun' /\ f.run # senderRun'
      BY <2>1, <2>2, <3>1
    <3> QED BY <2>5, <3>2 DEF SenderInv
  <2>7. PairInv' /\ ReceiverInv'
    BY <2>1, <2>5 DEF UdpInv, PairInv, Near, ReceiverInv
  <2> QED BY <2>4, <2>6, <2>7 DEF UdpInv
<1>6. CASE RestartReceiver
  <2>1. /\ flying' = {} /\ lastSeq' = 0 - 1 /\ delivered' = NoFrame /\ dropped' = NoFrame
        /\ restarts' = restarts + 1 /\ restarts < MaxUdpRestarts
        /\ UNCHANGED <<senderRun, place, sequence>>
    BY <1>6 DEF RestartReceiver, Restart
  <2>2. /\ senderRun \in Nat /\ restarts \in Nat /\ senderRun <= restarts
        /\ MaxUdpRestarts \in Nat /\ SequenceModulus \in Nat /\ SequenceModulus > 0
    BY Halves DEF UdpInv, NumbersInv, UdpTypeOK
  <2>3. restarts' \in 0 .. MaxUdpRestarts /\ senderRun' <= restarts'
        /\ lastSeq' \in (0 - 1) .. SequenceModulus - 1
    BY <2>1, <2>2
  <2>4. NumbersInv'
    BY <2>1, <2>3 DEF UdpInv, NumbersInv, UdpTypeOK
  <2>5. Known' = {}
    BY <2>1 DEF Known
  <2>6. ReceiverInv'
    BY <2>1 DEF ReceiverInv
  <2> QED BY <2>4, <2>5, <2>6 DEF UdpInv, SenderInv, PairInv
<1>7. CASE UNCHANGED udpVars
  BY <1>3, <1>7 DEF udpVars
<1> QED BY <1>1, <1>2, <1>4, <1>5, <1>6, <1>7 DEF UdpNext

\* For every modulus - 2^32 in the code - and any loss, repetition, reordering
\* and restart: numbers stay below the modulus, runs within their bound.
THEOREM UdpTypeCorrect == UdpSpec => []UdpTypeOK
<1>1. UdpInv => UdpTypeOK
  BY DEF UdpInv, NumbersInv
<1> QED BY <1>1, UdpBegin, UdpStep, PTL DEF UdpSpec

\* For every modulus, and across the wrap of the numbers: within a run of the
\* sender the receiver (distributed/udp_channel.py) never goes back to an older
\* frame, and drops none that is newer than what it has delivered.
THEOREM NewestAlwaysWins == UdpSpec => NewestWins
<1> DEFINE Step ==
      /\ (delivered' # delivered /\ NoFrame \notin {delivered, delivered'}
            /\ delivered'.run = delivered.run)
          => delivered'.place > delivered.place
      /\ (dropped' # NoFrame /\ dropped'.run = delivered'.run)
          => dropped'.place < delivered'.place
<1>1. ASSUME UdpInv, UdpInv', UdpNext PROVE Step
  <2>1. (dropped' # NoFrame /\ dropped'.run = delivered'.run)
          => dropped'.place < delivered'.place
    BY <1>1 DEF UdpInv, ReceiverInv
  <2>2. ASSUME delivered' # delivered, delivered # NoFrame, delivered' # NoFrame,
               delivered'.run = delivered.run
        PROVE  delivered'.place > delivered.place
    <3>1. PICK f \in flying : ReceiveFrame(f)
      BY <1>1, <2>2 DEF UdpNext, SendSignal, SendOther, TakeNumber, LoseFrame, RestartSender,
         RestartReceiver
    <3>2. ~Stale(f) /\ delivered' = f
      BY <2>2, <3>1 DEF ReceiveFrame
    <3>3. f \in Known /\ delivered \in Known /\ f \in Frame /\ delivered \in Frame
      BY <1>1, <2>2, KnownFrames DEF Known, UdpInv
    <3>4. ~(f.place < delivered.place)
      BY <1>1, <2>2, <3>2, StaleIs
    <3>5. /\ f.place \in Nat /\ delivered.place \in Nat
          /\ f.sequence \in 0 .. SequenceModulus - 1
          /\ delivered.sequence \in 0 .. SequenceModulus - 1
      BY <3>3, FrameFields
    <3>6. f.place # delivered.place
      <4> SUFFICES ASSUME f.place = delivered.place PROVE FALSE
        OBVIOUS
      <4>1. Near(f, delivered)
        BY <1>1, <2>2, <3>2, <3>3 DEF UdpInv, PairInv
      <4>2. f.place - delivered.place = 0
        BY <3>5
      <4>3. f.sequence - delivered.sequence \in {0, 0 - SequenceModulus, SequenceModulus}
        BY <4>1, <4>2, Halves DEF Near
      <4>4. f.sequence = delivered.sequence
        BY <3>5, <4>3, Halves
      <4>5. f = delivered
        BY <2>2, <3>2, <3>3, <4>4 DEF Frame
      <4> QED BY <2>2, <3>2, <4>5
    <3> QED BY <3>2, <3>4, <3>5, <3>6
  <2> QED BY <2>1, <2>2
<1>2. UdpInv /\ UdpInv' /\ [UdpNext]_udpVars => [Step]_udpVars
  <2> HIDE DEF Step
  <2> QED BY <1>1
<1> HIDE DEF Step
<1>3. UdpSpec => [][Step]_udpVars
  BY <1>2, UdpBegin, UdpStep, PTL DEF UdpSpec
<1> QED BY <1>3 DEF NewestWins, Step

-----------------------------------------------------------------------------
(* The acknowledged frames of the transport.                               *)

\* The worker is started once, by the submit() that found it not started.
StartedOnce ==
  /\ submitter \in {"start", "begin"} => started /\ worker = "none"
  /\ ~started => worker = "none"

\* stop() has announced itself before it waits, and a worker that was started
\* is known to it until it has waited.
Announced ==
  /\ closer # "idle" => stopEvent
  /\ worker # "none" /\ closer # "done" => thread
  /\ submitter = "begin" => thread

\* After stop() the worker has ended, or it was started too late: then it is at
\* the top of its loop, where it will find the stop event set.
Closed == closer \in {"done", "raised"} => worker \in {"none", "top", "ended"}

Silenced == StartedOnce /\ Announced /\ Closed /\ SilentAfterStop

LEMMA InitSilenced == AckWorkerInit => Silenced
  BY DEF AckWorkerInit, Silenced, StartedOnce, Announced, Closed, SilentAfterStop

\* submit() changes nothing of this but the start of the worker.
LEMMA SubmittingSilenced == Silenced /\ Submitting => Silenced'
<1> SUFFICES ASSUME Silenced, Submitting PROVE Silenced'
  OBVIOUS
<1> USE DEF Silenced, StartedOnce, Announced, Closed, SilentAfterStop, workerVars
<1>1. CASE Submit
  BY <1>1 DEF Submit
<1>2. CASE SetSlotEvent
  BY <1>2 DEF SetSlotEvent
<1>3. CASE TestStarted
  BY <1>3 DEF TestStarted
<1>4. CASE CreateWorker
  BY <1>4 DEF CreateWorker
<1>5. CASE StartWorker
  BY <1>5 DEF StartWorker
<1> QED
  BY <1>1, <1>2, <1>3, <1>4, <1>5 DEF Submitting

\* The worker passes the top of its loop only when it is not to stop.
LEMMA RunSilenced == Silenced /\ Run => Silenced'
<1> SUFFICES ASSUME Silenced, Run PROVE Silenced'
  OBVIOUS
<1> USE DEF Silenced, StartedOnce, Announced, Closed, SilentAfterStop
<1>1. CASE LoopTop
  BY <1>1 DEF LoopTop
<1>2. CASE Woken
  BY <1>2 DEF Woken
<1>3. CASE TakeSlot
  BY <1>3 DEF TakeSlot
<1>4. CASE ClearSlotEvent
  BY <1>4 DEF ClearSlotEvent
<1>5. CASE SendFrame
  BY <1>5 DEF SendFrame
<1>6. CASE WaitForAck
  BY <1>6 DEF WaitForAck
<1> QED
  BY <1>1, <1>2, <1>3, <1>4, <1>5, <1>6 DEF Run

LEMMA StoppingSilenced == Silenced /\ Stopping => Silenced'
<1> SUFFICES ASSUME Silenced, Stopping PROVE Silenced'
  OBVIOUS
<1> USE DEF Silenced, StartedOnce, Announced, Closed, SilentAfterStop, workerVars
<1>1. CASE SetStopEvent
  BY <1>1 DEF SetStopEvent
<1>2. CASE WakeWorker
  BY <1>2 DEF WakeWorker
<1>3. CASE JoinWorker
  BY <1>3 DEF JoinWorker
<1>4. CASE JoinRaises
  BY <1>4 DEF JoinRaises
<1> QED
  BY <1>1, <1>2, <1>3, <1>4 DEF Stopping

LEMMA SilencedStep == Silenced /\ [AckWorkerNext]_ackWorkerVars => Silenced'
<1> SUFFICES ASSUME Silenced, [AckWorkerNext]_ackWorkerVars PROVE Silenced'
  OBVIOUS
<1>1. CASE AckWorkerNext
  BY <1>1, SubmittingSilenced, RunSilenced, StoppingSilenced DEF AckWorkerNext
<1>2. CASE UNCHANGED ackWorkerVars
  BY <1>2 DEF ackWorkerVars, workerVars, Silenced, StartedOnce, Announced, Closed,
              SilentAfterStop
<1> QED BY <1>1, <1>2

\* However a close() meets the first submit() and the waits of the worker
\* (transport.py, _AckWorker): once stop() has returned or raised, nothing is sent.
THEOREM SilentAlways == AckWorkerSpec => []SilentAfterStop
<1>1. Silenced => SilentAfterStop
  BY DEF Silenced
<1> QED
  BY InitSilenced, SilencedStep, <1>1, PTL DEF AckWorkerSpec

-----------------------------------------------------------------------------
(* The MQTT client that heals itself.                                      *)

\* Clients are counted, and before the first there is no thread of any kind.
Counted == created \in Nat /\ (created = 0 => watchdog = "off" /\ loops = {})

\* The network thread is that of _client; of the client under replacement, once
\* _client is reset; and of none when that one is torn down.
OneThread ==
  /\ watchdog \in {"off", "watching"} => loops \subseteq {current}
  /\ watchdog = "reset" => loops \subseteq {replaced}
  /\ watchdog = "torn" => loops = {}
  /\ watchdog \in {"off", "watching", "reset", "torn"}

Alone == Counted /\ OneThread

LEMMA InitAlone == ResilientInit => Alone
  BY DEF ResilientInit, Alone, Counted, OneThread

\* Threads end whenever stop() comes, and the callbacks start none.
LEMMA OwnerAlone ==
  ASSUME Alone,
         \/ StartClient \/ StopRequest \/ StopClient \/ FallSilent
         \/ \E i \in Client : OnConnect(i) \/ OnDisconnect(i) \/ OnMessage(i) \/ GoDeaf(i)
  PROVE  Alone'
<1> USE DEF Alone, Counted, OneThread
<1>1. CASE StartClient
  BY <1>1 DEF StartClient, CreateClient
<1>2. CASE StopRequest \/ FallSilent
  BY <1>2 DEF StopRequest, FallSilent
<1>3. CASE StopClient
  BY <1>3 DEF StopClient, EndClient
<1>4. CASE \E i \in Client : OnConnect(i) \/ OnDisconnect(i) \/ OnMessage(i) \/ GoDeaf(i)
  BY <1>4 DEF OnConnect, OnDisconnect, OnMessage, GoDeaf
<1> QED
  BY <1>1, <1>2, <1>3, <1>4

LEMMA NextCounted == \A n \in Nat : n + 1 \in Nat /\ n + 1 # 0
  OBVIOUS

\* The watchdog ends the old thread before it starts the next.
LEMMA WatchAlone == ASSUME Alone, Watch PROVE Alone'
<1> USE DEF Alone, Counted, OneThread
<1>1. CASE Check
  BY <1>1 DEF Check
<1>2. CASE TearDown
  BY <1>2 DEF TearDown, EndClient
<1>3. CASE Rebuild
  <2>0. created' = created + 1
    BY <1>3 DEF Rebuild, CreateClient
  <2>1. created' \in Nat /\ created' # 0
    BY <2>0, NextCounted
  <2>2. loops' = {current'} /\ watchdog' = "watching"
    BY <1>3 DEF Rebuild, CreateClient
  <2> QED
    BY <2>1, <2>2
<1>4. CASE ExitWatchdog
  BY <1>4 DEF ExitWatchdog
<1> QED
  BY <1>1, <1>2, <1>3, <1>4 DEF Watch

LEMMA AloneIsOne == Alone => OneNetworkThread
<1> SUFFICES ASSUME Alone PROVE OneNetworkThread
  OBVIOUS
<1>1. PICK i : loops \subseteq {i}
  BY DEF Alone, OneThread
<1>2. IsFiniteSet({i}) /\ Cardinality({i}) = 1
  BY FS_Singleton
<1>3. Cardinality(loops) <= Cardinality({i})
  BY <1>1, <1>2, FS_Subset
<1> QED
  BY <1>2, <1>3 DEF OneNetworkThread

\* Recoveries of the watchdog, paho's own reconnects and stop() come in any
\* order (mqtt_resilient_client.py): one network thread at most runs.
THEOREM OneNetworkThreadAlways == ResilientSpec => []OneNetworkThread
<1>1. Alone /\ [ResilientNext]_resilientVars => Alone'
  <2> SUFFICES ASSUME Alone, [ResilientNext]_resilientVars PROVE Alone'
    OBVIOUS
  <2>1. CASE ResilientNext
    BY <2>1, OwnerAlone, WatchAlone DEF ResilientNext
  <2>2. CASE UNCHANGED resilientVars
    BY <2>2 DEF resilientVars, Alone, Counted, OneThread
  <2> QED
    BY <2>1, <2>2
<1> QED
  BY InitAlone, <1>1, AloneIsOne, PTL DEF ResilientSpec

-----------------------------------------------------------------------------
(* The frames of an acknowledging worker.                                  *)

\* The types of AckWorker: the Boolean variables, and the others with the order
\* of the frames: one in the slot is newer than what was taken and sent, and one
\* that is taken newer than what was sent.
AckFlags ==
  /\ slotEvent \in BOOLEAN /\ stopEvent \in BOOLEAN /\ started \in BOOLEAN
  /\ thread \in BOOLEAN /\ sentLate \in BOOLEAN
AckPlaces ==
  /\ submitter \in {"idle", "wake", "test", "start", "begin"}
  /\ worker \in {"none", "top", "wait", "take", "clear", "send", "ack", "ended"}
  /\ closer \in {"idle", "wake", "join", "done", "raised"}
AckNumbers ==
  /\ submitted \in 0..MaxFrames /\ slot \in 0..submitted
  /\ packets \in 0..submitted /\ sentFrame \in 0..submitted
  /\ acks \in 0..sentFrame /\ waits \in 0..MaxWaits
Ascending ==
  /\ slot # 0 => packets < slot /\ sentFrame < slot
  /\ worker \in {"clear", "send"} /\ packets # 0 => sentFrame < packets
  /\ worker = "send" => packets # 0
AckInv == AckPlaces /\ AckNumbers /\ Ascending

LEMMA AckFlagsStep == AckFlags /\ [AckWorkerNext]_ackWorkerVars => AckFlags'
<1> SUFFICES ASSUME AckFlags, [AckWorkerNext]_ackWorkerVars PROVE AckFlags'
  OBVIOUS
<1> USE DEF AckFlags, workerVars
<1>1. CASE Submitting
  BY <1>1, Zenon DEF Submitting, Submit, SetSlotEvent, TestStarted, CreateWorker, StartWorker
<1>2. CASE Run
  BY <1>2, Zenon DEF Run, LoopTop, Woken, TakeSlot, ClearSlotEvent, SendFrame, WaitForAck
<1>3. CASE Stopping
  BY <1>3, Zenon DEF Stopping, SetStopEvent, WakeWorker, JoinWorker, JoinRaises
<1>4. CASE UNCHANGED ackWorkerVars
  BY <1>4, Zenon DEF ackWorkerVars
<1> QED BY <1>1, <1>2, <1>3, <1>4 DEF AckWorkerNext

LEMMA AckStep == AckInv /\ [AckWorkerNext]_ackWorkerVars => AckInv'
<1> SUFFICES ASSUME AckInv, [AckWorkerNext]_ackWorkerVars PROVE AckInv'
  OBVIOUS
<1> USE DEF AckInv, AckPlaces, AckNumbers, Ascending, workerVars
<1>0. MaxFrames \in Nat /\ MaxWaits \in Nat
  BY AckWorkerAssumption DEF AckWorkerAssumption
<1>1. CASE Submit
  BY <1>0, <1>1 DEF Submit
<1>2. CASE SetSlotEvent \/ TestStarted \/ CreateWorker \/ StartWorker
  BY <1>0, <1>2 DEF SetSlotEvent, TestStarted, CreateWorker, StartWorker
<1>3. CASE LoopTop \/ Woken
  BY <1>0, <1>3 DEF LoopTop, Woken
<1>4. CASE TakeSlot \/ ClearSlotEvent
  BY <1>0, <1>4 DEF TakeSlot, ClearSlotEvent
<1>5. CASE SendFrame
  BY <1>0, <1>5 DEF SendFrame
<1>6. CASE WaitForAck
  BY <1>0, <1>6 DEF WaitForAck
<1>7. CASE Stopping \/ UNCHANGED ackWorkerVars
  BY <1>7 DEF Stopping, SetStopEvent, WakeWorker, JoinWorker, JoinRaises, ackWorkerVars
<1> QED BY <1>1, <1>2, <1>3, <1>4, <1>5, <1>6, <1>7 DEF AckWorkerNext, Submitting, Run

LEMMA AckTypes ==
  /\ AckWorkerInit => AckFlags /\ AckInv
  /\ AckFlags /\ AckInv => AckWorkerTypeOK
<1>0. MaxFrames \in Nat /\ MaxWaits \in Nat
  BY AckWorkerAssumption DEF AckWorkerAssumption
<1>1. AckWorkerInit => AckFlags
  BY Zenon DEF AckWorkerInit, AckFlags
<1>2. AckWorkerInit => AckInv
  BY <1>0 DEF AckWorkerInit, AckInv, AckPlaces, AckNumbers, Ascending
<1>3. AckFlags /\ AckInv => AckWorkerTypeOK
  <2>1. AckFlags => {slotEvent, stopEvent, started, thread, sentLate} \subseteq BOOLEAN
    BY Zenon DEF AckFlags
  <2> QED BY <2>1 DEF AckWorkerTypeOK, AckInv, AckPlaces, AckNumbers
<1> QED BY <1>1, <1>2, <1>3

\* Frames are dropped on purpose, and the slot and its event are changed by two
\* threads under different rules; still no frame is sent twice or after a newer
\* one (_AckWorker.submit() and _run() in transport.py).
THEOREM FramesAscend ==
  AckWorkerSpec => [][sentFrame' # sentFrame => sentFrame < sentFrame']_ackWorkerVars
<1> DEFINE Step == sentFrame' # sentFrame => sentFrame < sentFrame'
<1>1. AckInv /\ [AckWorkerNext]_ackWorkerVars => [Step]_ackWorkerVars
  <2> SUFFICES ASSUME AckInv, AckWorkerNext PROVE Step
    OBVIOUS
  <2>1. CASE SendFrame
    BY <2>1 DEF SendFrame, AckInv, AckPlaces, Ascending
  <2>2. CASE ~SendFrame
    BY <2>2 DEF AckWorkerNext, Submitting, Run, Stopping, Submit, SetSlotEvent, TestStarted,
       CreateWorker, StartWorker, LoopTop, Woken, TakeSlot, ClearSlotEvent, WaitForAck, SetStopEvent,
       WakeWorker, JoinWorker, JoinRaises, workerVars
  <2> QED BY <2>1, <2>2
<1> HIDE DEF Step
<1>2. AckWorkerSpec => [][Step]_ackWorkerVars
  BY <1>1, AckStep, AckTypes, PTL DEF AckWorkerSpec
<1> QED BY <1>2 DEF Step

\* What was taken from the slot is in the worker's hands until the wait after it.
\* A frame that is submitted starts the worker only if nothing was taken yet.
LastFrameKept == submitted > 0 => submitted \in {slot, packets, sentFrame}
FrameCarried ==
  /\ worker \notin {"clear", "send", "ack"} => packets = 0
  /\ worker = "ack" => sentFrame = packets
  /\ LastFrameKept

\* A frame is dropped for a newer one only, and the waits and events that the two
\* threads share lose none (_AckWorker.submit() and _run() in transport.py): the
\* last frame submitted is in the slot, in the worker's hands, or sent, also when
\* the device is closed meanwhile.
THEOREM LastFrameAlwaysKept == AckWorkerSpec => []LastFrameKept
<1>1. AckWorkerInit => FrameCarried
  BY DEF AckWorkerInit, FrameCarried, LastFrameKept
<1>2. AckInv /\ Silenced /\ FrameCarried /\ [AckWorkerNext]_ackWorkerVars => FrameCarried'
  <2> SUFFICES ASSUME AckInv, Silenced, FrameCarried, [AckWorkerNext]_ackWorkerVars
               PROVE  FrameCarried'
    OBVIOUS
  <2> USE DEF FrameCarried, LastFrameKept, workerVars
  <2>0. submitted \in Nat /\ slot \in Nat /\ packets \in Nat
    BY DEF AckInv, AckNumbers
  <2>1. CASE Submit
    BY <2>0, <2>1 DEF Submit
  <2>2. CASE SetSlotEvent \/ TestStarted \/ CreateWorker \/ Stopping
    BY <2>2 DEF SetSlotEvent, TestStarted, CreateWorker, Stopping, SetStopEvent, WakeWorker,
       JoinWorker, JoinRaises
  <2>3. CASE StartWorker
    BY <2>3 DEF StartWorker, Silenced, StartedOnce
  <2>4. CASE LoopTop \/ Woken
    BY <2>4 DEF LoopTop, Woken
  <2>5. CASE TakeSlot
    BY <2>0, <2>5 DEF TakeSlot
  <2>6. CASE ClearSlotEvent
    BY <2>6 DEF ClearSlotEvent
  <2>7. CASE SendFrame
    BY <2>7 DEF SendFrame, AckInv, AckNumbers, Ascending
  <2>8. CASE WaitForAck
    BY <2>0, <2>8 DEF WaitForAck
  <2>9. CASE UNCHANGED ackWorkerVars
    BY <2>9 DEF ackWorkerVars
  <2> QED BY <2>1, <2>2, <2>3, <2>4, <2>5, <2>6, <2>7, <2>8, <2>9
          DEF AckWorkerNext, Submitting, Run
<1>3. Silenced /\ [AckWorkerNext]_ackWorkerVars => Silenced'
  BY SilencedStep
<1>4. FrameCarried => LastFrameKept
  BY DEF FrameCarried
<1> QED
  BY <1>1, <1>2, <1>3, <1>4, AckStep, AckTypes, InitSilenced, PTL DEF AckWorkerSpec

-----------------------------------------------------------------------------
(* Recoveries.                                                             *)

\* The types of Resilient; no client is newer than the faults allow.
ResilientFlags == running \in BOOLEAN /\ connected \in BOOLEAN
ResilientStates ==
  /\ current \in 0..MaxSessionFaults + 1 /\ replaced \in 0..MaxSessionFaults + 1
  /\ ending \in 0..MaxSessionFaults + 1 /\ created \in 0..MaxSessionFaults + 1
  /\ stopping \in {"no", "begun", "done"} /\ last \in {"never", "recent", "silent"}
  /\ watchdog \in {"off", "watching", "reset", "torn"}
  /\ sessionFaults \in 0..MaxSessionFaults
SessionsInv ==
  /\ session \in [Client -> {"none", "live", "deaf"}]
  /\ \A i \in loops : i \in Client /\ i <= created
  /\ \A i \in Client : session[i] # "none" => i <= created

\* A silence, or a deaf session that will bring one, is a fault that no client
\* was replaced for, and so is what the watchdog is busy with.
Pending == IF last = "silent" \/ (current # 0 /\ session[current] = "deaf") THEN 1 ELSE 0
Replacing == IF watchdog \in {"reset", "torn"} THEN 1 ELSE 0
Answered == created + Replacing + Pending <= sessionFaults + 1

RecoveryInv == Alone /\ ResilientStates /\ SessionsInv /\ (created # 0 => Answered)

LEMMA ResilientFlagsBegin == ResilientInit => ResilientFlags
BY Zenon DEF ResilientInit, ResilientFlags

LEMMA ResilientFlagsStep == ResilientFlags /\ [ResilientNext]_resilientVars => ResilientFlags'
<1> SUFFICES ASSUME ResilientFlags, [ResilientNext]_resilientVars PROVE ResilientFlags'
  OBVIOUS
<1> USE DEF ResilientFlags
<1>1. CASE StartClient \/ StopRequest \/ StopClient \/ FallSilent
  BY <1>1, Zenon DEF StartClient, StopRequest, StopClient, FallSilent
<1>2. ASSUME NEW i \in Client, OnConnect(i) \/ OnDisconnect(i) \/ OnMessage(i) \/ GoDeaf(i)
      PROVE  ResilientFlags'
  BY <1>2, Zenon DEF OnConnect, OnDisconnect, OnMessage, GoDeaf
<1>3. CASE Watch
  BY <1>3, Zenon DEF Watch, Check, TearDown, Rebuild, ExitWatchdog
<1>4. CASE UNCHANGED resilientVars
  BY <1>4, Zenon DEF resilientVars
<1> QED BY <1>1, <1>2, <1>3, <1>4 DEF ResilientNext

LEMMA RecoveryBegin == ResilientInit => RecoveryInv
<1> SUFFICES ASSUME ResilientInit PROVE RecoveryInv
  OBVIOUS
<1>1. MaxSessionFaults \in Nat
  BY ResilientAssumption DEF ResilientAssumption
<1>2. ResilientStates /\ SessionsInv /\ created = 0
  BY <1>1 DEF ResilientInit, ResilientStates, SessionsInv
<1> QED BY <1>2, InitAlone DEF RecoveryInv

LEMMA ClientBounds ==
  /\ MaxSessionFaults \in Nat
  /\ \A n \in 1..MaxSessionFaults + 1 : n \in Client
  /\ \A i \in Client : i \in Nat /\ i # 0
  BY ResilientAssumption DEF ResilientAssumption, Client

\* A new client is none of those that were there.
LEMMA NewClient ==
  ASSUME RecoveryInv, watchdog \in {"off", "watching", "reset", "torn"},
         created = 0 \/ Replacing = 1
  PROVE  /\ created + 1 \in 1..MaxSessionFaults + 1
         /\ created + 1 \in Client /\ session[created + 1] = "none"
<1>0. /\ created \in Nat /\ sessionFaults \in Nat /\ sessionFaults <= MaxSessionFaults
      /\ MaxSessionFaults \in Nat /\ (created # 0 => Answered)
  BY ClientBounds DEF RecoveryInv, ResilientStates
<1>a. Pending \in {0, 1}
  BY DEF Pending
<1>1. created \in Nat /\ created <= MaxSessionFaults
  BY <1>0, <1>a DEF Answered
<1>2. created + 1 \in 1..MaxSessionFaults + 1 /\ ~(created + 1 <= created)
  BY <1>1, ClientBounds
<1> QED BY <1>2, ClientBounds DEF RecoveryInv, SessionsInv

LEMMA StatesRecover ==
  ASSUME RecoveryInv, [ResilientNext]_resilientVars PROVE ResilientStates'
<1>0. MaxSessionFaults \in Nat /\ ResilientStates
  BY ClientBounds DEF RecoveryInv
<1> USE <1>0 DEF ResilientStates
<1>1. CASE StartClient
  <2>1. created + 1 \in 1..MaxSessionFaults + 1
    BY <1>1, NewClient DEF StartClient
  <2> QED BY <1>1, <2>1 DEF StartClient, CreateClient
<1>2. CASE Rebuild
  <2>1. created + 1 \in 1..MaxSessionFaults + 1
    BY <1>2, NewClient DEF Rebuild, Replacing
  <2> QED BY <1>2, <2>1 DEF Rebuild, CreateClient
<1>3. CASE StopRequest \/ StopClient \/ FallSilent
  BY <1>3 DEF StopRequest, StopClient, FallSilent, SessionFault
<1>4. ASSUME NEW i \in Client, OnConnect(i) \/ OnDisconnect(i) \/ OnMessage(i) \/ GoDeaf(i)
      PROVE  ResilientStates'
  BY <1>4 DEF OnConnect, OnDisconnect, OnMessage, GoDeaf, SessionFault
<1>5. CASE Check \/ TearDown \/ ExitWatchdog
  BY <1>5 DEF Check, TearDown, ExitWatchdog
<1>6. CASE UNCHANGED resilientVars
  BY <1>6 DEF resilientVars
<1> QED BY <1>1, <1>2, <1>3, <1>4, <1>5, <1>6 DEF ResilientNext, Watch

LEMMA SessionsRecover ==
  ASSUME RecoveryInv, [ResilientNext]_resilientVars PROVE SessionsInv'
<1> USE ClientBounds DEF SessionsInv
<1>0. SessionsInv /\ created \in Nat
  BY DEF RecoveryInv, ResilientStates
<1>1. CASE StartClient \/ Rebuild
  <2>1. created + 1 \in Client
    BY <1>1, NewClient DEF StartClient, Rebuild, Replacing
  <2>2. loops' = loops \union {created + 1} /\ created' = created + 1 /\ session' = session
    BY <1>1 DEF StartClient, Rebuild, CreateClient
  <2> QED BY <1>0, <2>1, <2>2
<1>2. CASE StopClient \/ TearDown
  <2>1. PICK k : EndClient(k)
    BY <1>2 DEF StopClient, TearDown
  <2>2. created' = created
    BY <1>2 DEF StopClient, TearDown
  <2> QED BY <1>0, <2>1, <2>2 DEF EndClient
<1>3. CASE StopRequest \/ FallSilent \/ Check \/ ExitWatchdog
  BY <1>0, <1>3 DEF StopRequest, FallSilent, Check, ExitWatchdog
<1>4. ASSUME NEW i \in Client, OnConnect(i) \/ OnDisconnect(i) \/ OnMessage(i) \/ GoDeaf(i)
      PROVE  SessionsInv'
  <2>1. loops' = loops /\ created' = created
    BY <1>4 DEF OnConnect, OnDisconnect, OnMessage, GoDeaf
  <2>2. \/ session' = session
        \/ i <= created /\ session' = [session EXCEPT ![i] = "none"]
        \/ i <= created /\ session' = [session EXCEPT ![i] = "live"]
        \/ i <= created /\ session' = [session EXCEPT ![i] = "deaf"]
    BY <1>0, <1>4 DEF OnConnect, OnDisconnect, OnMessage, GoDeaf
  <2> QED BY <1>0, <2>1, <2>2
<1>5. CASE UNCHANGED resilientVars
  BY <1>0, <1>5 DEF resilientVars
<1> QED BY <1>1, <1>2, <1>3, <1>4, <1>5 DEF ResilientNext, Watch

Deaf == current # 0 /\ session[current] = "deaf"

\* What is new needs no more faults than were counted.
LEMMA FaultsRecover ==
  ASSUME RecoveryInv, [ResilientNext]_resilientVars, created' # 0 PROVE Answered'
<1>0. /\ created \in Nat /\ sessionFaults \in Nat /\ current \in Nat
      /\ watchdog \in {"off", "watching", "reset", "torn"}
      /\ (created # 0 => Answered) /\ (created = 0 => watchdog = "off")
      /\ session \in [Client -> {"none", "live", "deaf"}]
      /\ \A n \in Nat : n # 0 /\ n <= MaxSessionFaults + 1 => n \in Client
      /\ current <= MaxSessionFaults + 1
  BY ClientBounds DEF RecoveryInv, ResilientStates, Alone, Counted, SessionsInv
<1>1. ASSUME created' = created, watchdog' \in {"off", "watching"} <=> watchdog \in {"off", "watching"},
             \/ /\ sessionFaults' = sessionFaults
                /\ last' = "silent" \/ Deaf' => last = "silent" \/ Deaf
             \/ sessionFaults' = sessionFaults + 1,
             watchdog' \in {"off", "watching", "reset", "torn"}
      PROVE  Answered'
  BY <1>0, <1>1 DEF Answered, Pending, Replacing, Deaf
<1>2. CASE StartClient
  <2>1. /\ created = 0 /\ created' = 1 /\ current' = created + 1 /\ last' = "never"
        /\ watchdog' = "watching" /\ UNCHANGED <<session, sessionFaults>>
    BY <1>2 DEF StartClient, CreateClient
  <2>2. session[created + 1] = "none"
    BY <2>1, <1>0, NewClient
  <2> QED BY <1>0, <2>1, <2>2 DEF Answered, Pending, Replacing
<1>3. CASE Rebuild
  <2>1. /\ created' = created + 1 /\ current' = created + 1 /\ watchdog = "torn"
        /\ watchdog' = "watching" /\ UNCHANGED <<session, last, sessionFaults>>
    BY <1>3 DEF Rebuild, CreateClient
  <2>2. session[created + 1] = "none"
    BY <2>1, NewClient DEF Replacing
  <2> QED BY <1>0, <2>1, <2>2 DEF Answered, Pending, Replacing
<1>4. CASE StopClient \/ TearDown
  <2>1. PICK k : EndClient(k)
    BY <1>4 DEF StopClient, TearDown
  <2>2. Deaf' => Deaf
    BY <1>0, <1>4, <2>1 DEF EndClient, Deaf, StopClient, TearDown
  <2> QED BY <1>0, <1>1, <1>4, <2>2 DEF StopClient, TearDown
<1>5. CASE StopRequest \/ ExitWatchdog
  BY <1>0, <1>1, <1>5 DEF StopRequest, ExitWatchdog, Deaf
<1>6. CASE FallSilent
  BY <1>0, <1>1, <1>6 DEF FallSilent, SessionFault, Deaf
<1>7. CASE Check
  <2>1. /\ created' = created /\ sessionFaults' = sessionFaults /\ last = "silent"
        /\ last' = "never" /\ current' = 0 /\ watchdog = "watching" /\ watchdog' = "reset"
    BY <1>7 DEF Check
  <2> QED BY <1>0, <2>1 DEF Answered, Pending, Replacing
<1>8. ASSUME NEW i \in Client, OnConnect(i) \/ OnMessage(i) PROVE Answered'
  <2>1. /\ UNCHANGED <<created, watchdog, sessionFaults, current>>
        /\ last' = "silent" => last = "silent"
        /\ session' = session \/ session' = [session EXCEPT ![i] = "live"]
    BY <1>8 DEF OnConnect, OnMessage
  <2>2. Deaf' => Deaf
    BY <1>0, <2>1 DEF Deaf
  <2> QED BY <1>0, <1>1, <2>1, <2>2
<1>9. ASSUME NEW i \in Client, OnDisconnect(i) \/ GoDeaf(i) PROVE Answered'
  <2>1. UNCHANGED <<created, watchdog>> /\ sessionFaults' = sessionFaults + 1
    BY <1>9 DEF OnDisconnect, GoDeaf, SessionFault
  <2> QED BY <1>0, <1>1, <2>1
<1>10. CASE UNCHANGED resilientVars
  BY <1>0, <1>1, <1>10 DEF resilientVars, Deaf
<1> QED BY <1>2, <1>3, <1>4, <1>5, <1>6, <1>7, <1>8, <1>9, <1>10 DEF ResilientNext, Watch

LEMMA RecoveryStep == RecoveryInv /\ [ResilientNext]_resilientVars => RecoveryInv'
<1> SUFFICES ASSUME RecoveryInv, [ResilientNext]_resilientVars PROVE RecoveryInv'
  OBVIOUS
<1>1. CASE ResilientNext
  <2>1. Alone'
    BY <1>1, OwnerAlone, WatchAlone DEF ResilientNext, RecoveryInv
  <2> QED BY <1>1, <2>1, StatesRecover, SessionsRecover, FaultsRecover DEF RecoveryInv
<1>2. CASE UNCHANGED resilientVars
  BY <1>2 DEF resilientVars, RecoveryInv, Alone, Counted, OneThread, ResilientStates, SessionsInv,
     Answered, Pending, Replacing
<1> QED BY <1>1, <1>2

LEMMA ResilientTypes == ResilientFlags /\ RecoveryInv => ResilientTypeOK
<1>1. MaxSessionFaults \in Nat
  BY ResilientAssumption DEF ResilientAssumption
<1>2. RecoveryInv => ResilientStates /\ SessionsInv
  BY DEF RecoveryInv
<1>3. \A n \in 0..MaxSessionFaults + 1 : n \in Client \union {0}
  BY <1>1 DEF Client
<1> QED BY <1>2, <1>3, Zenon DEF ResilientFlags, ResilientTypeOK, ResilientStates, SessionsInv

\* Silence, deaf sessions, paho's reconnects and stop() come in any order: the
\* watchdog (_recover_from_silence() in mqtt_resilient_client.py) replaces a client
\* once for a fault at most, and none without a fault.
THEOREM NoNeedlessRecovery == ResilientSpec => [](created <= sessionFaults + 1)
<1>1. RecoveryInv => created <= sessionFaults + 1
  <2>1. MaxSessionFaults \in Nat
    BY ResilientAssumption DEF ResilientAssumption
  <2> QED BY <2>1 DEF RecoveryInv, ResilientStates, Answered, Pending, Replacing
<1> QED BY <1>1, RecoveryBegin, RecoveryStep, PTL DEF ResilientSpec

-----------------------------------------------------------------------------
(* The signal bus.                                                         *)

\* The types of SignalBus, with bounds on its numbers.
BusNumbers ==
  /\ signal \in [Nodes -> 0..MaxWrites] /\ writes \in 0..MaxWrites
  /\ writing \in [Nodes \X Writers -> 0..MaxWrites]
  /\ busFaults \in 0..MaxBusFaults
BusLinks == linkUp \in [Sessions -> BOOLEAN] /\ missed \in BOOLEAN
BusMail == undelivered \in [Sessions -> Seq(BusMessage)]
BusInv == BusNumbers /\ BusLinks /\ BusMail

LEMMA BusBounds ==
  /\ MaxWrites \in Nat /\ MaxBusFaults \in Nat
  /\ \A s \in Sessions : NodeOf(s) \in Nodes
  /\ \A n \in Nodes : n \in Sessions
  /\ \A v \in 0..MaxWrites, n \in Nodes : v # 0 => [value |-> v, from |-> n] \in BusMessage
  /\ \A m \in BusMessage : m.value \in 0..MaxWrites
<1>1. MaxWrites \in Nat /\ MaxBusFaults \in Nat
  BY SignalBusAssumption DEF SignalBusAssumption
<1> QED BY <1>1 DEF NodeOf, Sessions, Nodes, BusMessage

LEMMA BusBegin == SignalBusInit => BusInv
<1> SUFFICES ASSUME SignalBusInit PROVE BusInv
  OBVIOUS
<1>1. BusNumbers
  BY BusBounds DEF SignalBusInit, BusNumbers
<1>2. BusLinks
  BY DEF SignalBusInit, BusLinks
<1>3. BusMail
  BY DEF SignalBusInit, BusMail
<1> QED BY <1>1, <1>2, <1>3 DEF BusInv

\* A writer, and the broker that answers it.
LEMMA WriterStep ==
  ASSUME BusInv, NEW n \in Nodes, NEW w \in Writers,
         WriteSignal(n, w) \/ PublishSignal(n, w) \/ LosePublish(n, w)
  PROVE  BusInv'
<1> DEFINE message == [value |-> writing[<<n, w>>], from |-> n]
<1>0. /\ MaxWrites \in Nat /\ MaxBusFaults \in Nat /\ <<n, w>> \in Nodes \X Writers
      /\ n \in Sessions
  BY BusBounds
<1>1. BusNumbers'
  <2>1. CASE WriteSignal(n, w)
    <3>1. writes + 1 \in 0..MaxWrites
      BY <1>0, <2>1 DEF WriteSignal, BusInv, BusNumbers
    <3> QED BY <1>0, <2>1, <3>1 DEF WriteSignal, BusInv, BusNumbers
  <2>2. CASE PublishSignal(n, w)
    BY <1>0, <2>2 DEF PublishSignal, BusInv, BusNumbers
  <2>3. CASE LosePublish(n, w)
    BY <1>0, <2>3 DEF LosePublish, LoseSession, BusInv, BusNumbers
  <2> QED BY <2>1, <2>2, <2>3
<1>2. BusLinks'
  <2>1. CASE WriteSignal(n, w)
    BY <2>1, Zenon DEF WriteSignal, BusInv, BusLinks
  <2>2. CASE PublishSignal(n, w)
    BY <2>2, Zenon DEF PublishSignal, BusInv, BusLinks
  <2>3. CASE LosePublish(n, w)
    <3>1. linkUp' = [linkUp EXCEPT ![n] = FALSE] /\ missed' = TRUE
      BY <2>3 DEF LosePublish, LoseSession
    <3>2. linkUp' \in [Sessions -> BOOLEAN]
      BY <1>0, <3>1 DEF BusInv, BusLinks
    <3> QED BY <3>1, <3>2, Zenon DEF BusLinks
  <2> QED BY <2>1, <2>2, <2>3
<1>3. BusMail'
  <2>1. CASE PublishSignal(n, w) /\ linkUp[n]
    <3>1. message \in BusMessage
      BY <1>0, <2>1, BusBounds DEF PublishSignal, BusInv, BusNumbers
    <3>2. \A q \in Seq(BusMessage) : Append(q, message) \in Seq(BusMessage)
      <4> HIDE DEF message
      <4> QED BY <3>1
    <3>3. undelivered' = [s \in Sessions |->
            IF linkUp[s] THEN Append(undelivered[s], message) ELSE undelivered[s]]
      BY <2>1 DEF PublishSignal
    <3> HIDE DEF message
    <3> QED BY <3>2, <3>3 DEF BusInv, BusMail
  <2>2. CASE ~(PublishSignal(n, w) /\ linkUp[n])
    BY <2>2 DEF WriteSignal, PublishSignal, LosePublish, BusInv, BusMail
  <2> QED BY <2>1, <2>2
<1> QED BY <1>1, <1>2, <1>3 DEF BusInv

\* A session delivers in order, and loses what it has with its link.
LEMMA SessionStep ==
  ASSUME BusInv, NEW s \in Sessions, HearSignal(s) \/ LoseBus(s) \/ RejoinBus(s)
  PROVE  BusInv'
<1>0. undelivered[s] \in Seq(BusMessage) /\ MaxBusFaults \in Nat
  BY BusBounds DEF BusInv, BusMail
<1>1. CASE HearSignal(s)
  <2>1. /\ undelivered[s] # <<>> /\ undelivered' = [undelivered EXCEPT ![s] = Tail(@)]
        /\ signal' = [signal EXCEPT ![NodeOf(s)] = Head(undelivered[s]).value]
        /\ UNCHANGED <<writing, linkUp, writes, missed, busFaults>>
    BY <1>1 DEF HearSignal, Merged
  <2>2. Head(undelivered[s]) \in BusMessage /\ Tail(undelivered[s]) \in Seq(BusMessage)
    BY <1>0, <2>1
  <2>3. BusNumbers'
    BY <2>1, <2>2, BusBounds DEF BusInv, BusNumbers
  <2>4. BusMail'
    BY <2>1, <2>2 DEF BusInv, BusMail
  <2>5. BusLinks'
    BY <2>1, Zenon DEF BusInv, BusLinks
  <2> QED BY <2>3, <2>4, <2>5 DEF BusInv
<1>2. CASE LoseBus(s)
  <2>1. /\ linkUp' = [linkUp EXCEPT ![s] = FALSE] /\ missed' = TRUE
        /\ busFaults < MaxBusFaults /\ busFaults' = busFaults + 1
        /\ UNCHANGED <<signal, writing, writes>>
    BY <1>2 DEF LoseBus, LoseSession
  <2>2. PICK k \in 0..Len(undelivered[s]) :
          undelivered' = [undelivered EXCEPT ![s] = SubSeq(@, 1, k)]
    BY <1>2 DEF LoseBus
  <2>3. SubSeq(undelivered[s], 1, k) \in Seq(BusMessage)
    <3>1. \A i \in 1..k : undelivered[s][i] \in BusMessage
      BY <1>0
    <3> QED BY <1>0, <3>1, SubSeqProperties
  <2>4. BusNumbers'
    BY <1>0, <2>1 DEF BusInv, BusNumbers
  <2>5. BusMail'
    BY <2>2, <2>3 DEF BusInv, BusMail
  <2>6. linkUp' \in [Sessions -> BOOLEAN]
    BY <2>1 DEF BusInv, BusLinks
  <2> QED BY <2>1, <2>4, <2>5, <2>6 DEF BusInv, BusLinks
<1>3. CASE RejoinBus(s)
  <2>1. /\ linkUp' = [linkUp EXCEPT ![s] = TRUE]
        /\ undelivered' = [undelivered EXCEPT ![s] = <<>>]
        /\ UNCHANGED <<signal, writing, writes, missed, busFaults>>
    BY <1>3 DEF RejoinBus
  <2>2. BusNumbers' /\ BusMail'
    BY <2>1 DEF BusInv, BusNumbers, BusMail
  <2>3. linkUp' \in [Sessions -> BOOLEAN]
    BY <2>1 DEF BusInv, BusLinks
  <2>4. missed' \in BOOLEAN
    BY <2>1, Zenon DEF BusInv, BusLinks
  <2> QED BY <2>2, <2>3, <2>4, Zenon DEF BusInv, BusLinks
<1> QED BY <1>1, <1>2, <1>3

LEMMA BusStep == BusInv /\ [SignalBusNext]_signalBusVars => BusInv'
<1>1. BusInv /\ UNCHANGED signalBusVars => BusInv'
  BY Zenon DEF signalBusVars, BusInv, BusNumbers, BusLinks, BusMail
<1> QED BY <1>1, WriterStep, SessionStep DEF SignalBusNext

LEMMA BusTypes == BusInv => SignalBusTypeOK
<1> SUFFICES ASSUME BusInv PROVE SignalBusTypeOK
  OBVIOUS
<1>1. \A s \in Sessions : Range(undelivered[s]) \subseteq BusMessage
  BY DEF BusInv, BusMail, Range
<1> QED BY <1>1, Zenon DEF BusInv, BusNumbers, BusLinks, SignalBusTypeOK

\* The bus is at rest when nothing is left to publish or to hear.
BusAtRest ==
  /\ \A n \in Nodes, w \in Writers : writing[<<n, w>>] = 0
  /\ \A s \in Sessions : undelivered[s] = <<>>
NodesAgreeAtRest == BusAtRest /\ ~missed => \A m, n \in Nodes : signal[m] = signal[n]

\* While no message is missed, there is one value that everyone hears last: it ends
\* every queue, and a node that has nothing left to publish or to hear has it.
Caught(n) ==
  /\ \A w \in Writers : writing[<<n, w>>] = 0
  /\ \A s \in Sessions : NodeOf(s) = n => undelivered[s] = <<>>
HeardLast(v) ==
  /\ \A s \in Sessions :
       undelivered[s] # <<>> => undelivered[s][Len(undelivered[s])].value = v
  /\ \A n \in Nodes : Caught(n) => signal[n] = v
Reached ==
  /\ \A n \in Nodes : linkUp[n]
  /\ ~linkUp[Process] => undelivered[Process] = <<>>
HeardByAll == ~missed => Reached /\ \E v \in 0..MaxWrites : HeardLast(v)

\* A write keeps the node waiting for its own message ...
LEMMA WriteHeard ==
  ASSUME BusInv, HeardByAll, NEW n \in Nodes, NEW w \in Writers, WriteSignal(n, w)
  PROVE  HeardByAll'
<1>1. /\ signal' = [signal EXCEPT ![n] = writes + 1]
      /\ writing' = [writing EXCEPT ![<<n, w>>] = writes + 1]
      /\ UNCHANGED <<linkUp, undelivered, missed, busFaults>>
  BY DEF WriteSignal
<1>2. writing'[<<n, w>>] # 0
  <2>1. writes \in Nat /\ <<n, w>> \in Nodes \X Writers
    BY BusBounds DEF BusInv, BusNumbers
  <2> QED BY <1>1, <2>1 DEF BusInv, BusNumbers
<1>3. \A m \in Nodes : Caught(m)' => m # n /\ Caught(m)
  <2> SUFFICES ASSUME NEW m \in Nodes, Caught(m)' PROVE m # n /\ Caught(m)
    OBVIOUS
  <2>1. m # n
    BY <1>2 DEF Caught
  <2>2. \A x \in Writers : writing'[<<m, x>>] = writing[<<m, x>>]
    BY <1>1, <2>1 DEF BusInv, BusNumbers
  <2> QED BY <1>1, <2>1, <2>2 DEF Caught
<1>4. \A m \in Nodes : m # n => signal'[m] = signal[m]
  BY <1>1 DEF BusInv, BusNumbers
<1>5. \A v \in 0..MaxWrites : HeardLast(v) => HeardLast(v)'
  BY <1>1, <1>3, <1>4 DEF HeardLast
<1>6. Reached => Reached'
  BY <1>1 DEF Reached
<1> QED BY <1>1, <1>5, <1>6 DEF HeardByAll

\* ... which is behind all others once it is published, for every node.
LEMMA PublishHeard ==
  ASSUME BusInv, HeardByAll, NEW n \in Nodes, NEW w \in Writers, PublishSignal(n, w)
  PROVE  HeardByAll'
<1> DEFINE message == [value |-> writing[<<n, w>>], from |-> n]
<1> SUFFICES ASSUME ~missed' PROVE HeardByAll'
  BY DEF HeardByAll
<1>1. CASE linkUp[n]
  <2>1. /\ undelivered' = [s \in Sessions |->
              IF linkUp[s] THEN Append(undelivered[s], message) ELSE undelivered[s]]
        /\ UNCHANGED <<signal, linkUp>>
        /\ \A m \in Nodes : linkUp[m]
        /\ ~linkUp[Process] => undelivered[Process] = <<>>
    BY <1>1, BusBounds DEF PublishSignal
  <2>2. PICK v \in 0..MaxWrites : v = writing[<<n, w>>]
    BY DEF BusInv, BusNumbers
  <2>3. ASSUME NEW s \in Sessions, linkUp[s]
        PROVE  undelivered'[s] # <<>> /\ undelivered'[s][Len(undelivered'[s])].value = v
    <3>1. undelivered'[s] = Append(undelivered[s], message) /\ message.value = v
      BY <2>1, <2>2, <2>3
    <3>2. undelivered[s] \in Seq(BusMessage)
      BY DEF BusInv, BusMail
    <3> HIDE DEF message
    <3> QED BY <3>1, <3>2
  <2> HIDE DEF message
  <2>4. ~linkUp[Process] => undelivered'[Process] = <<>>
    BY <2>1 DEF Sessions
  <2>5. ASSUME NEW m \in Nodes PROVE ~Caught(m)'
    <3>1. m \in Sessions /\ NodeOf(m) = m
      BY SignalBusAssumption DEF SignalBusAssumption, Sessions, NodeOf
    <3> QED BY <2>1, <2>3, <3>1 DEF Caught
  <2>6. HeardLast(v)'
    <3>1. \A s \in Sessions : linkUp[s] \/ undelivered'[s] = <<>>
      BY <2>1, <2>4 DEF Sessions
    <3> QED BY <2>3, <2>5, <3>1 DEF HeardLast
  <2>7. Reached'
    BY <2>1, <2>4 DEF Reached
  <2> QED BY <2>6, <2>7 DEF HeardByAll
<1>2. CASE ~linkUp[n]
  BY <1>2 DEF PublishSignal
<1> QED BY <1>1, <1>2

\* A node that has heard its last message has heard the value.
LEMMA HearHeard ==
  ASSUME BusInv, HeardByAll, NEW s \in Sessions, HearSignal(s)
  PROVE  HeardByAll'
<1>1. /\ undelivered[s] # <<>> /\ undelivered' = [undelivered EXCEPT ![s] = Tail(@)]
      /\ signal' = [signal EXCEPT ![NodeOf(s)] = Head(undelivered[s]).value]
      /\ UNCHANGED <<writing, linkUp, missed>>
  BY DEF HearSignal, Merged
<1>2. /\ undelivered[s] \in Seq(BusMessage) /\ undelivered'[s] = Tail(undelivered[s])
      /\ \A r \in Sessions : r # s => undelivered'[r] = undelivered[r]
  BY <1>1 DEF BusInv, BusMail
<1>3. \/ /\ undelivered'[s] = <<>>
         /\ Head(undelivered[s]) = undelivered[s][Len(undelivered[s])]
      \/ /\ undelivered'[s] # <<>>
         /\ undelivered'[s][Len(undelivered'[s])] = undelivered[s][Len(undelivered[s])]
  <2> DEFINE q == undelivered[s]
  <2>1. q \in Seq(BusMessage) /\ q # <<>>
    BY <1>1, <1>2
  <2> HIDE DEF q
  <2>2. Len(q) \in Nat \ {0} /\ Tail(q) \in Seq(BusMessage) /\ Len(Tail(q)) = Len(q) - 1
    BY <2>1
  <2>3. CASE Len(q) = 1
    BY <2>1, <2>2, <2>3, <1>2 DEF q
  <2>4. CASE Len(q) > 1
    <3>1. Tail(q)[Len(q) - 1] = q[Len(q)] /\ Tail(q) # <<>>
      BY <2>1, <2>2, <2>4
    <3> QED BY <1>2, <2>2, <3>1 DEF q
  <2> QED BY <2>2, <2>3, <2>4
<1>4. ASSUME NEW v \in 0..MaxWrites, HeardLast(v) PROVE HeardLast(v)'
  <2>1. undelivered[s][Len(undelivered[s])].value = v
    BY <1>1, <1>4 DEF HeardLast
  <2>2. \A r \in Sessions :
          undelivered'[r] # <<>> => undelivered'[r][Len(undelivered'[r])].value = v
    BY <1>2, <1>3, <1>4, <2>1 DEF HeardLast
  <2>3. ASSUME NEW m \in Nodes, Caught(m)' PROVE signal'[m] = v
    <3>1. CASE m = NodeOf(s)
      <4>1. undelivered'[s] = <<>>
        BY <2>3, <3>1 DEF Caught
      <4>2. Head(undelivered[s]).value = v
        BY <1>3, <2>1, <4>1
      <4> QED BY <1>1, <3>1, <4>2 DEF BusInv, BusNumbers
    <3>2. CASE m # NodeOf(s)
      <4>1. Caught(m)
        BY <1>1, <1>2, <2>3, <3>2 DEF Caught
      <4> QED BY <1>1, <1>4, <3>2, <4>1 DEF HeardLast, BusInv, BusNumbers
    <3> QED BY <3>1, <3>2
  <2> QED BY <2>2, <2>3 DEF HeardLast
<1>5. Reached => Reached'
  <2> SUFFICES ASSUME Reached, ~linkUp[Process] PROVE undelivered'[Process] = <<>>
    BY <1>1 DEF Reached
  <2>1. undelivered[Process] = <<>> /\ Process # s /\ Process \in Sessions
    BY <1>1 DEF Reached, Sessions
  <2> QED BY <1>2, <2>1
<1> QED BY <1>1, <1>4, <1>5 DEF HeardByAll

LEMMA HeardStep == BusInv /\ HeardByAll /\ [SignalBusNext]_signalBusVars => HeardByAll'
<1> SUFFICES ASSUME BusInv, HeardByAll, [SignalBusNext]_signalBusVars PROVE HeardByAll'
  OBVIOUS
<1>1. ASSUME NEW n \in Nodes, NEW w \in Writers, LosePublish(n, w) PROVE HeardByAll'
  BY <1>1 DEF LosePublish, LoseSession, HeardByAll
<1>2. ASSUME NEW s \in Sessions, LoseBus(s) PROVE HeardByAll'
  BY <1>2 DEF LoseBus, LoseSession, HeardByAll
<1>3. ASSUME NEW s \in Sessions, RejoinBus(s) PROVE HeardByAll'
  <2>1. s \in Nodes /\ ~linkUp[s] /\ missed' = missed
    BY <1>3 DEF RejoinBus, Sessions
  <2> QED BY <2>1 DEF HeardByAll, Reached
<1>4. CASE UNCHANGED signalBusVars
  BY <1>4 DEF signalBusVars, HeardByAll, Reached, HeardLast, Caught
<1> QED BY <1>1, <1>2, <1>3, <1>4, WriteHeard, PublishHeard, HearHeard DEF SignalBusNext

\* Threads of several nodes set a value and publish it in two steps, and a node
\* hears itself (SignalBus.write() and on_message() in media/__init__.py): once
\* everything is published and heard, all nodes have the same value, unless
\* messages were lost and none reached all nodes after that.
THEOREM NodesAlwaysAgreeAtRest == SignalBusSpec => []NodesAgreeAtRest
<1>1. SignalBusInit => HeardByAll
  <2> SUFFICES ASSUME SignalBusInit PROVE HeardByAll
    OBVIOUS
  <2>1. 0 \in 0..MaxWrites
    BY BusBounds
  <2>2. HeardLast(0)
    BY DEF SignalBusInit, HeardLast
  <2>3. Reached
    BY DEF SignalBusInit, Reached, Sessions
  <2> QED BY <2>1, <2>2, <2>3 DEF HeardByAll
<1>2. HeardByAll => NodesAgreeAtRest
  <2> SUFFICES ASSUME HeardByAll, BusAtRest, ~missed PROVE \A m, n \in Nodes : signal[m] = signal[n]
    BY DEF NodesAgreeAtRest
  <2>1. PICK v \in 0..MaxWrites : HeardLast(v)
    BY DEF HeardByAll
  <2>2. \A n \in Nodes : Caught(n)
    BY DEF BusAtRest, Caught
  <2> QED BY <2>1, <2>2 DEF HeardLast
<1> QED BY <1>1, <1>2, BusBegin, BusStep, HeardStep, PTL DEF SignalBusSpec
=============================================================================
