-------------------------- MODULE SchedulerProofs --------------------------
(***************************************************************************)
(* Theorems about Scheduler for every set of devices, groups, entries and  *)
(* clients, and any number of requests.  That overrides are respected,     *)
(* that no entry is left playing and that a tick carries out the           *)
(* transitions it saw need groups that do not share an emitter, which two  *)
(* groups of the same single bulb do.                                      *)
(***************************************************************************)
EXTENDS Scheduler, SequenceTheorems, TLAPS

-----------------------------------------------------------------------------
(* The operators the actions are built from.                               *)

LEMMA DeviceIsId == \A g \in Groups : Device(g) \in Ids
<1> SUFFICES ASSUME NEW g \in Groups PROVE Device(g) \in Ids
  OBVIOUS
<1>1. Members[g] # {} /\ Members[g] \subseteq Ips
  BY SchedulerAssumption DEF SchedulerAssumption
<1>2. (CHOOSE ip \in Members[g] : TRUE) \in Ips
  BY <1>1
<1> QED BY <1>2 DEF Device, Ids

LEMMA AtRestTyped == AtRest \in [id : Ids, entry : Entry, steps : Seq(Step)]
<1>1. (CHOOSE id \in Ids : TRUE) \in Ids
  BY SchedulerAssumption DEF SchedulerAssumption, Ids
<1>2. <<>> \in Seq(Step)
  BY EmptySeq
<1> QED BY <1>1, <1>2 DEF AtRest, Entry

LEMMA WhenTyped ==
  ASSUME NEW S, NEW action \in S, NEW condition
  PROVE  When(condition, action) \in Seq(S)
BY DEF When

\* A transition is a sequence of actions; it stops or starts something unless
\* nothing was and is active, or an override blocks it.
LEMMA TransitionTyped ==
  \A g, table : Transition(g, table) \in Seq(Action)
<1> SUFFICES ASSUME NEW g, NEW table PROVE Transition(g, table) \in Seq(Action)
  OBVIOUS
<1> DEFINE clear == When(Expires(g, table), "clear_override")
           stop == When(state[g] # None /\ ~Blocked(g, table), "stop")
           start == When(nowActive[g] # None /\ ~Blocked(g, table), "start")
<1>1. clear \in Seq(Action) /\ stop \in Seq(Action) /\ start \in Seq(Action)
  BY WhenTyped DEF Action
<1>2. Transition(g, table) = (clear \o stop) \o start
  BY DEF Transition
<1> HIDE DEF clear, stop, start
<1> QED BY <1>1, <1>2, ConcatProperties

\* Whether a sequence of actions still disturbs the device.
Disturbs(actions) == \E i \in 1 .. Len(actions) : actions[i] \in {"stop", "start"}

LEMMA ConcatDisturbs ==
  ASSUME NEW S, NEW s \in Seq(S), NEW t \in Seq(S)
  PROVE  Disturbs(s \o t) <=> Disturbs(s) \/ Disturbs(t)
<1>1. /\ s \o t \in Seq(S) /\ Len(s \o t) = Len(s) + Len(t)
      /\ \A i \in 1 .. Len(s) + Len(t) :
           (s \o t)[i] = IF i <= Len(s) THEN s[i] ELSE t[i - Len(s)]
  BY ConcatProperties
<1>2. Len(s) \in Nat /\ Len(t) \in Nat
  BY LenProperties
<1>3. ASSUME Disturbs(s) PROVE Disturbs(s \o t)
  <2>1. PICK i \in 1 .. Len(s) : s[i] \in {"stop", "start"}
    BY <1>3 DEF Disturbs
  <2>2. i \in 1 .. Len(s \o t) /\ (s \o t)[i] = s[i]
    BY <1>1, <1>2
  <2> QED BY <2>1, <2>2 DEF Disturbs
<1>4. ASSUME Disturbs(t) PROVE Disturbs(s \o t)
  <2>1. PICK i \in 1 .. Len(t) : t[i] \in {"stop", "start"}
    BY <1>4 DEF Disturbs
  <2>2. i + Len(s) \in 1 .. Len(s \o t) /\ (s \o t)[i + Len(s)] = t[i]
    BY <1>1, <1>2
  <2> QED BY <2>1, <2>2 DEF Disturbs
<1>5. ASSUME Disturbs(s \o t) PROVE Disturbs(s) \/ Disturbs(t)
  <2>1. PICK i \in 1 .. Len(s \o t) : (s \o t)[i] \in {"stop", "start"}
    BY <1>5 DEF Disturbs
  <2>2. CASE i <= Len(s)
    <3>1. i \in 1 .. Len(s) /\ (s \o t)[i] = s[i]
      BY <1>1, <1>2, <2>2
    <3> QED BY <2>1, <3>1 DEF Disturbs
  <2>3. CASE i > Len(s)
    <3>1. i - Len(s) \in 1 .. Len(t) /\ (s \o t)[i] = t[i - Len(s)]
      BY <1>1, <1>2, <2>3
    <3> QED BY <2>1, <3>1 DEF Disturbs
  <2> QED BY <1>2, <2>2, <2>3
<1> QED BY <1>3, <1>4, <1>5

LEMMA WhenDisturbs ==
  \A condition : /\ ~Disturbs(When(condition, "clear_override"))
                 /\ Disturbs(When(condition, "stop")) <=> condition
                 /\ Disturbs(When(condition, "start")) <=> condition
<1>1. Disturbs(<<"stop">>) /\ Disturbs(<<"start">>)
  <2>1. 1 \in 1 .. Len(<<"stop">>) /\ <<"stop">>[1] = "stop"
    OBVIOUS
  <2>2. 1 \in 1 .. Len(<<"start">>) /\ <<"start">>[1] = "start"
    OBVIOUS
  <2> QED BY <2>1, <2>2 DEF Disturbs
<1>2. ~Disturbs(<<"clear_override">>) /\ ~Disturbs(<<>>)
  BY DEF Disturbs
<1> QED BY <1>1, <1>2, Zenon DEF When

LEMMA TransitionDisturbs ==
  \A g, table :
    Disturbs(Transition(g, table)) <=>
      (state[g] # None \/ nowActive[g] # None) /\ ~Blocked(g, table)
<1> SUFFICES ASSUME NEW g, NEW table
             PROVE  Disturbs(Transition(g, table)) <=>
                      (state[g] # None \/ nowActive[g] # None) /\ ~Blocked(g, table)
  OBVIOUS
<1> DEFINE clear == When(Expires(g, table), "clear_override")
           stop == When(state[g] # None /\ ~Blocked(g, table), "stop")
           start == When(nowActive[g] # None /\ ~Blocked(g, table), "start")
<1>1. clear \in Seq(Action) /\ stop \in Seq(Action) /\ start \in Seq(Action)
  BY WhenTyped DEF Action
<1>2. Transition(g, table) = (clear \o stop) \o start
  BY DEF Transition
<1>3. ~Disturbs(clear)
  BY WhenDisturbs
<1>4. Disturbs(stop) <=> state[g] # None /\ ~Blocked(g, table)
  BY WhenDisturbs
<1>5. Disturbs(start) <=> nowActive[g] # None /\ ~Blocked(g, table)
  BY WhenDisturbs
<1> HIDE DEF clear, stop, start
<1>6. clear \o stop \in Seq(Action)
  BY <1>1, ConcatProperties
<1>7. Disturbs(clear \o stop) <=> Disturbs(clear) \/ Disturbs(stop)
  BY <1>1, ConcatDisturbs
<1>8. Disturbs((clear \o stop) \o start) <=> Disturbs(clear \o stop) \/ Disturbs(start)
  BY <1>1, <1>6, ConcatDisturbs
<1> QED BY <1>2, <1>3, <1>4, <1>5, <1>7, <1>8, Zenon

-----------------------------------------------------------------------------
(* Type correctness.                                                       *)

\* The actions evaluated for every group.
LEMMA ActionsTyped ==
  \A g, table : Actions(g, table) \in Seq(Action)
BY TransitionTyped, EmptySeq DEF Actions

LEMMA ProgramTyped == \A op \in AllOperations : Program[op] \in Seq(Step)
<1>1. /\ <<"mark">> \in Seq(Step) /\ <<"clear">> \in Seq(Step)
      /\ <<"known", "clear">> \in Seq(Step) /\ <<"halt", "clear">> \in Seq(Step)
      /\ <<"mark", "play">> \in Seq(Step)
  BY DEF Step
<1>2. /\ <<"entry", "play", "mark">> \in Seq(Step)
      /\ <<"test", "entry", "mark">> \in Seq(Step)
      /\ <<"test", "mark", "halt">> \in Seq(Step)
  BY DEF Step
<1>3. /\ <<"test", "entry", "mark", "halt">> \in Seq(Step)
      /\ <<"entry", "mark", "halt", "clear">> \in Seq(Step)
  BY DEF Step
<1>4. /\ Program["play"] \in Seq(Step) /\ Program["stop"] \in Seq(Step)
      /\ Program["powerOff"] \in Seq(Step) /\ Program["resume"] \in Seq(Step)
      /\ Program["reset"] \in Seq(Step) /\ Program["identify"] \in Seq(Step)
      /\ Program["mqttPlay"] \in Seq(Step) /\ Program["mqttStop"] \in Seq(Step)
      /\ Program["mqttPowerOff"] \in Seq(Step) /\ Program["mqttResume"] \in Seq(Step)
  BY <1>1, <1>2, <1>3, Zenon DEF Program
<1> QED BY <1>4 DEF AllOperations

LEMMA ActiveEntryTyped ==
  ASSUME TypeOK, NEW id \in Ids
  PROVE  ActiveEntryFor(id) \in Entry
<1>1. CASE id \in Groups
  BY <1>1 DEF ActiveEntryFor, TypeOK
<1>2. CASE id \notin Groups /\ \E g \in Groups : id \in Members[g]
  <2>1. (CHOOSE g \in Groups : id \in Members[g]) \in Groups
    BY <1>2
  <2> QED BY <1>2, <2>1 DEF ActiveEntryFor, TypeOK
<1>3. CASE id \notin Groups /\ ~\E g \in Groups : id \in Members[g]
  BY <1>3 DEF ActiveEntryFor, Entry
<1> QED BY <1>1, <1>2, <1>3

\* A client that goes on keeps its type.
LEMMA GoOnTyped ==
  ASSUME TypeOK, NEW c \in Clients, NEW steps \in Seq(Step), GoOn(c, steps)
  PROVE  client' \in [Clients -> [id : Ids, entry : Entry, steps : Seq(Step)]]
<1>1. CASE steps = <<>>
  BY <1>1, AtRestTyped DEF GoOn, TypeOK
<1>2. CASE steps # <<>>
  BY <1>2 DEF GoOn, TypeOK
<1> QED BY <1>1, <1>2

LEMMA DoneTyped ==
  ASSUME TypeOK, NEW c \in Clients, Busy(c), Done(c)
  PROVE  client' \in [Clients -> [id : Ids, entry : Entry, steps : Seq(Step)]]
<1>1. client[c].steps \in Seq(Step) /\ client[c].steps # <<>>
  BY DEF TypeOK, Busy
<1>2. Tail(client[c].steps) \in Seq(Step)
  BY <1>1, HeadTailProperties
<1> QED BY <1>2, GoOnTyped DEF Done

LEMMA AbortTyped ==
  ASSUME TypeOK, NEW c \in Clients, Abort(c)
  PROVE  client' \in [Clients -> [id : Ids, entry : Entry, steps : Seq(Step)]]
BY EmptySeq, GoOnTyped DEF Abort

LEMMA InitTypeOK == Init => TypeOK
<1> SUFFICES ASSUME Init PROVE TypeOK
  OBVIOUS
<1> USE SchedulerAssumption DEF SchedulerAssumption
<1>1. active \in [Groups -> Entry] /\ nowActive \in [Groups -> Entry]
  BY DEF Init, Entry
<1>2. state \in [Groups -> Entry] /\ previous \in [Groups -> Entry]
  BY DEF Init, Entry
<1>3. overrides \in [Ids -> Entry \union {Free}] /\ snapshot \in [Ids -> Entry \union {Free}]
  BY DEF Init, NoOverrides
<1>4. driver \in [Ids -> Driver]
  BY DEF Init, Idle, Driver, Entry
<1>5. todo \in [Groups -> Seq(Action)]
  BY EmptySeq DEF Init
<1>6. client \in [Clients -> [id : Ids, entry : Entry, steps : Seq(Step)]]
  BY AtRestTyped DEF Init
<1> QED BY <1>1, <1>2, <1>3, <1>4, <1>5, <1>6 DEF Init, TypeOK

LEMMA TickTypeOK ==
  ASSUME TypeOK, Tick
  PROVE  TypeOK'
<1> USE DEF TypeOK
<1>1. CASE ReadClock
  BY <1>1 DEF ReadClock, clientVars
<1>2. CASE Evaluate
  <2>1. todo' \in [Groups -> Seq(Action)]
    BY <1>2, ActionsTyped DEF Evaluate
  <2>2. skipped' \subseteq Groups
    BY <1>2 DEF Evaluate
  <2> QED BY <1>2, <2>1, <2>2 DEF Evaluate, clientVars
<1>3. CASE TickEnds
  BY <1>3 DEF TickEnds, clientVars, NoOverrides
<1>4. ASSUME NEW g \in Groups, NEW action, NextAction(g, action)
      PROVE  todo' \in [Groups -> Seq(Action)]
  <2>1. Tail(todo[g]) \in Seq(Action)
    BY <1>4, HeadTailProperties DEF NextAction
  <2> QED BY <1>4, <2>1 DEF NextAction
<1>5. ASSUME NEW g \in Groups, DispatchClear(g) PROVE TypeOK'
  <2>1. todo' \in [Groups -> Seq(Action)]
    BY <1>4, <1>5 DEF DispatchClear
  <2> QED BY <1>5, <2>1, DeviceIsId DEF DispatchClear, NextAction, clientVars
<1>6. ASSUME NEW g \in Groups, DispatchStop(g) PROVE TypeOK'
  <2>1. todo' \in [Groups -> Seq(Action)]
    BY <1>4, <1>6 DEF DispatchStop
  <2> QED BY <1>6, <2>1, DeviceIsId DEF DispatchStop, NextAction, clientVars, Idle, Driver, Entry
<1>7. ASSUME NEW g \in Groups, DispatchStart(g) PROVE TypeOK'
  <2>1. todo' \in [Groups -> Seq(Action)]
    BY <1>4, <1>7 DEF DispatchStart
  <2>2. Scheduled(state[g]) \in Driver
    BY <1>7 DEF Scheduled, Driver
  <2> QED BY <1>7, <2>1, <2>2, DeviceIsId DEF DispatchStart, NextAction, clientVars
<1>8. ASSUME NEW g \in Groups, DispatchFails(g) PROVE TypeOK'
  <2>1. todo' \in [Groups -> Seq(Action)]
    BY <1>4, <1>8 DEF DispatchFails
  <2> QED BY <1>8, <2>1 DEF DispatchFails, NextAction, clientVars
<1> QED BY <1>1, <1>2, <1>3, <1>5, <1>6, <1>7, <1>8 DEF Tick

LEMMA ClientTypeOK ==
  ASSUME TypeOK, NEW c \in Clients, ClientStep(c)
  PROVE  TypeOK'
<1> USE DEF TypeOK, tickVars
<1>1. CASE ReadEntry(c)
  <2>1. ActiveEntryFor(client[c].id) \in Entry
    BY ActiveEntryTyped
  <2>2. Tail(client[c].steps) \in Seq(Step)
    BY <1>1, HeadTailProperties DEF ReadEntry, NextStep, Busy
  <2> QED BY <1>1, <2>1, <2>2 DEF ReadEntry
<1>2. CASE TestOverride(c)
  <2>1. When(\E i \in DOMAIN client[c].steps : client[c].steps[i] = "halt", "halt") \in Seq(Step)
    BY WhenTyped DEF Step
  <2>2. client' \in [Clients -> [id : Ids, entry : Entry, steps : Seq(Step)]]
    BY <1>2, <2>1, GoOnTyped, DoneTyped DEF TestOverride, NextStep
  <2> QED BY <1>2, <2>2 DEF TestOverride
<1>3. CASE MarkOverride(c)
  <2>1. client' \in [Clients -> [id : Ids, entry : Entry, steps : Seq(Step)]]
    BY <1>3, DoneTyped DEF MarkOverride, NextStep
  <2> QED BY <1>3, <2>1 DEF MarkOverride
<1>4. CASE ClearOverride(c)
  <2>1. client' \in [Clients -> [id : Ids, entry : Entry, steps : Seq(Step)]]
    BY <1>4, DoneTyped DEF ClearOverride, NextStep
  <2> QED BY <1>4, <2>1 DEF ClearOverride
<1>5. CASE Play(c)
  <2>1. client' \in [Clients -> [id : Ids, entry : Entry, steps : Seq(Step)]]
    BY <1>5, DoneTyped DEF Play, NextStep
  <2> QED BY <1>5, <2>1 DEF Play, Phone, Driver, Entry
<1>6. CASE PlayRaises(c)
  <2>1. client' \in [Clients -> [id : Ids, entry : Entry, steps : Seq(Step)]]
    BY <1>6, AbortTyped DEF PlayRaises
  <2> QED BY <1>6, <2>1 DEF PlayRaises
<1>7. CASE Halt(c)
  <2>1. client' \in [Clients -> [id : Ids, entry : Entry, steps : Seq(Step)]]
    BY <1>7, DoneTyped, AbortTyped DEF Halt, NextStep
  <2>2. driver' \in [Ids -> Driver]
    <3>1. client[c].id \in Ids /\ Idle \in Driver
      BY DEF Idle, Driver, Entry
    <3>2. driver' = [driver EXCEPT ![client[c].id] = Idle] \/ driver' = driver
      BY <1>7 DEF Halt
    <3> QED BY <3>1, <3>2
  <2> QED BY <1>7, <2>1, <2>2 DEF Halt
<1>8. CASE CheckKnown(c)
  <2>1. client' \in [Clients -> [id : Ids, entry : Entry, steps : Seq(Step)]]
    BY <1>8, DoneTyped, AbortTyped DEF CheckKnown, NextStep
  <2> QED BY <1>8, <2>1 DEF CheckKnown
<1> QED BY <1>1, <1>2, <1>3, <1>4, <1>5, <1>6, <1>7, <1>8 DEF ClientStep

LEMMA StepTypeOK == TypeOK /\ [Next]_vars => TypeOK'
<1> SUFFICES ASSUME TypeOK, [Next]_vars PROVE TypeOK'
  OBVIOUS
<1>1. CASE Tick
  BY <1>1, TickTypeOK
<1>2. ASSUME NEW g \in Groups, ClockMoves(g) PROVE TypeOK'
  <2>1. EntriesOf[g] \subseteq Entries
    BY SchedulerAssumption DEF SchedulerAssumption
  <2>2. PICK e \in EntriesOf[g] \union {None} : active' = [active EXCEPT ![g] = e]
    BY <1>2 DEF ClockMoves
  <2>3. active' \in [Groups -> Entry]
    BY <2>1, <2>2 DEF TypeOK, Entry
  <2> QED BY <1>2, <2>3 DEF ClockMoves, TypeOK, tickVars, clientVars
<1>3. ASSUME NEW e \in Entries, DeleteEntry(e) PROVE TypeOK'
  <2>1. requests' \in 0 .. MaxRequests
    BY <1>3, SchedulerAssumption DEF SchedulerAssumption, DeleteEntry, TypeOK
  <2>2. overrides' \in [Ids -> Entry \union {Free}]
    BY <1>3 DEF DeleteEntry, TypeOK
  <2> QED BY <1>3, <2>1, <2>2 DEF DeleteEntry, TypeOK, tickVars
<1>4. ASSUME NEW c \in Clients, ClientStep(c) PROVE TypeOK'
  BY <1>4, ClientTypeOK
<1>5. ASSUME NEW c \in Clients, NEW op \in Operations, NEW id \in Targets, Begin(c, op, id)
      PROVE  TypeOK'
  <2>1. requests' \in 0 .. MaxRequests
    BY <1>5, SchedulerAssumption DEF SchedulerAssumption, Begin, TypeOK
  <2>2. Program[op] \in Seq(Step) /\ id \in Ids
    BY ProgramTyped, SchedulerAssumption DEF SchedulerAssumption
  <2>3. client' \in [Clients -> [id : Ids, entry : Entry, steps : Seq(Step)]]
    BY <1>5, <2>2 DEF Begin, TypeOK, Entry
  <2> QED BY <1>5, <2>1, <2>3 DEF Begin, TypeOK, tickVars
<1>6. CASE UNCHANGED vars
  BY <1>6 DEF TypeOK, vars, tickVars, clientVars
<1> QED BY <1>1, <1>2, <1>3, <1>4, <1>5, <1>6 DEF Next

\* Whoever the clients are and however often they ask, the tables and the
\* scheduler's state keep their types: an override records an entry or None.
THEOREM TypeCorrect == Spec => []TypeOK
BY InitTypeOK, StepTypeOK, PTL DEF Spec

-----------------------------------------------------------------------------
(* The inductive invariant: what the actions still to be dispatched allow, *)
(* and what they have yet to put right.                                    *)

DistinctDevices == \A g, h \in Groups : Device(g) = Device(h) => g = h

\* The tick's copies leave the device of g to the schedule.
LeftToSchedule(g) ==
  snapshot[Device(g)] = previous[g] \/ ~IsOverridden(g, snapshot)

Settled == tick # "dispatch" => \A g \in Groups : todo[g] = <<>>
Lawful == \A g \in Groups : Disturbs(todo[g]) => LeftToSchedule(g)
Current ==
  \A g \in Groups \ (skipped \union failed) :
    driver[Device(g)].who = "schedule" /\ ~Disturbs(todo[g]) =>
      driver[Device(g)].entry = state[g]
Sound == Settled /\ Lawful /\ Current

LEMMA NothingDisturbs == ~Disturbs(<<>>)
BY DEF Disturbs

LEMMA TailDisturbs ==
  ASSUME NEW s \in Seq(Action), s # <<>>
  PROVE  Disturbs(s) <=> Head(s) \in {"stop", "start"} \/ Disturbs(Tail(s))
<1>1. /\ Tail(s) \in Seq(Action) /\ Len(Tail(s)) = Len(s) - 1
      /\ \A i \in 1 .. Len(Tail(s)) : Tail(s)[i] = s[i + 1]
  BY HeadTailProperties
<1>2. Len(s) \in Nat \ {0} /\ Head(s) = s[1]
  BY EmptySeq
<1>3. ASSUME Disturbs(s) PROVE Head(s) \in {"stop", "start"} \/ Disturbs(Tail(s))
  <2>1. PICK i \in 1 .. Len(s) : s[i] \in {"stop", "start"}
    BY <1>3 DEF Disturbs
  <2>2. CASE i = 1
    BY <1>2, <2>1, <2>2
  <2>3. CASE i # 1
    <3>1. i - 1 \in 1 .. Len(Tail(s)) /\ Tail(s)[i - 1] = s[i]
      BY <1>1, <1>2, <2>3
    <3> QED BY <2>1, <3>1 DEF Disturbs
  <2> QED BY <2>2, <2>3
<1>4. ASSUME Head(s) \in {"stop", "start"} PROVE Disturbs(s)
  BY <1>2, <1>4 DEF Disturbs
<1>5. ASSUME Disturbs(Tail(s)) PROVE Disturbs(s)
  <2>1. PICK i \in 1 .. Len(Tail(s)) : Tail(s)[i] \in {"stop", "start"}
    BY <1>5 DEF Disturbs
  <2>2. i + 1 \in 1 .. Len(s) /\ s[i + 1] = Tail(s)[i]
    BY <1>1, <1>2
  <2> QED BY <2>1, <2>2 DEF Disturbs
<1> QED BY <1>3, <1>4, <1>5

\* A dispatched action leaves the others of its group, and those of the other
\* groups, to be done.
LEMMA NextActionEffect ==
  ASSUME TypeOK, NEW g \in Groups, NEW action, NextAction(g, action)
  PROVE  /\ \A h \in Groups \ {g} : todo'[h] = todo[h]
         /\ Disturbs(todo[g]) <=> action \in {"stop", "start"} \/ Disturbs(todo'[g])
         /\ UNCHANGED <<state, previous, snapshot, skipped>> /\ tick = "dispatch" /\ tick' = tick
<1>1. todo[g] \in Seq(Action) /\ todo[g] # <<>> /\ Head(todo[g]) = action
  BY DEF TypeOK, NextAction
<1>2. todo'[g] = Tail(todo[g]) /\ \A h \in Groups \ {g} : todo'[h] = todo[h]
  BY DEF TypeOK, NextAction
<1>3. UNCHANGED <<state, previous, snapshot, skipped>> /\ tick = "dispatch" /\ tick' = tick
  BY DEF NextAction
<1> QED BY <1>1, <1>2, <1>3, TailDisturbs

LEMMA InitSound == Init => Sound
<1> SUFFICES ASSUME Init PROVE Sound
  OBVIOUS
<1>1. \A g \in Groups : todo[g] = <<>> /\ ~Disturbs(todo[g])
  BY NothingDisturbs DEF Init
<1>2. \A g \in Groups : driver[Device(g)].who # "schedule"
  BY DeviceIsId DEF Init, Idle
<1> QED BY <1>1, <1>2 DEF Sound, Settled, Lawful, Current

LEMMA EvaluateSound ==
  ASSUME TypeOK, Sound, Evaluate
  PROVE  Sound'
<1>1. \A g \in Groups : todo'[g] = Actions(g, overrides)
  BY DEF Evaluate
<1>2. \A g \in Groups : ~Disturbs(todo[g])
  BY NothingDisturbs DEF Sound, Settled, Evaluate
<1>3. \A g \in Groups : nowActive[g] = state[g] => ~Disturbs(todo'[g])
  BY <1>1, NothingDisturbs DEF Actions
<1>4. \A g \in Groups : nowActive[g] # state[g] => (Disturbs(todo'[g]) <=> ~Blocked(g, overrides))
  BY <1>1, TransitionDisturbs DEF Actions
<1>5. Settled'
  BY DEF Evaluate, Settled
<1>6. Lawful'
  <2> SUFFICES ASSUME NEW g \in Groups, Disturbs(todo'[g])
               PROVE  overrides[Device(g)] = state[g] \/ ~IsOverridden(g, overrides)
    BY DEF Lawful, LeftToSchedule, Evaluate, IsOverridden, Device
  <2>1. ~Blocked(g, overrides)
    BY <1>3, <1>4
  <2> QED BY <2>1 DEF Blocked, Expires
<1>7. Current'
  <2> SUFFICES ASSUME NEW g \in Groups, g \notin skipped', g \notin failed',
                      driver[Device(g)].who = "schedule", ~Disturbs(todo'[g])
               PROVE  driver[Device(g)].entry = nowActive[g]
    BY DEF Current, Evaluate, Device
  <2>1. CASE nowActive[g] = state[g]
    <3>1. g \notin skipped /\ g \notin failed
      BY <2>1 DEF Evaluate
    <3> QED BY <1>2, <2>1, <3>1 DEF Sound, Current
  <2>2. CASE nowActive[g] # state[g]
    <3>1. ~Blocked(g, overrides)
      BY <2>2 DEF Evaluate
    <3> QED BY <1>4, <2>2, <3>1
  <2> QED BY <2>1, <2>2
<1> QED BY <1>5, <1>6, <1>7 DEF Sound

\* What the scheduler's own variables say is not changed by anybody else.
LEMMA UntouchedSound ==
  ASSUME TypeOK, Sound, UNCHANGED <<tickVars, failed>>,
         \A g \in Groups : driver'[Device(g)] = driver[Device(g)]
                            \/ driver'[Device(g)].who # "schedule"
  PROVE  Sound'
<1>1. Settled'
  BY DEF Sound, Settled, tickVars
<1>2. Lawful'
  BY DEF Sound, Lawful, LeftToSchedule, IsOverridden, Device, tickVars
<1>3. Current'
  BY DEF Sound, Current, Device, tickVars
<1> QED BY <1>1, <1>2, <1>3 DEF Sound

\* Dispatching the next action of g: its effect on the driver of g decides.
LEMMA DispatchSound ==
  ASSUME TypeOK, Sound, NEW g \in Groups, NEW action, NextAction(g, action),
         failed' \subseteq failed \union {g}, failed \subseteq failed' \union {g},
         \A h \in Groups \ {g} : driver'[Device(h)] = driver[Device(h)],
         \/ g \in failed'
         \/ driver'[Device(g)] \in {Idle, Scheduled(state[g])}
         \/ action \notin {"stop", "start"} /\ UNCHANGED <<driver, failed>>
  PROVE  Sound'
<1> USE NextActionEffect
<1>1. Settled'
  BY DEF Settled
<1>2. Lawful'
  <2> SUFFICES ASSUME NEW h \in Groups, Disturbs(todo'[h]) PROVE LeftToSchedule(h)
    BY DEF Lawful, LeftToSchedule, IsOverridden, Device
  <2>1. Disturbs(todo[h])
    BY Zenon
  <2> QED BY <2>1 DEF Sound, Lawful
<1>3. Current'
  <2> SUFFICES ASSUME NEW h \in Groups, h \notin skipped, h \notin failed',
                      driver'[Device(h)].who = "schedule", ~Disturbs(todo'[h])
               PROVE  driver'[Device(h)].entry = state[h]
    BY DEF Current, Device
  <2>1. CASE h # g
    <3>1. h \notin failed /\ driver'[Device(h)] = driver[Device(h)] /\ ~Disturbs(todo[h])
      BY <2>1, Zenon
    <3> QED BY <3>1 DEF Sound, Current
  <2>2. CASE h = g
    <3>1. CASE driver'[Device(g)] \in {Idle, Scheduled(state[g])}
      BY <2>2, <3>1 DEF Idle, Scheduled
    <3>2. CASE action \notin {"stop", "start"} /\ UNCHANGED <<driver, failed>>
      <4>1. ~Disturbs(todo[g])
        BY <2>2, <3>2
      <4> QED BY <2>2, <3>2, <4>1 DEF Sound, Current
    <3> QED BY <2>2, <3>1, <3>2
  <2> QED BY <2>1, <2>2
<1> QED BY <1>1, <1>2, <1>3 DEF Sound

LEMMA TickSound ==
  ASSUME DistinctDevices, TypeOK, Sound, Tick
  PROVE  Sound'
<1>1. CASE ReadClock
  <2>1. Settled' /\ Lawful' /\ Current'
    BY <1>1, NothingDisturbs DEF ReadClock, Sound, Settled, Lawful, Current, Device
  <2> QED BY <2>1 DEF Sound
<1>2. CASE Evaluate
  BY <1>2, EvaluateSound
<1>3. CASE TickEnds
  <2>1. \A g \in Groups : ~Disturbs(todo[g]) /\ todo'[g] = todo[g] /\ todo[g] = <<>>
    BY <1>3, NothingDisturbs DEF TickEnds
  <2>2. Settled' /\ Lawful'
    BY <2>1 DEF Settled, Lawful
  <2>3. Current'
    BY <1>3, <2>1 DEF TickEnds, Sound, Current, Device
  <2> QED BY <2>2, <2>3 DEF Sound
<1>4. ASSUME NEW g \in Groups, DispatchClear(g) PROVE Sound'
  BY <1>4, DispatchSound DEF DispatchClear
<1>5. ASSUME NEW g \in Groups, DispatchStop(g) PROVE Sound'
  <2>1. /\ driver'[Device(g)] = Idle
        /\ \A h \in Groups \ {g} : driver'[Device(h)] = driver[Device(h)]
    BY <1>5, DeviceIsId DEF DispatchStop, TypeOK, DistinctDevices
  <2> QED BY <1>5, <2>1, DispatchSound DEF DispatchStop
<1>6. ASSUME NEW g \in Groups, DispatchStart(g) PROVE Sound'
  <2>1. /\ driver'[Device(g)] = Scheduled(state[g])
        /\ \A h \in Groups \ {g} : driver'[Device(h)] = driver[Device(h)]
    BY <1>6, DeviceIsId DEF DispatchStart, TypeOK, DistinctDevices
  <2> QED BY <1>6, <2>1, DispatchSound DEF DispatchStart
<1>7. ASSUME NEW g \in Groups, DispatchFails(g) PROVE Sound'
  <2>1. PICK action : NextAction(g, action)
    BY <1>7 DEF DispatchFails
  <2> QED BY <1>7, <2>1, DispatchSound DEF DispatchFails
<1> QED BY <1>1, <1>2, <1>3, <1>4, <1>5, <1>6, <1>7 DEF Tick

LEMMA ClientSound ==
  ASSUME TypeOK, Sound, NEW c \in Clients, ClientStep(c)
  PROVE  Sound'
<1>1. UNCHANGED <<tickVars, failed>>
  BY DEF ClientStep, ReadEntry, TestOverride, MarkOverride, ClearOverride, Play,
     PlayRaises, Halt, CheckKnown
<1>2. \A id \in Ids : driver'[id] = driver[id] \/ driver'[id] \in {Phone, Idle}
  BY DEF ClientStep, ReadEntry, TestOverride, MarkOverride, ClearOverride, Play,
     PlayRaises, Halt, CheckKnown, TypeOK
<1>3. Phone.who # "schedule" /\ Idle.who # "schedule"
  BY DEF Phone, Idle
<1> QED BY <1>1, <1>2, <1>3, DeviceIsId, UntouchedSound

LEMMA StepSound ==
  ASSUME DistinctDevices, TypeOK, Sound, [Next]_vars
  PROVE  Sound'
<1>1. CASE Tick
  BY <1>1, TickSound
<1>2. ASSUME NEW g \in Groups, ClockMoves(g) PROVE Sound'
  BY <1>2, UntouchedSound DEF ClockMoves
<1>3. ASSUME NEW e \in Entries, DeleteEntry(e) PROVE Sound'
  BY <1>3, UntouchedSound DEF DeleteEntry
<1>4. ASSUME NEW c \in Clients, ClientStep(c) PROVE Sound'
  BY <1>4, ClientSound
<1>5. ASSUME NEW c \in Clients, NEW op \in Operations, NEW id \in Targets, Begin(c, op, id)
      PROVE  Sound'
  BY <1>5, UntouchedSound DEF Begin
<1>6. CASE UNCHANGED vars
  BY <1>6, UntouchedSound DEF vars
<1> QED BY <1>1, <1>2, <1>3, <1>4, <1>5, <1>6 DEF Next

LEMMA AlwaysSound == ASSUME DistinctDevices PROVE Spec => [](TypeOK /\ Sound)
<1>1. Init => TypeOK /\ Sound
  BY InitTypeOK, InitSound
<1>2. TypeOK /\ Sound /\ [Next]_vars => TypeOK' /\ Sound'
  BY DistinctDevices, StepTypeOK, StepSound
<1> QED BY <1>1, <1>2, PTL DEF Spec

-----------------------------------------------------------------------------
(* The theorems.                                                           *)

\* Between ticks no group plays an entry the scheduler has moved on from, if
\* groups do not share emitters, unless an override made it skip the
\* transition or the device refused: no stop is lost, whatever clients do.
THEOREM NoOrphanAlways == ASSUME DistinctDevices PROVE Spec => []NoOrphan
<1>1. TypeOK /\ Sound => NoOrphan
  BY NothingDisturbs DEF Sound, Settled, Current, NoOrphan
<1> QED BY <1>1, AlwaysSound, PTL

\* A request in progress shows in the client's program counter.
LEMMA ClientStepShows ==
  ASSUME TypeOK, NEW c \in Clients, ClientStep(c)
  PROVE  client' # client
<1>1. client[c].steps \in Seq(Step)
  BY DEF TypeOK
<1>2. client[c].steps # <<>>
  BY DEF ClientStep, ReadEntry, TestOverride, MarkOverride, ClearOverride, Play,
     PlayRaises, Halt, CheckKnown, NextStep, Busy
<1>3. Tail(client[c].steps) # client[c].steps
  <2>1. Len(client[c].steps) \in Nat
    BY <1>1, LenProperties
  <2>2. Len(Tail(client[c].steps)) = Len(client[c].steps) - 1
    BY <1>1, <1>2, HeadTailProperties
  <2>3. Len(client[c].steps) - 1 # Len(client[c].steps)
    BY <2>1
  <2> QED BY <2>2, <2>3, Zenon
<1>4. \A steps : GoOn(c, steps) => client'[c].steps = steps
  BY DEF GoOn, AtRest, TypeOK
<1>5. CASE ReadEntry(c)
  <2>1. client'[c].steps = Tail(client[c].steps)
    BY <1>5 DEF ReadEntry, TypeOK
  <2> QED BY <1>3, <2>1
<1>6. CASE TestOverride(c)
  <2>1. Head(client[c].steps) = "test" /\ Head(<<"halt">>) = "halt"
    BY <1>6 DEF TestOverride, NextStep
  <2>2. client'[c].steps \in {Tail(client[c].steps), <<>>, <<"halt">>}
    BY <1>4, <1>6 DEF TestOverride, Done, When
  <2> QED BY <1>2, <1>3, <2>1, <2>2
<1>7. CASE Done(c) \/ Abort(c)
  <2>1. client'[c].steps \in {Tail(client[c].steps), <<>>}
    BY <1>4, <1>7 DEF Done, Abort
  <2> QED BY <1>2, <1>3, <2>1
<1> QED BY <1>5, <1>6, <1>7 DEF ClientStep, MarkOverride, ClearOverride, Play, PlayRaises, Halt,
        CheckKnown

\* What is to be done for a group comes of a transition, and a release of an override
\* that was recorded against what went out.
Releases(actions) == \E i \in 1 .. Len(actions) : actions[i] = "clear_override"
Warranted ==
  \A g \in Groups : todo[g] # <<>> =>
    previous[g] # state[g] /\ (Releases(todo[g]) => snapshot[Device(g)] = previous[g])

LEMMA TransitionReleases ==
  ASSUME NEW g, NEW table, ~Expires(g, table)
  PROVE  ~Releases(Transition(g, table))
<1> DEFINE stop == When(state[g] # None /\ ~Blocked(g, table), "stop")
           start == When(nowActive[g] # None /\ ~Blocked(g, table), "start")
           clear == When(Expires(g, table), "clear_override")
<1>1. Transition(g, table) = (clear \o stop) \o start
  BY DEF Transition
<1>2. \A condition, action : When(condition, action) = <<>> \/ When(condition, action) = <<action>>
  BY DEF When
<1>3. clear = <<>>
  BY DEF When
<1>4. stop \in {<<>>, <<"stop">>} /\ start \in {<<>>, <<"start">>}
  BY <1>2
<1> HIDE DEF clear, stop, start
<1> QED BY <1>1, <1>3, <1>4 DEF Releases

LEMMA WarrantedStep == TypeOK /\ Warranted /\ [Next]_vars => Warranted'
<1> SUFFICES ASSUME TypeOK, Warranted, [Next]_vars PROVE Warranted'
  OBVIOUS
<1>1. CASE Evaluate
  <2> SUFFICES ASSUME NEW g \in Groups, todo'[g] # <<>>
               PROVE  /\ state[g] # nowActive[g]
                      /\ Releases(todo'[g]) => Expires(g, overrides)
    BY <1>1 DEF Warranted, Evaluate, Expires, Device
  <2>1. todo'[g] = Actions(g, overrides)
    BY <1>1 DEF Evaluate
  <2> QED BY <2>1, TransitionReleases DEF Actions
<1>2. ASSUME NEW h \in Groups, NEW action, NextAction(h, action) PROVE Warranted'
  <2> SUFFICES ASSUME NEW g \in Groups, todo'[g] # <<>>
               PROVE  /\ todo[g] # <<>>
                      /\ Releases(todo'[g]) => Releases(todo[g])
    BY <1>2, NextActionEffect DEF Warranted, Device
  <2>1. CASE g # h
    BY <1>2, <2>1, NextActionEffect, Zenon
  <2>2. CASE g = h
    <3>1. todo[g] \in Seq(Action) /\ todo[g] # <<>> /\ todo'[g] = Tail(todo[g])
      BY <1>2, <2>2 DEF NextAction, TypeOK
    <3>2. /\ Len(todo[g]) \in Nat /\ Len(Tail(todo[g])) = Len(todo[g]) - 1
          /\ \A i \in 1 .. Len(Tail(todo[g])) : Tail(todo[g])[i] = todo[g][i + 1]
      BY <3>1, HeadTailProperties, LenProperties
    <3>3. ASSUME NEW i \in 1 .. Len(Tail(todo[g])), Tail(todo[g])[i] = "clear_override"
          PROVE  Releases(todo[g])
      <4>1. i + 1 \in 1 .. Len(todo[g]) /\ todo[g][i + 1] = "clear_override"
        BY <3>2, <3>3
      <4> QED BY <4>1 DEF Releases
    <3> QED BY <3>1, <3>3 DEF Releases
  <2> QED BY <2>1, <2>2
<1>3. CASE TickEnds
  BY <1>3 DEF TickEnds, Warranted
<1>4. CASE UNCHANGED <<todo, state, previous, snapshot>>
  BY <1>4 DEF Warranted, Device
<1>5. CASE \E h \in Groups : DispatchClear(h) \/ DispatchStop(h) \/ DispatchStart(h) \/ DispatchFails(h)
  BY <1>2, <1>5 DEF DispatchClear, DispatchStop, DispatchStart, DispatchFails
<1>6. CASE ReadClock \/ UNCHANGED tickVars
  BY <1>4, <1>6 DEF ReadClock, tickVars
<1>7. Next /\ ~Tick => UNCHANGED tickVars
  BY DEF Next, ClockMoves, DeleteEntry, Begin, ClientStep, ReadEntry, TestOverride,
     MarkOverride, ClearOverride, Play, PlayRaises, Halt, CheckKnown
<1> QED BY <1>1, <1>3, <1>5, <1>6, <1>7 DEF Tick, vars

\* At a transition the scheduler drops an override only if it was recorded against what
\* goes out, and stops or starts a device only then or if neither it nor a member was
\* overridden when the tick looked, for any number of clients and of requests.  An
\* override that records no entry ends when the next entry begins (EndsWithGap).
THEOREM OverridesRespected == ASSUME DistinctDevices PROVE Spec => RespectsOverrides
<1> DEFINE Ended(g) == EndsWithEntry(g) \/ EndsWithGap(g)
           Respects ==
             \A g \in Groups :
               tick = "dispatch" /\ UNCHANGED clientVars =>
                 /\ overrides'[Device(g)] # overrides[Device(g)] => Ended(g)
                 /\ driver'[Device(g)] # driver[Device(g)] =>
                      /\ previous[g] # state[g]
                      /\ Ended(g) \/ ~IsOverridden(g, snapshot)
<1>1. TypeOK /\ Sound /\ Warranted /\ [Next]_vars => [Respects]_vars
  <2> SUFFICES ASSUME TypeOK, Sound, Warranted, Next, NEW g \in Groups, UNCHANGED clientVars,
                      \/ overrides'[Device(g)] # overrides[Device(g)]
                      \/ driver'[Device(g)] # driver[Device(g)]
               PROVE  /\ previous[g] # state[g]
                      /\ overrides'[Device(g)] # overrides[Device(g)] => Ended(g)
                      /\ Ended(g) \/ ~IsOverridden(g, snapshot)
    OBVIOUS
  <2>1. PICK h \in Groups : DispatchClear(h) \/ DispatchStop(h) \/ DispatchStart(h)
    <3>1. \A c \in Clients : ~ClientStep(c)
      BY ClientStepShows DEF clientVars
    <3>2. ASSUME NEW e \in Entries, DeleteEntry(e) PROVE FALSE
      BY <3>2 DEF DeleteEntry, clientVars, TypeOK
    <3> QED BY <3>1, <3>2 DEF Next, Tick, ClockMoves, Begin, ReadClock, Evaluate, TickEnds,
        DispatchFails, clientVars, TypeOK
  <2>2. h = g
    BY <2>1, DeviceIsId DEF DispatchClear, DispatchStop, DispatchStart, TypeOK, DistinctDevices
  <2>3. PICK action \in Action : NextAction(g, action)
    BY <2>1, <2>2 DEF DispatchClear, DispatchStop, DispatchStart, Action
  <2>4. todo[g] \in Seq(Action) /\ todo[g] # <<>> /\ Head(todo[g]) = action
    BY <2>3 DEF NextAction, TypeOK
  <2>5. previous[g] # state[g] /\ previous[g] \in Entry /\ state[g] \in Entry
    BY <2>4 DEF Warranted, TypeOK
  <2>6. snapshot[Device(g)] = previous[g] => Ended(g)
    BY <2>5 DEF EndsWithEntry, EndsWithGap
  <2>7. CASE action = "clear_override"
    <3>1. 1 \in 1 .. Len(todo[g]) /\ todo[g][1] = "clear_override"
      BY <2>4, <2>7, EmptySeq
    <3>2. Releases(todo[g])
      BY <3>1 DEF Releases
    <3> QED BY <2>4, <2>5, <2>6, <3>2 DEF Warranted
  <2>8. CASE action \in {"stop", "start"}
    <3>1. LeftToSchedule(g)
      BY <2>3, <2>8, NextActionEffect DEF Sound, Lawful
    <3>2. overrides' = overrides
      BY <2>1, <2>2, <2>4, <2>8 DEF DispatchClear, DispatchStop, DispatchStart, NextAction
    <3> QED BY <2>5, <2>6, <3>1, <3>2 DEF LeftToSchedule
  <2> QED BY <2>7, <2>8 DEF Action
<1>2. Init => Warranted
  BY DEF Init, Warranted
<1>3. Spec => []Warranted
  BY <1>2, WarrantedStep, TypeCorrect, PTL DEF Spec
<1> QED BY <1>1, <1>3, AlwaysSound, PTL DEF Spec, RespectsOverrides

-----------------------------------------------------------------------------
(* What a tick has done when it ends.                                      *)

\* History: the emitters that a client has marked, played or stopped since the tick
\* copied the tables.  A dispatch shows in todo, a client's step does not.
VARIABLE handled

Handling ==
  handled' = IF tick # "dispatch" THEN {}
             ELSE handled \union
                  {id \in Ids : /\ todo' = todo
                                /\ \/ overrides'[id] \notin {overrides[id], Free}
                                   \/ driver'[id] # driver[id]}
HandledSpec == Init /\ handled = {} /\ [][Next /\ Handling]_<<vars, handled>>

\* A group whose entry changed, and whose actions are all dispatched: its override is
\* not the one of the old entry, and it plays the new one.
CarriedOut ==
  tick = "dispatch" =>
    \A g \in Groups :
      todo[g] = <<>> /\ previous[g] # state[g] /\ Device(g) \notin handled =>
        /\ g \notin Matter => overrides[Device(g)] # previous[g]
        /\ g \notin skipped \union failed /\ state[g] # None =>
             driver[Device(g)] = Scheduled(state[g])

\* What is not done yet is still in the list, the release first and the start last.
ClearDue(g) == todo[g] # <<>> /\ Head(todo[g]) = "clear_override"
StartDue(g) == todo[g] # <<>> /\ todo[g][Len(todo[g])] = "start"
Relieved(g) == g \notin Matter => overrides[Device(g)] # previous[g] \/ ClearDue(g)
Started(g) ==
  g \notin skipped /\ state[g] # None =>
    IF todo[g] = <<>> THEN g \in failed \/ driver[Device(g)] = Scheduled(state[g])
    ELSE StartDue(g)
Due ==
  tick = "dispatch" =>
    \A g \in Groups :
      previous[g] # state[g] /\ Device(g) \notin handled => Relieved(g) /\ Started(g)

LEMMA TailLast ==
  ASSUME NEW s \in Seq(Action), s # <<>>
  PROVE  IF Tail(s) = <<>> THEN s[Len(s)] = Head(s) ELSE Tail(s)[Len(Tail(s))] = s[Len(s)]
<1>1. /\ Tail(s) \in Seq(Action) /\ Len(Tail(s)) = Len(s) - 1
      /\ \A i \in 1 .. Len(Tail(s)) : Tail(s)[i] = s[i + 1]
  BY HeadTailProperties
<1>2. Len(s) \in Nat \ {0} /\ Head(s) = s[1]
  BY EmptySeq
<1>3. Tail(s) = <<>> <=> Len(Tail(s)) = 0
  BY <1>1, EmptySeq
<1>4. CASE Len(s) = 1
  BY <1>1, <1>2, <1>3, <1>4
<1>5. CASE Len(s) # 1
  <2>1. Len(Tail(s)) \in 1 .. Len(Tail(s)) /\ Len(Tail(s)) + 1 = Len(s)
    BY <1>1, <1>2, <1>5
  <2> QED BY <1>1, <1>3, <2>1
<1> QED BY <1>4, <1>5

\* The list of a transition begins with the release and ends with the start.
LEMMA TransitionEnds ==
  ASSUME NEW g, NEW table
  PROVE  /\ Expires(g, table) =>
              Transition(g, table) # <<>> /\ Head(Transition(g, table)) = "clear_override"
         /\ nowActive[g] # None /\ ~Blocked(g, table) =>
              /\ Transition(g, table) # <<>>
              /\ Transition(g, table)[Len(Transition(g, table))] = "start"
<1> DEFINE stop == When(state[g] # None /\ ~Blocked(g, table), "stop")
           start == When(nowActive[g] # None /\ ~Blocked(g, table), "start")
           clear == When(Expires(g, table), "clear_override")
<1>1. Transition(g, table) = (clear \o stop) \o start
  BY DEF Transition
<1>2. \A condition, action : When(condition, action) = <<>> \/ When(condition, action) = <<action>>
  BY DEF When
<1>3. Expires(g, table) => clear = <<"clear_override">>
  BY DEF When
<1>4. nowActive[g] # None /\ ~Blocked(g, table) => start = <<"start">>
  BY DEF When
<1>5. /\ clear = <<>> \/ clear = <<"clear_override">>
      /\ stop = <<>> \/ stop = <<"stop">>
      /\ start = <<>> \/ start = <<"start">>
  BY <1>2
<1> HIDE DEF clear, stop, start
<1> QED BY <1>1, <1>3, <1>4, <1>5

LEMMA PreviousIsEntry == TypeOK => \A g \in Groups : previous[g] # Free
<1>1. TypeOK => \A g \in Groups : previous[g] \in Entry
  BY DEF TypeOK
<1> QED BY <1>1, SchedulerAssumption DEF SchedulerAssumption, Entry

LEMMA EvaluateDue == ASSUME TypeOK, Evaluate PROVE Due'
<1> SUFFICES ASSUME NEW g \in Groups, nowActive[g] # state[g] PROVE Relieved(g)' /\ Started(g)'
  BY DEF Due, Evaluate
<1>1. todo'[g] = Transition(g, overrides)
  BY DEF Evaluate, Actions
<1>2. /\ state'[g] = nowActive[g] /\ previous'[g] = state[g] /\ overrides' = overrides
      /\ g \in skipped' <=> Blocked(g, overrides)
  BY DEF Evaluate
<1>3. Relieved(g)'
  BY <1>1, <1>2, TransitionEnds DEF Relieved, ClearDue, Expires
<1>4. Started(g)'
  BY <1>1, <1>2, TransitionEnds DEF Started, StartDue
<1> QED BY <1>3, <1>4

\* The next action of a group is done: a release is released, and the last is the start.
LEMMA DispatchDue ==
  ASSUME DistinctDevices, TypeOK, Due, handled \subseteq handled', NEW h \in Groups,
         DispatchClear(h) \/ DispatchStop(h) \/ DispatchStart(h) \/ DispatchFails(h)
  PROVE  Due'
<1>1. PICK action \in Action :
        /\ NextAction(h, action)
        /\ \/ action = "clear_override" /\ DispatchClear(h)
           \/ action = "stop" /\ (DispatchStop(h) \/ DispatchFails(h))
           \/ action = "start" /\ (DispatchStart(h) \/ DispatchFails(h))
  BY DEF DispatchClear, DispatchStop, DispatchStart, DispatchFails, Action
<1>2. /\ UNCHANGED <<state, previous, skipped>> /\ tick = "dispatch"
      /\ \A g \in Groups \ {h} : todo'[g] = todo[g]
      /\ todo[h] # <<>> /\ Head(todo[h]) = action /\ todo'[h] = Tail(todo[h])
  BY <1>1 DEF NextAction, TypeOK
<1>3. ASSUME NEW g \in Groups, g # h
      PROVE  /\ overrides'[Device(g)] = overrides[Device(g)]
             /\ driver'[Device(g)] = driver[Device(g)] /\ (g \in failed' <=> g \in failed)
  <2>1. Device(g) # Device(h) /\ Device(g) \in Ids
    BY <1>3, DeviceIsId DEF DistinctDevices
  <2> QED BY <1>3, <2>1 DEF DispatchClear, DispatchStop, DispatchStart, DispatchFails, TypeOK
<1>4. SUFFICES ASSUME NEW g \in Groups, previous[g] # state[g], Device(g) \notin handled'
               PROVE  Relieved(g)' /\ Started(g)'
  BY <1>2 DEF Due, Device
<1>5. Relieved(g) /\ Started(g)
  BY <1>2, <1>4 DEF Due
<1>6. CASE g # h
  BY <1>2, <1>3, <1>5, <1>6 DEF Relieved, Started, ClearDue, StartDue, Device
<1>7. CASE g = h
  <2>1. Relieved(g)'
    <3>1. CASE action = "clear_override" /\ g \notin Matter
      <4>1. overrides'[Device(g)] = Free
        BY <1>1, <1>7, <3>1, DeviceIsId DEF DispatchClear, TypeOK
      <4> QED BY <1>2, <4>1, PreviousIsEntry DEF Relieved, Device
    <3>2. CASE action # "clear_override"
      <4>1. overrides' = overrides
        BY <1>1, <3>2 DEF DispatchStop, DispatchStart, DispatchFails
      <4> QED BY <1>2, <1>5, <1>7, <3>2, <4>1 DEF Relieved, ClearDue, Device
    <3> QED BY <3>1, <3>2 DEF Relieved
  <2>2. Started(g)'
    <3> SUFFICES ASSUME g \notin skipped, state[g] # None
                 PROVE  IF todo'[g] = <<>>
                        THEN g \in failed' \/ driver'[Device(g)] = Scheduled(state[g])
                        ELSE todo'[g][Len(todo'[g])] = "start"
      BY <1>2 DEF Started, StartDue, Device
    <3>1. todo[g][Len(todo[g])] = "start"
      BY <1>2, <1>5, <1>7 DEF Started, StartDue
    <3>2. todo[g] \in Seq(Action)
      BY DEF TypeOK
    <3>3. IF todo'[g] = <<>> THEN action = "start" ELSE todo'[g][Len(todo'[g])] = "start"
      BY <1>2, <1>7, <3>1, <3>2, TailLast
    <3>4. action = "start" => g \in failed' \/ driver'[Device(g)] = Scheduled(state[g])
      BY <1>1, <1>7, DeviceIsId DEF DispatchStart, DispatchFails, TypeOK
    <3> QED BY <3>3, <3>4
  <2> QED BY <2>1, <2>2
<1> QED BY <1>6, <1>7

\* A client that sets an override or takes a device shows in the history.
LEMMA OutsideDue ==
  ASSUME TypeOK, Due, UNCHANGED <<tickVars, failed>>, Handling PROVE Due'
<1> SUFFICES ASSUME tick = "dispatch", NEW g \in Groups, previous[g] # state[g],
                    Device(g) \notin handled'
             PROVE  Relieved(g)' /\ Started(g)'
  BY DEF Due, tickVars, Device
<1>1. Device(g) \in Ids /\ todo' = todo
  BY DeviceIsId DEF tickVars
<1>2. /\ Device(g) \notin handled /\ overrides'[Device(g)] \in {overrides[Device(g)], Free}
      /\ driver'[Device(g)] = driver[Device(g)]
  BY <1>1 DEF Handling
<1>3. Relieved(g) /\ Started(g)
  BY <1>2 DEF Due
<1> QED BY <1>2, <1>3, PreviousIsEntry
        DEF Relieved, Started, ClearDue, StartDue, tickVars, Device

LEMMA DueStep ==
  ASSUME DistinctDevices, TypeOK, Due, [Next /\ Handling]_<<vars, handled>>
  PROVE  Due'
<1>1. CASE Tick /\ Handling
  <2>1. CASE ReadClock \/ TickEnds
    BY <2>1 DEF ReadClock, TickEnds, Due
  <2>2. CASE Evaluate
    BY <2>2, EvaluateDue
  <2>3. ASSUME NEW h \in Groups,
               DispatchClear(h) \/ DispatchStop(h) \/ DispatchStart(h) \/ DispatchFails(h)
        PROVE  Due'
    <3>1. tick = "dispatch"
      BY <2>3 DEF DispatchClear, DispatchStop, DispatchStart, DispatchFails, NextAction
    <3>2. handled \subseteq handled'
      BY <1>1, <3>1 DEF Handling
    <3> QED BY <2>3, <3>2, DispatchDue
  <2> QED BY <1>1, <2>1, <2>2, <2>3 DEF Tick
<1>2. CASE Next /\ Handling /\ ~Tick
  <2>1. UNCHANGED <<tickVars, failed>>
    BY <1>2 DEF Next, ClockMoves, DeleteEntry, Begin, ClientStep, ReadEntry, TestOverride,
       MarkOverride, ClearOverride, Play, PlayRaises, Halt, CheckKnown
  <2> QED BY <1>2, <2>1, OutsideDue
<1>3. CASE UNCHANGED <<vars, handled>>
  BY <1>3 DEF vars, tickVars, Due, Relieved, Started, ClearDue, StartDue, Device
<1> QED BY <1>1, <1>2, <1>3

\* "When the active schedule entry changes, overrides that were set against the
\* outgoing entry are cleared automatically" (docs/11-rest-api.md), and the new entry is
\* started (evaluate() in evaluator.py and its dispatch): when a tick has
\* dispatched what it evaluated for a group, the override of the old entry is gone and
\* the group plays the new one, unless an override held it back, the device refused,
\* or a client took the device in hand meanwhile.
THEOREM TickCarriesOut == ASSUME DistinctDevices PROVE HandledSpec => []CarriedOut
<1>1. Init => TypeOK /\ Due
  BY InitTypeOK DEF Init, Due
<1>2. TypeOK /\ [Next /\ Handling]_<<vars, handled>> => TypeOK'
  BY StepTypeOK
<1>3. TypeOK /\ Due /\ [Next /\ Handling]_<<vars, handled>> => Due'
  BY DistinctDevices, DueStep
<1>4. Due => CarriedOut
  BY DEF Due, CarriedOut, Relieved, Started, ClearDue
<1> QED BY <1>1, <1>2, <1>3, <1>4, PTL DEF HandledSpec
=============================================================================
