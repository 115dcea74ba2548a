----------------------------- MODULE Scheduler -----------------------------
(***************************************************************************)
(* The scheduler thread (scheduling/scheduler_thread.py), the evaluator it *)
(* calls (scheduling/evaluator.py), and the clients that drive the same    *)
(* devices through the REST handlers (handlers/device.py) and MQTT         *)
(* (infrastructure/mqtt_bridge.py).  They share two tables of the          *)
(* DeviceManager: the phone overrides and the controllers.                 *)
(*                                                                         *)
(* An emitter is a device or a group of devices.  What a controller plays  *)
(* is reduced to who asked for it: the schedule entry, or a client.  Each  *)
(* call on the DeviceManager is one action; between two calls anything can *)
(* happen, since no lock is held.                                          *)
(***************************************************************************)
EXTENDS Naturals, Sequences, FiniteSets

CONSTANTS
  Ips,            \* devices named by the configuration
  Loaded,         \* the devices load_devices() has an emitter for
  Groups,         \* group names
  Members,        \* Members[g]: the devices of group g
  Matter,         \* the groups whose members are all Matter devices
  Entries,        \* schedule entry names
  EntriesOf,      \* EntriesOf[g]: the entries scheduled for group g
  Clients,        \* HTTP handler threads, identify threads, the MQTT thread
  Operations,     \* the operations clients perform, a subset of AllOperations
  Targets,        \* the emitters clients name
  MaxRequests,    \* bound: client requests in a behaviour
  None,           \* no schedule entry
  Free            \* not in the override table

AllOperations == {"play", "stop", "powerOff", "resume", "reset", "identify",
                  "mqttPlay", "mqttStop", "mqttPowerOff", "mqttResume"}

Ids == Ips \union Groups

ASSUME SchedulerAssumption ==
  /\ Ips # {} /\ Ips \cap Groups = {} /\ Loaded \subseteq Ips /\ Matter \subseteq Groups
  /\ Members \in [Groups -> (SUBSET Ips) \ {{}}]
  /\ \A g \in Matter : Members[g] \cap Loaded = {}
  /\ EntriesOf \in [Groups -> SUBSET Entries]
  /\ Operations \subseteq AllOperations /\ Targets \subseteq Ids
  /\ MaxRequests \in Nat /\ None \notin Entries /\ Free \notin Entries \union {None}

VARIABLES
  active,         \* active[g]: the entry find_active_entry returns for g now
  overrides,      \* DeviceManager._overrides: the recorded entry, or Free
  driver,         \* what the controller of an emitter plays, for whom
  state,          \* SchedulerThread._state: the entry last seen per group
  previous,       \* the state the tick evaluated from (prev_state)
  tick,           \* program counter of the scheduler thread
  nowActive,      \* the tick's view of active
  snapshot,       \* the tick's copy of overrides
  todo,           \* todo[g]: actions evaluated and not yet dispatched
  failed,         \* groups whose last stop or start raised
  skipped,        \* groups whose last transition found an override
  client,         \* clients: emitter, recorded entry and steps to go
  requests        \* client requests so far

tickVars == <<state, previous, tick, nowActive, snapshot, todo, skipped>>
clientVars == <<client, requests>>
vars == <<active, overrides, driver, failed, tickVars, clientVars>>

Entry == Entries \union {None}
Idle == [who |-> "nobody", entry |-> None]
Phone == [who |-> "client", entry |-> None]
Scheduled(e) == [who |-> "schedule", entry |-> e]
Driver == [who : {"nobody", "client", "schedule"}, entry : Entry]
NoOverrides == [id \in Ids |-> Free]
Step == {"entry", "test", "mark", "play", "halt", "known", "clear"}
Action == {"clear_override", "stop", "start"}

TypeOK ==
  /\ active \in [Groups -> Entry] /\ nowActive \in [Groups -> Entry]
  /\ overrides \in [Ids -> Entry \union {Free}]
  /\ snapshot \in [Ids -> Entry \union {Free}]
  /\ driver \in [Ids -> Driver]
  /\ state \in [Groups -> Entry] /\ previous \in [Groups -> Entry]
  /\ tick \in {"clock", "snapshot", "dispatch"}
  /\ todo \in [Groups -> Seq(Action)]
  /\ failed \subseteq Groups /\ skipped \subseteq Groups
  /\ client \in [Clients -> [id : Ids, entry : Entry, steps : Seq(Step)]]
  /\ requests \in 0 .. MaxRequests

-----------------------------------------------------------------------------
(* The evaluator, pure: one group's actions from the snapshots.            *)

\* The emitter that plays a group's schedule: the group, or its only device.
Device(g) == IF Cardinality(Members[g]) >= 2 THEN g
             ELSE CHOOSE ip \in Members[g] : TRUE

\* _is_overridden: the emitter, or a member of it, is in the table.
IsOverridden(g, table) ==
  \/ table[Device(g)] # Free
  \/ Device(g) = g /\ \E ip \in Members[g] : table[ip] # Free

\* Mutant: the override goes when its entry comes, not when it ends.
ExpiresAtStart(g, table) == table[Device(g)] = nowActive[g]

\* The override was set against the entry that goes out.
Expires(g, table) == table[Device(g)] = state[g]

\* Mutant: the members of a group are not looked at.
BlockedById(g, table) == ~Expires(g, table) /\ table[Device(g)] # Free

\* A transition found an override that does not expire with it.
Blocked(g, table) == ~Expires(g, table) /\ IsOverridden(g, table)

When(condition, action) == IF condition THEN <<action>> ELSE <<>>

\* Mutant: an entry that ends is left running.
TransitionNoStop(g, table) ==
     When(Expires(g, table), "clear_override")
  \o When(nowActive[g] # None /\ ~Blocked(g, table), "start")

\* Mutant: the start is the "else" of the stop.
TransitionEither(g, table) ==
     When(Expires(g, table), "clear_override")
  \o When(~Blocked(g, table), IF state[g] # None THEN "stop" ELSE "start")

Transition(g, table) ==
     When(Expires(g, table), "clear_override")
  \o When(state[g] # None /\ ~Blocked(g, table), "stop")
  \o When(nowActive[g] # None /\ ~Blocked(g, table), "start")

Actions(g, table) ==
  IF nowActive[g] = state[g] THEN <<>> ELSE Transition(g, table)

-----------------------------------------------------------------------------
(* The scheduler thread.                                                   *)

\* The wall clock moves into or out of an entry of g, or the entry is edited.
ClockMoves(g) ==
  /\ \E e \in (EntriesOf[g] \union {None}) \ {active[g]} : active' = [active EXCEPT ![g] = e]
  /\ UNCHANGED <<overrides, driver, failed, tickVars, clientVars>>

ReadClock ==
  /\ tick = "clock"
  /\ nowActive' = active
  /\ tick' = "snapshot"
  /\ UNCHANGED <<active, overrides, driver, failed, state, previous, snapshot,
                 todo, skipped, clientVars>>

\* The table is copied under the lock.  evaluate() is pure and works on the
\* copy; its new state is stored before any action is dispatched.
Evaluate ==
  /\ tick = "snapshot"
  /\ snapshot' = overrides
  /\ todo' = [g \in Groups |-> Actions(g, overrides)]
  /\ skipped' = {g \in Groups : IF nowActive[g] = state[g] THEN g \in skipped
                                ELSE Blocked(g, overrides)}
  /\ state' = nowActive
  /\ previous' = state
  /\ tick' = "dispatch"
  /\ UNCHANGED <<active, overrides, driver, failed, nowActive, clientVars>>

\* DeviceManager.play and stop raise KeyError for an id without an emitter.
HasEmitter(id) == IF id \in Groups THEN Members[id] \cap Loaded # {} ELSE id \in Loaded

\* Matter groups are dispatched to the Matter adapter, which needs no emitter.
CanDispatch(g) == g \in Matter \/ HasEmitter(Device(g))

\* The actions of a group run in order; the order of the groups is that of a
\* dict, left open here.
NextAction(g, action) ==
  /\ tick = "dispatch" /\ todo[g] # <<>> /\ Head(todo[g]) = action
  /\ todo' = [todo EXCEPT ![g] = Tail(@)]
  /\ UNCHANGED <<active, state, previous, tick, nowActive, snapshot, skipped,
                 clientVars>>

\* _dispatch_matter knows start and stop only: clear_override is dropped.
DispatchClear(g) ==
  /\ NextAction(g, "clear_override")
  /\ overrides' = IF g \in Matter THEN overrides
                  ELSE [overrides EXCEPT ![Device(g)] = Free]
  /\ UNCHANGED <<driver, failed>>

DispatchStop(g) ==
  /\ NextAction(g, "stop")
  /\ CanDispatch(g)
  /\ driver' = [driver EXCEPT ![Device(g)] = Idle]
  /\ failed' = failed \ {g}
  /\ UNCHANGED overrides

DispatchStart(g) ==
  /\ NextAction(g, "start")
  /\ CanDispatch(g)
  /\ driver' = [driver EXCEPT ![Device(g)] = Scheduled(state[g])]
  /\ failed' = failed \ {g}
  /\ UNCHANGED overrides

\* play() or stop() raised, or there is no Matter adapter: that is logged and
\* the action is gone.
DispatchFails(g) ==
  /\ NextAction(g, "start") \/ NextAction(g, "stop")
  /\ failed' = failed \union {g}
  /\ UNCHANGED <<overrides, driver>>

\* The locals of the tick are forgotten.
TickEnds ==
  /\ tick = "dispatch" /\ \A g \in Groups : todo[g] = <<>>
  /\ tick' = "clock"
  /\ snapshot' = NoOverrides /\ previous' = state
  /\ UNCHANGED <<active, overrides, driver, failed, state, nowActive, todo,
                 skipped, clientVars>>

Tick ==
  \/ ReadClock \/ Evaluate \/ TickEnds
  \/ \E g \in Groups : DispatchClear(g) \/ DispatchStop(g)
                       \/ DispatchStart(g) \/ DispatchFails(g)

-----------------------------------------------------------------------------
(* The clients.  A request is a sequence of steps on the shared tables.    *)

\* The order of the DeviceManager calls in each handler.  Power off leaves the
\* controllers alone; power on touches neither table and is left out.
Program == [
  play         |-> <<"entry", "play", "mark">>,
  stop         |-> <<"test", "entry", "mark", "halt">>,
  powerOff     |-> <<"test", "entry", "mark">>,
  resume       |-> <<"known", "clear">>,
  reset        |-> <<"halt", "clear">>,
  identify     |-> <<"entry", "mark", "halt", "clear">>,
  mqttPlay     |-> <<"mark", "play">>,
  mqttStop     |-> <<"test", "mark", "halt">>,
  mqttPowerOff |-> <<"mark">>,
  mqttResume   |-> <<"clear">>]

\* The bridge drops a command for an unknown emitter; the handlers find out in
\* the DeviceManager call.
Accepted(op, id) ==
  op \in {"mqttPlay", "mqttStop", "mqttPowerOff", "mqttResume"} => HasEmitter(id)

\* Mutant: the group is recorded in place of its entry.
ActiveGroupFor(id) ==
  IF \E g \in Groups : id \in Members[g]
  THEN CHOOSE g \in Groups : id \in Members[g] ELSE id

\* _get_active_entry_for_ip: the entry of the group, or of a group with the ip.
ActiveEntryFor(id) ==
  IF id \in Groups THEN active[id]
  ELSE IF \E g \in Groups : id \in Members[g]
       THEN active[CHOOSE g \in Groups : id \in Members[g]] ELSE None

AtRest == [id |-> CHOOSE id \in Ids : TRUE, entry |-> None, steps |-> <<>>]
Busy(c) == client[c].steps # <<>>

GoOn(c, steps) ==
  client' = [client EXCEPT ![c] = IF steps = <<>> THEN AtRest
                                  ELSE [@ EXCEPT !.steps = steps]]
NextStep(c, step) == Busy(c) /\ Head(client[c].steps) = step
Done(c) == GoOn(c, Tail(client[c].steps))
Abort(c) == GoOn(c, <<>>)

Begin(c, op, id) ==
  /\ ~Busy(c) /\ requests < MaxRequests /\ Accepted(op, id)
  /\ requests' = requests + 1
  /\ client' = [client EXCEPT ![c] = [id |-> id, entry |-> None, steps |-> Program[op]]]
  /\ UNCHANGED <<active, overrides, driver, failed, tickVars>>

\* The recorded entry is read from the schedule, before the override is set.
ReadEntry(c) ==
  /\ NextStep(c, "entry")
  /\ client' = [client EXCEPT ![c].entry = ActiveEntryFor(client[c].id),
                              ![c].steps = Tail(@)]
  /\ UNCHANGED <<active, overrides, driver, failed, requests, tickVars>>

\* "if not is_overridden(ip)": an override that is there is left as it is.
TestOverride(c) ==
  /\ NextStep(c, "test")
  /\ IF overrides[client[c].id] = Free THEN Done(c)
     ELSE GoOn(c, When(\E i \in DOMAIN client[c].steps : client[c].steps[i] = "halt", "halt"))
  /\ UNCHANGED <<active, overrides, driver, failed, requests, tickVars>>

MarkOverride(c) ==
  /\ NextStep(c, "mark")
  /\ overrides' = [overrides EXCEPT ![client[c].id] = client[c].entry]
  /\ Done(c)
  /\ UNCHANGED <<active, driver, failed, requests, tickVars>>

ClearOverride(c) ==
  /\ NextStep(c, "clear")
  /\ overrides' = [overrides EXCEPT ![client[c].id] = Free]
  /\ Done(c)
  /\ UNCHANGED <<active, driver, failed, requests, tickVars>>

\* DeviceManager.play on behalf of a client.
Play(c) ==
  /\ NextStep(c, "play") /\ HasEmitter(client[c].id)
  /\ driver' = [driver EXCEPT ![client[c].id] = Phone]
  /\ Done(c)
  /\ UNCHANGED <<active, overrides, failed, requests, tickVars>>

\* KeyError, or ValueError for an effect that does not exist.
PlayRaises(c) ==
  /\ NextStep(c, "play")
  /\ Abort(c)
  /\ UNCHANGED <<active, overrides, driver, failed, requests, tickVars>>

\* DeviceManager.stop, reset or identify: KeyError, or the controller stops.
Halt(c) ==
  /\ NextStep(c, "halt")
  /\ IF HasEmitter(client[c].id)
     THEN driver' = [driver EXCEPT ![client[c].id] = Idle] /\ Done(c)
     ELSE Abort(c) /\ UNCHANGED driver
  /\ UNCHANGED <<active, overrides, failed, requests, tickVars>>

\* The resume handler answers 404 unless the id is a loaded device.
CheckKnown(c) ==
  /\ NextStep(c, "known")
  /\ IF client[c].id \in Loaded THEN Done(c) ELSE Abort(c)
  /\ UNCHANGED <<active, overrides, driver, failed, requests, tickVars>>

\* DELETE /api/schedule: the entry is gone from the configuration, then the
\* overrides that record it are dropped.
DeleteEntry(e) ==
  /\ requests < MaxRequests /\ \A g \in Groups : active[g] # e
  /\ requests' = requests + 1
  /\ overrides' = [id \in Ids |-> IF overrides[id] = e THEN Free ELSE overrides[id]]
  /\ UNCHANGED <<active, driver, failed, client, tickVars>>

ClientStep(c) ==
  \/ ReadEntry(c) \/ TestOverride(c) \/ MarkOverride(c) \/ ClearOverride(c)
  \/ Play(c) \/ PlayRaises(c) \/ Halt(c) \/ CheckKnown(c)

-----------------------------------------------------------------------------
Init ==
  /\ active \in [Groups -> Entry] /\ \A g \in Groups : active[g] \in EntriesOf[g] \union {None}
  /\ overrides = NoOverrides /\ driver = [id \in Ids |-> Idle]
  /\ state = [g \in Groups |-> None] /\ previous = state /\ nowActive = state
  /\ tick = "clock" /\ snapshot = overrides /\ todo = [g \in Groups |-> <<>>]
  /\ failed = {} /\ skipped = {}
  /\ client = [c \in Clients |-> AtRest] /\ requests = 0

Next ==
  \/ Tick
  \/ \E g \in Groups : ClockMoves(g)
  \/ \E e \in Entries : DeleteEntry(e)
  \/ \E c \in Clients :
       \/ ClientStep(c)
       \/ \E op \in Operations, id \in Targets : Begin(c, op, id)

\* The scheduler polls for ever and swallows what a dispatch raises; a handler
\* that has begun ends.  Nobody has to make a request and the schedule does
\* not have to change.
Fairness == WF_vars(Tick) /\ \A c \in Clients : WF_vars(ClientStep(c))

Spec == Init /\ [][Next]_vars
FairSpec == Spec /\ Fairness

-----------------------------------------------------------------------------
(* Properties.                                                             *)

\* The override in the tick's copy was set against the entry that goes out.
EndsWithEntry(g) == previous[g] \notin {None, state[g]} /\ snapshot[Device(g)] = previous[g]

\* It records no entry, as every override of MQTT's does and a client's while nothing
\* is scheduled, and an entry begins where none was.  The evaluator compares None with
\* None and lets it go, though for MQTT's it "persists until the user explicitly
\* publishes a resume command" (infrastructure/mqtt_bridge.py:469).
EndsWithGap(g) == previous[g] = None /\ snapshot[Device(g)] = None /\ state[g] # None

\* A tick acts on a group only at a transition.  It takes an override off the table only
\* if that has ended, in one of the two ways; and it stops or starts the device only
\* then, or if its copy of the table had neither the device nor a member of the group.
\* What is not promised: that a member's override holds the group back when the group's
\* own has ended (evaluator.py:136), or that one set after the copy was made is heeded.
RespectsOverrides ==
  [][\A g \in Groups :
       tick = "dispatch" /\ UNCHANGED clientVars =>
         LET ended == EndsWithEntry(g) \/ EndsWithGap(g) IN
         /\ overrides'[Device(g)] # overrides[Device(g)] => ended
         /\ driver'[Device(g)] # driver[Device(g)] =>
              /\ previous[g] # state[g]
              /\ ended \/ ~IsOverridden(g, snapshot)]_vars

\* Between ticks, no device plays an entry that the scheduler has moved on
\* from, except where an override made it skip the transition or the device
\* refused the new entry.
NoOrphan ==
  tick = "clock" =>
    \A g \in Groups \ (skipped \union failed) :
      driver[Device(g)].who = "schedule" => driver[Device(g)].entry = state[g]

\* An override that records the entry being played is gone after the tick that
\* sees the entry end.
Released(g, e) ==
  (tick = "clock" /\ overrides[Device(g)] = e /\ state[g] = e /\ active[g] # e)
    ~> (overrides[Device(g)] # e \/ active[g] = e)

TransitionReleasesOverride == \A g \in Groups \ Matter, e \in Entries : Released(g, e)

\* Nobody overrides the group or is about to.
Undisturbed(g) ==
  /\ ~IsOverridden(g, overrides)
  /\ \A c \in Clients : Busy(c) => client[c].id \notin Members[g] \union {g}

\* An entry that becomes active on a group nobody disturbs is played, unless
\* the device refuses.
TransitionStarts ==
  \A g \in Groups, e \in Entries :
    (active[g] = e /\ state[g] # e /\ Undisturbed(g) /\ g \notin failed)
      ~> (driver[Device(g)] = Scheduled(e) \/ active[g] # e \/ ~Undisturbed(g) \/ g \in failed)

(* What the documentation says and the code does not do.                   *)

\* "When the active schedule entry changes, overrides that were set against the
\* outgoing entry are cleared automatically", on Matter groups too.
OverrideEndsWithEntry == \A g \in Groups, e \in Entries : Released(g, e)

\* "The scheduler picks up on its next poll cycle": an active entry on a group
\* nobody disturbs any more is played, whatever happened before.
ScheduleDrives ==
  \A g \in Groups, e \in Entries :
    (active[g] = e /\ Undisturbed(g) /\ g \notin failed)
      ~> (driver[Device(g)] = Scheduled(e) \/ active[g] # e \/ ~Undisturbed(g) \/ g \in failed)

\* "Overriding a single member device correctly pauses the entire group's
\* schedule": a bulb that plays for a client is not driven by its group's entry.
OneDriverPerBulb ==
  \A g \in Groups : \A ip \in Members[g] \ {Device(g)} :
    driver[ip].who = "client" => driver[Device(g)].who # "schedule"

=============================================================================
