------------------------------ MODULE Trigger ------------------------------
(***************************************************************************)
(* A sensor-driven light: the signal bus, the OperatorManager's tick thread *)
(* (operators/__init__.py), a TriggerOperator (operators/trigger.py) and    *)
(* the REST handlers that override it (handlers/device.py).                 *)
(*                                                                         *)
(* The trigger's condition is that the sensor reads TRUE.  What the group   *)
(* shows is "off", the trigger's effect or one the user asked for.          *)
(* The manager's lock makes a dispatch, a tick and a notification atomic;   *)
(* a handler acts on the group and notifies the manager in two steps.       *)
(***************************************************************************)
EXTENDS Naturals

CONSTANTS
  Watchdog, Debounce,  \* off_trigger.minutes and debounce_seconds, in time units
  MaxReadings,         \* bound: changes of the sensor
  MaxOverrides,        \* bound: requests of the user
  MaxActionFailures    \* bound: exceptions from DeviceManager.play()/stop()

ASSUME TriggerAssumption ==
  /\ Watchdog \in Nat \ {0} /\ Debounce \in Nat
  /\ {MaxReadings, MaxOverrides, MaxActionFailures} \subseteq Nat

Never == Watchdog + 1

VARIABLES
  sensor,       \* the signal's value on the bus
  seen,         \* _prev_signals: its value at the last poll
  offType,      \* off_trigger.type
  active,       \* _active
  sinceTrigger, \* age of _last_trigger
  sinceAction,  \* age of _last_action
  lit,          \* what the group shows
  handler,      \* a request half done: "played", "notified" or "none"
  raced,        \* history: the trigger acted in the middle of a request
  readings, overrides, actionFailures

triggerState == <<active, sinceTrigger, sinceAction>>
triggerBounds == <<readings, overrides>>
triggerVars == <<sensor, seen, offType, triggerState, lit, handler, raced,
                 triggerBounds, actionFailures>>

TriggerTypeOK ==
  /\ {sensor, seen, active, raced} \subseteq BOOLEAN
  /\ offType \in {"watchdog", "condition"}
  /\ sinceTrigger \in 0..Never /\ sinceAction \in 0..Debounce
  /\ lit \in {"off", "trigger", "user"}
  /\ handler \in {"none", "played", "notified"}
  /\ readings \in 0..MaxReadings /\ overrides \in 0..MaxOverrides
  /\ actionFailures \in 0..MaxActionFailures

\* start() takes the signals it finds as already seen.
TriggerInit ==
  /\ sensor \in BOOLEAN /\ seen = sensor
  /\ offType \in {"watchdog", "condition"}
  /\ active = FALSE /\ sinceTrigger = Never /\ sinceAction = Debounce
  /\ lit = "off" /\ handler = "none" /\ raced = FALSE
  /\ readings = 0 /\ overrides = 0 /\ actionFailures = 0

\* The group is told to show something, or the call raises and is logged.
Act(shows, nowActive) ==
  \/ /\ lit' = shows /\ active' = nowActive /\ sinceAction' = 0
     /\ raced' = (raced \/ handler # "none")
     /\ UNCHANGED actionFailures
  \/ /\ actionFailures < MaxActionFailures /\ actionFailures' = actionFailures + 1
     /\ UNCHANGED <<lit, active, sinceAction, raced>>

Refrain == UNCHANGED <<lit, active, sinceAction, raced, actionFailures>>

\* The debounce, then the schedule conflict policy, may suppress the action.
FireOn ==
  \/ Refrain
  \/ sinceAction >= Debounce /\ Act("trigger", TRUE)

\* Mutant of FireOff: the state is reset whether or not the action succeeds.
FireOffOnce ==
  /\ active' = FALSE
  /\ \/ /\ lit' = "off" /\ sinceAction' = 0
        /\ raced' = (raced \/ handler # "none")
        /\ UNCHANGED actionFailures
     \/ /\ actionFailures < MaxActionFailures /\ actionFailures' = actionFailures + 1
        /\ UNCHANGED <<lit, sinceAction, raced>>

FireOff == Act("off", FALSE)

\* on_signal()
OnSignal(matched) ==
  /\ sinceTrigger' = IF matched THEN 0 ELSE sinceTrigger
  /\ \/ matched /\ ~active /\ FireOn
     \/ ~matched /\ active /\ offType = "condition" /\ FireOff
     \/ matched = active /\ Refrain
     \/ ~matched /\ active /\ offType = "watchdog" /\ Refrain

\* The tick thread finds that the signal changed since its last snapshot.
Poll ==
  /\ sensor # seen
  /\ seen' = sensor
  /\ OnSignal(sensor)
  /\ UNCHANGED <<sensor, offType, handler, triggerBounds>>

\* on_tick()
OnTick ==
  /\ active /\ offType = "watchdog"
  /\ sinceTrigger = Watchdog
  /\ FireOff
  /\ UNCHANGED <<sensor, seen, offType, sinceTrigger, handler, triggerBounds>>

\* Time, as far as the watchdog and the debounce tell it.
Older(age, limit) == IF age < limit THEN age + 1 ELSE age

Age ==
  /\ sinceTrigger' = IF sinceTrigger = Never THEN Never ELSE Older(sinceTrigger, Watchdog)
  /\ sinceAction' = Older(sinceAction, Debounce)
  /\ UNCHANGED <<sensor, seen, offType, active, lit, handler, raced, triggerBounds,
                 actionFailures>>

Sense ==
  /\ readings < MaxReadings /\ readings' = readings + 1
  /\ sensor' = ~sensor
  /\ UNCHANGED <<seen, offType, triggerState, lit, handler, raced, overrides,
                 actionFailures>>

----------------------------------------------------------------------------
(* Requests: a play acts, then notifies; a stop notifies, then acts        *)

Request ==
  handler = "none" /\ overrides < MaxOverrides /\ overrides' = overrides + 1

\* Mutant of Reset: the group's name is compared with its "group:" prefix.
ResetNothing == UNCHANGED active

\* notify_group_override() and on_group_override()
Reset == active' = FALSE

Play ==
  /\ Request
  /\ lit' = "user" /\ handler' = "played"
  /\ UNCHANGED <<sensor, seen, offType, triggerState, raced, readings, actionFailures>>

PlayNotifies ==
  /\ handler = "played"
  /\ Reset /\ handler' = "none"
  /\ UNCHANGED <<sensor, seen, offType, sinceTrigger, sinceAction, lit, raced,
                 triggerBounds, actionFailures>>

StopNotifies ==
  /\ Request
  /\ Reset /\ handler' = "notified"
  /\ UNCHANGED <<sensor, seen, offType, sinceTrigger, sinceAction, lit, raced, readings,
                 actionFailures>>

StopActs ==
  /\ handler = "notified"
  /\ lit' = "off" /\ handler' = "none"
  /\ UNCHANGED <<sensor, seen, offType, triggerState, raced, triggerBounds,
                 actionFailures>>

----------------------------------------------------------------------------
TriggerNext ==
  \/ Poll \/ OnTick \/ Age \/ Sense
  \/ Play \/ PlayNotifies \/ StopNotifies \/ StopActs

\* The tick thread runs, time passes and a handler goes on.
TriggerFairness ==
  /\ WF_triggerVars(Poll) /\ WF_triggerVars(OnTick) /\ WF_triggerVars(Age)
  /\ WF_triggerVars(PlayNotifies \/ StopActs)

TriggerSpec == TriggerInit /\ [][TriggerNext]_triggerVars /\ TriggerFairness

----------------------------------------------------------------------------
(* Properties                                                              *)

\* With a watchdog, lights the trigger turned on go off again, or somebody
\* else takes the group over, even if the off action fails at first; unless
\* the trigger fired in the middle of a request.
WatchdogTurnsOff == []<>(offType = "watchdog" /\ lit = "trigger" => raced)

\* The trigger never turns off what the user asked for: once the request is
\* complete, the off action of an earlier motion does not follow.
UserKeepsGroup ==
  [][lit = "user" /\ handler = "none" /\ ~raced => lit' # "off" \/ handler' # "none"]_triggerVars
=============================================================================
