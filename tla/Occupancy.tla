----------------------------- MODULE Occupancy -----------------------------
(***************************************************************************)
(* OccupancyOperator (operators/occupancy.py) under the tick thread of the  *)
(* OperatorManager (operators/__init__.py): the thread polls the signal bus *)
(* and tells the operator what changed, and lets it look at the clock once  *)
(* a second.  The last state is restored from SQLite after a restart.       *)
(***************************************************************************)
EXTENDS Naturals, FiniteSets

CONSTANTS Locks,
          Confirm,        \* away_confirm_seconds
          MaxTurns,       \* bound: times a lock is turned
          MaxRestarts,    \* bound: restarts of the server
          MaxDbFaults     \* bound: writes to the database that fail

ASSUME OccupancyAssumption == {Confirm, MaxTurns, MaxRestarts, MaxDbFaults} \subseteq Nat

HOME == "HOME"
AWAY == "AWAY"
Unheard == "unheard"
NotSince == Confirm + 1    \* no time: _all_locked_since is None

Shown == {"locked", "unlocked", Unheard}

VARIABLES
  bolt,         \* the locks themselves
  lockSignal,   \* their signals on the bus
  prevSignals,  \* the tick thread's _prev_signals
  lockStates,   \* _lock_states
  lockedFor,    \* seconds since _all_locked_since, up to Confirm
  occupancy,    \* _occupancy
  occupancySignal, database,
  tickDue,      \* a second has passed since the last on_tick()
  openAgo,      \* seconds since a lock the operator knows was seen unlocked
  turns, serverRestarts, dbFaults

operatorVars == <<lockStates, lockedFor, occupancy, occupancySignal, database, openAgo>>
lockBounds == <<turns, serverRestarts, dbFaults>>
occupancyVars == <<bolt, lockSignal, prevSignals, operatorVars, tickDue, lockBounds>>

OccupancyTypeOK ==
  /\ bolt \in [Locks -> {"locked", "unlocked"}]
  /\ {lockSignal, prevSignals, lockStates} \subseteq [Locks -> Shown]
  /\ lockedFor \in 0..NotSince /\ openAgo \in 0..Confirm /\ tickDue \in BOOLEAN
  /\ {occupancy, occupancySignal} \subseteq {HOME, AWAY} /\ database \in {HOME, AWAY, "none"}
  /\ turns \in 0..MaxTurns /\ serverRestarts \in 0..MaxRestarts /\ dbFaults \in 0..MaxDbFaults

OccupancyInit ==
  /\ bolt = [l \in Locks |-> "unlocked"] /\ lockSignal = [l \in Locks |-> Unheard]
  /\ prevSignals = lockSignal /\ lockStates = lockSignal
  /\ lockedFor = NotSince /\ occupancy = HOME /\ occupancySignal = HOME /\ database = "none"
  /\ tickDue = FALSE /\ openAgo = 0
  /\ turns = 0 /\ serverRestarts = 0 /\ dbFaults = 0

----------------------------------------------------------------------------
TurnLock(l) ==
  /\ turns < MaxTurns /\ turns' = turns + 1
  /\ bolt' = [bolt EXCEPT ![l] = IF @ = "locked" THEN "unlocked" ELSE "locked"]
  /\ UNCHANGED <<lockSignal, prevSignals, operatorVars, tickDue, serverRestarts,
                 dbFaults>>

\* The lock's adapter writes its state to the bus.
ReportLock(l) ==
  /\ lockSignal[l] # bolt[l] /\ lockSignal' = [lockSignal EXCEPT ![l] = bolt[l]]
  /\ UNCHANGED <<bolt, prevSignals, operatorVars, tickDue, lockBounds>>

ASecondPasses ==
  /\ ~tickDue /\ tickDue' = TRUE
  /\ lockedFor' = IF lockedFor < Confirm THEN lockedFor + 1 ELSE lockedFor
  /\ openAgo' = IF openAgo < Confirm THEN openAgo + 1 ELSE openAgo
  /\ UNCHANGED <<bolt, lockSignal, prevSignals, lockStates, occupancy, occupancySignal,
                 database, lockBounds>>

----------------------------------------------------------------------------
(* One pass of _tick_loop()                                                *)

Changed == {l \in Locks : lockSignal[l] # prevSignals[l]}
Opened == {l \in Changed : lockSignal[l] = "unlocked"}

\* Mutant of TimerAfter: the time starts with the first lock, not the last.
TimerAfterFirst(known) ==
  IF Changed = {} THEN lockedFor
  ELSE IF \A l \in Locks : known[l] # "locked" THEN NotSince
  ELSE IF lockedFor = NotSince THEN 0
  ELSE lockedFor

\* on_signal() of all that changed: the order of the calls does not matter.
TimerAfter(known) ==
  IF Changed = {} THEN lockedFor
  ELSE IF \E l \in Locks : known[l] = "unlocked" THEN NotSince
  ELSE IF lockedFor = NotSince THEN 0
  ELSE lockedFor

\* Mutant of SetOccupancy: the database comes first, and an error of it ends the call.
SetOccupancyPersistFirst(new) ==
  /\ occupancy' = new
  /\ IF new = occupancy THEN UNCHANGED <<occupancySignal, database, dbFaults>>
     ELSE \/ occupancySignal' = new /\ database' = new /\ UNCHANGED dbFaults
          \/ /\ dbFaults < MaxDbFaults /\ dbFaults' = dbFaults + 1
             /\ UNCHANGED <<occupancySignal, database>>

\* _set_occupancy(): the bus is told, and the database if it can be written.
SetOccupancy(new) ==
  /\ occupancy' = new
  /\ IF new = occupancy THEN UNCHANGED <<occupancySignal, database, dbFaults>>
     ELSE /\ occupancySignal' = new
          /\ \/ database' = new /\ UNCHANGED dbFaults
             \/ dbFaults < MaxDbFaults /\ dbFaults' = dbFaults + 1 /\ UNCHANGED database

\* The changes are dispatched, then on_tick() looks at the clock if it is due.
PollSignals ==
  LET known == [l \in Locks |-> IF l \in Changed THEN lockSignal[l] ELSE lockStates[l]]
      home == IF Opened # {} THEN HOME ELSE occupancy
  IN /\ Changed # {} \/ tickDue
     /\ prevSignals' = lockSignal /\ lockStates' = known /\ lockedFor' = TimerAfter(known)
     /\ SetOccupancy(IF tickDue /\ lockedFor' = Confirm THEN AWAY ELSE home)
     /\ tickDue' = FALSE
     /\ openAgo' = IF \E l \in Locks : known[l] = "unlocked" THEN 0 ELSE openAgo
     /\ UNCHANGED <<bolt, lockSignal, turns, serverRestarts>>

\* Signals that are on the bus when start() copies it are not dispatched.
ServerRestarts ==
  /\ serverRestarts < MaxRestarts /\ serverRestarts' = serverRestarts + 1
  /\ \E early \in SUBSET Locks :
       lockSignal' = [l \in Locks |-> IF l \in early THEN bolt[l] ELSE Unheard]
  /\ prevSignals' = lockSignal' /\ lockStates' = [l \in Locks |-> Unheard]
  /\ lockedFor' = NotSince /\ tickDue' = FALSE /\ openAgo' = 0
  /\ occupancy' = (IF database = AWAY THEN AWAY ELSE HOME) /\ occupancySignal' = occupancy'
  /\ UNCHANGED <<bolt, database, turns, dbFaults>>

----------------------------------------------------------------------------
OccupancyNext ==
  \/ \E l \in Locks : TurnLock(l) \/ ReportLock(l)
  \/ ASecondPasses \/ PollSignals \/ ServerRestarts

\* Time passes, the thread polls, and adapters report.
OccupancyFairness ==
  /\ WF_occupancyVars(ASecondPasses) /\ WF_occupancyVars(PollSignals)
  /\ \A l \in Locks : WF_occupancyVars(ReportLock(l))

OccupancySpec == OccupancyInit /\ [][OccupancyNext]_occupancyVars /\ OccupancyFairness

----------------------------------------------------------------------------
(* Properties                                                              *)

\* The house is declared empty only when all locks the operator has heard of
\* have been locked for the time of confirmation, whatever was opened and closed
\* meanwhile; and a lock that is heard to open brings it back at once.
AwayIsConfirmed ==
  [][/\ (occupancy # AWAY /\ occupancy' = AWAY /\ serverRestarts' = serverRestarts
           => openAgo = Confirm)
     /\ \A l \in Locks :
          lockStates'[l] = "unlocked" /\ lockStates[l] # "unlocked" => occupancy' = HOME
    ]_occupancyVars

\* In the end, when the operator has heard of all locks since it started, the
\* house is empty exactly if all are locked; the bus says so, and the database,
\* unless a write of it has failed.
OccupancyFollowsLocks ==
  <>[](/\ occupancySignal = occupancy
       /\ dbFaults = 0 /\ database # "none" => database = occupancy
       /\ (\A l \in Locks : lockStates[l] # Unheard)
          => (occupancy = AWAY <=> \A l \in Locks : bolt[l] = "locked"))
=============================================================================
