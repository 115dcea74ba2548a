------------------------------ MODULE Entries ------------------------------
(***************************************************************************)
(* resolve_entries() and find_active_entry() of schedule_utils.py, for the  *)
(* entries of one group.  Time is counted in hours from the midnight of     *)
(* day 0; days, and the times of the sun, repeat after Week days.           *)
(***************************************************************************)
EXTENDS Integers, Sequences

CONSTANTS DayHours,   \* hours of a day
          Week,       \* days of a week
          SunHour,    \* the sun's event on each day of the week, NoSun if none
          NoSun,
          Offsets,    \* of a symbolic time: sun-1h .. sun+1h, midnight-1h ..
          DaySets,    \* values of "days"
          Schedules   \* a group's entries in the file

Weekdays == 0..Week - 1

\* A fixed HH:MM is midnight plus its hours.
Time == {"midnight", "sun"} \X Offsets
EntrySpec == [start : Time, stop : Time, days : DaySets, enabled : BOOLEAN]

ASSUME EntriesAssumption ==
  /\ DayHours \in Nat \ {0} /\ Week \in Nat \ {0}
  /\ SunHour \in [Weekdays -> 0..DayHours - 1 \union {NoSun}] /\ NoSun \notin Int
  /\ Offsets \subseteq -DayHours + 1..DayHours - 1 /\ DaySets \subseteq SUBSET Weekdays
  /\ Schedules \subseteq Seq(EntrySpec)

VARIABLES
  specs,     \* config["schedule"], in file order
  clock      \* hours since the midnight of day 0

entriesVars == <<specs, clock>>

EntriesTypeOK == specs \in Seq(EntrySpec) /\ clock \in 0..Week * DayHours - 1

----------------------------------------------------------------------------
(* schedule_utils.py                                                       *)

Weekday(d) == d % Week

\* entry_runs_on_day(): no "days" means every day.
RunsOnDay(spec, d) == spec.days = {} \/ Weekday(d) \in spec.days

\* parse_time_spec(): the hour, or NoSun on a day without the event.
ParseTime(time, d) ==
  CASE time[1] = "midnight" -> d * DayHours + time[2]
    [] SunHour[Weekday(d)] = NoSun -> NoSun
    [] OTHER -> d * DayHours + SunHour[Weekday(d)] + time[2]

Resolvable(spec, d) ==
  /\ spec.enabled /\ RunsOnDay(spec, d)
  /\ NoSun \notin {ParseTime(spec.start, d), ParseTime(spec.stop, d)}

\* Mutant of Overnight: an entry that ends when it starts lasts a day.
OvernightFrom(start, stop) == stop <= start

Overnight(start, stop) == stop < start

\* Start and stop of entry i as resolve_entries() has them for day d.
ResolvedEntry(i, d) ==
  LET start == ParseTime(specs[i].start, d)
      stop == ParseTime(specs[i].stop, d)
  IN [start |-> start, stop |-> IF Overnight(start, stop) THEN stop + DayHours ELSE stop]

\* Entry i is among those resolved for day d, and runs.
ActiveOn(i, d) ==
  /\ Resolvable(specs[i], d)
  /\ ResolvedEntry(i, d).start <= clock /\ clock < ResolvedEntry(i, d).stop

\* Mutant of DaysConsidered: an entry that began yesterday is not looked for.
OnlyToday(today) == <<today>>

DaysConsidered(today) == <<today, today - 1>>

\* Which entries are active for which of the days.
ActiveEntries(days) ==
  {p \in (1..Len(days)) \X (1..Len(specs)) : ActiveOn(p[2], days[p[1]])}

\* Days come first, then the order of the file.
NoLater(p, q) == p[1] < q[1] \/ (p[1] = q[1] /\ p[2] <= q[2])

\* find_active_entry(): the index of the entry, 0 if none.
FindActiveEntry ==
  LET active == ActiveEntries(DaysConsidered(clock \div DayHours))
  IN IF active = {} THEN 0
     ELSE (CHOOSE p \in active : \A q \in active : NoLater(p, q))[2]

----------------------------------------------------------------------------
EntriesInit == specs = <<>> /\ clock = 0

ClockTick == clock' = (clock + 1) % (Week * DayHours) /\ UNCHANGED specs

LoadSchedule == specs = <<>> /\ specs' \in Schedules /\ UNCHANGED clock

EntriesNext == ClockTick \/ LoadSchedule
EntriesSpec == EntriesInit /\ [][EntriesNext]_entriesVars

----------------------------------------------------------------------------
(* Properties                                                              *)

\* Entry i runs at time t because of its occurrence of day d: from its start on
\* that day to the first of its stops of that day and the next that is not
\* before the start (with offsets there may be none: then it does not run).
RunsSince(i, d, t) ==
  LET start == ParseTime(specs[i].start, d)
      stop == ParseTime(specs[i].stop, d)
      stops == {s \in {stop, stop + DayHours} : s >= start}
  IN Resolvable(specs[i], d) /\ start <= t /\ stops # {} /\ \A s \in stops : t < s

\* Seen over days, not from today and yesterday alone: an entry is found exactly
\* if one runs, but for the hours of an offset before the midnight of its day;
\* no later entry is found while an earlier one of the same day runs.  The week
\* has days without the sun's event, and entries that pass midnight.
FindsWhatRuns ==
  LET today == clock \div DayHours
      near == today - 3..today + 3
      found == FindActiveEntry
  IN IF found = 0
     THEN \A i \in 1..Len(specs), d \in near : RunsSince(i, d, clock) => d > today
     ELSE \E d \in near : /\ RunsSince(found, d, clock)
                          /\ \A i \in 1..found - 1 : ~RunsSince(i, d, clock)
=============================================================================
