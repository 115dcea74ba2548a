---------------------------- MODULE MCScheduler ----------------------------
(* A porch of two bulbs with two entries that may follow each other, and a   *)
(* plug group: a switch and a lamp on the Matter side.                       *)
EXTENDS Scheduler, TLC

CONSTANTS bulb1, bulb2, switch, lamp, porch, plug, evening, night

PorchIps == {bulb1, bulb2}
PorchMembers == porch :> PorchIps
PorchEntries == porch :> {evening, night}

PlugMembers == plug :> {switch, lamp}
PlugEntries == plug :> {evening, night}
=============================================================================
