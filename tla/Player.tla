------------------------------- MODULE Player -------------------------------
(***************************************************************************)
(* What an Engine promises to those who call it one at a time (the          *)
(* docstrings of start() and stop(), engine.py).  Effects are numbered in   *)
(* the order they are asked for.  While an effect plays, and until stop()   *)
(* returns, the light shows frames, never going back; a frame is of an      *)
(* effect asked for since stop() last returned.  Then nothing changes the   *)
(* light until an effect is asked for.                                      *)
(***************************************************************************)
EXTENDS Naturals

CONSTANTS
  MaxPlays,       \* bound: effects asked for in a behaviour
  Times           \* render times

VARIABLES
  phase,          \* "stopped", "playing" or "stopping"
  asked,          \* the effects asked for so far, the number of the last
  since,          \* asked, when stop() last returned
  light           \* the frame that is shown

playerVars == <<phase, asked, since, light>>

Dark  == [gen |-> 0, at |-> 0]
Solid == [gen |-> 0, at |-> 1]

Init == phase = "stopped" /\ asked = 0 /\ since = 0 /\ light = Dark

\* start(): an effect takes over from the one that plays, or from none.
Play ==
  /\ phase # "stopping" /\ phase' = "playing"
  /\ asked' = asked + 1
  /\ UNCHANGED <<since, light>>

\* A one-shot effect shows its colour and counts as playing.
Flash ==
  /\ phase # "stopping" /\ phase' = "playing"
  /\ light' = Solid
  /\ UNCHANGED <<asked, since>>

Follows(f) ==
  light.gen > 0 => light.gen < f.gen \/ (light.gen = f.gen /\ light.at <= f.at)

\* A frame of effect g.
Show(g) ==
  /\ phase # "stopped"
  /\ \E at \in Times : Follows([gen |-> g, at |-> at]) /\ light' = [gen |-> g, at |-> at]
  /\ UNCHANGED <<phase, asked, since>>

BeginStop ==
  /\ phase # "stopping" /\ phase' = "stopping"
  /\ UNCHANGED <<asked, since, light>>

\* stop() returns, with the light black unless no fade was asked for.
EndStop ==
  /\ phase = "stopping" /\ phase' = "stopped"
  /\ since' = asked
  /\ light' \in {Dark, light}
  /\ UNCHANGED asked

Next == Play \/ Flash \/ BeginStop \/ EndStop \/ \E g \in since + 1 .. asked : Show(g)

Spec == Init /\ [][Next]_playerVars

\* The first frame of the effect asked for last.
Appear(g) == phase = "playing" /\ asked = g /\ light.gen # g /\ Show(g)

\* stop() returns, and the effect that is left to play appears.
Live == WF_playerVars(EndStop) /\ \A g \in 1 .. MaxPlays : WF_playerVars(Appear(g))
=============================================================================
