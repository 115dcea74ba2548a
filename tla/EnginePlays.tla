---------------------------- MODULE EnginePlays -----------------------------
(***************************************************************************)
(* An Engine called by one thread at a time is a Player.  The generation    *)
(* that was current when stop() last returned is nothing the engine keeps;  *)
(* a history variable records it.                                           *)
(***************************************************************************)
EXTENDS Engine

VARIABLE since    \* history: the generation when stop() last returned

Stopping == {"signal", "joinRender", "joinSend", "release", "fade"}
OneShot  == {"take", "claim"}

\* A caller is at one of these points.
Amid(points) == \E c \in Callers : caller[c].pc \in points

Phase == IF Amid(Stopping) THEN "stopping"
         ELSE IF running \/ Amid(Starting \union OneShot) THEN "playing"
         ELSE "stopped"

P == INSTANCE Player WITH MaxPlays <- MaxCalls, Times <- 0 .. MaxTime,
                          phase <- Phase, asked <- generation

historyVars == <<vars, since>>

HistoryInit == Init /\ since = 0
HistoryNext ==
  /\ Next
  /\ since' = IF \E c \in Callers : StopFade(c) THEN generation ELSE since

HistorySpec == HistoryInit /\ [][HistoryNext]_historyVars
FairHistorySpec == HistorySpec /\ Fairness

\* Through hot-swaps, stops and restarts, with frames queued and in the hands of
\* both threads, the light shows what a Player may show: an effect that stop()
\* ended, or that a shown successor replaced, is never seen again.
PlaysAsAsked == P!Spec

\* Every effect that is left to play appears, and every stop() returns.
PlayerGoesOn == P!Live
=============================================================================
