---------------------------- MODULE EngineProofs ----------------------------
(***************************************************************************)
(* Theorems about Engine for every value of its constants.  TypeOK holds   *)
(* whoever calls.  One pair of threads, silence once stopped, and that the *)
(* engine is a Player, hold when calls are serialised and joins do not     *)
(* give up: the runs engine_concurrent and engine_full show what happens   *)
(* without.                                                                *)
(***************************************************************************)
EXTENDS EnginePlays, FiniteSetTheorems, TLAPS

-----------------------------------------------------------------------------
(* Type correctness.                                                       *)

\* What a step leaves alone keeps its type.
LEMMA Untouched ==
  ASSUME TypeOK
  PROVE  /\ UNCHANGED <<engineVars, calls, now, light>> => StateTypeOK'
         /\ UNCHANGED <<queueVars, delayVars>> => QueueTypeOK'
         /\ UNCHANGED <<renderHandle, renderer>> => RendererTypeOK'
         /\ UNCHANGED <<sendHandle, sender>> => SenderTypeOK'
         /\ UNCHANGED caller => CallerTypeOK'
         /\ UNCHANGED <<generation, caller, renderer>> => StartOrder'
<1>1. UNCHANGED <<engineVars, calls, now, light>> => StateTypeOK'
  BY DEF TypeOK, StateTypeOK, engineVars
<1>2. UNCHANGED <<queueVars, delayVars>> => QueueTypeOK'
  BY DEF TypeOK, QueueTypeOK, queueVars, delayVars
<1>3. UNCHANGED <<renderHandle, renderer>> => RendererTypeOK'
  BY DEF TypeOK, RendererTypeOK
<1>4. UNCHANGED <<sendHandle, sender>> => SenderTypeOK'
  BY DEF TypeOK, SenderTypeOK
<1>5. UNCHANGED caller => CallerTypeOK'
  BY DEF TypeOK, CallerTypeOK
<1>6. UNCHANGED <<generation, caller, renderer>> => StartOrder'
  BY DEF TypeOK, StartOrder, Live
<1> QED BY <1>1, <1>2, <1>3, <1>4, <1>5, <1>6

LEMMA InitTypeOK == Init => TypeOK
<1> SUFFICES ASSUME Init PROVE TypeOK
  OBVIOUS
<1> USE EngineAssumption DEF Init, None
<1>1. StateTypeOK
  <2>1. running \in BOOLEAN /\ stopEvent \in BOOLEAN
    BY Zenon
  <2>2. effect \in 0 .. MaxCalls /\ calls \in 0 .. MaxCalls /\ now \in 0 .. MaxTime
    BY DEF EngineAssumption
  <2> QED BY <2>1, <2>2 DEF StateTypeOK, Shown
<1>2. QueueTypeOK
  BY DEF QueueTypeOK
<1>3. RendererTypeOK
  BY DEF RendererTypeOK, NoRenderer, RenderPC
<1>4. SenderTypeOK
  BY DEF SenderTypeOK, NoSender, SendPC
<1>5. CallerTypeOK
  BY DEF CallerTypeOK, CallPC
<1>6. StartOrder
  BY DEF StartOrder, NoRenderer, Live, Starting
<1> QED BY <1>1, <1>2, <1>3, <1>4, <1>5, <1>6 DEF TypeOK

\* A program counter set by RenderGoto or SendGoto.
LEMMA RenderGotoTypeOK ==
  ASSUME TypeOK, NEW t \in Threads, NEW pc \in RenderPC \ {"render", "put"},
         RenderGoto(t, pc), UNCHANGED renderHandle, Live(renderer[t]),
         UNCHANGED <<generation, caller>>
  PROVE  RendererTypeOK' /\ StartOrder'
<1>1. RendererTypeOK'
  BY DEF TypeOK, RendererTypeOK, RenderGoto
<1>2. StartOrder'
  BY DEF TypeOK, StartOrder, RendererTypeOK, RenderGoto, Live
<1> QED BY <1>1, <1>2

LEMMA RenderTypeOK ==
  ASSUME TypeOK, NEW t \in Threads, RenderThread(t)
  PROVE  TypeOK'
<1> USE Untouched DEF engineVars, queueVars, delayVars, handleVars
<1>1. CASE RenderExit(t)
  <2>1. RendererTypeOK'
    BY <1>1 DEF RenderExit, NoRenderer, TypeOK, RendererTypeOK, RenderPC
  <2>2. StartOrder'
    BY <1>1 DEF RenderExit, NoRenderer, TypeOK, StartOrder, RendererTypeOK, Live
  <2> QED BY <1>1, <2>1, <2>2 DEF RenderExit, TypeOK
<1>2. CASE RenderProceed(t)
  <2>1. RendererTypeOK' /\ StartOrder'
    BY <1>2, RenderGotoTypeOK DEF RenderProceed, RenderPC, Live
  <2> QED BY <1>2, <2>1 DEF RenderProceed, TypeOK
<1>3. CASE RenderSnapshot(t)
  <2>1. generation > 0 /\ generation \in Nat
    BY <1>3 DEF RenderSnapshot, TypeOK, StartOrder, StateTypeOK, Live
  <2>2. RendererTypeOK'
    BY <1>3, <2>1 DEF RenderSnapshot, TypeOK, RendererTypeOK, RenderPC
  <2>3. StartOrder'
    BY <1>3, <2>1 DEF RenderSnapshot, TypeOK, StartOrder, RendererTypeOK, Live
  <2> QED BY <1>3, <2>2, <2>3 DEF RenderSnapshot, TypeOK
<1>4. CASE RenderFrame(t)
  <2>1. [gen |-> renderer[t].gen, at |-> now] \in Frame \ {Dark}
    BY <1>4 DEF RenderFrame, TypeOK, RendererTypeOK, StateTypeOK, Frame, Dark
  <2>2. RendererTypeOK'
    BY <1>4, <2>1 DEF RenderFrame, TypeOK, RendererTypeOK, RenderPC
  <2>3. StartOrder'
    BY <1>4 DEF RenderFrame, TypeOK, StartOrder, RendererTypeOK, Live
  <2>4. now' \in 0 .. MaxTime
    BY <1>4, EngineAssumption DEF RenderFrame, TypeOK, StateTypeOK, EngineAssumption
  <2>5. StateTypeOK'
    BY <1>4, <2>4 DEF RenderFrame, TypeOK, StateTypeOK
  <2> QED BY <1>4, <2>2, <2>3, <2>5 DEF RenderFrame, TypeOK
<1>5. CASE RenderNothing(t)
  <2>1. RendererTypeOK' /\ StartOrder'
    BY <1>5, RenderGotoTypeOK DEF RenderNothing, RenderPC, Live
  <2> QED BY <1>5, <2>1 DEF RenderNothing, TypeOK
<1>6. CASE RenderPut(t)
  <2>1. RendererTypeOK'
    BY <1>6 DEF RenderPut, NoRenderer, TypeOK, RendererTypeOK, RenderPC
  <2>2. StartOrder'
    BY <1>6 DEF RenderPut, NoRenderer, TypeOK, StartOrder, RendererTypeOK, Live
  <2>3. renderer[t].frame \in Frame
    BY <1>6 DEF RenderPut, TypeOK, RendererTypeOK
  <2>4. QueueTypeOK'
    BY <1>6, <2>3, EngineAssumption DEF EngineAssumption, RenderPut, HasRoom, TypeOK, QueueTypeOK
  <2> QED BY <1>6, <2>1, <2>2, <2>4 DEF RenderPut, TypeOK
<1> QED BY <1>1, <1>2, <1>3, <1>4, <1>5, <1>6 DEF RenderThread

LEMMA SendGotoTypeOK ==
  ASSUME TypeOK, NEW t \in Threads, NEW pc \in SendPC, SendGoto(t, pc), UNCHANGED sendHandle
  PROVE  SenderTypeOK'
  BY DEF TypeOK, SenderTypeOK, SendGoto

LEMMA SendTypeOK ==
  ASSUME TypeOK, NEW t \in Threads, SendThread(t)
  PROVE  TypeOK'
<1> USE Untouched DEF engineVars, queueVars, delayVars, handleVars
<1>1. CASE SendExit(t)
  <2>1. SenderTypeOK'
    BY <1>1 DEF SendExit, NoSender, TypeOK, SenderTypeOK, SendPC
  <2> QED BY <1>1, <2>1 DEF SendExit, TypeOK
<1>2. CASE SendPop(t)
  <2>1. CASE pipeline = <<>>
    <3>1. SenderTypeOK'
      BY <1>2, <2>1, SendGotoTypeOK DEF SendPop, SendPC
    <3> QED BY <1>2, <2>1, <3>1 DEF SendPop, TypeOK
  <2>2. CASE pipeline # <<>>
    <3>1. /\ Head(pipeline) \in Frame /\ Tail(pipeline) \in Seq(Frame)
          /\ Len(Tail(pipeline)) = Len(pipeline) - 1
      BY <2>2 DEF TypeOK, QueueTypeOK
    <3>2. Len(pipeline) - 1 <= capacity
      BY EngineAssumption DEF TypeOK, QueueTypeOK, EngineAssumption
    <3>3. QueueTypeOK'
      BY <1>2, <2>2, <3>1, <3>2 DEF SendPop, TypeOK, QueueTypeOK
    <3>4. SenderTypeOK'
      BY <1>2, <2>2, <3>1 DEF SendPop, TypeOK, SenderTypeOK, SendPC
    <3> QED BY <1>2, <3>3, <3>4 DEF SendPop, TypeOK
  <2> QED BY <2>1, <2>2
<1>3. CASE SendCheck(t)
  <2>1. SenderTypeOK'
    BY <1>3 DEF SendCheck, TypeOK, SenderTypeOK, SendPC
  <2> QED BY <1>3, <2>1 DEF SendCheck, TypeOK
<1>4. CASE SendFlush(t)
  <2>1. SenderTypeOK'
    BY <1>4, SendGotoTypeOK DEF SendFlush, SendPC
  <2>2. QueueTypeOK'
    BY <1>4, EngineAssumption
    DEF SendFlush, FlushPipeline, TypeOK, QueueTypeOK, EngineAssumption
  <2> QED BY <1>4, <2>1, <2>2 DEF SendFlush, TypeOK
<1>5. CASE SendDelay(t)
  <2>1. SenderTypeOK'
    BY <1>5, SendGotoTypeOK DEF SendDelay, SendPC
  <2>2. QueueTypeOK'
    BY <1>5 DEF SendDelay, TypeOK, QueueTypeOK, SenderTypeOK
  <2> QED BY <1>5, <2>1, <2>2 DEF SendDelay, TypeOK
<1>6. CASE SendMeasure(t)
  <2>1. SenderTypeOK'
    BY <1>6 DEF SendMeasure, TypeOK, SenderTypeOK, SendPC
  <2> QED BY <1>6, <2>1 DEF SendMeasure, TypeOK
<1>7. CASE SendDelayed(t)
  <2>1. CASE delayBuffer = <<>>
    <3>1. SenderTypeOK'
      BY <1>7, <2>1 DEF SendDelayed, NoSender, TypeOK, SenderTypeOK, SendPC
    <3> QED BY <1>7, <2>1, <3>1 DEF SendDelayed, TypeOK
  <2>2. CASE delayBuffer # <<>>
    <3>1. Head(delayBuffer) \in Frame \union {Dark} /\ QueueTypeOK'
      BY <1>7, <2>2 DEF SendDelayed, TypeOK, QueueTypeOK
    <3>2. SenderTypeOK'
      BY <1>7, <2>2, <3>1 DEF SendDelayed, TypeOK, SenderTypeOK, SendPC
    <3> QED BY <1>7, <3>1, <3>2 DEF SendDelayed, TypeOK
  <2> QED BY <2>1, <2>2
<1>8. CASE SendFrame(t)
  <2>1. SenderTypeOK'
    BY <1>8, SendGotoTypeOK DEF SendFrame, SendPC
  <2>2. StateTypeOK'
    BY <1>8 DEF SendFrame, TypeOK, StateTypeOK, SenderTypeOK, Shown
  <2> QED BY <1>8, <2>1, <2>2 DEF SendFrame, TypeOK
<1> QED BY <1>1, <1>2, <1>3, <1>4, <1>5, <1>6, <1>7, <1>8 DEF SendThread

\* A program counter set by CallGoto, which may enter start() only where a
\* generation has been opened.
LEMMA CallGotoTypeOK ==
  ASSUME TypeOK, NEW c \in Callers, NEW pc \in CallPC, CallGoto(c, pc),
         UNCHANGED <<generation, renderer>>,
         pc \in Starting => caller[c].pc \in Starting
  PROVE  CallerTypeOK' /\ StartOrder'
<1>1. CallerTypeOK'
  BY DEF TypeOK, CallerTypeOK, CallGoto
<1>2. StartOrder'
  BY DEF TypeOK, StartOrder, CallerTypeOK, CallGoto, Live
<1> QED BY <1>1, <1>2

LEMMA NoneIsInstance == None \in 0 .. MaxCalls
  BY EngineAssumption DEF None, EngineAssumption

LEMMA CallTypeOK ==
  ASSUME TypeOK, NEW c \in Callers, Request(c) \/ Proceed(c)
  PROVE  TypeOK'
<1> USE Untouched DEF engineVars, queueVars, delayVars, handleVars, CallPC, Starting
<1>1. CASE StartCall(c)
  <2>1. calls + 1 \in 0 .. MaxCalls
    BY <1>1, EngineAssumption DEF StartCall, TypeOK, StateTypeOK, EngineAssumption
  <2>2. StateTypeOK'
    BY <1>1, <2>1 DEF StartCall, TypeOK, StateTypeOK
  <2>3. CallerTypeOK'
    BY <1>1, <2>1 DEF StartCall, TypeOK, CallerTypeOK
  <2>4. StartOrder'
    BY <1>1 DEF StartCall, TypeOK, StartOrder, CallerTypeOK, Live
  <2> QED BY <1>1, <2>2, <2>3, <2>4 DEF StartCall, TypeOK
<1>2. CASE StartSwap(c)
  <2>1. generation' > 0 /\ generation' \in Nat
    BY <1>2 DEF StartSwap, TypeOK, StateTypeOK
  <2>2. StateTypeOK'
    BY <1>2, <2>1 DEF StartSwap, TypeOK, StateTypeOK, CallerTypeOK
  <2>3. QueueTypeOK'
    BY <1>2, EngineAssumption DEF StartSwap, TypeOK, QueueTypeOK, EngineAssumption
  <2>4. CallerTypeOK'
    BY <1>2, NoneIsInstance DEF StartSwap, TypeOK, CallerTypeOK
  <2>5. StartOrder'
    BY <1>2, <2>1 DEF StartSwap, TypeOK, StartOrder, CallerTypeOK, Live
  <2> QED BY <1>2, <2>2, <2>3, <2>4, <2>5 DEF StartSwap, TypeOK
<1>3. CASE StartFlush(c)
  <2>1. CallerTypeOK' /\ StartOrder'
    BY <1>3, CallGotoTypeOK DEF StartFlush
  <2>2. QueueTypeOK'
    BY <1>3, EngineAssumption
    DEF StartFlush, FlushPipeline, TypeOK, QueueTypeOK, EngineAssumption
  <2> QED BY <1>3, <2>1, <2>2 DEF StartFlush, TypeOK
<1>4. CASE StartClearDelay(c)
  <2>1. CallerTypeOK' /\ StartOrder'
    BY <1>4, CallGotoTypeOK DEF StartClearDelay
  <2>2. QueueTypeOK'
    BY <1>4 DEF StartClearDelay, TypeOK, QueueTypeOK
  <2> QED BY <1>4, <2>1, <2>2 DEF StartClearDelay, TypeOK
<1>5. CASE StartTest(c)
  <2>1. CallerTypeOK' /\ StartOrder'
    BY <1>5, CallGotoTypeOK DEF StartTest
  <2>2. StateTypeOK'
    BY <1>5 DEF StartTest, TypeOK, StateTypeOK
  <2> QED BY <1>5, <2>1, <2>2 DEF StartTest, TypeOK
<1>6. CASE StartArm(c)
  <2>1. CallerTypeOK' /\ StartOrder'
    BY <1>6, CallGotoTypeOK DEF StartArm
  <2>2. StateTypeOK'
    BY <1>6 DEF StartArm, TypeOK, StateTypeOK
  <2> QED BY <1>6, <2>1, <2>2 DEF StartArm, TypeOK
<1>7. CASE SpawnRender(c)
  <2>1. generation > 0
    BY <1>7 DEF SpawnRender, TypeOK, StartOrder
  <2>2. RendererTypeOK'
    BY <1>7 DEF SpawnRender, NoRenderer, TypeOK, RendererTypeOK, RenderPC
  <2>3. CallerTypeOK'
    BY <1>7 DEF SpawnRender, CallGoto, TypeOK, CallerTypeOK
  <2>4. StartOrder'
    BY <1>7, <2>1 DEF SpawnRender, TypeOK, StartOrder, engineVars
  <2> QED BY <1>7, <2>2, <2>3, <2>4 DEF SpawnRender, TypeOK
<1>8. CASE SpawnSend(c)
  <2>1. CallerTypeOK' /\ StartOrder'
    BY <1>8, CallGotoTypeOK DEF SpawnSend
  <2>2. SenderTypeOK'
    BY <1>8 DEF SpawnSend, NoSender, TypeOK, SenderTypeOK, SendPC
  <2> QED BY <1>8, <2>1, <2>2 DEF SpawnSend, TypeOK
<1>9. CASE StopCall(c)
  <2>1. CallerTypeOK' /\ StartOrder'
    BY <1>9, CallGotoTypeOK DEF StopCall
  <2>2. StateTypeOK'
    BY <1>9 DEF StopCall, TypeOK, StateTypeOK
  <2> QED BY <1>9, <2>1, <2>2 DEF StopCall, TypeOK
<1>10. CASE StopSignal(c)
  <2>1. CallerTypeOK' /\ StartOrder'
    BY <1>10, CallGotoTypeOK DEF StopSignal
  <2>2. StateTypeOK'
    BY <1>10 DEF StopSignal, TypeOK, StateTypeOK
  <2> QED BY <1>10, <2>1, <2>2 DEF StopSignal, TypeOK
<1>11. CASE JoinRender(c)
  <2>1. CallerTypeOK' /\ StartOrder'
    BY <1>11, CallGotoTypeOK DEF JoinRender
  <2>2. RendererTypeOK'
    BY <1>11 DEF JoinRender, TypeOK, RendererTypeOK
  <2> QED BY <1>11, <2>1, <2>2 DEF JoinRender, TypeOK
<1>12. CASE JoinSend(c)
  <2>1. CallerTypeOK' /\ StartOrder'
    BY <1>12, CallGotoTypeOK DEF JoinSend
  <2>2. SenderTypeOK'
    BY <1>12 DEF JoinSend, TypeOK, SenderTypeOK
  <2> QED BY <1>12, <2>1, <2>2 DEF JoinSend, TypeOK
<1>13. CASE StopRelease(c)
  <2>1. CallerTypeOK' /\ StartOrder'
    BY <1>13, CallGotoTypeOK DEF StopRelease
  <2>2. StateTypeOK'
    BY <1>13, EngineAssumption
    DEF StopRelease, TypeOK, StateTypeOK, None, EngineAssumption
  <2> QED BY <1>13, <2>1, <2>2 DEF StopRelease, TypeOK
<1>14. CASE StopFade(c)
  <2>1. CallerTypeOK' /\ StartOrder'
    BY <1>14, CallGotoTypeOK DEF StopFade
  <2>2. StateTypeOK'
    BY <1>14 DEF StopFade, TypeOK, StateTypeOK, Shown
  <2> QED BY <1>14, <2>1, <2>2 DEF StopFade, TypeOK
<1>15. CASE SetAudioDelay(c)
  <2>1. CallerTypeOK' /\ StartOrder'
    BY <1>15, CallGotoTypeOK DEF SetAudioDelay
  <2>2. QueueTypeOK'
    BY <1>15 DEF SetAudioDelay, TypeOK, QueueTypeOK
  <2>3. calls + 1 \in 0 .. MaxCalls
    BY <1>15, EngineAssumption DEF SetAudioDelay, TypeOK, StateTypeOK, EngineAssumption
  <2>4. StateTypeOK'
    BY <1>15, <2>3 DEF SetAudioDelay, TypeOK, StateTypeOK
  <2> QED BY <1>15, <2>1, <2>2, <2>4 DEF SetAudioDelay, TypeOK
<1>16. CASE ClearAudioDelay(c)
  <2>1. CallerTypeOK' /\ StartOrder'
    BY <1>16, CallGotoTypeOK DEF ClearAudioDelay
  <2>2. QueueTypeOK'
    BY <1>16 DEF ClearAudioDelay, TypeOK, QueueTypeOK
  <2> QED BY <1>16, <2>1, <2>2 DEF ClearAudioDelay, TypeOK
<1>17. CASE TransientExecute(c)
  <2>1. calls + 1 \in 0 .. MaxCalls
    BY <1>17, EngineAssumption DEF TransientExecute, TypeOK, StateTypeOK, EngineAssumption
  <2>2. StateTypeOK'
    BY <1>17, <2>1 DEF TransientExecute, TypeOK, StateTypeOK, Shown
  <2>3. CallerTypeOK'
    BY <1>17, <2>1 DEF TransientExecute, TypeOK, CallerTypeOK
  <2>4. StartOrder'
    BY <1>17 DEF TransientExecute, TypeOK, StartOrder, CallerTypeOK, Live
  <2> QED BY <1>17, <2>2, <2>3, <2>4 DEF TransientExecute, TypeOK
<1>18. CASE TransientTake(c)
  <2>1. StateTypeOK'
    BY <1>18 DEF TransientTake, TypeOK, StateTypeOK, CallerTypeOK
  <2>2. CallerTypeOK'
    BY <1>18, NoneIsInstance DEF TransientTake, TypeOK, CallerTypeOK
  <2>3. StartOrder'
    BY <1>18 DEF TransientTake, TypeOK, StartOrder, CallerTypeOK, Live
  <2> QED BY <1>18, <2>1, <2>2, <2>3 DEF TransientTake, TypeOK
<1>19. CASE TransientClaim(c)
  <2>1. CallerTypeOK' /\ StartOrder'
    BY <1>19, CallGotoTypeOK DEF TransientClaim
  <2>2. StateTypeOK'
    BY <1>19 DEF TransientClaim, TypeOK, StateTypeOK
  <2> QED BY <1>19, <2>1, <2>2 DEF TransientClaim, TypeOK
<1> QED
  BY <1>1, <1>2, <1>3, <1>4, <1>5, <1>6, <1>7, <1>8, <1>9, <1>10, <1>11, <1>12,
     <1>13, <1>14, <1>15, <1>16, <1>17, <1>18, <1>19
  DEF Request, Proceed

LEMMA StepTypeOK == TypeOK /\ [Next]_vars => TypeOK'
<1> SUFFICES ASSUME TypeOK, [Next]_vars PROVE TypeOK'
  OBVIOUS
<1>1. CASE UNCHANGED vars
  BY <1>1, Untouched DEF TypeOK, vars, engineVars, queueVars, delayVars, handleVars
<1>2. CASE Next
  BY <1>2, RenderTypeOK, SendTypeOK, CallTypeOK DEF Next
<1> QED BY <1>1, <1>2

\* Whoever calls, in whatever order, with joins that expire or not: the engine
\* keeps its types, a queue within the capacity of the last start(), no render
\* thread and no call past its critical section before a generation is open.
THEOREM TypeCorrect == Spec => []TypeOK
<1>1. Init => TypeOK
  BY InitTypeOK
<1>2. TypeOK /\ [Next]_vars => TypeOK'
  BY StepTypeOK
<1> QED BY <1>1, <1>2, PTL DEF Spec

-----------------------------------------------------------------------------
(* One pair of threads.                                                    *)

\* Calls are serialised, and stop() waits for the threads it signals.
Serial == /\ \E c : Callers = {c}
          /\ ~JoinExpires

Spawning == {"arm", "spawnRender", "spawnSend"}

\* The inductive invariant.  A live thread is the one the engine holds the
\* handle of, and the handles are None wherever the next spawn may be near:
\* between the join and the end of stop(), from the test of running to the
\* spawn, and in between as long as running is FALSE.
Owned ==
  /\ \A t \in Threads : /\ Live(renderer[t]) => t = renderHandle
                        /\ Live(sender[t]) => t = sendHandle
  /\ \A c \in Callers :
       /\ caller[c].pc \in {"joinSend", "release", "fade", "arm", "spawnRender"} =>
            renderHandle = None
       /\ caller[c].pc \in {"release", "fade"} \union Spawning => sendHandle = None
       /\ caller[c].pc \in Spawning => running
       /\ caller[c].pc \notin Stopping \union Spawning /\ ~running =>
            renderHandle = None /\ sendHandle = None

LEMMA InitOwned == Init => Owned
  BY DEF Init, Owned, NoRenderer, NoSender, Live, Stopping, Spawning

LEMMA RenderOwned ==
  ASSUME TypeOK, Owned, NEW t \in Threads, RenderThread(t)
  PROVE  Owned'
<1>1. UNCHANGED <<running, renderHandle, sendHandle, sender, caller>>
  BY DEF RenderThread, RenderExit, RenderProceed, RenderSnapshot, RenderFrame,
         RenderNothing, RenderPut, engineVars, handleVars
<1>2. \A u \in Threads : Live(renderer'[u]) => Live(renderer[u])
  BY DEF RenderThread, RenderExit, RenderProceed, RenderSnapshot, RenderFrame,
         RenderNothing, RenderPut, RenderGoto, NoRenderer, Live, TypeOK, RendererTypeOK
<1> QED BY <1>1, <1>2 DEF Owned, Live

LEMMA SendOwned ==
  ASSUME TypeOK, Owned, NEW t \in Threads, SendThread(t)
  PROVE  Owned'
<1>1. UNCHANGED <<running, renderHandle, sendHandle, renderer, caller>>
  BY DEF SendThread, SendExit, SendPop, SendCheck, SendFlush, SendDelay, SendMeasure,
         SendDelayed, SendFrame, engineVars, handleVars
<1>2. \A u \in Threads : Live(sender'[u]) => Live(sender[u])
  BY DEF SendThread, SendExit, SendPop, SendCheck, SendFlush, SendDelay, SendMeasure,
         SendDelayed, SendFrame, SendGoto, NoSender, Live, TypeOK, SenderTypeOK
<1> QED BY <1>1, <1>2 DEF Owned, Live

LEMMA CallOwned ==
  ASSUME Serial, TypeOK, Owned, NEW c \in Callers, Request(c) \/ Proceed(c)
  PROVE  Owned'
<1> USE DEF Owned, TypeOK, CallerTypeOK, Stopping, Spawning, CallGoto,
            engineVars, handleVars
<1> \A d \in Callers : d = c
  BY DEF Serial
<1>1. CASE StartCall(c)
  BY <1>1 DEF StartCall
<1>2. CASE StartSwap(c)
  BY <1>2 DEF StartSwap
<1>3. CASE StartFlush(c)
  BY <1>3 DEF StartFlush
<1>4. CASE StartClearDelay(c)
  BY <1>4 DEF StartClearDelay
<1>5. CASE StartTest(c)
  BY <1>5 DEF StartTest
<1>6. CASE StartArm(c)
  BY <1>6 DEF StartArm
<1>7. CASE SpawnRender(c)
  <2>1. PICK t \in Threads :
          /\ renderer' = [renderer EXCEPT ![t] = [NoRenderer EXCEPT !.pc = "top"]]
          /\ renderHandle' = t
    BY <1>7 DEF SpawnRender
  <2>2. \A u \in Threads : ~Live(renderer[u]) /\ ~Live(sender[u])
    BY <1>7 DEF SpawnRender, Threads, None
  <2>3. \A u \in Threads : Live(renderer'[u]) => u = renderHandle'
    BY <2>1, <2>2 DEF RendererTypeOK, Live
  <2> QED BY <1>7, <2>2, <2>3 DEF SpawnRender, Live
<1>8. CASE SpawnSend(c)
  <2>1. PICK t \in Threads :
          /\ sender' = [sender EXCEPT ![t] = [NoSender EXCEPT !.pc = "top"]]
          /\ sendHandle' = t
    BY <1>8 DEF SpawnSend
  <2>2. \A u \in Threads : ~Live(sender[u])
    BY <1>8 DEF SpawnSend, Threads, None
  <2>3. \A u \in Threads : Live(sender'[u]) => u = sendHandle'
    BY <2>1, <2>2 DEF SenderTypeOK, Live
  <2> QED BY <1>8, <2>3 DEF SpawnSend, Live
<1>9. CASE StopCall(c)
  BY <1>9 DEF StopCall
<1>10. CASE StopSignal(c)
  BY <1>10 DEF StopSignal
<1>11. CASE JoinRender(c)
  <2>1. \A u \in Threads : ~Live(renderer[u])
    BY <1>11 DEF JoinRender, Joined, Serial, Threads, None
  <2> QED BY <1>11, <2>1 DEF JoinRender, Live
<1>12. CASE JoinSend(c)
  <2>1. \A u \in Threads : ~Live(sender[u])
    BY <1>12 DEF JoinSend, Joined, Serial, Threads, None
  <2> QED BY <1>12, <2>1 DEF JoinSend, Live
<1>13. CASE StopRelease(c)
  BY <1>13 DEF StopRelease
<1>14. CASE StopFade(c)
  BY <1>14 DEF StopFade
<1>15. CASE SetAudioDelay(c)
  BY <1>15 DEF SetAudioDelay
<1>16. CASE ClearAudioDelay(c)
  BY <1>16 DEF ClearAudioDelay
<1>17. CASE TransientExecute(c)
  BY <1>17 DEF TransientExecute
<1>18. CASE TransientTake(c)
  BY <1>18 DEF TransientTake
<1>19. CASE TransientClaim(c)
  BY <1>19 DEF TransientClaim
<1> QED
  BY <1>1, <1>2, <1>3, <1>4, <1>5, <1>6, <1>7, <1>8, <1>9, <1>10, <1>11, <1>12,
     <1>13, <1>14, <1>15, <1>16, <1>17, <1>18, <1>19
  DEF Request, Proceed

LEMMA StepOwned == Serial /\ TypeOK /\ Owned /\ [Next]_vars => Owned'
<1> SUFFICES ASSUME Serial, TypeOK, Owned, [Next]_vars PROVE Owned'
  OBVIOUS
<1>1. CASE UNCHANGED vars
  BY <1>1 DEF vars, engineVars, handleVars, Owned, Live
<1>2. CASE Next
  BY <1>2, RenderOwned, SendOwned, CallOwned DEF Next
<1> QED BY <1>1, <1>2

LEMMA AlwaysOwned == ASSUME Serial PROVE Spec => [](TypeOK /\ Owned)
<1>1. Init => TypeOK /\ Owned
  BY InitTypeOK, InitOwned
<1>2. TypeOK /\ Owned /\ [Next]_vars => TypeOK' /\ Owned'
  BY Serial, StepTypeOK, StepOwned
<1> QED BY <1>1, <1>2, PTL DEF Spec

\* With serialised calls and joins that wait, however start, stop and one-shot
\* effects follow each other, there are never two render or two send threads.
THEOREM SerialThreadPair == ASSUME Serial PROVE Spec => []OneThreadPair
<1>1. TypeOK /\ Owned => OneThreadPair
  BY DEF Owned, OneThreadPair
<1> QED BY <1>1, AlwaysOwned, PTL

\* With serialised calls and joins that wait, no frame reaches the emitters
\* between the return of stop() and the next call.
THEOREM SerialQuiet == ASSUME Serial PROVE Spec => QuietWhenStopped
<1> DEFINE Quiet == AllIdle /\ ~running /\ UNCHANGED caller => UNCHANGED light
<1>1. TypeOK /\ Owned /\ [Next]_vars => [Quiet]_vars
  <2> SUFFICES ASSUME TypeOK, Owned, Next, AllIdle, ~running, UNCHANGED caller
               PROVE  UNCHANGED light
    BY DEF vars
  <2>1. \A c \in Callers : ~Request(c) /\ ~Proceed(c)
    <3> SUFFICES ASSUME NEW c \in Callers, Request(c) \/ Proceed(c) PROVE FALSE
      OBVIOUS
    <3>1. caller[c].pc = "idle" /\ caller'[c].pc = "idle"
      BY DEF AllIdle
    <3>2. CASE Proceed(c)
      BY <3>1, <3>2 DEF Proceed, StartSwap, StartFlush, StartClearDelay, StartTest,
         StartArm, SpawnRender, SpawnSend, StopSignal, JoinRender, JoinSend, StopRelease,
         StopFade, ClearAudioDelay, TransientTake, TransientClaim
    <3>3. CASE Request(c)
      BY <3>1, <3>3 DEF Request, StartCall, StopCall, SetAudioDelay, TransientExecute,
         CallGoto, TypeOK, CallerTypeOK
    <3> QED BY <3>2, <3>3
  <2>2. PICK t \in Threads : RenderThread(t) \/ SendThread(t)
    BY <2>1 DEF Next
  <2>3. PICK c \in Callers : caller[c].pc = "idle"
    BY DEF Serial, AllIdle
  <2>4. ~Live(renderer[t]) /\ ~Live(sender[t])
    BY <2>3 DEF Owned, AllIdle, Stopping, Spawning, Threads, None
  <2>5. CASE RenderThread(t)
    BY <2>5 DEF RenderThread, RenderExit, RenderProceed, RenderSnapshot, RenderFrame,
       RenderNothing, RenderPut
  <2>6. CASE SendThread(t)
    BY <2>4, <2>6 DEF SendThread, SendExit, SendPop, SendCheck, SendFlush, SendDelay,
       SendMeasure, SendDelayed, SendFrame, Live
  <2> QED BY <2>2, <2>5, <2>6
<1> QED BY <1>1, AlwaysOwned, PTL DEF Spec, QuietWhenStopped

-----------------------------------------------------------------------------
(* The audio delay.                                                        *)

\* Send threads between their append and their popleft.
Holding == {t \in Threads : sender[t].pc \in {"measure", "pop"}}

LEMMA HoldingCounted == IsFiniteSet(Holding) /\ Cardinality(Holding) \in Nat
<1>1. IsFiniteSet(Threads)
  BY EngineAssumption, FS_Interval DEF Threads, EngineAssumption
<1>2. Holding \subseteq Threads
  BY DEF Holding
<1> QED BY <1>1, <1>2, FS_Subset, FS_CardinalityType

\* The bound, for a count of frames and the threads that hold one more.
Bound(count, holding) == \E d \in Delays \union {0} : count <= d + Cardinality(holding)

LEMMA SendBounded ==
  ASSUME TypeOK, DelayBounded, NEW t \in Threads, SendThread(t)
  PROVE  DelayBounded'
<1>0. /\ sender \in [Threads -> [pc : SendPC, got : Frame \union {Dark},
                                held : Frame \union {Dark}]]
      /\ delayBuffer \in Seq(Frame \union {Dark}) /\ delayFrames \in Delays \union {0}
      /\ Delays \subseteq Nat
  BY EngineAssumption DEF TypeOK, SenderTypeOK, QueueTypeOK, EngineAssumption
<1>1. \A u \in Threads \ {t} : sender'[u] = sender[u]
  BY <1>0 DEF SendThread, SendExit, SendPop, SendCheck, SendFlush, SendDelay, SendMeasure,
     SendDelayed, SendFrame, SendGoto
<1>2. PICK d \in Delays \union {0} : Len(delayBuffer) <= d + Cardinality(Holding)
  BY DEF DelayBounded, Holding
<1>3. /\ IsFiniteSet(Holding) /\ Cardinality(Holding) \in Nat /\ d \in Nat
      /\ Len(delayBuffer) \in Nat
  BY <1>0, HoldingCounted
<1>4. SUFFICES Bound(Len(delayBuffer)', Holding')
  BY DEF DelayBounded, Bound, Holding
<1>5. CASE SendDelay(t) /\ delayFrames # 0
  <2>1. /\ delayBuffer' = Append(delayBuffer, sender[t].held)
        /\ sender[t].pc = "delay" /\ sender'[t].pc = "measure"
    BY <1>0, <1>5 DEF SendDelay, SendGoto
  <2>2. Len(delayBuffer') = Len(delayBuffer) + 1
    BY <1>0, <2>1
  <2>3. Holding' = Holding \union {t} /\ t \notin Holding
    BY <1>1, <2>1 DEF Holding
  <2>4. Cardinality(Holding') = Cardinality(Holding) + 1
    BY <1>3, <2>3, FS_AddElement
  <2> QED BY <1>2, <1>3, <2>2, <2>4 DEF Bound
<1>6. CASE SendMeasure(t)
  <2>1. delayBuffer' = delayBuffer /\ sender[t].pc = "measure"
    BY <1>6 DEF SendMeasure, delayVars
  <2>2. CASE DelayFilled
    <3>1. sender'[t].pc = "pop"
      BY <1>0, <1>6, <2>2 DEF SendMeasure
    <3>2. Holding' = Holding
      BY <1>1, <2>1, <3>1 DEF Holding
    <3> QED BY <1>2, <2>1, <3>2 DEF Bound
  <2>3. CASE ~DelayFilled
    <3>1. Len(delayBuffer) <= delayFrames
      BY <1>0, <1>3, <2>3 DEF DelayFilled
    <3>2. Cardinality(Holding') \in Nat
      <4>1. IsFiniteSet(Threads) /\ Holding' \subseteq Threads
        BY EngineAssumption, FS_Interval DEF Threads, EngineAssumption, Holding
      <4> QED BY <4>1, FS_Subset, FS_CardinalityType
    <3>3. Len(delayBuffer') <= delayFrames + Cardinality(Holding')
      <4>1. delayFrames \in Nat
        BY <1>0
      <4> QED BY <1>3, <2>1, <3>1, <3>2, <4>1
    <3> QED BY <1>0, <3>3 DEF Bound
  <2> QED BY <2>2, <2>3
<1>7. CASE SendDelayed(t)
  <2>1. sender[t].pc = "pop" /\ sender'[t].pc \notin {"measure", "pop"}
    BY <1>0, <1>7 DEF SendDelayed, NoSender
  <2>2. Holding' = Holding \ {t} /\ t \in Holding
    BY <1>1, <2>1 DEF Holding
  <2>3. Cardinality(Holding') = Cardinality(Holding) - 1
    BY <1>3, <2>2, FS_RemoveElement
  <2>4. Len(delayBuffer') = IF delayBuffer = <<>> THEN 0 ELSE Len(delayBuffer) - 1
    BY <1>0, <1>7 DEF SendDelayed
  <2>5. Cardinality(Holding') \in Nat
    BY <1>3, <2>2, FS_RemoveElement, FS_CardinalityType
  <2>6. Len(delayBuffer') <= d + Cardinality(Holding')
    BY <1>2, <1>3, <2>3, <2>4, <2>5
  <2> QED BY <2>6 DEF Bound
<1>8. ASSUME delayBuffer' = delayBuffer, sender[t].pc \notin {"measure", "pop"},
             sender'[t].pc \notin {"measure", "pop"}
      PROVE  Bound(Len(delayBuffer)', Holding')
  <2>1. Holding' = Holding
    BY <1>1, <1>8 DEF Holding
  <2> QED BY <1>2, <1>8, <2>1 DEF Bound
<1>9. CASE SendDelay(t) /\ delayFrames = 0
  <2>1. /\ delayBuffer' = delayBuffer /\ sender[t].pc = "delay" /\ sender'[t].pc = "send"
    BY <1>0, <1>9 DEF SendDelay, SendGoto
  <2> QED BY <1>8, <2>1
<1>10. CASE SendExit(t) \/ SendPop(t) \/ SendCheck(t) \/ SendFlush(t) \/ SendFrame(t)
  <2>1. /\ delayBuffer' = delayBuffer
        /\ sender[t].pc \notin {"measure", "pop"} /\ sender'[t].pc \notin {"measure", "pop"}
    BY <1>0, <1>10 DEF SendExit, SendPop, SendCheck, SendFlush, SendFrame, SendGoto, NoSender,
       delayVars
  <2> QED BY <1>8, <2>1
<1> QED BY <1>5, <1>6, <1>7, <1>9, <1>10 DEF SendThread

LEMMA StepBounded == TypeOK /\ DelayBounded /\ [Next]_vars => DelayBounded'
<1> SUFFICES ASSUME TypeOK, DelayBounded, [Next]_vars PROVE DelayBounded'
  OBVIOUS
<1>1. PICK d \in Delays \union {0} : Len(delayBuffer) <= d + Cardinality(Holding)
  BY DEF DelayBounded, Holding
<1>2. d \in Nat /\ Cardinality(Holding) \in Nat
  BY EngineAssumption, HoldingCounted DEF EngineAssumption
<1>3. ASSUME delayBuffer' = delayBuffer \/ delayBuffer' = <<>>, Holding' = Holding
      PROVE  DelayBounded'
  <2>1. Len(delayBuffer') <= d + Cardinality(Holding')
    BY <1>1, <1>2, <1>3
  <2> QED BY <2>1 DEF DelayBounded, Holding
<1>4. ASSUME NEW t \in Threads, RenderThread(t) PROVE DelayBounded'
  <2>1. UNCHANGED <<delayBuffer, sender>>
    BY <1>4 DEF RenderThread, RenderExit, RenderProceed, RenderSnapshot, RenderFrame,
       RenderNothing, RenderPut, delayVars
  <2> QED BY <1>3, <2>1 DEF Holding
<1>5. ASSUME NEW c \in Callers, Request(c) \/ Proceed(c) PROVE DelayBounded'
  <2>1. delayBuffer' = delayBuffer \/ delayBuffer' = <<>>
    BY <1>5 DEF Request, Proceed, StartCall, StopCall, SetAudioDelay, TransientExecute,
       StartSwap, StartFlush, StartClearDelay, StartTest, StartArm, SpawnRender, SpawnSend,
       StopSignal, JoinRender, JoinSend, StopRelease, StopFade, ClearAudioDelay,
       TransientTake, TransientClaim, delayVars
  <2>2. CASE SpawnSend(c)
    <3>1. PICK t \in Threads :
            ~Live(sender[t]) /\ sender' = [sender EXCEPT ![t] = [NoSender EXCEPT !.pc = "top"]]
      BY <2>2 DEF SpawnSend
    <3>2. Holding' = Holding
      BY <3>1 DEF Holding, Live, NoSender, TypeOK, SenderTypeOK
    <3> QED BY <1>3, <2>1, <3>2
  <2>3. CASE ~SpawnSend(c)
    <3>1. sender' = sender
      BY <1>5, <2>3 DEF Request, Proceed, StartCall, StopCall, SetAudioDelay,
         TransientExecute, StartSwap, StartFlush, StartClearDelay, StartTest, StartArm,
         SpawnRender, StopSignal, JoinRender, JoinSend, StopRelease, StopFade,
         ClearAudioDelay, TransientTake, TransientClaim
    <3> QED BY <1>3, <2>1, <3>1 DEF Holding
  <2> QED BY <2>2, <2>3
<1>6. CASE UNCHANGED vars
  BY <1>3, <1>6 DEF vars, delayVars, Holding
<1> QED BY <1>4, <1>5, <1>6, SendBounded DEF Next

\* However callers change the audio delay while send threads run, and however
\* many of these a join left behind, the delay buffer holds no more frames than
\* a delay that was asked for, and one per thread between append and popleft.
THEOREM DelayAlwaysBounded == Spec => []DelayBounded
<1>1. Init => DelayBounded
  <2> SUFFICES ASSUME Init PROVE DelayBounded
    OBVIOUS
  <2>1. Len(delayBuffer) = 0 /\ Cardinality(Holding) \in Nat
    BY HoldingCounted DEF Init
  <2>2. Len(delayBuffer) <= 0 + Cardinality(Holding)
    BY <2>1
  <2> QED BY <2>2 DEF DelayBounded, Holding
<1>2. Init => TypeOK
  BY InitTypeOK
<1>3. TypeOK /\ DelayBounded /\ [Next]_vars => TypeOK' /\ DelayBounded'
  BY StepTypeOK, StepBounded
<1> QED BY <1>1, <1>2, <1>3, PTL DEF Spec

-----------------------------------------------------------------------------
(* The order of the frames, for every value of the constants but the audio *)
(* delay: calls are serialised, joins wait, and no delay is configured.     *)
(* The run engine_delay shows why the last assumption is needed.            *)


NoDelay == Delays \subseteq {0}

\* A frame of an effect is never after a later frame; Dark and Solid are in
\* no order.
Ordered(f, g) == f.gen > 0 /\ g.gen > 0 => NotBefore(f, g)

\* f is not after any frame that may still follow it: those queued behind the
\* n-th place, the one a render thread is about to put, the one it renders.
Precedes(f, n) ==
  f.gen > 0 =>
    /\ f.gen <= generation /\ f.at <= now
    /\ \A i \in 1 .. Len(pipeline) : i > n => Ordered(f, pipeline[i])
    /\ \A t \in Threads : /\ Ordered(f, renderer[t].frame)
                          /\ renderer[t].pc = "render" => f.gen <= renderer[t].gen

\* What a render thread holds belongs to a generation that has been opened.
RenderBounded ==
  \A t \in Threads :
    /\ renderer[t].frame # Dark => renderer[t].pc = "put"
    /\ renderer[t].gen <= generation
    /\ renderer[t].frame.gen <= generation /\ renderer[t].frame.at <= now

\* What a send thread holds was popped after what the emitters show and before
\* what is queued; the frame just popped is the younger of the two.
SendOrdered ==
  \A t \in Threads :
    /\ Precedes(sender[t].held, 0) /\ Precedes(sender[t].got, 0)
    /\ Ordered(light, sender[t].held) /\ Ordered(light, sender[t].got)
    /\ Ordered(sender[t].held, sender[t].got)
    /\ sender[t].pc = "dead" => sender[t].held = Dark /\ sender[t].got = Dark

QueueOrdered == \A i \in 1 .. Len(pipeline) : Precedes(pipeline[i], i)

\* With no delay the buffer is never used.
Undelayed ==
  /\ delayFrames = 0
  /\ \A t \in Threads : sender[t].pc \notin {"measure", "pop"}

\* The inductive invariant.
InOrder ==
  /\ Precedes(light, 0) /\ RenderBounded /\ SendOrdered /\ QueueOrdered
  /\ Undelayed

-----------------------------------------------------------------------------
(* Facts about the order.                                                  *)

LEMMA DarkFree == \A f \in Shown, n \in Nat :
  /\ Ordered(Dark, f) /\ Ordered(f, Dark) /\ Ordered(f, f)
  /\ Precedes(Dark, n) /\ Precedes(Solid, n)
  BY DEF Ordered, NotBefore, Precedes, Dark, Solid, Shown, Frame

LEMMA InitInOrder == Init => InOrder
<1> SUFFICES ASSUME Init PROVE InOrder
  OBVIOUS
<1>1. Precedes(light, 0)
  BY DEF Init, Precedes, Dark
<1>2. RenderBounded
  BY EngineAssumption DEF Init, RenderBounded, NoRenderer, Dark, EngineAssumption
<1>3. SendOrdered
  BY DEF Init, SendOrdered, NoSender, Precedes, Ordered, Dark
<1>4. QueueOrdered
  BY DEF Init, QueueOrdered
<1>5. Undelayed
  BY DEF Init, Undelayed, NoSender
<1> QED BY <1>1, <1>2, <1>3, <1>4, <1>5 DEF InOrder

\* Precedes, and what it says of the queue, look at generation, time, queue
\* and render threads only.
LEMMA FramesUntouched ==
  ASSUME InOrder, UNCHANGED <<generation, now, pipeline, renderer>>
  PROVE  /\ RenderBounded' /\ QueueOrdered'
         /\ \A f \in Shown : Precedes(f, 0) => Precedes(f, 0)'
<1>1. RenderBounded'
  BY DEF InOrder, RenderBounded
<1>2. QueueOrdered'
  BY DEF InOrder, QueueOrdered, Precedes
<1>3. \A f \in Shown : Precedes(f, 0) => Precedes(f, 0)'
  BY DEF Precedes
<1> QED BY <1>1, <1>2, <1>3

-----------------------------------------------------------------------------
(* The render thread.                                                      *)

\* With one pair of threads, only the thread that steps holds a frame.
LEMMA OtherRenderers ==
  ASSUME TypeOK, Owned, InOrder, NEW t \in Threads, Live(renderer[t])
  PROVE  \A u \in Threads \ {t} : renderer[u].pc = "dead" /\ renderer[u].frame = Dark
  BY DEF Owned, InOrder, RenderBounded, Live

\* A step of a render thread that does not put: it is enough that the order
\* is kept for every frame.
LEMMA RenderKeeps ==
  ASSUME TypeOK, InOrder, RenderBounded',
         UNCHANGED <<generation, pipeline, delayFrames, sender, light>>,
         \A f \in Shown, n \in Nat : Precedes(f, n) => Precedes(f, n)'
  PROVE  InOrder'
<1>1. light \in Shown /\ \A i \in 1 .. Len(pipeline) : pipeline[i] \in Shown
  BY DEF TypeOK, StateTypeOK, QueueTypeOK, Shown
<1>2. \A t \in Threads : sender[t].held \in Shown /\ sender[t].got \in Shown
  BY DEF TypeOK, SenderTypeOK, Shown
<1>3. Precedes(light, 0)'
  BY <1>1 DEF InOrder
<1>4. SendOrdered'
  BY <1>2 DEF InOrder, SendOrdered
<1>5. QueueOrdered'
  BY <1>1 DEF InOrder, QueueOrdered
<1>6. Undelayed'
  BY DEF InOrder, Undelayed
<1> QED BY <1>3, <1>4, <1>5, <1>6 DEF InOrder

LEMMA RenderInOrder ==
  ASSUME TypeOK, Owned, InOrder, NEW t \in Threads, RenderThread(t)
  PROVE  InOrder'
<1> USE DEF engineVars, queueVars, delayVars
<1>0. /\ generation \in Nat /\ now \in Nat /\ MaxTime \in Nat
      /\ renderer \in [Threads -> [pc : RenderPC, gen : Nat, frame : Frame \union {Dark}]]
  BY EngineAssumption DEF TypeOK, StateTypeOK, RendererTypeOK, EngineAssumption
<1>1. CASE RenderExit(t)
  <2>1. RenderBounded'
    BY <1>0, <1>1 DEF RenderExit, NoRenderer, InOrder, RenderBounded, Dark
  <2>2. \A f \in Shown, n \in Nat : Precedes(f, n) => Precedes(f, n)'
    BY <1>0, <1>1 DEF RenderExit, NoRenderer, Precedes, Ordered, Dark
  <2> QED BY <1>1, <2>1, <2>2, RenderKeeps DEF RenderExit
<1>2. CASE RenderProceed(t)
  <2>1. RenderBounded'
    BY <1>0, <1>2 DEF RenderProceed, RenderGoto, InOrder, RenderBounded
  <2>2. \A f \in Shown, n \in Nat : Precedes(f, n) => Precedes(f, n)'
    BY <1>0, <1>2 DEF RenderProceed, RenderGoto, Precedes
  <2> QED BY <1>2, <2>1, <2>2, RenderKeeps DEF RenderProceed
<1>3. CASE RenderSnapshot(t)
  <2>1. RenderBounded'
    BY <1>0, <1>3 DEF RenderSnapshot, InOrder, RenderBounded
  <2>2. \A f \in Shown, n \in Nat : Precedes(f, n) => Precedes(f, n)'
    BY <1>0, <1>3 DEF RenderSnapshot, Precedes
  <2> QED BY <1>3, <2>1, <2>2, RenderKeeps DEF RenderSnapshot
<1>4. CASE RenderFrame(t)
  <2>1. now' \in Nat /\ now <= now'
    BY <1>0, <1>4 DEF RenderFrame
  <2>2. \A u \in Threads \ {t} : renderer'[u] = renderer[u]
    BY <1>0, <1>4 DEF RenderFrame
  <2>3. renderer'[t] = [renderer[t] EXCEPT !.pc = "put",
                                           !.frame = [gen |-> renderer[t].gen, at |-> now]]
    BY <1>0, <1>4 DEF RenderFrame
  <2>4. RenderBounded'
    <3> SUFFICES ASSUME NEW u \in Threads
        PROVE /\ renderer'[u].frame # Dark => renderer'[u].pc = "put"
              /\ renderer'[u].gen <= generation'
              /\ renderer'[u].frame.gen <= generation' /\ renderer'[u].frame.at <= now'
      BY DEF RenderBounded
    <3>1. CASE u = t
      BY <1>0, <1>4, <2>1, <2>3, <3>1 DEF RenderFrame, InOrder, RenderBounded
    <3>2. CASE u # t
      <4>1. renderer[u].frame.at \in Nat
        BY <1>0 DEF Frame, Dark
      <4> QED BY <1>0, <1>4, <2>1, <2>2, <3>2, <4>1 DEF RenderFrame, InOrder, RenderBounded
    <3> QED BY <3>1, <3>2
  <2>5. \A f \in Shown, n \in Nat : Precedes(f, n) => Precedes(f, n)'
    <3> SUFFICES ASSUME NEW f \in Shown, NEW n \in Nat, Precedes(f, n), f.gen > 0
                 PROVE  Precedes(f, n)'
      BY DEF Precedes
    <3>1. f.gen \in Nat /\ f.at \in Nat
      BY DEF Shown, Frame, Dark, Solid
    <3>2. f.gen <= renderer[t].gen /\ f.at <= now /\ f.gen <= generation
      BY <1>4 DEF RenderFrame, Precedes
    <3>3. Ordered(f, renderer'[t].frame)
      BY <1>0, <2>3, <3>1, <3>2 DEF Ordered, NotBefore
    <3>4. \A u \in Threads : /\ Ordered(f, renderer'[u].frame)
                             /\ renderer'[u].pc = "render" => f.gen <= renderer'[u].gen
      <4> SUFFICES ASSUME NEW u \in Threads
          PROVE Ordered(f, renderer'[u].frame) /\ (renderer'[u].pc = "render" => f.gen <= renderer'[u].gen)
        OBVIOUS
      <4>1. CASE u = t
        BY <2>3, <3>3, <4>1, <1>0
      <4>2. CASE u # t
        BY <2>2, <4>2 DEF Precedes
      <4> QED BY <4>1, <4>2
    <3>5. f.at <= now'
      BY <1>0, <2>1, <3>1, <3>2
    <3> QED BY <1>4, <3>2, <3>4, <3>5 DEF RenderFrame, Precedes
  <2> QED BY <1>4, <2>4, <2>5, RenderKeeps DEF RenderFrame
<1>5. CASE RenderNothing(t)
  <2>1. RenderBounded'
    BY <1>0, <1>5 DEF RenderNothing, RenderGoto, InOrder, RenderBounded
  <2>2. \A f \in Shown, n \in Nat : Precedes(f, n) => Precedes(f, n)'
    BY <1>0, <1>5 DEF RenderNothing, RenderGoto, Precedes
  <2> QED BY <1>5, <2>1, <2>2, RenderKeeps DEF RenderNothing
<1>6. CASE RenderPut(t)
  <2>1. RenderBounded'
    BY <1>0, <1>6 DEF RenderPut, NoRenderer, InOrder, RenderBounded, Dark
  <2>2. \A f \in Shown, n \in Nat : Precedes(f, n) => Precedes(f, n)'
    <3> SUFFICES ASSUME NEW f \in Shown, NEW n \in Nat, Precedes(f, n), f.gen > 0
                 PROVE  Precedes(f, n)'
      BY DEF Precedes
    <3>1. \A u \in Threads : /\ Ordered(f, renderer'[u].frame)
                             /\ renderer'[u].pc = "render" => f.gen <= renderer'[u].gen
      BY <1>0, <1>6 DEF RenderPut, NoRenderer, Precedes, Ordered, Dark
    <3>2. Ordered(f, renderer[t].frame)
      BY DEF Precedes
    <3>3. \A i \in 1 .. Len(pipeline') : i > n => Ordered(f, pipeline'[i])
      <4>1. CASE HasRoom
        <5>1. /\ Len(pipeline') = Len(pipeline) + 1
              /\ \A i \in 1 .. Len(pipeline) : pipeline'[i] = pipeline[i]
              /\ pipeline'[Len(pipeline) + 1] = renderer[t].frame
          BY <1>0, <1>6, <4>1 DEF RenderPut, TypeOK, QueueTypeOK, RendererTypeOK
        <5> QED BY <3>2, <5>1 DEF Precedes, TypeOK, QueueTypeOK
      <4>2. CASE ~HasRoom
        BY <1>6, <4>2 DEF RenderPut, Precedes
      <4> QED BY <4>1, <4>2
    <3> QED BY <1>6, <3>1, <3>3 DEF RenderPut, Precedes
  <2>3. light \in Shown /\ \A i \in 1 .. Len(pipeline) : pipeline[i] \in Shown
    BY DEF TypeOK, StateTypeOK, QueueTypeOK, Shown
  <2>4. \A u \in Threads : sender[u].held \in Shown /\ sender[u].got \in Shown
    BY DEF TypeOK, SenderTypeOK, Shown
  <2>5. SendOrdered'
    BY <1>6, <2>2, <2>4 DEF RenderPut, InOrder, SendOrdered
  <2>6. QueueOrdered'
    <3>1. CASE HasRoom
      <4>1. /\ Len(pipeline') = Len(pipeline) + 1
            /\ \A i \in 1 .. Len(pipeline) : pipeline'[i] = pipeline[i]
            /\ pipeline'[Len(pipeline) + 1] = renderer[t].frame
        BY <1>0, <1>6, <3>1 DEF RenderPut, TypeOK, QueueTypeOK, RendererTypeOK
      <4>2. \A i \in 1 .. Len(pipeline) : \A f \in Shown :
              f = pipeline[i] => Precedes(f, i)'
        BY <2>2 DEF InOrder, QueueOrdered
      <4>3. \A u \in Threads : renderer'[u].frame = Dark /\ renderer'[u].pc # "render"
        BY <1>0, <1>6, OtherRenderers DEF RenderPut, NoRenderer, Live
      <4>4. \A f \in Shown, n \in Nat :
              f = renderer[t].frame /\ n = Len(pipeline) + 1 => Precedes(f, n)'
        BY <1>6, <4>1, <4>3 DEF RenderPut, Precedes, InOrder, RenderBounded, Ordered, Dark,
           TypeOK, QueueTypeOK
      <4>5. renderer[t].frame \in Shown
        BY <1>0 DEF Shown
      <4>6. \A i \in 1 .. Len(pipeline') : \A f \in Shown :
              f = pipeline'[i] => Precedes(f, i)'
        <5> SUFFICES ASSUME NEW i \in 1 .. Len(pipeline'), NEW f \in Shown, f = pipeline'[i]
                     PROVE  Precedes(f, i)'
          OBVIOUS
        <5>1. CASE i \in 1 .. Len(pipeline)
          BY <4>1, <4>2, <5>1
        <5>2. CASE i = Len(pipeline) + 1
          BY <4>1, <4>4, <5>2 DEF TypeOK, QueueTypeOK
        <5> QED BY <4>1, <5>1, <5>2 DEF TypeOK, QueueTypeOK
      <4>7. \A i \in 1 .. Len(pipeline') : pipeline'[i] \in Shown
        BY <2>3, <4>1, <4>5 DEF TypeOK, QueueTypeOK
      <4> QED BY <4>6, <4>7 DEF QueueOrdered
    <3>2. CASE ~HasRoom
      BY <1>6, <2>2, <2>3, <3>2 DEF RenderPut, InOrder, QueueOrdered
    <3> QED BY <3>1, <3>2
  <2>7. Precedes(light, 0)' /\ Undelayed'
    BY <1>6, <2>2, <2>3 DEF RenderPut, InOrder, Undelayed
  <2> QED BY <2>1, <2>5, <2>6, <2>7 DEF InOrder
<1> QED BY <1>1, <1>2, <1>3, <1>4, <1>5, <1>6 DEF RenderThread

-----------------------------------------------------------------------------
(* The send thread.                                                        *)

\* With one pair of threads, the others hold nothing.
LEMMA OtherSenders ==
  ASSUME TypeOK, Owned, InOrder, NEW t \in Threads, Live(sender[t])
  PROVE  \A u \in Threads \ {t} : sender[u] = NoSender
<1> SUFFICES ASSUME NEW u \in Threads \ {t} PROVE sender[u] = NoSender
  OBVIOUS
<1>1. sender[u].pc = "dead"
  BY DEF Owned, Live
<1>2. sender[u].held = Dark /\ sender[u].got = Dark
  BY <1>1 DEF InOrder, SendOrdered
<1> QED BY <1>1, <1>2 DEF TypeOK, SenderTypeOK, NoSender

\* A step of a send thread, or of a caller, that takes no frame from the queue
\* and shows none: it is enough to look at what the threads hold.
LEMMA SendKeeps ==
  ASSUME TypeOK, InOrder,
         UNCHANGED <<generation, now, pipeline, renderer, delayFrames, light>>,
         sender' \in [Threads -> [pc : SendPC \ {"measure", "pop"},
                                 got : Frame \union {Dark}, held : Frame \union {Dark}]],
         \A t \in Threads :
           /\ sender'[t].held \in {sender[t].held, sender[t].got, Dark}
           /\ sender'[t].got \in {sender[t].got, Dark}
           /\ sender'[t].held = sender[t].held \/ Dark \in {sender'[t].held, sender'[t].got}
           /\ sender'[t].pc = "dead" => sender'[t].held = Dark /\ sender'[t].got = Dark
  PROVE  InOrder'
<1>1. /\ RenderBounded' /\ QueueOrdered'
      /\ \A f \in Shown : Precedes(f, 0) => Precedes(f, 0)'
  BY FramesUntouched
<1>2. Precedes(light, 0)' /\ Undelayed'
  BY <1>1 DEF InOrder, Undelayed, TypeOK, StateTypeOK
<1>3. SendOrdered'
  <2> SUFFICES ASSUME NEW t \in Threads
      PROVE /\ Precedes(sender[t].held, 0)' /\ Precedes(sender[t].got, 0)'
            /\ Ordered(light, sender[t].held)' /\ Ordered(light, sender[t].got)'
            /\ Ordered(sender[t].held, sender[t].got)'
    BY DEF SendOrdered
  <2>1. /\ sender[t].held \in Shown /\ sender[t].got \in Shown /\ Dark \in Shown
        /\ sender'[t].held \in Shown /\ sender'[t].got \in Shown
    BY DEF TypeOK, SenderTypeOK, Shown
  <2>2. Precedes(sender[t].held, 0) /\ Precedes(sender[t].got, 0) /\ Precedes(Dark, 0)
    <3>1. Precedes(Dark, 0)
      BY DEF Precedes, Dark
    <3> QED BY <3>1 DEF InOrder, SendOrdered
  <2>3. \A f \in Shown : f \in {sender[t].held, sender[t].got, Dark} => Precedes(f, 0)'
    BY <1>1, <2>2
  <2>4. \A f, g \in Shown : f = sender'[t].held /\ g = sender'[t].got =>
                            Precedes(f, 0)' /\ Precedes(g, 0)'
    BY <2>3
  <2>5. Precedes(sender[t].held, 0)' /\ Precedes(sender[t].got, 0)'
    BY <2>1, <2>4
  <2>6. Ordered(light, sender[t].held)' /\ Ordered(light, sender[t].got)'
    BY DarkFree, <2>1 DEF InOrder, SendOrdered, Ordered, Dark
  <2>7. Ordered(sender[t].held, sender[t].got)'
    BY DEF InOrder, SendOrdered, Ordered, Dark
  <2> QED BY <2>5, <2>6, <2>7
<1> QED BY <1>1, <1>2, <1>3 DEF InOrder

\* The queue is emptied, by a flush or by the swap that opens a generation.
LEMMA EmptiedInOrder ==
  ASSUME TypeOK, InOrder, UNCHANGED <<now, renderer, delayFrames, light>>,
         generation' \in Nat, generation <= generation', pipeline' = <<>>,
         \A t \in Threads :
           /\ sender'[t].held = sender[t].held /\ sender'[t].got = sender[t].got
           /\ sender'[t].pc \notin {"measure", "pop"}
           /\ sender'[t].pc = "dead" => sender[t].pc = "dead"
  PROVE  InOrder'
<1>1. \A f \in Shown : Precedes(f, 0) => Precedes(f, 0)'
  <2> SUFFICES ASSUME NEW f \in Shown, Precedes(f, 0), f.gen > 0 PROVE Precedes(f, 0)'
    BY DEF Precedes
  <2>1. f.gen <= generation'
    BY DEF Precedes, Shown, Frame, Dark, Solid, TypeOK, StateTypeOK
  <2> QED BY <2>1 DEF Precedes
<1>2. RenderBounded'
  BY DEF InOrder, RenderBounded, TypeOK, RendererTypeOK, StateTypeOK, Frame, Dark
<1>3. Precedes(light, 0)'
  BY <1>1 DEF InOrder, TypeOK, StateTypeOK
<1>4. \A t \in Threads : sender[t].held \in Shown /\ sender[t].got \in Shown
  BY DEF TypeOK, SenderTypeOK, Shown
<1>5. \A t \in Threads : \A f \in Shown :
        f \in {sender[t].held, sender[t].got} => Precedes(f, 0)'
  BY <1>1 DEF InOrder, SendOrdered
<1>6. \A t \in Threads : Precedes(sender[t].held, 0)' /\ Precedes(sender[t].got, 0)'
  BY <1>4, <1>5
<1>7. SendOrdered'
  BY <1>6 DEF InOrder, SendOrdered
<1>8. QueueOrdered' /\ Undelayed'
  BY DEF QueueOrdered, InOrder, Undelayed
<1> QED BY <1>2, <1>3, <1>7, <1>8 DEF InOrder

LEMMA SendInOrder ==
  ASSUME TypeOK, Owned, InOrder, NEW t \in Threads, SendThread(t)
  PROVE  InOrder'
<1> USE DEF engineVars, queueVars, delayVars
<1>0. /\ sender \in [Threads -> [pc : SendPC \ {"measure", "pop"},
                                 got : Frame \union {Dark}, held : Frame \union {Dark}]]
      /\ delayFrames = 0 /\ Live(sender[t]) /\ Dark \in Frame \union {Dark}
      /\ \A u \in Threads : sender[u].pc = "dead" =>
           sender[u].held = Dark /\ sender[u].got = Dark
  <2>1. Live(sender[t])
    BY DEF SendThread, SendExit, SendPop, SendCheck, SendFlush, SendDelay, SendMeasure,
           SendDelayed, SendFrame, Live
  <2>2. \A u \in Threads : sender[u] \in [pc : SendPC \ {"measure", "pop"},
                                 got : Frame \union {Dark}, held : Frame \union {Dark}]
    BY DEF TypeOK, SenderTypeOK, InOrder, Undelayed
  <2>3. sender \in [Threads -> [pc : SendPC \ {"measure", "pop"},
                                 got : Frame \union {Dark}, held : Frame \union {Dark}]]
    BY <2>2 DEF TypeOK, SenderTypeOK
  <2> QED BY <2>1, <2>3 DEF InOrder, SendOrdered, Undelayed
<1>1. CASE SendExit(t)
  BY <1>0, <1>1, SendKeeps DEF SendExit, NoSender, SendPC
<1>2. CASE SendPop(t)
  <2>1. CASE pipeline = <<>>
    BY <1>0, <1>2, <2>1, SendKeeps DEF SendPop, SendGoto, SendPC
  <2>2. CASE pipeline # <<>>
    <3>1. /\ Len(pipeline') = Len(pipeline) - 1 /\ Len(pipeline) \in Nat \ {0}
          /\ \A i \in 1 .. Len(pipeline') : pipeline'[i] = pipeline[i + 1]
          /\ Head(pipeline) = pipeline[1] /\ pipeline[1] \in Shown
          /\ \A i \in 1 .. Len(pipeline') : pipeline'[i] \in Shown
      BY <1>2, <2>2 DEF SendPop, TypeOK, QueueTypeOK, Shown
    <3>2. \A f \in Shown, n \in Nat : Precedes(f, n + 1) => Precedes(f, n)'
      BY <1>2, <3>1 DEF SendPop, Precedes
    <3>3. \A f \in Shown : Precedes(f, 0) => Precedes(f, 0)'
      <4> SUFFICES ASSUME NEW f \in Shown, Precedes(f, 0), f.gen > 0 PROVE Precedes(f, 0)'
        BY DEF Precedes
      <4>1. \A i \in 1 .. Len(pipeline') : i + 1 \in 1 .. Len(pipeline) /\ i + 1 > 0
        BY <3>1
      <4>2. \A i \in 1 .. Len(pipeline') : Ordered(f, pipeline'[i])
        BY <3>1, <4>1 DEF Precedes
      <4> QED BY <1>2, <2>2, <4>2 DEF SendPop, Precedes
    <3>4. QueueOrdered'
      <4>1. \A i \in 1 .. Len(pipeline') : \A f \in Shown :
              f = pipeline[i + 1] => Precedes(f, i)'
        BY <3>1, <3>2 DEF InOrder, QueueOrdered
      <4> QED BY <3>1, <4>1 DEF QueueOrdered
    <3>5. RenderBounded' /\ Undelayed' /\ Precedes(light, 0)'
      BY <1>0, <1>2, <2>2, <3>3 DEF SendPop, InOrder, RenderBounded, Undelayed, TypeOK, StateTypeOK
    <3>6. SendOrdered'
      <4> SUFFICES ASSUME NEW u \in Threads
          PROVE /\ Precedes(sender[u].held, 0)' /\ Precedes(sender[u].got, 0)'
                /\ Ordered(light, sender[u].held)' /\ Ordered(light, sender[u].got)'
                /\ Ordered(sender[u].held, sender[u].got)'
                /\ (sender[u].pc = "dead" => sender[u].held = Dark /\ sender[u].got = Dark)'
        BY DEF SendOrdered
      <4>0. sender[u].held \in Shown /\ sender[u].got \in Shown
        BY DEF TypeOK, SenderTypeOK, Shown
      <4>1. CASE u # t
        <5>1. sender'[u] = sender[u]
          BY <1>0, <1>2, <2>2, <4>1 DEF SendPop
        <5>2. \A f \in Shown : f \in {sender[u].held, sender[u].got} => Precedes(f, 0)'
          BY <3>3 DEF InOrder, SendOrdered
        <5>3. Precedes(sender[u].held, 0)' /\ Precedes(sender[u].got, 0)'
          BY <4>0, <5>1, <5>2
        <5> QED BY <1>2, <5>1, <5>3 DEF SendPop, InOrder, SendOrdered
      <4>2. CASE u = t
        <5>1. /\ sender'[u].held = sender[u].held /\ sender'[u].got = pipeline[1]
              /\ sender'[u].pc = "check"
          BY <1>0, <1>2, <2>2, <3>1, <4>2 DEF SendPop
        <5>2. \A f \in Shown : f \in {sender[u].held, pipeline[1]} => Precedes(f, 0)'
          BY <3>1, <3>2, <3>3 DEF InOrder, SendOrdered, QueueOrdered
        <5>3. Precedes(sender[u].held, 0)' /\ Precedes(sender[u].got, 0)'
          BY <3>1, <4>0, <5>1, <5>2
        <5>4. Ordered(light, pipeline[1]) /\ Ordered(sender[u].held, pipeline[1])
          BY <3>1 DEF InOrder, SendOrdered, Precedes, Ordered
        <5> QED BY <1>2, <5>1, <5>3, <5>4 DEF SendPop, InOrder, SendOrdered
      <4> QED BY <4>1, <4>2
    <3> QED BY <3>4, <3>5, <3>6 DEF InOrder
  <2> QED BY <2>1, <2>2
<1>3. CASE SendCheck(t)
  BY <1>0, <1>3, SendKeeps DEF SendCheck, SendPC
<1>4. CASE SendFlush(t)
  BY <1>0, <1>4, EmptiedInOrder DEF SendFlush, FlushPipeline, SendGoto, SendPC, TypeOK, StateTypeOK
<1>5. CASE SendDelay(t)
  BY <1>0, <1>5, SendKeeps DEF SendDelay, SendGoto, SendPC
<1>6. CASE SendMeasure(t)
  BY <1>0, <1>6 DEF SendMeasure
<1>7. CASE SendDelayed(t)
  BY <1>0, <1>7 DEF SendDelayed
<1>8. CASE SendFrame(t)
  <2>1. /\ RenderBounded' /\ QueueOrdered'
        /\ \A f \in Shown : Precedes(f, 0) => Precedes(f, 0)'
    BY <1>8, FramesUntouched DEF SendFrame
  <2>2. \A u \in Threads : /\ sender'[u].held = sender[u].held /\ sender'[u].got = sender[u].got
                           /\ sender'[u].held \in Shown /\ sender'[u].got \in Shown
                           /\ sender'[u].pc = "dead" => sender[u].pc = "dead"
                           /\ sender'[u].pc \notin {"measure", "pop"}
    BY <1>0, <1>8 DEF SendFrame, SendGoto, Shown
  <2>3. Undelayed'
    BY <1>8, <2>2 DEF SendFrame, InOrder, Undelayed
  <2>4. light' \in Shown /\ \A f \in Shown : f = light' => Precedes(f, 0)
    BY <1>8 DEF SendFrame, InOrder, SendOrdered, TypeOK, StateTypeOK, SenderTypeOK, Shown
  <2>5. Precedes(light, 0)'
    BY <2>1, <2>4
  <2>6. \A u \in Threads : Ordered(light', sender[u].held) /\ Ordered(light', sender[u].got)
    <3> SUFFICES ASSUME NEW u \in Threads
                 PROVE  Ordered(light', sender[u].held) /\ Ordered(light', sender[u].got)
      OBVIOUS
    <3>1. CASE u = t
      BY <1>8, <3>1, DarkFree DEF SendFrame, InOrder, SendOrdered, TypeOK, SenderTypeOK, Shown
    <3>2. CASE u # t
      BY <1>0, <3>2, OtherSenders DEF NoSender, Ordered, Dark
    <3> QED BY <3>1, <3>2
  <2>7. \A u \in Threads : \A f \in Shown :
          f \in {sender[u].held, sender[u].got} => Precedes(f, 0)'
    BY <2>1 DEF InOrder, SendOrdered
  <2>8. \A u \in Threads : Precedes(sender[u].held, 0)' /\ Precedes(sender[u].got, 0)'
    BY <2>2, <2>7
  <2>9. SendOrdered'
    BY <2>2, <2>6, <2>8 DEF InOrder, SendOrdered
  <2> QED BY <2>1, <2>3, <2>5, <2>9 DEF InOrder
<1> QED BY <1>1, <1>2, <1>3, <1>4, <1>5, <1>6, <1>7, <1>8 DEF SendThread

-----------------------------------------------------------------------------
(* The callers.                                                            *)

\* A step of a caller that touches no frame, or darkens the light, or shows
\* the colour of a one-shot effect.
LEMMA CallKeeps ==
  ASSUME TypeOK, InOrder, UNCHANGED <<generation, now, pipeline, renderer, sender>>,
         delayFrames' = 0, light' \in {light, Dark, Solid}
  PROVE  InOrder'
<1>1. /\ RenderBounded' /\ QueueOrdered'
      /\ \A f \in Shown : Precedes(f, 0) => Precedes(f, 0)'
  BY FramesUntouched
<1>2. light \in Shown /\ light' \in Shown /\ Dark \in Shown /\ Solid \in Shown
  BY DEF TypeOK, StateTypeOK, Shown
<1>3. Precedes(Dark, 0) /\ Precedes(Solid, 0)
  BY DEF Precedes, Dark, Solid
<1>4. \A f \in Shown : f = light' => Precedes(f, 0)
  BY <1>3 DEF InOrder
<1>5. Precedes(light, 0)'
  BY <1>1, <1>2, <1>4
<1>6. \A t \in Threads : /\ sender[t].held \in Shown /\ sender[t].got \in Shown
                         /\ Precedes(sender[t].held, 0) /\ Precedes(sender[t].got, 0)
  BY DEF InOrder, SendOrdered, TypeOK, SenderTypeOK, Shown
<1>7. \A t \in Threads : Precedes(sender[t].held, 0)' /\ Precedes(sender[t].got, 0)'
  <2>1. \A t \in Threads : \A f \in Shown :
          f \in {sender[t].held, sender[t].got} => Precedes(f, 0)'
    BY <1>1, <1>6
  <2> QED BY <1>6, <2>1
<1>8. \A t \in Threads : Ordered(light, sender[t].held)' /\ Ordered(light, sender[t].got)'
  BY DEF InOrder, SendOrdered, Ordered, Dark, Solid
<1>9. SendOrdered'
  BY <1>7, <1>8 DEF InOrder, SendOrdered
<1> QED BY <1>1, <1>5, <1>9 DEF InOrder, Undelayed

LEMMA CallInOrder ==
  ASSUME Serial, NoDelay, TypeOK, Owned, InOrder, NEW c \in Callers, Request(c) \/ Proceed(c)
  PROVE  InOrder'
<1> USE DEF engineVars, queueVars, delayVars
<1>0. delayFrames = 0
  BY DEF InOrder, Undelayed
<1>1. CASE \/ StartCall(c) \/ StopCall(c) \/ TransientExecute(c) \/ StartClearDelay(c)
           \/ StartTest(c) \/ StartArm(c) \/ StopSignal(c) \/ JoinRender(c)
           \/ JoinSend(c) \/ StopRelease(c) \/ StopFade(c) \/ ClearAudioDelay(c)
           \/ TransientTake(c) \/ TransientClaim(c)
  BY <1>0, <1>1, CallKeeps DEF StartCall, StopCall, TransientExecute, StartClearDelay,
     StartTest, StartArm, StopSignal, JoinRender, JoinSend, StopRelease, StopFade,
     ClearAudioDelay, TransientTake, TransientClaim
<1>2. CASE SetAudioDelay(c)
  BY <1>2, CallKeeps DEF SetAudioDelay, NoDelay
<1>3. CASE StartSwap(c)
  <2>1. generation' \in Nat /\ generation <= generation'
    BY <1>3 DEF StartSwap, TypeOK, StateTypeOK
  <2> QED BY <1>3, <2>1, EmptiedInOrder DEF StartSwap, InOrder, Undelayed
<1>4. CASE StartFlush(c)
  <2>1. generation' \in Nat /\ generation <= generation'
    BY <1>4 DEF StartFlush, TypeOK, StateTypeOK
  <2> QED BY <1>4, <2>1, EmptiedInOrder DEF StartFlush, FlushPipeline, InOrder, Undelayed
<1>5. CASE SpawnRender(c)
  <2>1. /\ renderer \in [Threads -> [pc : RenderPC, gen : Nat, frame : Frame \union {Dark}]]
        /\ generation \in Nat /\ now \in Nat
    BY EngineAssumption DEF TypeOK, RendererTypeOK, StateTypeOK, EngineAssumption
  <2>2. PICK t \in Threads : renderer' = [renderer EXCEPT ![t] = [NoRenderer EXCEPT !.pc = "top"]]
    BY <1>5 DEF SpawnRender
  <2>3. RenderBounded'
    BY <1>5, <2>1, <2>2 DEF SpawnRender, NoRenderer, InOrder, RenderBounded, Dark
  <2>4. \A f \in Shown, n \in Nat : Precedes(f, n) => Precedes(f, n)'
    BY <1>5, <2>1, <2>2 DEF SpawnRender, NoRenderer, Precedes, Ordered, Dark
  <2> QED BY <1>5, <2>3, <2>4, RenderKeeps DEF SpawnRender
<1>6. CASE SpawnSend(c)
  <2>1. PICK t \in Threads : sender' = [sender EXCEPT ![t] = [NoSender EXCEPT !.pc = "top"]]
    BY <1>6 DEF SpawnSend
  <2>2. \A u \in Threads :
          /\ sender'[u] = IF u = t THEN [NoSender EXCEPT !.pc = "top"] ELSE sender[u]
          /\ sender[u] \in [pc : SendPC \ {"measure", "pop"},
                           got : Frame \union {Dark}, held : Frame \union {Dark}]
          /\ sender[u].pc = "dead" => sender[u].held = Dark /\ sender[u].got = Dark
    BY <2>1 DEF TypeOK, SenderTypeOK, InOrder, Undelayed, SendOrdered
  <2>3. sender' \in [Threads -> [pc : SendPC \ {"measure", "pop"},
                                got : Frame \union {Dark}, held : Frame \union {Dark}]]
    BY <2>1, <2>2 DEF TypeOK, SenderTypeOK, NoSender, SendPC
  <2> QED BY <1>6, <2>2, <2>3, SendKeeps DEF SpawnSend, NoSender
<1> QED BY <1>1, <1>2, <1>3, <1>4, <1>5, <1>6 DEF Request, Proceed

LEMMA StepInOrder ==
  ASSUME Serial, NoDelay, TypeOK, Owned, InOrder, [Next]_vars
  PROVE  InOrder'
<1>1. CASE UNCHANGED vars
  BY <1>1, CallKeeps DEF vars, engineVars, queueVars, delayVars, InOrder, Undelayed
<1>2. CASE Next
  BY <1>2, RenderInOrder, SendInOrder, CallInOrder DEF Next
<1> QED BY <1>1, <1>2

-----------------------------------------------------------------------------
\* With serialised calls, joins that wait and no audio delay, the emitters
\* never go back to an earlier frame, nor to a frame of a replaced effect,
\* whatever the sizes of the queue and however often effects are swapped,
\* stopped and started again while frames are queued or being rendered.
THEOREM SerialFramesInOrder == ASSUME Serial, NoDelay PROVE Spec => FramesInOrder
<1> DEFINE Forward == light.gen > 0 /\ light'.gen > 0 => NotBefore(light, light')
<1>1. Init => InOrder
  BY InitInOrder
<1>2. TypeOK /\ Owned /\ InOrder /\ [Next]_vars => InOrder'
  BY Serial, NoDelay, StepInOrder
<1>3. TypeOK /\ Owned /\ InOrder /\ [Next]_vars => [Forward]_vars
  <2> SUFFICES ASSUME TypeOK, Owned, InOrder, Next PROVE Forward
    OBVIOUS
  <2>1. CASE light' \in {light, Dark, Solid}
    BY <2>1, DarkFree DEF Ordered, Dark, Solid, TypeOK, StateTypeOK
  <2>2. CASE \E t \in Threads : SendFrame(t)
    BY <2>2, DarkFree DEF SendFrame, InOrder, SendOrdered, Ordered, TypeOK, StateTypeOK
  <2>3. CASE \E t \in Threads : RenderThread(t) \/ (SendThread(t) /\ ~SendFrame(t))
    BY <2>1, <2>3 DEF RenderThread, RenderExit, RenderProceed, RenderSnapshot, RenderFrame,
       RenderNothing, RenderPut, SendThread, SendExit, SendPop, SendCheck, SendFlush,
       SendDelay, SendMeasure, SendDelayed
  <2>4. CASE \E c \in Callers : Request(c) \/ Proceed(c)
    BY <2>1, <2>4 DEF Request, Proceed, StartCall, StopCall, SetAudioDelay,
       TransientExecute, StartSwap, StartFlush, StartClearDelay, StartTest, StartArm,
       SpawnRender, SpawnSend, StopSignal, JoinRender, JoinSend, StopRelease, StopFade,
       ClearAudioDelay, TransientTake, TransientClaim
  <2> QED BY <2>2, <2>3, <2>4 DEF Next
<1> HIDE DEF Forward
<1> QED BY <1>1, <1>2, <1>3, AlwaysOwned, PTL DEF Spec, FramesInOrder, Forward

-----------------------------------------------------------------------------
(* An engine is a Player.                                                  *)

\* A call of start() or a thread is under way, so that a frame may come.
Open == Amid(Starting) \/ \E t \in Threads : Live(renderer[t]) \/ Live(sender[t])

New(f) == f.gen > 0 => f.gen > since

\* The inductive invariant: whatever may still be shown is of an effect asked
\* for since stop() last returned.
Recent ==
  /\ since \in Nat /\ since <= generation
  /\ Amid(Stopping) => ~running
  /\ Open => /\ generation > since
             /\ \A i \in 1 .. Len(pipeline) : New(pipeline[i])
  /\ \A t \in Threads :
       /\ renderer[t].pc = "render" => renderer[t].gen > since
       /\ Live(renderer[t]) => New(renderer[t].frame)
       /\ Live(sender[t]) => New(sender[t].held) /\ New(sender[t].got)

LEMMA InitRecent == HistoryInit => Recent
  BY DEF HistoryInit, Init, Recent, Open, Amid, Starting, Stopping, NoRenderer, NoSender, Live

LEMMA RenderRecent ==
  ASSUME TypeOK, Recent, NEW t \in Threads, RenderThread(t), UNCHANGED since
  PROVE  Recent'
<1> USE DEF engineVars, queueVars
<1>0. /\ renderer \in [Threads -> [pc : RenderPC, gen : Nat, frame : Frame \union {Dark}]]
      /\ generation \in Nat /\ since \in Nat /\ Live(renderer[t]) /\ generation > since
      /\ UNCHANGED <<running, generation, caller, sender>>
  <2>1. Live(renderer[t]) /\ UNCHANGED <<running, generation, caller, sender>>
    BY DEF RenderThread, RenderExit, RenderProceed, RenderSnapshot, RenderFrame,
       RenderNothing, RenderPut, Live
  <2> QED BY <2>1 DEF TypeOK, RendererTypeOK, StateTypeOK, Recent, Open
<1>1. \A u \in Threads \ {t} : renderer'[u] = renderer[u]
  BY <1>0 DEF RenderThread, RenderExit, RenderProceed, RenderSnapshot, RenderFrame,
     RenderNothing, RenderPut, RenderGoto
<1>2. /\ renderer'[t].pc = "render" => renderer'[t].gen > since
      /\ New(renderer'[t].frame)
  <2>1. CASE RenderExit(t) \/ RenderProceed(t) \/ RenderNothing(t) \/ RenderPut(t)
    BY <1>0, <2>1 DEF RenderExit, RenderProceed, RenderNothing, RenderPut, RenderGoto,
       NoRenderer, Dark, New, Recent
  <2>2. CASE RenderSnapshot(t)
    BY <1>0, <2>2 DEF RenderSnapshot, New, Recent
  <2>3. CASE RenderFrame(t)
    BY <1>0, <2>3 DEF RenderFrame, New, Recent
  <2> QED BY <2>1, <2>2, <2>3 DEF RenderThread
<1>3. \A i \in 1 .. Len(pipeline') : New(pipeline'[i])
  <2>1. CASE RenderPut(t) /\ HasRoom
    <3>1. /\ Len(pipeline') = Len(pipeline) + 1 /\ Len(pipeline) \in Nat
          /\ \A i \in 1 .. Len(pipeline) : pipeline'[i] = pipeline[i]
          /\ pipeline'[Len(pipeline) + 1] = renderer[t].frame
      BY <1>0, <2>1 DEF RenderPut, TypeOK, QueueTypeOK, RendererTypeOK
    <3> QED BY <1>0, <3>1 DEF Recent, Open
  <2>2. CASE ~RenderPut(t) \/ ~HasRoom
    <3>1. pipeline' = pipeline
      BY <2>2 DEF RenderThread, RenderExit, RenderProceed, RenderSnapshot, RenderFrame,
         RenderNothing, RenderPut
    <3> QED BY <1>0, <3>1 DEF Recent, Open
  <2> QED BY <2>1, <2>2
<1>4. ASSUME NEW u \in Threads
      PROVE  /\ renderer'[u].pc = "render" => renderer'[u].gen > since'
             /\ Live(renderer'[u]) => New(renderer[u].frame)'
             /\ Live(sender'[u]) => New(sender[u].held)' /\ New(sender[u].got)'
  BY <1>0, <1>1, <1>2 DEF Recent, New, Live
<1> QED BY <1>0, <1>3, <1>4 DEF Recent, New, Amid, Live

LEMMA SendRecent ==
  ASSUME TypeOK, Recent, Undelayed, NEW t \in Threads, SendThread(t), UNCHANGED since
  PROVE  Recent'
<1> USE DEF engineVars, queueVars
<1>0. /\ sender \in [Threads -> [pc : SendPC, got : Frame \union {Dark},
                                held : Frame \union {Dark}]]
      /\ generation \in Nat /\ since \in Nat /\ Live(sender[t]) /\ generation > since
      /\ \A i \in 1 .. Len(pipeline) : New(pipeline[i])
      /\ New(sender[t].held) /\ New(sender[t].got) /\ New(Dark)
      /\ UNCHANGED <<running, generation, caller, renderer>>
  <2>1. Live(sender[t]) /\ UNCHANGED <<running, generation, caller, renderer>>
    BY DEF SendThread, SendExit, SendPop, SendCheck, SendFlush, SendDelay, SendMeasure,
       SendDelayed, SendFrame, Live
  <2> QED BY <2>1 DEF TypeOK, SenderTypeOK, StateTypeOK, Recent, Open, New, Dark
<1>1. \A u \in Threads \ {t} : sender'[u] = sender[u]
  BY <1>0 DEF SendThread, SendExit, SendPop, SendCheck, SendFlush, SendDelay, SendMeasure,
     SendDelayed, SendFrame, SendGoto
<1>2. CASE SendPop(t) /\ pipeline # <<>>
  <2>1. /\ Len(pipeline') = Len(pipeline) - 1 /\ Len(pipeline) \in Nat \ {0}
        /\ \A i \in 1 .. Len(pipeline') : pipeline'[i] = pipeline[i + 1]
        /\ Head(pipeline) = pipeline[1]
    BY <1>2 DEF SendPop, TypeOK, QueueTypeOK
  <2>2. \A i \in 1 .. Len(pipeline') : New(pipeline'[i])
    BY <1>0, <2>1
  <2>3. New(sender'[t].held) /\ New(sender'[t].got)
    BY <1>0, <1>2, <2>1 DEF SendPop
  <2> QED BY <1>0, <1>1, <2>2, <2>3 DEF Recent, New, Amid, Open, Live
<1>3. CASE ~(SendPop(t) /\ pipeline # <<>>)
  <2>1. pipeline' = pipeline \/ pipeline' = <<>>
    BY <1>3 DEF SendThread, SendExit, SendPop, SendCheck, SendFlush, SendDelay, SendMeasure,
       SendDelayed, SendFrame, FlushPipeline
  <2>2. /\ sender'[t].held \in {sender[t].held, sender[t].got, Dark}
        /\ sender'[t].got \in {sender[t].got, Dark}
    BY <1>0, <1>3 DEF SendThread, SendExit, SendPop, SendCheck, SendFlush, SendDelay,
       SendMeasure, SendDelayed, SendFrame, SendGoto, NoSender, Undelayed
  <2>3. New(sender'[t].held) /\ New(sender'[t].got)
    BY <1>0, <2>2
  <2>4. \A i \in 1 .. Len(pipeline') : New(pipeline'[i])
    BY <1>0, <2>1
  <2> QED BY <1>0, <1>1, <2>3, <2>4 DEF Recent, New, Amid, Open, Live
<1> QED BY <1>2, <1>3

LEMMA CallRecent ==
  ASSUME Serial, TypeOK, Owned, Recent, NEW c \in Callers, Request(c) \/ Proceed(c),
         since' = IF \E d \in Callers : StopFade(d) THEN generation ELSE since
  PROVE  Recent'
<1> USE DEF engineVars, queueVars, CallGoto
<1>0. /\ \A d \in Callers : d = c
      /\ caller \in [Callers -> [pc : CallPC, inst : 0 .. MaxCalls]]
      /\ generation \in Nat /\ since \in Nat /\ since <= generation
  BY DEF Serial, TypeOK, CallerTypeOK, StateTypeOK, Recent
<1>1. CASE StopFade(c)
  <2>1. \A t \in Threads : ~Live(renderer'[t]) /\ ~Live(sender'[t])
    BY <1>1 DEF StopFade, Owned, Threads, None
  <2>2. caller'[c].pc = "idle"
    BY <1>0, <1>1 DEF StopFade
  <2>3. since' = generation' /\ ~Open'
    BY <1>0, <1>1, <2>1, <2>2 DEF StopFade, Open, Amid, Starting
  <2> QED BY <1>0, <2>1, <2>2, <2>3 DEF Recent, Amid, Stopping, Live
<1>2. ASSUME ~StopFade(c) PROVE Recent'
  <2>1. since' = since
    BY <1>0, <1>2
  <2>2. CASE StartSwap(c)
    <3>1. generation' > since' /\ pipeline' = <<>> /\ caller'[c].pc = "flush"
      BY <1>0, <2>1, <2>2 DEF StartSwap
    <3> QED BY <1>0, <2>1, <2>2, <3>1 DEF StartSwap, Recent, New, Amid, Stopping, Live, TypeOK, StateTypeOK
  <2>3. CASE SpawnRender(c)
    <3>1. PICK t \in Threads :
            renderer' = [renderer EXCEPT ![t] = [NoRenderer EXCEPT !.pc = "top"]]
      BY <2>3 DEF SpawnRender
    <3>2. Open /\ caller'[c].pc = "spawnSend"
      BY <1>0, <2>3 DEF SpawnRender, Open, Amid, Starting
    <3>3. \A u \in Threads : renderer'[u] =
            IF u = t THEN [NoRenderer EXCEPT !.pc = "top"] ELSE renderer[u]
      BY <3>1 DEF TypeOK, RendererTypeOK
    <3> QED BY <1>0, <2>1, <2>3, <3>2, <3>3
        DEF SpawnRender, Recent, New, Amid, Stopping, NoRenderer, Dark, Live
  <2>4. CASE SpawnSend(c)
    <3>1. PICK t \in Threads :
            sender' = [sender EXCEPT ![t] = [NoSender EXCEPT !.pc = "top"]]
      BY <2>4 DEF SpawnSend
    <3>2. Open /\ caller'[c].pc = "idle"
      BY <1>0, <2>4 DEF SpawnSend, Open, Amid, Starting
    <3>3. \A u \in Threads : sender'[u] =
            IF u = t THEN [NoSender EXCEPT !.pc = "top"] ELSE sender[u]
      BY <3>1 DEF TypeOK, SenderTypeOK
    <3> QED BY <1>0, <2>1, <2>4, <3>2, <3>3
        DEF SpawnSend, Recent, New, Amid, Stopping, NoSender, Dark, Live
  <2>5. ASSUME UNCHANGED <<generation, renderer, sender>>,
               pipeline' = pipeline \/ pipeline' = <<>>,
               caller'[c].pc \in Starting => caller[c].pc \in Starting,
               caller'[c].pc \in Stopping => ~running'
        PROVE  Recent'
    <3>1. Open' => Open
      BY <1>0, <2>5 DEF Open, Amid, Live
    <3> QED BY <1>0, <2>1, <2>5, <3>1 DEF Recent, New, Amid, Live
  <2>6. CASE \/ StartCall(c) \/ StartFlush(c) \/ StartClearDelay(c) \/ StartTest(c)
             \/ StartArm(c) \/ SetAudioDelay(c) \/ ClearAudioDelay(c)
             \/ TransientExecute(c) \/ TransientTake(c) \/ TransientClaim(c)
    <3>1. /\ UNCHANGED <<generation, renderer, sender>>
          /\ pipeline' = pipeline \/ pipeline' = <<>>
          /\ caller'[c].pc \in Starting => caller[c].pc \in Starting
          /\ caller'[c].pc \notin Stopping
      BY <1>0, <2>6 DEF StartCall, StartFlush, StartClearDelay, StartTest, StartArm,
         SetAudioDelay, ClearAudioDelay, TransientExecute, TransientTake, TransientClaim,
         FlushPipeline, Starting, Stopping
    <3> QED BY <2>5, <3>1
  <2>7. CASE StopCall(c) \/ StopSignal(c) \/ JoinRender(c) \/ JoinSend(c) \/ StopRelease(c)
    <3>1. /\ UNCHANGED <<generation, renderer, sender, pipeline>>
          /\ caller'[c].pc \notin Starting
          /\ StopCall(c) \/ (caller[c].pc \in Stopping /\ UNCHANGED running)
      BY <1>0, <2>7 DEF StopCall, StopSignal, JoinRender, JoinSend, StopRelease,
         Starting, Stopping
    <3>2. ~running'
      BY <3>1 DEF StopCall, Recent, Amid
    <3> QED BY <2>5, <3>1, <3>2
  <2> QED BY <1>2, <2>2, <2>3, <2>4, <2>6, <2>7 DEF Request, Proceed
<1> QED BY <1>1, <1>2

LEMMA StepRecent ==
  ASSUME Serial, TypeOK, Owned, InOrder, Recent, [HistoryNext]_historyVars
  PROVE  Recent'
<1>1. CASE UNCHANGED historyVars
  BY <1>1 DEF historyVars, vars, engineVars, queueVars, Recent, Open, Amid, New, Live
<1>2. CASE HistoryNext
  <2>1. ASSUME NEW t \in Threads, RenderThread(t) \/ SendThread(t) PROVE Recent'
    <3>1. \A c \in Callers : ~StopFade(c)
      <4>1. UNCHANGED caller
        BY <2>1 DEF RenderThread, RenderExit, RenderProceed, RenderSnapshot, RenderFrame,
           RenderNothing, RenderPut, SendThread, SendExit, SendPop, SendCheck, SendFlush,
           SendDelay, SendMeasure, SendDelayed, SendFrame
      <4> QED BY <4>1 DEF StopFade, CallGoto, TypeOK, CallerTypeOK
    <3>2. UNCHANGED since
      BY <1>2, <3>1 DEF HistoryNext
    <3> QED BY <2>1, <3>2, RenderRecent, SendRecent DEF InOrder
  <2> QED BY <1>2, <2>1, CallRecent DEF HistoryNext, Next
<1> QED BY <1>1, <1>2

\* Everything that is known of a serial engine.
Known == TypeOK /\ Owned /\ InOrder /\ Recent

LEMMA AlwaysKnown == ASSUME Serial, NoDelay PROVE HistorySpec => []Known
<1>1. HistoryInit => Known
  BY InitTypeOK, InitOwned, InitInOrder, InitRecent DEF HistoryInit, Known
<1>2. Known /\ [HistoryNext]_historyVars => Known'
  <2>1. [HistoryNext]_historyVars => [Next]_vars
    BY DEF HistoryNext, historyVars
  <2> QED BY <2>1, StepTypeOK, StepOwned, StepInOrder, StepRecent DEF Known
<1> QED BY <1>1, <1>2, PTL DEF HistorySpec

\* What a step of a thread means to the player: a frame is shown, or nothing.
LEMMA ThreadPlays ==
  ASSUME Serial, Known, NEW t \in Threads, RenderThread(t) \/ SendThread(t), UNCHANGED since
  PROVE  UNCHANGED P!playerVars \/ \E g \in since + 1 .. generation : P!Show(g)
<1>1. UNCHANGED <<caller, running, generation>>
  BY DEF RenderThread, RenderExit, RenderProceed, RenderSnapshot, RenderFrame, RenderNothing,
     RenderPut, SendThread, SendExit, SendPop, SendCheck, SendFlush, SendDelay, SendMeasure,
     SendDelayed, SendFrame, engineVars
<1>2. UNCHANGED <<Phase, generation, since>>
  BY <1>1 DEF Phase, Amid
<1>3. CASE light' = light
  BY <1>2, <1>3 DEF P!playerVars
<1>4. CASE light' # light
  <2>1. /\ SendFrame(t) /\ light' = sender[t].held /\ sender[t].held # Dark
        /\ Live(sender[t])
    BY <1>4 DEF RenderThread, RenderExit, RenderProceed, RenderSnapshot, RenderFrame,
       RenderNothing, RenderPut, SendThread, SendExit, SendPop, SendCheck, SendFlush,
       SendDelay, SendMeasure, SendDelayed, SendFrame, Live
  <2>2. /\ light' \in Frame
        /\ light' = [gen |-> light'.gen, at |-> light'.at]
        /\ light'.gen \in Nat \ {0} /\ light'.at \in 0 .. MaxTime
    BY <2>1 DEF Known, TypeOK, SenderTypeOK, Frame
  <2>3. light'.gen \in since + 1 .. generation
    BY <2>1, <2>2 DEF Known, TypeOK, StateTypeOK, Recent, New, InOrder, SendOrdered, Precedes
  <2>4. Ordered(light, light')
    BY <2>1 DEF Known, InOrder, SendOrdered
  <2>5. P!Follows(light')
    BY <2>2, <2>4 DEF P!Follows, Ordered, NotBefore
  <2>6. Phase # "stopped"
    <3>1. PICK c : Callers = {c}
      BY DEF Serial
    <3>2. t = sendHandle /\ sendHandle # None
      BY <2>1 DEF Known, Owned, Threads, None
    <3>3. caller[c].pc \in Stopping \/ running
      BY <3>1, <3>2 DEF Known, Owned, Spawning
    <3> QED BY <3>1, <3>3 DEF Phase, Amid
  <2> QED BY <1>2, <2>2, <2>3, <2>5, <2>6 DEF P!Show
<1> QED BY <1>3, <1>4

\* What a step of a caller means to the player.
LEMMA CallPlays ==
  ASSUME Serial, Known, NEW c \in Callers, Request(c) \/ Proceed(c),
         since' = IF \E d \in Callers : StopFade(d) THEN generation ELSE since
  PROVE  UNCHANGED P!playerVars \/ P!Play \/ P!Flash \/ P!BeginStop \/ P!EndStop
<1> USE DEF engineVars, CallGoto
<1>0. /\ \A d \in Callers : d = c
      /\ caller \in [Callers -> [pc : CallPC, inst : 0 .. MaxCalls]]
      /\ running \in BOOLEAN
  BY DEF Serial, Known, TypeOK, CallerTypeOK, StateTypeOK
<1>2. /\ Amid(Stopping) <=> caller[c].pc \in Stopping
      /\ Amid(Stopping)' <=> caller'[c].pc \in Stopping
      /\ Amid(Starting \union OneShot) <=> caller[c].pc \in Starting \union OneShot
      /\ Amid(Starting \union OneShot)' <=> caller'[c].pc \in Starting \union OneShot
  BY <1>0 DEF Amid
<1>3. Amid(Stopping) => ~running
  BY DEF Known, Recent
<1> HIDE DEF CallGoto
<1>4. CASE StartSwap(c)
  <2>1. caller[c].pc = "swap" /\ caller'[c].pc = "flush"
    BY <1>0, <1>4 DEF StartSwap
  <2>2. Phase # "stopping" /\ Phase' = "playing" /\ UNCHANGED since
    BY <1>0, <1>2, <1>4, <2>1 DEF StartSwap, StopFade, Phase, Starting, Stopping
  <2>3. generation' = generation + 1 /\ UNCHANGED light
    BY <1>4 DEF StartSwap
  <2> QED BY <2>2, <2>3 DEF P!Play
<1>5. CASE TransientExecute(c)
  <2>1. caller[c].pc = "idle" /\ caller'[c].pc = "take"
    BY <1>0, <1>5 DEF TransientExecute
  <2>2. Phase # "stopping" /\ Phase' = "playing" /\ UNCHANGED since
    BY <1>0, <1>2, <1>5, <2>1 DEF TransientExecute, StopFade, Phase, Starting, Stopping, OneShot
  <2>3. light' = Solid /\ UNCHANGED generation
    BY <1>5 DEF TransientExecute
  <2> QED BY <2>2, <2>3 DEF P!Flash, P!Solid, Solid
<1>6. CASE StopCall(c)
  <2>1. caller[c].pc = "idle" /\ caller'[c].pc = "signal"
    BY <1>0, <1>6 DEF StopCall, CallGoto
  <2>2. Phase # "stopping" /\ Phase' = "stopping" /\ UNCHANGED since
    BY <1>0, <1>2, <1>6, <2>1 DEF StopFade, Phase, Stopping
  <2> QED BY <1>6, <2>2 DEF StopCall, P!BeginStop
<1>7. CASE StopFade(c)
  <2>1. caller[c].pc = "fade" /\ caller'[c].pc = "idle" /\ UNCHANGED running
    BY <1>0, <1>7 DEF StopFade, CallGoto
  <2>2. Phase = "stopping" /\ Phase' = "stopped" /\ since' = generation
    BY <1>2, <1>3, <1>7, <2>1 DEF Phase, Stopping, Starting, OneShot
  <2> QED BY <1>7, <2>2 DEF StopFade, P!EndStop, P!Dark, Dark
<1>8. ASSUME ~StopFade(c), UNCHANGED <<generation, light>>, Phase' = Phase
      PROVE  UNCHANGED P!playerVars
  BY <1>0, <1>8 DEF P!playerVars
<1>9. CASE \/ StartCall(c) \/ StartFlush(c) \/ StartClearDelay(c) \/ StartTest(c)
           \/ StartArm(c) \/ SpawnRender(c) \/ SpawnSend(c) \/ SetAudioDelay(c)
           \/ ClearAudioDelay(c) \/ TransientTake(c) \/ TransientClaim(c)
  <2>1. /\ UNCHANGED <<generation, light>>
        /\ caller[c].pc \notin Stopping /\ caller'[c].pc \notin Stopping
    BY <1>0, <1>9 DEF StartCall, StartFlush, StartClearDelay, StartTest, StartArm,
       SpawnRender, SpawnSend, SetAudioDelay, ClearAudioDelay, TransientTake,
       TransientClaim, CallGoto, Stopping
  <2>2. (running \/ caller[c].pc \in Starting \union OneShot)
          <=> (running' \/ caller'[c].pc \in Starting \union OneShot)
    <3>1. CASE SpawnSend(c)
      <4>1. running /\ running'
        BY <3>1 DEF SpawnSend, Known, Owned, Spawning
      <4> QED BY <4>1
    <3>2. CASE ~SpawnSend(c)
      BY <1>0, <1>9, <3>2 DEF StartCall, StartFlush, StartClearDelay, StartTest, StartArm,
         SpawnRender, SetAudioDelay, ClearAudioDelay, TransientTake, TransientClaim,
         CallGoto, Starting, OneShot
    <3> QED BY <3>1, <3>2
  <2>3. ~StopFade(c)
    BY <2>1 DEF StopFade, Stopping
  <2> QED BY <1>2, <1>8, <2>1, <2>2, <2>3 DEF Phase
<1>10. CASE StopSignal(c) \/ JoinRender(c) \/ JoinSend(c) \/ StopRelease(c)
  <2>1. /\ UNCHANGED <<generation, light>> /\ caller[c].pc # "fade"
        /\ caller[c].pc \in Stopping /\ caller'[c].pc \in Stopping
    BY <1>0, <1>10 DEF StopSignal, JoinRender, JoinSend, StopRelease, CallGoto, Stopping
  <2>2. ~StopFade(c)
    BY <2>1 DEF StopFade
  <2> QED BY <1>2, <1>8, <2>1, <2>2 DEF Phase
<1> QED BY <1>4, <1>5, <1>6, <1>7, <1>9, <1>10 DEF Request, Proceed

\* With serialised calls, joins that wait and no audio delay, for any number of
\* calls, one-shot effects among them, and queues of any size, the engine
\* implements the Player, but for its going on in time: frames come in order and
\* only of effects asked for since the last stop() returned, and once it has
\* returned the light stays as it is.
THEOREM SerialPlaysAsAsked == ASSUME Serial, NoDelay PROVE HistorySpec => PlaysAsAsked
<1>1. HistoryInit => P!Init
  BY DEF HistoryInit, Init, P!Init, Phase, Amid, Stopping, Starting, OneShot, Dark, P!Dark
<1>2. Known /\ [HistoryNext]_historyVars => [P!Next]_(P!playerVars)
  <2> SUFFICES ASSUME Known, [HistoryNext]_historyVars PROVE [P!Next]_(P!playerVars)
    OBVIOUS
  <2>1. CASE UNCHANGED historyVars
    BY <2>1 DEF historyVars, vars, engineVars, P!playerVars, Phase, Amid
  <2>2. ASSUME HistoryNext, NEW t \in Threads, RenderThread(t) \/ SendThread(t)
        PROVE  [P!Next]_(P!playerVars)
    <3>1. UNCHANGED caller
      BY <2>2 DEF RenderThread, RenderExit, RenderProceed, RenderSnapshot, RenderFrame,
         RenderNothing, RenderPut, SendThread, SendExit, SendPop, SendCheck, SendFlush,
         SendDelay, SendMeasure, SendDelayed, SendFrame
    <3>2. UNCHANGED since
      BY <2>2, <3>1 DEF HistoryNext, StopFade, CallGoto, Known, TypeOK, CallerTypeOK
    <3> QED BY <2>2, <3>2, ThreadPlays, Serial DEF P!Next
  <2>3. ASSUME HistoryNext, NEW c \in Callers, Request(c) \/ Proceed(c)
        PROVE  [P!Next]_(P!playerVars)
    BY <2>3, CallPlays, Serial DEF HistoryNext, P!Next
  <2> QED BY <2>1, <2>2, <2>3 DEF HistoryNext, Next
<1> QED BY <1>1, <1>2, AlwaysKnown, PTL DEF HistorySpec, PlaysAsAsked, P!Spec
=============================================================================
