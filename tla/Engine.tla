------------------------------- MODULE Engine -------------------------------
(***************************************************************************)
(* engine.py: one Engine, the render thread that fills its frame pipeline, *)
(* the send thread that drains it, and the threads that call start, stop   *)
(* and set_audio_delay.  A caller is an HTTP handler, the scheduler or the *)
(* MQTT bridge; each of its steps between two accesses to shared state is  *)
(* an action, so callers, renderers and senders interleave freely.         *)
(*                                                                         *)
(* A frame is the generation it was rendered for and the time it was       *)
(* rendered at; colours are abstracted away.  Dark stands for "no colours":*)
(* the empty dict held by a send thread that has nothing to show, and the  *)
(* black that stop() writes to the emitters.                               *)
(***************************************************************************)
EXTENDS Naturals, Sequences, FiniteSets

CONSTANTS
  Callers,        \* the threads that call the engine
  MaxThreads,     \* bound: render (and send) threads alive at one time
  MaxCalls,       \* bound: calls other than stop in a behaviour
  MaxTime,        \* bound: render times told apart, later ones are equal
  HighWater,      \* PIPELINE_HIGH_WATER
  LowLatency,     \* PIPELINE_LOW_LATENCY, the capacity under a signal bus
  Delays,         \* the frame counts set_audio_delay is called with
  Transients,     \* whether DeviceManager.play runs one-shot effects too
  JoinExpires     \* whether join(timeout=THREAD_JOIN_TIMEOUT) may give up

ASSUME EngineAssumption ==
  /\ MaxThreads \in Nat \ {0} /\ MaxCalls \in Nat /\ MaxTime \in Nat
  /\ HighWater \in Nat \ {0} /\ LowLatency \in 1 .. HighWater
  /\ Delays \subseteq Nat /\ Transients \in BOOLEAN /\ JoinExpires \in BOOLEAN

VARIABLES
  effect,         \* self.effect: the instance, 0 for None
  generation,     \* self._effect_generation
  running,        \* self.running
  stopEvent,      \* self._stop_event.is_set()
  pipeline,       \* the frames queued in self._pipeline
  capacity,       \* maxsize of self._pipeline
  delayFrames,    \* self._audio_delay_frames
  delayBuffer,    \* self._delay_buffer
  renderHandle,   \* self._render_thread_handle, 0 for None
  sendHandle,     \* self._send_thread, 0 for None
  renderer,       \* render threads: program counter, snapshot, frame
  sender,         \* send threads: program counter, popped and held frame
  caller,         \* callers: program counter and argument
  calls,          \* calls other than stop so far, the identity of an effect
  now,            \* time.time(), counted in rendered frames
  light           \* what the emitters were last told to show

engineVars == <<effect, generation, running, stopEvent>>
queueVars  == <<pipeline, capacity>>
delayVars  == <<delayFrames, delayBuffer>>
handleVars == <<renderHandle, sendHandle>>
vars == <<engineVars, queueVars, delayVars, handleVars, renderer, sender,
          caller, calls, now, light>>

None    == 0
Dark    == [gen |-> 0, at |-> 0]
Solid   == [gen |-> 0, at |-> 1]     \* the colour of a one-shot effect
Threads == 1 .. MaxThreads
Frame   == [gen : Nat \ {0}, at : 0 .. MaxTime]
Shown   == Frame \union {Dark, Solid}

RenderPC == {"dead", "top", "snap", "render", "put"}
SendPC   == {"dead", "top", "check", "flush", "delay", "measure", "pop", "send"}
CallPC   == {"idle", "swap", "flush", "clear", "test", "arm", "spawnRender",
             "spawnSend", "signal", "joinRender", "joinSend", "release",
             "fade", "clearDelay", "take", "claim"}

Live(thread) == thread.pc # "dead"
Starting == {"flush", "clear", "test", "arm", "spawnRender", "spawnSend"}

\* Threads exist, and start() is past its critical section, only once a
\* generation has been opened.
StartOrder ==
  /\ \A c \in Callers : caller[c].pc \in Starting => generation > 0
  /\ \A t \in Threads : Live(renderer[t]) => generation > 0

StateTypeOK ==
  /\ effect \in 0 .. MaxCalls /\ generation \in Nat
  /\ running \in BOOLEAN /\ stopEvent \in BOOLEAN
  /\ calls \in 0 .. MaxCalls /\ now \in 0 .. MaxTime /\ light \in Shown

QueueTypeOK ==
  /\ pipeline \in Seq(Frame) /\ capacity \in {HighWater, LowLatency}
  /\ Len(pipeline) <= capacity
  /\ delayFrames \in Delays \union {0} /\ delayBuffer \in Seq(Frame \union {Dark})

RendererTypeOK ==
  /\ renderHandle \in Threads \union {None}
  /\ renderer \in [Threads -> [pc : RenderPC, gen : Nat, frame : Frame \union {Dark}]]
  /\ \A t \in Threads :
       /\ renderer[t].pc = "render" => renderer[t].gen > 0
       /\ renderer[t].pc = "put" => renderer[t].frame # Dark

SenderTypeOK ==
  /\ sendHandle \in Threads \union {None}
  /\ sender \in [Threads -> [pc : SendPC, got : Frame \union {Dark},
                             held : Frame \union {Dark}]]

CallerTypeOK == caller \in [Callers -> [pc : CallPC, inst : 0 .. MaxCalls]]

TypeOK ==
  /\ StateTypeOK /\ QueueTypeOK /\ RendererTypeOK /\ SenderTypeOK
  /\ CallerTypeOK /\ StartOrder

NoRenderer == [pc |-> "dead", gen |-> 0, frame |-> Dark]
NoSender   == [pc |-> "dead", got |-> Dark, held |-> Dark]

Init ==
  /\ effect = None /\ generation = 0 /\ running = FALSE /\ stopEvent = FALSE
  /\ pipeline = <<>> /\ capacity = HighWater
  /\ delayFrames = 0 /\ delayBuffer = <<>>
  /\ renderHandle = None /\ sendHandle = None
  /\ renderer = [t \in Threads |-> NoRenderer]
  /\ sender = [t \in Threads |-> NoSender]
  /\ caller = [c \in Callers |-> [pc |-> "idle", inst |-> 0]]
  /\ calls = 0 /\ now = 0 /\ light = Dark

\* Mutant: the loops leave only once the queue has been drained.
HaltedWhenDrained == (~running \/ stopEvent) /\ pipeline = <<>>

\* The condition on which both loops leave: running is cleared or the stop
\* event is set.
Halted == ~running \/ stopEvent

-----------------------------------------------------------------------------
(* The render thread.                                                      *)

RenderGoto(t, pc) == renderer' = [renderer EXCEPT ![t].pc = pc]

RenderExit(t) ==
  /\ renderer[t].pc = "top" /\ Halted
  /\ renderer' = [renderer EXCEPT ![t] = NoRenderer]
  /\ UNCHANGED <<engineVars, queueVars, delayVars, handleVars, sender, caller,
                 calls, now, light>>

\* The water-mark wait.  It compares with PIPELINE_HIGH_WATER whatever the
\* capacity of the queue, and its wait has a timeout, so the notify() of the
\* send thread only makes the next test come sooner.
RenderProceed(t) ==
  /\ renderer[t].pc = "top" /\ ~Halted
  /\ Len(pipeline) < HighWater
  /\ RenderGoto(t, "snap")
  /\ UNCHANGED <<engineVars, queueVars, delayVars, handleVars, sender, caller,
                 calls, now, light>>

\* Effect and generation are read together under _lock.
RenderSnapshot(t) ==
  /\ renderer[t].pc = "snap"
  /\ renderer' = [renderer EXCEPT
       ![t].pc = IF effect = None THEN "top" ELSE "render",
       ![t].gen = generation]
  /\ UNCHANGED <<engineVars, queueVars, delayVars, handleVars, sender, caller,
                 calls, now, light>>

RenderFrame(t) ==
  /\ renderer[t].pc = "render"
  /\ now' = IF now < MaxTime THEN now + 1 ELSE now
  /\ renderer' = [renderer EXCEPT
       ![t].pc = "put", ![t].frame = [gen |-> renderer[t].gen, at |-> now]]
  /\ UNCHANGED <<engineVars, queueVars, delayVars, handleVars, sender, caller,
                 calls, light>>

\* render() raised for every emitter: the frame dict is empty.
RenderNothing(t) ==
  /\ renderer[t].pc = "render"
  /\ RenderGoto(t, "top")
  /\ UNCHANGED <<engineVars, queueVars, delayVars, handleVars, sender, caller,
                 calls, now, light>>

\* Mutant: room is measured against the water mark.
BelowHighWater == Len(pipeline) < HighWater

HasRoom == Len(pipeline) < capacity

\* put(timeout): the frame is queued, or dropped when the queue stays full.
RenderPut(t) ==
  /\ renderer[t].pc = "put"
  /\ pipeline' = IF HasRoom THEN Append(pipeline, renderer[t].frame) ELSE pipeline
  /\ renderer' = [renderer EXCEPT ![t] = [NoRenderer EXCEPT !.pc = "top"]]
  /\ UNCHANGED <<engineVars, capacity, delayVars, handleVars, sender, caller,
                 calls, now, light>>

RenderThread(t) ==
  \/ RenderExit(t) \/ RenderProceed(t) \/ RenderSnapshot(t)
  \/ RenderFrame(t) \/ RenderNothing(t) \/ RenderPut(t)

-----------------------------------------------------------------------------
(* The send thread.                                                        *)

SendGoto(t, pc) == sender' = [sender EXCEPT ![t].pc = pc]

SendExit(t) ==
  /\ sender[t].pc = "top" /\ Halted
  /\ sender' = [sender EXCEPT ![t] = NoSender]
  /\ UNCHANGED <<engineVars, queueVars, delayVars, handleVars, renderer,
                 caller, calls, now, light>>

\* get_nowait(): a frame to check, or an empty queue and the held frame.
SendPop(t) ==
  /\ sender[t].pc = "top" /\ ~Halted
  /\ IF pipeline = <<>>
     THEN SendGoto(t, "delay") /\ UNCHANGED pipeline
     ELSE /\ sender' = [sender EXCEPT ![t].pc = "check", ![t].got = Head(pipeline)]
          /\ pipeline' = Tail(pipeline)
  /\ UNCHANGED <<engineVars, capacity, delayVars, handleVars, renderer,
                 caller, calls, now, light>>

\* The generation is read under _lock, the frame is sent without it.
FreshFrame(frame) == frame.gen = generation

SendCheck(t) ==
  /\ sender[t].pc = "check"
  /\ sender' = IF FreshFrame(sender[t].got)
               THEN [sender EXCEPT ![t].pc = "delay", ![t].got = Dark,
                                   ![t].held = sender[t].got]
               ELSE [sender EXCEPT ![t].pc = "flush", ![t].got = Dark]
  /\ UNCHANGED <<engineVars, queueVars, delayVars, handleVars, renderer,
                 caller, calls, now, light>>

\* _flush_pipeline() pops until it sees an empty queue.  Frames put meanwhile
\* are popped too, so it amounts to emptying the queue when it ends.
FlushPipeline == pipeline' = <<>>

SendFlush(t) ==
  /\ sender[t].pc = "flush"
  /\ FlushPipeline
  /\ SendGoto(t, "delay")
  /\ UNCHANGED <<engineVars, capacity, delayVars, handleVars, renderer,
                 caller, calls, now, light>>

SendDelay(t) ==
  /\ sender[t].pc = "delay"
  /\ IF delayFrames = 0
     THEN SendGoto(t, "send") /\ UNCHANGED delayBuffer
     ELSE /\ delayBuffer' = Append(delayBuffer, sender[t].held)
          /\ SendGoto(t, "measure")
  /\ UNCHANGED <<engineVars, queueVars, delayFrames, handleVars, renderer,
                 caller, calls, now, light>>

\* Mutant: one frame too many is held back.
DelayOverfilled == Len(delayBuffer) > delayFrames + 1

DelayFilled == Len(delayBuffer) > delayFrames

SendMeasure(t) ==
  /\ sender[t].pc = "measure"
  /\ sender' = IF DelayFilled
               THEN [sender EXCEPT ![t].pc = "pop"]
               ELSE [sender EXCEPT ![t].pc = "send", ![t].held = Dark]
  /\ UNCHANGED <<engineVars, queueVars, delayVars, handleVars, renderer,
                 caller, calls, now, light>>

\* popleft() after a concurrent clear() raises IndexError, which nothing in
\* _run_loop catches: the send thread dies.
SendDelayed(t) ==
  /\ sender[t].pc = "pop"
  /\ IF delayBuffer = <<>>
     THEN sender' = [sender EXCEPT ![t] = NoSender] /\ UNCHANGED delayBuffer
     ELSE /\ sender' = [sender EXCEPT ![t].pc = "send", ![t].held = Head(delayBuffer)]
          /\ delayBuffer' = Tail(delayBuffer)
  /\ UNCHANGED <<engineVars, queueVars, delayFrames, handleVars, renderer,
                 caller, calls, now, light>>

SendFrame(t) ==
  /\ sender[t].pc = "send"
  /\ light' = IF sender[t].held = Dark THEN light ELSE sender[t].held
  /\ SendGoto(t, "top")
  /\ UNCHANGED <<engineVars, queueVars, delayVars, handleVars, renderer,
                 caller, calls, now>>

SendThread(t) ==
  \/ SendExit(t) \/ SendPop(t) \/ SendCheck(t) \/ SendFlush(t)
  \/ SendDelay(t) \/ SendMeasure(t) \/ SendDelayed(t) \/ SendFrame(t)

-----------------------------------------------------------------------------
(* The callers.                                                            *)

CallGoto(c, pc) == caller' = [caller EXCEPT ![c].pc = pc]

\* The caller enters start() with a new effect (play creates it first).
StartCall(c) ==
  /\ caller[c].pc = "idle" /\ calls < MaxCalls
  /\ calls' = calls + 1
  /\ caller' = [caller EXCEPT ![c].pc = "swap", ![c].inst = calls + 1]
  /\ UNCHANGED <<engineVars, queueVars, delayVars, handleVars, renderer,
                 sender, now, light>>

\* The critical section of start(): effect, a new queue, a new generation.
StartSwap(c) ==
  /\ caller[c].pc = "swap"
  /\ effect' = caller[c].inst
  /\ \E size \in {HighWater, LowLatency} : capacity' = size
  /\ pipeline' = <<>>
  /\ generation' = generation + 1
  /\ caller' = [caller EXCEPT ![c].pc = "flush", ![c].inst = None]
  /\ UNCHANGED <<running, stopEvent, delayVars, handleVars, renderer, sender,
                 calls, now, light>>

\* _flush_pipeline(), outside the lock.
StartFlush(c) ==
  /\ caller[c].pc = "flush"
  /\ FlushPipeline
  /\ CallGoto(c, "clear")
  /\ UNCHANGED <<engineVars, capacity, delayVars, handleVars, renderer,
                 sender, calls, now, light>>

StartClearDelay(c) ==
  /\ caller[c].pc = "clear"
  /\ delayBuffer' = <<>>
  /\ CallGoto(c, "test")
  /\ UNCHANGED <<engineVars, queueVars, delayFrames, handleVars, renderer,
                 sender, calls, now, light>>

StartTest(c) ==
  /\ caller[c].pc = "test"
  /\ running' = TRUE
  /\ CallGoto(c, IF running THEN "idle" ELSE "arm")
  /\ UNCHANGED <<effect, generation, stopEvent, queueVars, delayVars,
                 handleVars, renderer, sender, calls, now, light>>

\* Mutant: the stop event of the last stop() is left set.
StartArmForgets(c) ==
  /\ caller[c].pc = "arm"
  /\ CallGoto(c, "spawnRender")
  /\ UNCHANGED <<engineVars, queueVars, delayVars, handleVars, renderer, sender,
                 calls, now, light>>

StartArm(c) ==
  /\ caller[c].pc = "arm"
  /\ stopEvent' = FALSE
  /\ CallGoto(c, "spawnRender")
  /\ UNCHANGED <<effect, generation, running, queueVars, delayVars, handleVars,
                 renderer, sender, calls, now, light>>

SpawnRender(c) ==
  /\ caller[c].pc = "spawnRender"
  /\ \E t \in Threads :
       /\ ~Live(renderer[t]) /\ \A u \in 1 .. t - 1 : Live(renderer[u])
       /\ renderer' = [renderer EXCEPT ![t] = [NoRenderer EXCEPT !.pc = "top"]]
       /\ renderHandle' = t
  /\ CallGoto(c, "spawnSend")
  /\ UNCHANGED <<engineVars, queueVars, delayVars, sendHandle, sender, calls,
                 now, light>>

\* A new send thread holds no colours: last_colors = {}.
SpawnSend(c) ==
  /\ caller[c].pc = "spawnSend"
  /\ \E t \in Threads :
       /\ ~Live(sender[t]) /\ \A u \in 1 .. t - 1 : Live(sender[u])
       /\ sender' = [sender EXCEPT ![t] = [NoSender EXCEPT !.pc = "top"]]
       /\ sendHandle' = t
  /\ CallGoto(c, "idle")
  /\ UNCHANGED <<engineVars, queueVars, delayVars, renderHandle, renderer,
                 calls, now, light>>

StopCall(c) ==
  /\ caller[c].pc = "idle"
  /\ running' = FALSE
  /\ CallGoto(c, "signal")
  /\ UNCHANGED <<effect, generation, stopEvent, queueVars, delayVars,
                 handleVars, renderer, sender, calls, now, light>>

StopSignal(c) ==
  /\ caller[c].pc = "signal"
  /\ stopEvent' = TRUE
  /\ CallGoto(c, "joinRender")
  /\ UNCHANGED <<effect, generation, running, queueVars, delayVars, handleVars,
                 renderer, sender, calls, now, light>>

\* Mutant: stop() does not wait for the threads it signalled.
NotJoined(handle, threads) == handle \in 0 .. MaxThreads

\* join(timeout): the thread has ended, or it has not and the handle is
\* dropped all the same.
Joined(handle, threads) ==
  handle # None => JoinExpires \/ ~Live(threads[handle])

JoinRender(c) ==
  /\ caller[c].pc = "joinRender"
  /\ Joined(renderHandle, renderer)
  /\ renderHandle' = None
  /\ CallGoto(c, "joinSend")
  /\ UNCHANGED <<engineVars, queueVars, delayVars, sendHandle, renderer,
                 sender, calls, now, light>>

JoinSend(c) ==
  /\ caller[c].pc = "joinSend"
  /\ Joined(sendHandle, sender)
  /\ sendHandle' = None
  /\ CallGoto(c, "release")
  /\ UNCHANGED <<engineVars, queueVars, delayVars, renderHandle, renderer,
                 sender, calls, now, light>>

StopRelease(c) ==
  /\ caller[c].pc = "release"
  /\ effect' = None
  /\ CallGoto(c, "fade")
  /\ UNCHANGED <<generation, running, stopEvent, queueVars, delayVars,
                 handleVars, renderer, sender, calls, now, light>>

\* Black to every emitter, or nothing when fade_ms is 0.
StopFade(c) ==
  /\ caller[c].pc = "fade"
  /\ light' \in {Dark, light}
  /\ CallGoto(c, "idle")
  /\ UNCHANGED <<engineVars, queueVars, delayVars, handleVars, renderer,
                 sender, calls, now>>

SetAudioDelay(c) ==
  /\ caller[c].pc = "idle" /\ calls < MaxCalls
  /\ calls' = calls + 1
  /\ delayFrames' \in Delays
  /\ CallGoto(c, "clearDelay")
  /\ UNCHANGED <<engineVars, queueVars, delayBuffer, handleVars, renderer,
                 sender, now, light>>

ClearAudioDelay(c) ==
  /\ caller[c].pc = "clearDelay"
  /\ delayBuffer' = <<>>
  /\ CallGoto(c, "idle")
  /\ UNCHANGED <<engineVars, queueVars, delayFrames, handleVars, renderer,
                 sender, calls, now, light>>

\* DeviceManager.play of a transient effect (on, off): execute() on the
\* emitter, then engine.effect and engine.running are set directly.
TransientExecute(c) ==
  /\ Transients /\ caller[c].pc = "idle" /\ calls < MaxCalls
  /\ calls' = calls + 1
  /\ light' = Solid
  /\ caller' = [caller EXCEPT ![c].pc = "take", ![c].inst = calls + 1]
  /\ UNCHANGED <<engineVars, queueVars, delayVars, handleVars, renderer,
                 sender, now>>

TransientTake(c) ==
  /\ caller[c].pc = "take"
  /\ effect' = caller[c].inst
  /\ caller' = [caller EXCEPT ![c].pc = "claim", ![c].inst = None]
  /\ UNCHANGED <<generation, running, stopEvent, queueVars, delayVars,
                 handleVars, renderer, sender, calls, now, light>>

TransientClaim(c) ==
  /\ caller[c].pc = "claim"
  /\ running' = TRUE
  /\ CallGoto(c, "idle")
  /\ UNCHANGED <<effect, generation, stopEvent, queueVars, delayVars,
                 handleVars, renderer, sender, calls, now, light>>

Request(c) ==
  StartCall(c) \/ StopCall(c) \/ SetAudioDelay(c) \/ TransientExecute(c)

Proceed(c) ==
  \/ StartSwap(c) \/ StartFlush(c) \/ StartClearDelay(c)
  \/ StartTest(c) \/ StartArm(c) \/ SpawnRender(c) \/ SpawnSend(c)
  \/ StopSignal(c) \/ JoinRender(c) \/ JoinSend(c) \/ StopRelease(c) \/ StopFade(c)
  \/ ClearAudioDelay(c) \/ TransientTake(c) \/ TransientClaim(c)

Next ==
  \/ \E t \in Threads : RenderThread(t) \/ SendThread(t)
  \/ \E c \in Callers : Request(c) \/ Proceed(c)

\* The operating system schedules every runnable thread, and a call that has
\* begun goes on.  Nobody has to make a call.  render() may raise, though not
\* for ever.
Fairness ==
  /\ \A t \in Threads : /\ WF_vars(RenderThread(t)) /\ SF_vars(RenderFrame(t))
                        /\ WF_vars(SendThread(t))
  /\ \A c \in Callers : WF_vars(Proceed(c))

Spec == Init /\ [][Next]_vars
FairSpec == Spec /\ Fairness

-----------------------------------------------------------------------------
(* Properties.                                                             *)

AllIdle == \A c \in Callers : caller[c].pc = "idle"
NoThreads == \A t \in Threads : ~Live(renderer[t]) /\ ~Live(sender[t])

\* An engine never has two render threads or two send threads: start() spawns
\* a pair only where stop() has seen the previous pair end.
OneThreadPair ==
  \A t, u \in Threads :
    /\ Live(renderer[t]) /\ Live(renderer[u]) => t = u
    /\ Live(sender[t]) /\ Live(sender[u]) => t = u

\* The emitters never go back: neither to an earlier frame of the effect that
\* plays, nor to a frame of an effect that a hot-swap replaced once its
\* successor has been seen (generation check, queue swap and flush).
NotBefore(f, g) == f.gen < g.gen \/ (f.gen = g.gen /\ f.at <= g.at)
FramesInOrder ==
  [][light.gen > 0 /\ light'.gen > 0 => NotBefore(light, light')]_vars

\* Once stop() has returned no frame reaches the emitters, so its black stays,
\* until somebody makes another call.
QuietWhenStopped ==
  [][AllIdle /\ ~running /\ UNCHANGED caller => UNCHANGED light]_vars

\* start() returns with the threads that render its effect: "If the engine
\* thread is not yet running it is spawned automatically."
StartLeavesThreads ==
  [][\A c \in Callers :
       caller[c].pc \in {"test", "spawnSend"} /\ caller'[c].pc = "idle" =>
         \E t, u \in Threads : Live(renderer'[t]) /\ Live(sender'[u])]_vars

\* Threads that outlived a join that expired still end, if the engine stays
\* stopped.
StragglersEnd == <>[]~running => <>[]NoThreads

\* The audio delay buffer holds no more frames than the delay calls for, and
\* one for each send thread between its append and its popleft.
DelayBounded ==
  \E d \in Delays \union {0} :
    Len(delayBuffer) <= d + Cardinality({t \in Threads : sender[t].pc \in {"measure", "pop"}})

=============================================================================
