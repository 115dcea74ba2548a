---------------------------- MODULE ServerProofs ----------------------------
(***************************************************************************)
(* Safety theorems about five components of the server, each a thread of   *)
(* its own that API calls meet half way: a media source's reader (Media),  *)
(* the tick thread's trigger and occupancy operators and the bindings      *)
(* between operators (Trigger, Occupancy, Bindings), and the Matter        *)
(* adapter's thread (MatterAdapter); and the types of all the components   *)
(* MCServer puts side by side, from the invariants proved in the other     *)
(* modules.  They hold for any bounds, so for any number of calls, faults  *)
(* and restarts.                                                           *)
(***************************************************************************)
EXTENDS MCServer, AdapterRpcProofs, ChannelProofs, TableProofs, AlgorithmProofs

-----------------------------------------------------------------------------
(* Media sources and their processes.                                      *)

\* A process is set by the reader that will clean it up, and lives only while
\* it is set.
ProcessInv ==
  \A i \in Source : /\ ffmpeg[i] => process[i]
                    /\ process[i] => reader[i] \in {"read", "clean up"}

\* A reader ends with its source, after it has been told to: between these two
\* moments the call that stopped the source kills the process and waits.
ReaderInv ==
  \A i \in Source :
    /\ sourceRunning[i] => reader[i] # "none"
    /\ ~sourceRunning[i] /\ reader[i] # "none" => i = target /\ step \in {"kill", "join"}

\* Only the registered source runs, or one whose removal has just begun.
RunningInv ==
  /\ \A i \in Source : sourceRunning[i] => i = registered \/ (i = target /\ step = "flag")
  /\ step \in {"kill", "join", "finish"} /\ target # 0 => ~sourceRunning[target]

\* How far a call is.
CallInv ==
  /\ made \in 0 .. MaxSources /\ registered \in 0 .. made /\ target \in 0 .. made
  /\ op \in {"none", "down"} => step = "done"
  /\ step = "done" => op \in {"none", "down"}
  /\ op = "add" => target = registered /\ made < MaxSources
  /\ step \in {"flag", "kill", "join"} => target # 0

SourcesTyped ==
  /\ sourceRunning \in [Source -> BOOLEAN] /\ process \in [Source -> BOOLEAN]
  /\ ffmpeg \in [Source -> BOOLEAN]
  /\ reader \in [Source -> {"none", "top", "spawn", "read", "clean up", "wait"}]
  /\ step \in {"done", "flag", "kill", "join", "finish"}

MediaInv == SourcesTyped /\ CallInv /\ ProcessInv /\ ReaderInv /\ RunningInv

LEMMA MediaBegin == MediaInit => MediaInv
<1> SUFFICES ASSUME MediaInit PROVE MediaInv
  OBVIOUS
<1>0. MaxSources \in Nat
  BY MediaAssumption DEF MediaAssumption
<1> QED BY <1>0 DEF MediaInit, MediaInv, SourcesTyped, CallInv, ProcessInv, ReaderInv, RunningInv

LEMMA TargetIsSource == ASSUME CallInv PROVE target # 0 => target \in Source
BY MediaAssumption DEF CallInv, MediaAssumption, Source

\* A step of the reader itself, or the end of its process.
LEMMA ReaderStep ==
  ASSUME MediaInv, NEW i \in Source, Reader(i) \/ FfmpegDies(i) PROVE MediaInv'
<1> USE DEF SourcesTyped, ProcessInv, ReaderInv, RunningInv
<1>0. SourcesTyped /\ CallInv /\ ProcessInv /\ ReaderInv /\ RunningInv
  BY DEF MediaInv
<1>1. CASE Top(i)
  <2>1. /\ reader' = [reader EXCEPT ![i] = IF sourceRunning[i] THEN "spawn" ELSE "none"]
        /\ reader[i] = "top" /\ UNCHANGED <<sourceRunning, process, ffmpeg, managerVars>>
    BY <1>1 DEF Top
  <2> QED BY <1>0, <2>1 DEF managerVars, MediaInv, CallInv
<1>2. CASE Spawn(i)
  <2>1. UNCHANGED managerVars /\ reader[i] = "spawn"
    BY <1>2 DEF Spawn
  <2>2. CASE /\ process' = [process EXCEPT ![i] = TRUE] /\ ffmpeg' = [ffmpeg EXCEPT ![i] = TRUE]
             /\ reader' = [reader EXCEPT ![i] = "read"] /\ UNCHANGED sourceRunning
    BY <1>0, <2>1, <2>2 DEF managerVars, MediaInv, CallInv
  <2>3. CASE /\ sourceRunning' = [sourceRunning EXCEPT ![i] = FALSE]
             /\ reader' = [reader EXCEPT ![i] = "none"] /\ UNCHANGED <<process, ffmpeg>>
    <3>1. SourcesTyped' /\ CallInv'
      BY <1>0, <2>1, <2>3 DEF managerVars, CallInv
    <3>2. ProcessInv'
      BY <1>0, <2>1, <2>3
    <3>3. ReaderInv'
      BY <1>0, <2>1, <2>3 DEF managerVars
    <3>4. RunningInv'
      <4>1. target # 0 => target \in Source
        BY <1>0, TargetIsSource
      <4> QED BY <1>0, <2>1, <2>3, <4>1 DEF managerVars
    <3> QED BY <3>1, <3>2, <3>3, <3>4 DEF MediaInv
  <2> QED BY <1>2, <2>2, <2>3 DEF Spawn
<1>3. CASE EndRead(i)
  <2>1. /\ reader' = [reader EXCEPT ![i] = "clean up"] /\ reader[i] = "read"
        /\ UNCHANGED <<sourceRunning, process, ffmpeg, managerVars>>
    BY <1>3 DEF EndRead
  <2> QED BY <1>0, <2>1 DEF managerVars, MediaInv, CallInv
<1>4. CASE CleanUp(i)
  <2>1. /\ reader' = [reader EXCEPT ![i] = IF sourceRunning[i] THEN "wait" ELSE "top"]
        /\ process' = [process EXCEPT ![i] = FALSE]
        /\ ffmpeg' = IF process[i] THEN [ffmpeg EXCEPT ![i] = FALSE] ELSE ffmpeg
        /\ reader[i] = "clean up" /\ UNCHANGED <<sourceRunning, managerVars>>
    BY <1>4 DEF CleanUp, Kill
  <2> QED BY <1>0, <2>1 DEF managerVars, MediaInv, CallInv
<1>5. CASE Waited(i)
  <2>1. /\ reader' = [reader EXCEPT ![i] = "top"] /\ reader[i] = "wait"
        /\ UNCHANGED <<sourceRunning, process, ffmpeg, managerVars>>
    BY <1>5 DEF Waited
  <2> QED BY <1>0, <2>1 DEF managerVars, MediaInv, CallInv
<1>6. CASE FfmpegDies(i)
  <2>1. /\ ffmpeg' = [ffmpeg EXCEPT ![i] = FALSE]
        /\ UNCHANGED <<sourceRunning, reader, process, managerVars>>
    BY <1>6 DEF FfmpegDies
  <2> QED BY <1>0, <2>1 DEF managerVars, MediaInv, CallInv
<1> QED BY <1>1, <1>2, <1>3, <1>4, <1>5, <1>6 DEF Reader

\* A call begins, and stops object i if it is alive.
LEMMA BeginStep ==
  ASSUME MediaInv, NEW name \in {"add", "remove", "stop", "shutdown"}, Begin(name, registered),
         registered' \in {0, registered}, name = "remove" \/ registered' = registered,
         name = "add" => made < MaxSources
  PROVE  MediaInv'
<1>0. SourcesTyped /\ CallInv /\ ProcessInv /\ ReaderInv /\ RunningInv
  BY DEF MediaInv
<1>1. /\ op = "none" /\ op' = name /\ target' = registered
      /\ step' = IF IsAlive(registered) THEN "flag" ELSE "finish"
      /\ UNCHANGED <<made, sourceRunning, reader, process, ffmpeg>>
  BY DEF Begin, sourceVars
<1>2. step = "done" /\ registered \in 0 .. made /\ made \in 0 .. MaxSources
  BY <1>0, <1>1 DEF CallInv
<1>3. registered # 0 => registered \in Source
  BY <1>2, MediaAssumption DEF MediaAssumption, Source
<1>4. IsAlive(registered) <=> registered # 0 /\ sourceRunning[registered]
  BY <1>0, <1>3 DEF IsAlive, ReaderInv
<1>5. SourcesTyped' /\ ProcessInv'
  BY <1>0, <1>1 DEF SourcesTyped, ProcessInv
<1>6. CallInv'
  BY <1>1, <1>2, <1>4 DEF CallInv
<1>7. ReaderInv'
  BY <1>0, <1>1, <1>2 DEF ReaderInv
<1>8. RunningInv'
  <2>1. \A i \in Source : sourceRunning[i] => i = registered /\ i # 0
    BY <1>0, <1>2 DEF RunningInv, Source
  <2> QED BY <1>1, <1>4, <2>1 DEF RunningInv
<1> QED BY <1>5, <1>6, <1>7, <1>8 DEF MediaInv

\* An object that does not run is started: it has no reader and no process.
LEMMA StartSourceStep ==
  ASSUME MediaInv, NEW i \in Source, i # target \/ step \notin {"kill", "join"},
         StartSource(i)
  PROVE  /\ sourceRunning' \in [Source -> BOOLEAN] /\ process' = process /\ ffmpeg' = ffmpeg
         /\ reader' \in [Source -> {"none", "top", "spawn", "read", "clean up", "wait"}]
         /\ sourceRunning'[i] /\ reader'[i] # "none"
         /\ \A j \in Source : /\ j # i => /\ sourceRunning'[j] = sourceRunning[j]
                                          /\ reader'[j] = reader[j]
                              /\ process[j] => reader'[j] \in {"read", "clean up"}
<1>0. SourcesTyped /\ ProcessInv /\ ReaderInv
  BY DEF MediaInv
<1>1. /\ sourceRunning' = [sourceRunning EXCEPT ![i] = TRUE]
      /\ reader' = IF sourceRunning[i] THEN reader ELSE [reader EXCEPT ![i] = "top"]
      /\ process' = process /\ ffmpeg' = ffmpeg
  BY DEF StartSource
<1>2. ~sourceRunning[i] => reader[i] = "none" /\ ~process[i]
  BY <1>0 DEF ProcessInv, ReaderInv
<1> QED BY <1>0, <1>1, <1>2 DEF SourcesTyped, ProcessInv, ReaderInv

\* A request for the stream, between the calls that stop sources.
LEMMA RequestStep == ASSUME MediaInv, StartRequest PROVE MediaInv'
<1>0. SourcesTyped /\ CallInv /\ ProcessInv /\ ReaderInv /\ RunningInv
  BY DEF MediaInv
<1>1. /\ op = "none" /\ registered # 0 /\ Acquire(registered)
      /\ UNCHANGED <<made, registered, op, target, step, music>>
  BY DEF StartRequest
<1>2. registered \in Source /\ step = "done"
  BY <1>0, <1>1, MediaAssumption DEF CallInv, MediaAssumption, Source
<1>3. CASE UNCHANGED sourceVars
  BY <1>0, <1>1, <1>3 DEF sourceVars, MediaInv, SourcesTyped, CallInv, ProcessInv, ReaderInv, RunningInv
<1>4. CASE StartSource(registered)
  <2>1. /\ sourceRunning' \in [Source -> BOOLEAN] /\ process' = process /\ ffmpeg' = ffmpeg
        /\ reader' \in [Source -> {"none", "top", "spawn", "read", "clean up", "wait"}]
        /\ sourceRunning'[registered] /\ reader'[registered] # "none"
        /\ \A j \in Source : /\ j # registered => /\ sourceRunning'[j] = sourceRunning[j]
                                                  /\ reader'[j] = reader[j]
                             /\ process[j] => reader'[j] \in {"read", "clean up"}
    BY <1>2, <1>4, StartSourceStep
  <2>2. SourcesTyped' /\ CallInv'
    BY <1>0, <1>1, <2>1 DEF SourcesTyped, CallInv
  <2>3. ProcessInv'
    BY <1>0, <2>1 DEF ProcessInv
  <2>4. ReaderInv'
    BY <1>0, <1>1, <1>2, <2>1 DEF ReaderInv
  <2>5. RunningInv'
    BY <1>0, <1>1, <1>2, <2>1 DEF RunningInv
  <2> QED BY <2>2, <2>3, <2>4, <2>5 DEF MediaInv
<1> QED BY <1>1, <1>3, <1>4 DEF Acquire

\* The steps of MediaSource.stop(): told, killed, joined.
LEMMA StopSourceStep == ASSUME MediaInv, ClearRunning \/ KillProcess \/ Joined PROVE MediaInv'
<1>0. SourcesTyped /\ CallInv /\ ProcessInv /\ ReaderInv /\ RunningInv
  BY DEF MediaInv
<1>1. CASE ClearRunning
  <2>1. /\ step = "flag" /\ sourceRunning' = [sourceRunning EXCEPT ![target] = FALSE]
        /\ step' = "kill"
        /\ UNCHANGED <<reader, process, ffmpeg, made, registered, op, target>>
    BY <1>1 DEF ClearRunning
  <2>2. target \in Source
    BY <1>0, <2>1, MediaAssumption DEF CallInv, MediaAssumption, Source
  <2>3. SourcesTyped' /\ CallInv' /\ ProcessInv'
    BY <1>0, <2>1 DEF SourcesTyped, CallInv, ProcessInv
  <2>4. ReaderInv'
    BY <1>0, <2>1, <2>2 DEF SourcesTyped, ReaderInv
  <2>5. RunningInv'
    BY <1>0, <2>1, <2>2 DEF SourcesTyped, RunningInv
  <2> QED BY <2>3, <2>4, <2>5 DEF MediaInv
<1>2. CASE KillProcess
  <2>1. /\ step = "kill" /\ step' = "join" /\ process' = [process EXCEPT ![target] = FALSE]
        /\ ffmpeg' = IF process[target] THEN [ffmpeg EXCEPT ![target] = FALSE] ELSE ffmpeg
        /\ UNCHANGED <<sourceRunning, reader, made, registered, op, target>>
    BY <1>2 DEF KillProcess, Kill
  <2>2. target \in Source
    BY <1>0, <2>1, MediaAssumption DEF CallInv, MediaAssumption, Source
  <2>3. SourcesTyped' /\ CallInv'
    BY <1>0, <2>1 DEF SourcesTyped, CallInv
  <2>4. ProcessInv'
    BY <1>0, <2>1, <2>2 DEF SourcesTyped, ProcessInv
  <2>5. ReaderInv' /\ RunningInv'
    BY <1>0, <2>1 DEF ReaderInv, RunningInv
  <2> QED BY <2>3, <2>4, <2>5 DEF MediaInv
<1>3. CASE Joined
  <2>1. /\ step = "join" /\ step' = "finish" /\ reader[target] = "none"
        /\ UNCHANGED <<sourceRunning, reader, process, ffmpeg, made, registered, op, target>>
    BY <1>3 DEF Joined, sourceVars
  <2> QED BY <1>0, <2>1 DEF MediaInv, SourcesTyped, CallInv, ProcessInv, ReaderInv, RunningInv
<1> QED BY <1>1, <1>2, <1>3

\* The end of a call.  What it replaced or stopped no longer runs.
LEMMA FinishStep == ASSUME MediaInv, Finish PROVE MediaInv'
<1>0. SourcesTyped /\ CallInv /\ ProcessInv /\ ReaderInv /\ RunningInv
  BY DEF MediaInv
<1>1. step = "finish"
  BY DEF Finish
<1>2. target # 0 => ~sourceRunning[target]
  BY <1>0, <1>1 DEF RunningInv
<1>3. CASE op = "add"
  <2> DEFINE new == made + 1
  <2>1. /\ made' = new /\ StartSource(new)
        /\ \/ registered' = new /\ op' = "none" /\ step' = "done" /\ target' = 0
           \/ registered' = 0 /\ op' = "remove" /\ step' = "flag" /\ target' = new
    BY <1>3 DEF Finish
  <2>2. /\ new \in Source /\ new \in 1 .. MaxSources /\ made \in Nat /\ target = registered
        /\ registered \in 0 .. made
    BY <1>0, <1>3, MediaAssumption DEF CallInv, MediaAssumption, Source
  <2> HIDE DEF new
  <2>3. /\ sourceRunning' \in [Source -> BOOLEAN] /\ process' = process /\ ffmpeg' = ffmpeg
        /\ reader' \in [Source -> {"none", "top", "spawn", "read", "clean up", "wait"}]
        /\ sourceRunning'[new] /\ reader'[new] # "none"
        /\ \A j \in Source : /\ j # new => /\ sourceRunning'[j] = sourceRunning[j]
                                           /\ reader'[j] = reader[j]
                             /\ process[j] => reader'[j] \in {"read", "clean up"}
    BY <1>1, <2>1, <2>2, StartSourceStep
  <2>4. \A j \in Source : ~sourceRunning[j]
    BY <1>0, <1>1, <1>2, <2>2 DEF RunningInv, Source
  <2>5. SourcesTyped' /\ ProcessInv'
    BY <1>0, <2>1, <2>3 DEF SourcesTyped, ProcessInv
  <2>6. CallInv'
    BY <2>1, <2>2 DEF CallInv
  <2>7. ReaderInv'
    BY <1>0, <1>1, <2>3 DEF ReaderInv
  <2>8. RunningInv'
    BY <2>1, <2>3, <2>4 DEF RunningInv
  <2> QED BY <2>5, <2>6, <2>7, <2>8 DEF MediaInv
<1>4. CASE op # "add"
  <2>1. /\ op' = Ended /\ step' = "done" /\ target' = 0
        /\ UNCHANGED <<sourceRunning, reader, process, ffmpeg, made, registered>>
    BY <1>4 DEF Finish, sourceVars
  <2>2. SourcesTyped' /\ ProcessInv'
    BY <1>0, <2>1 DEF SourcesTyped, ProcessInv
  <2>3. CallInv'
    BY <1>0, <2>1 DEF CallInv, Ended
  <2>4. ReaderInv' /\ RunningInv'
    BY <1>0, <1>1, <2>1 DEF ReaderInv, RunningInv
  <2> QED BY <2>2, <2>3, <2>4 DEF MediaInv
<1> QED BY <1>3, <1>4

LEMMA MediaStep == MediaInv /\ [MediaNext]_mediaVars => MediaInv'
<1> SUFFICES ASSUME MediaInv, [MediaNext]_mediaVars PROVE MediaInv'
  OBVIOUS
<1>1. ASSUME NEW i \in Source, Reader(i) \/ FfmpegDies(i) PROVE MediaInv'
  BY <1>1, ReaderStep
<1>2. CASE PlayMusic
  BY <1>2, BeginStep DEF PlayMusic
<1>3. CASE StopDevice
  BY <1>3, BeginStep DEF StopDevice
<1>4. CASE StopRequested
  BY <1>4, BeginStep DEF StopRequested
<1>5. CASE Shutdown
  BY <1>5, BeginStep DEF Shutdown
<1>6. CASE PlayWithoutMusic
  BY <1>6 DEF PlayWithoutMusic, sourceVars, MediaInv, SourcesTyped, CallInv, ProcessInv,
     ReaderInv, RunningInv
<1>7. CASE UNCHANGED mediaVars
  BY <1>7 DEF mediaVars, managerVars, sourceVars, MediaInv, SourcesTyped, CallInv, ProcessInv,
     ReaderInv, RunningInv
<1> QED BY <1>1, <1>2, <1>3, <1>4, <1>5, <1>6, <1>7, RequestStep, StopSourceStep, FinishStep
        DEF MediaNext, Stop

\* However the reader meets the calls that stop, replace or remove its source,
\* an ffmpeg process that lives between calls is that of the registered source,
\* which runs (media/source.py, media/__init__.py): for any number of sources
\* and calls, and however often the process dies or fails to start.
THEOREM NoOrphanFfmpegAlways == MediaSpec => []NoOrphanFfmpeg
<1>1. MediaInv => NoOrphanFfmpeg
  <2> SUFFICES ASSUME MediaInv, op \in {"none", "down"}, NEW i \in Source, ffmpeg[i]
               PROVE  i = registered /\ sourceRunning[i]
    BY DEF NoOrphanFfmpeg
  <2>1. step = "done" /\ reader[i] # "none"
    BY DEF MediaInv, CallInv, ProcessInv
  <2>2. sourceRunning[i]
    BY <2>1 DEF MediaInv, ReaderInv
  <2> QED BY <2>1, <2>2 DEF MediaInv, RunningInv
<1> QED BY <1>1, MediaBegin, MediaStep, PTL DEF MediaSpec

\* A source that runs has a reader, which replaces an ffmpeg that dies, and between
\* calls only the registered source has one.
ReadersFollowSources ==
  /\ \A i \in Source : sourceRunning[i] => reader[i] # "none"
  /\ op \in {"none", "down"} =>
       \A i \in Source : reader[i] # "none" => i = registered /\ sourceRunning[i]

\* No call leaves a source running with nobody to read it, or a reader thread behind
\* (media/source.py, media/__init__.py), though the reader gives up by itself when
\* ffmpeg cannot be started.  The first is the safety half of StreamRestored.
THEOREM ReadersAlwaysFollow == MediaSpec => []ReadersFollowSources
<1>1. MediaInv => ReadersFollowSources
  <2> SUFFICES ASSUME MediaInv PROVE ReadersFollowSources
    OBVIOUS
  <2>1. \A i \in Source : sourceRunning[i] => reader[i] # "none"
    BY DEF MediaInv, ReaderInv
  <2>2. ASSUME op \in {"none", "down"}, NEW i \in Source, reader[i] # "none"
        PROVE  i = registered /\ sourceRunning[i]
    <3>1. step = "done"
      BY <2>2 DEF MediaInv, CallInv
    <3>2. sourceRunning[i]
      BY <2>2, <3>1 DEF MediaInv, ReaderInv
    <3> QED BY <3>1, <3>2 DEF MediaInv, RunningInv
  <2> QED BY <2>1, <2>2 DEF ReadersFollowSources
<1> QED BY <1>1, MediaBegin, MediaStep, PTL DEF MediaSpec

-----------------------------------------------------------------------------
(* The trigger and the user.                                               *)

\* Once a request of the user is complete, the trigger has nothing to turn off.
OverrideInv == lit = "user" /\ handler = "none" /\ ~raced => ~active

LEMMA OverrideStep == OverrideInv /\ [TriggerNext]_triggerVars => OverrideInv'
<1> SUFFICES ASSUME OverrideInv, [TriggerNext]_triggerVars PROVE OverrideInv'
  OBVIOUS
<1>1. ASSUME Refrain, UNCHANGED handler PROVE OverrideInv'
  BY <1>1 DEF Refrain, OverrideInv
<1>2. ASSUME FireOn \/ FireOff, UNCHANGED handler PROVE OverrideInv'
  <2>1. ASSUME NEW lamp \in {"trigger", "off"}, NEW now \in BOOLEAN, Act(lamp, now)
        PROVE  OverrideInv'
    BY <1>2, <2>1 DEF Act, OverrideInv
  <2> QED BY <1>1, <1>2, <2>1 DEF FireOn, FireOff
<1>3. CASE Poll
  BY <1>1, <1>2, <1>3 DEF Poll, OnSignal
<1>4. CASE OnTick
  BY <1>2, <1>4 DEF OnTick
<1>5. CASE Age \/ Sense
  BY <1>5 DEF Age, Sense, triggerState, OverrideInv
<1>6. CASE Play \/ StopNotifies
  BY <1>6 DEF Play, StopNotifies, OverrideInv
<1>7. CASE PlayNotifies
  BY <1>7 DEF PlayNotifies, Reset, OverrideInv
<1>8. CASE StopActs
  BY <1>8 DEF StopActs, OverrideInv
<1>9. CASE UNCHANGED triggerVars
  BY <1>9 DEF triggerVars, triggerState, OverrideInv
<1> QED BY <1>3, <1>4, <1>5, <1>6, <1>7, <1>8, <1>9 DEF TriggerNext

\* The trigger never turns off what the user has asked for, unless it acted in
\* the middle of the request (operators/trigger.py, handlers/device.py): for
\* any watchdog and debounce and any number of readings, requests and failures.
THEOREM UserAlwaysKeepsGroup == TriggerSpec => UserKeepsGroup
<1>1. TriggerInit => OverrideInv
  BY DEF TriggerInit, OverrideInv
<1> DEFINE UserKept == lit = "user" /\ handler = "none" /\ ~raced => lit' # "off" \/ handler' # "none"
<1>2. OverrideInv /\ [TriggerNext]_triggerVars => UserKept
  <2> SUFFICES ASSUME OverrideInv, [TriggerNext]_triggerVars,
                      lit = "user", handler = "none", ~raced
               PROVE  lit' = "user" \/ lit' = "trigger" \/ handler' # "none"
    OBVIOUS
  <2>1. ~active
    BY DEF OverrideInv
  <2>2. CASE Poll
    BY <2>1, <2>2 DEF Poll, OnSignal, Refrain, FireOn, Act
  <2>3. CASE OnTick
    BY <2>1, <2>3 DEF OnTick
  <2>4. CASE Age \/ Sense
    BY <2>4 DEF Age, Sense
  <2>5. CASE Play \/ PlayNotifies \/ StopNotifies \/ StopActs
    BY <2>5 DEF Play, PlayNotifies, StopNotifies, StopActs
  <2>6. CASE UNCHANGED triggerVars
    BY <2>6 DEF triggerVars
  <2> QED BY <2>2, <2>3, <2>4, <2>5, <2>6 DEF TriggerNext
<1> QED BY <1>1, <1>2, OverrideStep, PTL DEF TriggerSpec, UserKeepsGroup

\* What the trigger turned on is in its care: it is active, and knows since when,
\* unless a stop that has told it so has yet to turn the group off itself, or it
\* acted in the middle of a request.
NeverForgetsLights ==
  lit = "trigger" /\ ~raced
    => handler = "notified" \/ (active /\ sinceTrigger \in 0 .. Watchdog)

\* A play that has yet to tell the trigger has already taken the group over.
CareInv ==
  /\ handler = "played" /\ ~raced => lit = "user"
  /\ active => sinceTrigger \in 0 .. Watchdog
  /\ lit = "trigger" /\ ~raced => handler = "notified" \/ active

LEMMA CareStep == CareInv /\ [TriggerNext]_triggerVars => CareInv'
<1> SUFFICES ASSUME CareInv, [TriggerNext]_triggerVars PROVE CareInv'
  OBVIOUS
<1>0. Watchdog \in Nat \ {0} /\ Never = Watchdog + 1
  BY TriggerAssumption DEF TriggerAssumption, Never
<1>1. ASSUME Refrain, UNCHANGED handler, sinceTrigger' \in {0, sinceTrigger} PROVE CareInv'
  BY <1>0, <1>1 DEF Refrain, CareInv
<1>2. ASSUME Act("trigger", TRUE), UNCHANGED handler, sinceTrigger' = 0 PROVE CareInv'
  <2>1. \/ lit' = "trigger" /\ active' /\ (~raced' => handler = "none")
        \/ UNCHANGED <<lit, active, raced>>
    BY <1>2, Zenon DEF Act
  <2>2. 0 \in 0 .. Watchdog /\ "played" # "none"
    BY <1>0
  <2>3. UNCHANGED handler /\ sinceTrigger' = 0
    BY <1>2
  <2> QED BY <2>1, <2>2, <2>3 DEF CareInv
<1>3. ASSUME Act("off", FALSE), UNCHANGED <<handler, sinceTrigger>> PROVE CareInv'
  <2>1. \/ lit' = "off" /\ ~active' /\ (~raced' => handler = "none")
        \/ UNCHANGED <<lit, active, raced>>
    BY <1>3, Zenon DEF Act
  <2> QED BY <1>3, <2>1 DEF CareInv
<1>4. CASE Poll
  <2>1. UNCHANGED handler /\ sinceTrigger' = IF sensor THEN 0 ELSE sinceTrigger
    BY <1>4 DEF Poll, OnSignal
  <2>2. CASE Refrain
    BY <1>1, <2>1, <2>2
  <2>3. CASE sensor /\ Act("trigger", TRUE)
    BY <1>2, <2>1, <2>3
  <2>4. CASE ~sensor /\ Act("off", FALSE)
    BY <1>3, <2>1, <2>4
  <2> QED BY <1>4, <2>2, <2>3, <2>4 DEF Poll, OnSignal, FireOn, FireOff
<1>5. CASE OnTick
  BY <1>3, <1>5 DEF OnTick, FireOff
<1>6. CASE Age
  <2>1. UNCHANGED <<active, lit, handler, raced>>
    BY <1>6 DEF Age
  <2>2. sinceTrigger \in 0 .. Watchdog => sinceTrigger' \in 0 .. Watchdog
    BY <1>0, <1>6 DEF Age, Older
  <2> QED BY <2>1, <2>2 DEF CareInv
<1>7. CASE Sense \/ UNCHANGED triggerVars
  BY <1>7 DEF Sense, triggerVars, triggerState, CareInv
<1>8. CASE Play \/ StopNotifies
  BY <1>8 DEF Play, StopNotifies, Request, Reset, triggerState, CareInv
<1>9. CASE PlayNotifies \/ StopActs
  BY <1>9 DEF PlayNotifies, StopActs, Reset, triggerState, CareInv
<1> QED BY <1>4, <1>5, <1>6, <1>7, <1>8, <1>9 DEF TriggerNext

\* Lights the trigger turned on are never forgotten (operators/trigger.py): whatever motion,
\* failing actions, plays and stops come between, its watchdog still counts for
\* them.  It is the safety half of WatchdogTurnsOff, for any watchdog and debounce.
THEOREM LightsNeverForgotten == TriggerSpec => []NeverForgetsLights
<1>1. TriggerInit => CareInv
  BY DEF TriggerInit, CareInv
<1>2. CareInv => NeverForgetsLights
  BY DEF CareInv, NeverForgetsLights
<1> QED BY <1>1, <1>2, CareStep, PTL DEF TriggerSpec

-----------------------------------------------------------------------------
(* The house that is declared empty.                                       *)

\* All known locks have been locked for at least as long as the timer runs, and
\* it does not run while one of them is unlocked.
TimerInv ==
  /\ lockedFor \in 0 .. NotSince /\ openAgo \in 0 .. Confirm /\ serverRestarts \in Nat
  /\ lockedFor # NotSince => lockedFor <= openAgo
  /\ (\E l \in Locks : lockStates[l] = "unlocked") => lockedFor = NotSince

\* What one pass of the tick thread makes of the timer.
LEMMA PollTimer ==
  ASSUME TimerInv, PollSignals
  PROVE  /\ TimerInv'
         /\ lockedFor' = Confirm => openAgo = Confirm
         /\ \A l \in Locks : lockStates'[l] = "unlocked" /\ lockStates[l] # "unlocked"
              => Opened # {} /\ lockedFor' # Confirm
<1> DEFINE states == [l \in Locks |-> IF l \in Changed THEN lockSignal[l] ELSE lockStates[l]]
           open == \E l \in Locks : states[l] = "unlocked"
<1>0. Confirm \in Nat /\ NotSince = Confirm + 1
  BY OccupancyAssumption DEF OccupancyAssumption, NotSince
<1>1. /\ lockStates' = states /\ openAgo' = IF open THEN 0 ELSE openAgo
      /\ lockedFor' = IF Changed = {} THEN lockedFor ELSE IF open THEN NotSince
                      ELSE IF lockedFor = NotSince THEN 0 ELSE lockedFor
  BY DEF PollSignals, TimerAfter
<1>2. Changed = {} => \A l \in Locks : states[l] = lockStates[l]
  OBVIOUS
<1>3. open => lockedFor' = NotSince
  BY <1>1, <1>2 DEF TimerInv
<1>4. \A l \in Locks : lockStates'[l] = "unlocked" /\ lockStates[l] # "unlocked"
        => Opened # {} /\ open
  BY <1>1 DEF Opened, Changed
<1>5. (\E l \in Locks : lockStates'[l] = "unlocked") => open
  BY <1>1
<1> HIDE DEF states, open
<1>6. /\ lockedFor' \in 0 .. NotSince /\ openAgo' \in 0 .. Confirm
      /\ lockedFor' # NotSince => lockedFor' <= openAgo'
      /\ lockedFor' = Confirm => openAgo = Confirm
  BY <1>0, <1>1, <1>3 DEF TimerInv
<1>7. TimerInv'
  <2>1. serverRestarts' \in Nat
    BY DEF PollSignals, TimerInv
  <2> QED BY <1>3, <1>5, <1>6, <2>1 DEF TimerInv, NotSince
<1>8. NotSince # Confirm
  BY <1>0
<1> QED BY <1>3, <1>4, <1>6, <1>7, <1>8

LEMMA TimerStep == TimerInv /\ [OccupancyNext]_occupancyVars => TimerInv'
<1> SUFFICES ASSUME TimerInv, [OccupancyNext]_occupancyVars PROVE TimerInv'
  OBVIOUS
<1>0. Confirm \in Nat /\ NotSince = Confirm + 1
  BY OccupancyAssumption DEF OccupancyAssumption, NotSince
<1>1. ASSUME NEW l \in Locks, TurnLock(l) \/ ReportLock(l) PROVE TimerInv'
  BY <1>1 DEF TurnLock, ReportLock, operatorVars, lockBounds, TimerInv, NotSince
<1>2. CASE ASecondPasses
  <2>1. /\ lockedFor' = IF lockedFor < Confirm THEN lockedFor + 1 ELSE lockedFor
        /\ openAgo' = IF openAgo < Confirm THEN openAgo + 1 ELSE openAgo
        /\ lockStates' = lockStates /\ serverRestarts' = serverRestarts
    BY <1>2 DEF ASecondPasses, lockBounds
  <2> QED BY <1>0, <2>1 DEF TimerInv
<1>3. CASE ServerRestarts
  BY <1>0, <1>3 DEF ServerRestarts, Unheard, TimerInv
<1>4. CASE UNCHANGED occupancyVars
  BY <1>4 DEF occupancyVars, operatorVars, lockBounds, TimerInv, NotSince
<1> QED BY <1>1, <1>2, <1>3, <1>4, PollTimer DEF OccupancyNext

\* The house is declared empty only when the locks the operator has heard of
\* have been locked for the time of confirmation, and a lock that is heard to
\* open brings it back at once (operators/occupancy.py): for any locks, any
\* time of confirmation and any number of turns, restarts and database errors.
THEOREM AwayAlwaysConfirmed == OccupancySpec => AwayIsConfirmed
<1>1. OccupancyInit => TimerInv
  BY OccupancyAssumption DEF OccupancyAssumption, OccupancyInit, TimerInv, NotSince, Unheard
<1> DEFINE Confirmed ==
             /\ (occupancy # AWAY /\ occupancy' = AWAY /\ serverRestarts' = serverRestarts
                   => openAgo = Confirm)
             /\ \A l \in Locks :
                  lockStates'[l] = "unlocked" /\ lockStates[l] # "unlocked" => occupancy' = HOME
<1>2. TimerInv /\ [OccupancyNext]_occupancyVars => [Confirmed]_occupancyVars
  <2> SUFFICES ASSUME TimerInv, [OccupancyNext]_occupancyVars PROVE [Confirmed]_occupancyVars
    OBVIOUS
  <2>1. ASSUME occupancy' = occupancy, lockStates' = lockStates PROVE Confirmed
    BY <2>1
  <2>2. ASSUME NEW l \in Locks, TurnLock(l) \/ ReportLock(l) PROVE Confirmed
    BY <2>1, <2>2 DEF TurnLock, ReportLock, operatorVars
  <2>3. CASE ASecondPasses
    BY <2>1, <2>3 DEF ASecondPasses
  <2>4. CASE PollSignals
    <3>1. /\ lockedFor' = Confirm => openAgo = Confirm
          /\ \A l \in Locks : lockStates'[l] = "unlocked" /\ lockStates[l] # "unlocked"
               => Opened # {} /\ lockedFor' # Confirm
      BY <2>4, PollTimer
    <3>2. occupancy' = IF tickDue /\ lockedFor' = Confirm THEN AWAY
                       ELSE IF Opened # {} THEN HOME ELSE occupancy
      BY <2>4 DEF PollSignals, SetOccupancy
    <3>3. HOME # AWAY
      BY DEF HOME, AWAY
    <3> QED BY <3>1, <3>2, <3>3
  <2>5. CASE ServerRestarts
    <3>1. serverRestarts' # serverRestarts
      BY <2>5 DEF ServerRestarts, TimerInv
    <3>2. \A l \in Locks : lockStates'[l] # "unlocked"
      BY <2>5 DEF ServerRestarts, Unheard
    <3> QED BY <3>1, <3>2
  <2> QED BY <2>2, <2>3, <2>4, <2>5 DEF OccupancyNext
<1> QED BY <1>1, <1>2, TimerStep, PTL DEF OccupancySpec, AwayIsConfirmed

-----------------------------------------------------------------------------
(* Commands to a Matter device.                                            *)

Command == [order : Orders, id : Nat]

\* The queue is in the order of the calls and all of it is still to be
\* performed.  A caller waits for the youngest command; if that has been sent
\* nothing is left in the queue, and so it stays once "ok" has been returned.
CommandInv ==
  /\ queue \in Seq(Command) /\ ordersGiven \in Nat /\ lastPerformed \in 0 .. ordersGiven
  /\ \A j \in 1 .. Len(queue) : queue[j].id > lastPerformed /\ queue[j].id <= ordersGiven
  /\ \A j, k \in 1 .. Len(queue) : k < j => queue[k].id < queue[j].id
  /\ awaited \in {0, ordersGiven}
  /\ awaited = 0 => done = NotYet
  /\ done = "sent" => lastPerformed = ordersGiven
  /\ awaited = 0 /\ lastResult = "ok" => lastPerformed = ordersGiven

\* What leaves the queue's data alone leaves the invariant alone.
commandVars == <<queue, ordersGiven, lastPerformed, awaited, done, lastResult>>

LEMMA QueuedId ==
  ASSUME CommandInv, NEW j \in 1 .. Len(queue)
  PROVE  queue[j] \in Command /\ queue[j].id \in Nat
<1>1. queue[j] \in Command
  BY ElementOfSeq DEF CommandInv
<1> QED BY <1>1 DEF Command

LEMMA GiveStep ==
  ASSUME CommandInv, NEW order \in Orders, PowerCommand(order) PROVE CommandInv'
<1> DEFINE new == [order |-> order, id |-> ordersGiven + 1]
<1>1. awaited = 0 /\ ordersGiven' = ordersGiven + 1 /\ lastPerformed' = lastPerformed
  BY DEF PowerCommand, deviceVars
<1>2. ordersGiven \in Nat /\ lastPerformed \in 0 .. ordersGiven /\ done = NotYet
      /\ queue \in Seq(Command)
  BY <1>1 DEF CommandInv
<1>3. CASE client
  <2>1. queue' = Append(queue, new) /\ awaited' = ordersGiven + 1 /\ done' = NotYet
    BY <1>3 DEF PowerCommand
  <2>2. new \in Command /\ new.id = ordersGiven + 1
    BY <1>2 DEF Command
  <2> HIDE DEF new
  <2> DEFINE n == Len(queue)
  <2>3. /\ queue' \in Seq(Command) /\ Len(queue') = n + 1 /\ n \in Nat
        /\ \A j \in 1 .. n : queue'[j] = queue[j]
        /\ queue'[n + 1] = new
    BY <1>2, <2>1, <2>2, AppendProperties
  <2>4. \A j \in 1 .. n : /\ queue[j].id \in Nat /\ queue[j].id > lastPerformed
                          /\ queue[j].id <= ordersGiven
    BY QueuedId DEF CommandInv
  <2>5. \A j, k \in 1 .. n : k < j => queue[k].id < queue[j].id
    BY DEF CommandInv
  <2> HIDE DEF n
  <2>6. \A j \in 1 .. Len(queue') : queue'[j].id > lastPerformed /\ queue'[j].id <= ordersGiven + 1
    <3> SUFFICES ASSUME NEW j \in 1 .. Len(queue')
                 PROVE  queue'[j].id > lastPerformed /\ queue'[j].id <= ordersGiven + 1
      OBVIOUS
    <3>1. CASE j \in 1 .. n
      BY <1>2, <2>3, <2>4, <3>1
    <3>2. CASE j = n + 1
      BY <1>2, <2>2, <2>3, <3>2
    <3> QED BY <2>3, <3>1, <3>2
  <2>7. \A j, k \in 1 .. Len(queue') : k < j => queue'[k].id < queue'[j].id
    <3> SUFFICES ASSUME NEW j \in 1 .. Len(queue'), NEW k \in 1 .. Len(queue'), k < j
                 PROVE  queue'[k].id < queue'[j].id
      OBVIOUS
    <3>0. k \in 1 .. n
      BY <2>3
    <3>1. CASE j \in 1 .. n
      BY <2>3, <2>5, <3>0, <3>1
    <3>2. CASE j = n + 1
      BY <1>2, <2>2, <2>3, <2>4, <3>0, <3>2
    <3> QED BY <2>3, <3>1, <3>2
  <2>8. NotYet # "sent" /\ ordersGiven + 1 # 0 /\ ordersGiven + 1 \in Nat
        /\ lastPerformed \in 0 .. ordersGiven + 1
    BY <1>2 DEF NotYet
  <2> QED BY <1>1, <2>1, <2>3, <2>6, <2>7, <2>8 DEF CommandInv
<1>4. CASE ~client
  <2>1. lastResult' = "refused" /\ UNCHANGED <<queue, awaited, done>>
    BY <1>4 DEF PowerCommand
  <2>2. \A j \in 1 .. Len(queue) : queue[j].id \in Nat
    BY QueuedId
  <2>3. \A j \in 1 .. Len(queue) : queue[j].id > lastPerformed /\ queue[j].id <= ordersGiven + 1
    BY <1>2, <2>2 DEF CommandInv
  <2>4. NotYet # "sent" /\ lastPerformed \in 0 .. ordersGiven + 1 /\ ordersGiven + 1 \in Nat
    BY <1>2 DEF NotYet
  <2> QED BY <1>1, <1>2, <2>1, <2>3, <2>4 DEF CommandInv
<1> QED BY <1>3, <1>4

\* The thread takes the head of the queue: performed or given up.
LEMMA TakeStep ==
  ASSUME CommandInv, queue # << >>, queue' = Tail(queue),
         lastPerformed' \in {lastPerformed, Head(queue).id},
         UNCHANGED <<ordersGiven, awaited, lastResult>>,
         \/ done' = done
         \/ Settle("failed")
         \/ Settle("sent") /\ lastPerformed' = Head(queue).id
  PROVE  CommandInv'
<1> DEFINE n == Len(queue)
           head == Head(queue).id
<1>1. /\ Tail(queue) \in Seq(Command) /\ n \in Nat /\ n > 0 /\ Len(Tail(queue)) = n - 1
      /\ Head(queue) = queue[1] /\ \A i \in 1 .. n - 1 : Tail(queue)[i] = queue[i + 1]
  BY HeadTailProperties DEF CommandInv
<1>2. \A j \in 1 .. n : /\ queue[j].id \in Nat /\ queue[j].id > lastPerformed
                        /\ queue[j].id <= ordersGiven
  BY QueuedId DEF CommandInv
<1>3. \A j, k \in 1 .. n : k < j => queue[k].id < queue[j].id
  BY DEF CommandInv
<1>4. /\ ordersGiven \in Nat /\ lastPerformed \in 0 .. ordersGiven
      /\ awaited \in {0, ordersGiven} /\ (awaited = 0 => done = NotYet)
      /\ (done = "sent" => lastPerformed = ordersGiven)
      /\ (awaited = 0 /\ lastResult = "ok" => lastPerformed = ordersGiven)
  BY DEF CommandInv
<1>5. head = queue[1].id /\ head \in Nat /\ head > lastPerformed /\ head <= ordersGiven
  BY <1>1, <1>2
<1>6. done' = done \/ (awaited = head /\ (done' = "failed" \/ (done' = "sent" /\ lastPerformed' = head)))
  BY DEF Settle
<1>7. /\ queue' \in Seq(Command) /\ Len(queue') = n - 1
      /\ \A i \in 1 .. n - 1 : queue'[i] = queue[i + 1]
      /\ lastPerformed' \in {lastPerformed, head}
      /\ ordersGiven' = ordersGiven /\ awaited' = awaited /\ lastResult' = lastResult
  BY <1>1
<1> HIDE DEF n, head
<1>8. \A i \in 1 .. n - 1 : i + 1 \in 1 .. n /\ 1 < i + 1
  BY <1>1
<1>9. lastPerformed' \in 0 .. ordersGiven /\ lastPerformed' <= head
  BY <1>4, <1>5, <1>7
<1>10. \A j \in 1 .. n - 1 : queue'[j].id > lastPerformed' /\ queue'[j].id <= ordersGiven
  <2> SUFFICES ASSUME NEW j \in 1 .. n - 1
               PROVE  queue'[j].id > lastPerformed' /\ queue'[j].id <= ordersGiven
    OBVIOUS
  <2>1. queue'[j].id = queue[j + 1].id /\ j + 1 \in 1 .. n /\ 1 \in 1 .. n /\ 1 < j + 1
    BY <1>1, <1>7, <1>8
  <2>2. queue[1].id < queue[j + 1].id /\ queue[j + 1].id \in Nat /\ queue[j + 1].id <= ordersGiven
    BY <1>2, <1>3, <2>1
  <2> DEFINE x == queue[j + 1].id
             p == lastPerformed'
  <2>3. x \in Nat /\ head < x /\ head \in Nat /\ p \in Nat /\ p <= head /\ x <= ordersGiven
    BY <1>4, <1>5, <1>9, <2>2
  <2> HIDE DEF x, p
  <2>4. x > p
    BY <2>3
  <2> QED BY <2>1, <2>3, <2>4 DEF x, p
<1>11. \A j, k \in 1 .. n - 1 : k < j => queue'[k].id < queue'[j].id
  <2> SUFFICES ASSUME NEW j \in 1 .. n - 1, NEW k \in 1 .. n - 1, k < j
               PROVE  queue'[k].id < queue'[j].id
    OBVIOUS
  <2>1. k + 1 < j + 1
    BY <1>1
  <2> QED BY <1>3, <1>7, <1>8, <2>1
<1>12. /\ awaited = 0 => done' = NotYet
       /\ done' = "sent" => lastPerformed' = ordersGiven
       /\ awaited = 0 /\ lastResult = "ok" => lastPerformed' = ordersGiven
  BY <1>4, <1>5, <1>6, <1>7
<1> QED BY <1>4, <1>7, <1>9, <1>10, <1>11, <1>12 DEF CommandInv

LEMMA ReturnStep == ASSUME CommandInv, CallReturns \/ CallTimesOut PROVE CommandInv'
<1>1. /\ awaited # 0 /\ awaited' = 0 /\ done' = NotYet
      /\ lastResult' = "failed" \/ done = "sent"
      /\ UNCHANGED <<queue, ordersGiven, lastPerformed>>
  BY DEF CallReturns, CallTimesOut, deviceVars
<1>2. "failed" # "ok" /\ NotYet # "sent"
  BY DEF NotYet
<1> QED BY <1>1, <1>2 DEF CommandInv

LEMMA MatterBegin == MatterInit => CommandInv
<1> SUFFICES ASSUME MatterInit PROVE CommandInv
  OBVIOUS
<1>1. queue = << >> /\ queue \in Seq(Command)
  BY EmptySeq DEF MatterInit
<1>2. 1 .. Len(queue) = {}
  BY <1>1
<1> QED BY <1>1, <1>2 DEF MatterInit, CommandInv, NotYet

LEMMA CommandStep == CommandInv /\ [MatterNext]_matterVars => CommandInv'
<1> SUFFICES ASSUME CommandInv, [MatterNext]_matterVars PROVE CommandInv'
  OBVIOUS
<1>1. ASSUME UNCHANGED commandVars PROVE CommandInv'
  BY <1>1 DEF commandVars, CommandInv
<1>2. CASE Connect \/ ConnectFails \/ SyncState \/ CheckSocket \/ Drained \/ CloseClient
           \/ WakeUp \/ EndLoop
  BY <1>1, <1>2 DEF Connect, ConnectFails, SyncState, CheckSocket, Drained, CloseClient, WakeUp,
     EndLoop, deviceVars, callVars, commandVars
<1>3. CASE LoseSocket \/ ChangeReach \/ UseSwitch \/ StopAdapterThread \/ UNCHANGED matterVars
  BY <1>1, <1>3 DEF LoseSocket, ChangeReach, UseSwitch, StopAdapterThread, deviceVars, callVars,
     matterVars, commandVars
<1>4. CASE SendCommand
  BY <1>4, TakeStep DEF SendCommand, Performs
<1>5. CASE SendFails
  <2>1. /\ queue # << >> /\ queue' = Tail(queue) /\ Settle("failed")
        /\ UNCHANGED <<ordersGiven, awaited, lastResult>>
        /\ Performs \/ UNCHANGED deviceVars
    BY <1>5 DEF SendFails, deviceVars
  <2>2. lastPerformed' \in {lastPerformed, Head(queue).id}
    BY <2>1 DEF Performs, deviceVars
  <2> QED BY <2>1, <2>2, TakeStep
<1>6. CASE SendCancelled
  <2>1. /\ queue # << >> /\ queue' = Tail(queue) /\ done' = done
        /\ UNCHANGED <<ordersGiven, awaited, lastResult>>
        /\ Performs \/ UNCHANGED deviceVars
    BY <1>6 DEF SendCancelled, callVars
  <2>2. lastPerformed' \in {lastPerformed, Head(queue).id}
    BY <2>1 DEF Performs, deviceVars
  <2> QED BY <2>1, <2>2, TakeStep
<1> QED BY <1>2, <1>3, <1>4, <1>5, <1>6, GiveStep, ReturnStep DEF MatterNext, MatterThread

\* Commands to a Matter device are performed in the order of the calls and at
\* most once; when a call has returned ok, none is left to be performed after it
\* (adapters/matter_adapter.py): for any number of commands and faults, and
\* whatever callers give up.
THEOREM AlwaysInCallOrder == MatterSpec => []InCallOrder
<1>1. CommandInv => InCallOrder
  <2> SUFFICES ASSUME CommandInv PROVE InCallOrder
    OBVIOUS
  <2>0. Len(queue) \in Nat /\ queue \in Seq(Command)
    BY LenProperties DEF CommandInv
  <2>1. \A j \in 1 .. Len(queue) : \A k \in 1 .. j - 1 : k \in 1 .. Len(queue) /\ k < j
    BY <2>0
  <2>2. \A j \in 1 .. Len(queue) : queue[j].id > lastPerformed /\ \A k \in 1 .. j - 1 : queue[k].id < queue[j].id
    BY <2>1 DEF CommandInv
  <2>3. ASSUME lastPerformed = ordersGiven PROVE queue = << >>
    <3>1. \A j \in 1 .. Len(queue) : FALSE
      BY <2>3, QueuedId DEF CommandInv
    <3>2. Len(queue) = 0
      BY <2>0, <3>1
    <3> QED BY <2>0, <3>2, EmptySeq
  <2> QED BY <2>2, <2>3 DEF CommandInv, InCallOrder
<1> QED BY MatterBegin, <1>1, CommandStep, PTL DEF MatterSpec

-----------------------------------------------------------------------------
(* Bindings of operators.                                                  *)

\* A chain holds its source, and with a bound parameter that one's source.
LEMMA ChainFollows ==
  ASSUME NEW source \in Signal
  PROVE  /\ source \in Chain(source)
         /\ \A p \in Chain(source) \intersect Params :
              bound[p] # Unbound /\ bound[p] \in Signal => bound[p] \in Chain(source)
BY DEF Chain

\* It holds no more than any set does that has these properties.
LEMMA ChainLeast ==
  ASSUME NEW source \in Signal, NEW visited \in SUBSET Signal, source \in visited,
         \A p \in visited \intersect Params : bound[p] # Unbound => bound[p] \in visited
  PROVE  Chain(source) \subseteq visited
BY DEF Chain

\* The check lets no binding close a cycle: of a cycle through the parameter it
\* would have followed the rest, and come to it or to no end.
LEMMA CreateKeepsForest ==
  ASSUME BindingsTypeOK, NoBindingCycle,
         NEW param \in Params, NEW source \in Signal, CreateBinding(param, source)
  PROVE  NoBindingCycle'
<1> SUFFICES ASSUME NEW ring \in SUBSET Params, ring # {},
                    \A p \in ring : bound'[p] \in ring
             PROVE  FALSE
  BY DEF NoBindingCycle
<1>1. /\ bound \in [Params -> Signal \union {Unbound}] /\ Unbound \notin Params
      /\ bound'[param] = source
      /\ \A p \in Params : p # param => bound'[p] = bound[p]
  BY BindingsAssumption DEF BindingsTypeOK, CreateBinding, Unbound
<1>2. CASE param \notin ring
  BY <1>1, <1>2 DEF NoBindingCycle
<1>3. CASE param \in ring
  <2>1. param \notin Chain(source)
    BY DEF CreateBinding, Circular
  <2>2. PICK end \in Chain(source) : ~(end \in Params /\ bound[end] # Unbound)
    BY DEF CreateBinding, Circular
  <2> DEFINE rest == Chain(source) \intersect ring
  <2>3. rest \in SUBSET Signal /\ source \in rest
    BY <1>1, <1>3, ChainFollows DEF Signal
  <2>4. ASSUME NEW p \in rest \intersect Params, bound[p] # Unbound
        PROVE  bound[p] \in rest
    BY <1>1, <2>1, <2>4, ChainFollows DEF Signal
  <2>5. end \in rest
    BY <2>3, <2>4, ChainLeast
  <2> QED BY <1>1, <2>1, <2>2, <2>5
<1> QED BY <1>2, <1>3

LEMMA BindingsBegin == BindingsInit => BindingsTypeOK /\ NoBindingCycle
<1> SUFFICES ASSUME BindingsInit PROVE BindingsTypeOK /\ NoBindingCycle
  OBVIOUS
<1>1. Unbound \notin Params
  BY BindingsAssumption DEF Unbound
<1>2. \A p \in Params : bound[p] = Unbound
  BY DEF BindingsInit
<1>3. BindingsTypeOK
  BY BindingsAssumption DEF BindingsInit, BindingsTypeOK
<1> QED BY <1>1, <1>2, <1>3 DEF NoBindingCycle

LEMMA BindingsStep ==
  BindingsTypeOK /\ NoBindingCycle /\ [BindingsNext]_bindingVars
    => BindingsTypeOK' /\ NoBindingCycle'
<1> SUFFICES ASSUME BindingsTypeOK, NoBindingCycle, [BindingsNext]_bindingVars
             PROVE  BindingsTypeOK' /\ NoBindingCycle'
  OBVIOUS
<1>1. ASSUME NEW p \in Params, RemoveBinding(p)
      PROVE  BindingsTypeOK' /\ NoBindingCycle'
  <2>1. BindingsTypeOK'
    BY <1>1, BindingsAssumption DEF BindingsTypeOK, RemoveBinding, Edit
  <2>2. \A q \in Params : bound'[q] = bound[q] \/ bound'[q] = Unbound
    BY <1>1 DEF BindingsTypeOK, RemoveBinding
  <2>3. Unbound \notin Params
    BY BindingsAssumption DEF Unbound
  <2> QED BY <2>1, <2>2, <2>3 DEF NoBindingCycle
<1>2. ASSUME NEW p \in Params, NEW s \in Signal, CreateBinding(p, s)
      PROVE  BindingsTypeOK' /\ NoBindingCycle'
  <2>1. BindingsTypeOK'
    BY <1>2, BindingsAssumption DEF BindingsTypeOK, CreateBinding, Edit
  <2> QED BY <1>2, <2>1, CreateKeepsForest
<1>3. ASSUME NEW s \in Signal, NEW v \in Values, Write(s, v)
      PROVE  BindingsTypeOK' /\ NoBindingCycle'
  BY <1>3, BindingsAssumption DEF BindingsTypeOK, NoBindingCycle, Write, Edit
<1>4. ASSUME ResolveBindings PROVE BindingsTypeOK' /\ NoBindingCycle'
  <2>1. Carried(turn) \in [Signal -> Values]
    BY BindingsAssumption DEF BindingsTypeOK, Carried, Signal
  <2> QED
    BY <1>4, <2>1, BindingsAssumption DEF BindingsTypeOK, NoBindingCycle, ResolveBindings
<1>5. CASE UNCHANGED bindingVars
  BY <1>5 DEF bindingVars, BindingsTypeOK, NoBindingCycle
<1> QED BY <1>1, <1>2, <1>3, <1>4, <1>5 DEF BindingsNext

\* However bindings are created, replaced and removed (create_binding() and
\* check_circular_binding() of operators/__init__.py), no parameter comes to
\* depend on itself: for any number of operators and of requests.
THEOREM NeverABindingCycle == BindingsSpec => []NoBindingCycle
<1> QED BY BindingsBegin, BindingsStep, PTL DEF BindingsSpec

-----------------------------------------------------------------------------
(* The types of Trigger and Occupancy.                                     *)

\* The types of Trigger, the Boolean variables and the others.
TriggerFlags ==
  sensor \in BOOLEAN /\ seen \in BOOLEAN /\ active \in BOOLEAN /\ raced \in BOOLEAN
TriggerNumbers ==
  /\ offType \in {"watchdog", "condition"}
  /\ sinceTrigger \in 0..Never /\ sinceAction \in 0..Debounce
  /\ lit \in {"off", "trigger", "user"}
  /\ handler \in {"none", "played", "notified"}
  /\ readings \in 0..MaxReadings /\ overrides \in 0..MaxOverrides
  /\ actionFailures \in 0..MaxActionFailures

LEMMA TriggerTypes ==
  /\ TriggerInit => TriggerFlags /\ TriggerNumbers
  /\ TriggerFlags /\ TriggerNumbers /\ [TriggerNext]_triggerVars => (TriggerFlags /\ TriggerNumbers)'
  /\ TriggerFlags /\ TriggerNumbers => TriggerTypeOK
<1>0. /\ Watchdog \in Nat \ {0} /\ Debounce \in Nat /\ Never = Watchdog + 1
      /\ MaxReadings \in Nat /\ MaxOverrides \in Nat /\ MaxActionFailures \in Nat
  BY TriggerAssumption DEF TriggerAssumption, Never
<1>1. TriggerInit => TriggerFlags
  BY DEF TriggerInit, TriggerFlags
<1>2. TriggerInit => TriggerNumbers
  BY <1>0 DEF TriggerInit, TriggerNumbers
<1>3. ASSUME TriggerFlags, [TriggerNext]_triggerVars PROVE TriggerFlags'
  <2> USE DEF TriggerFlags, triggerState
  <2>1. ASSUME NEW matched \in BOOLEAN, OnSignal(matched) \/ FireOff
        PROVE  active' \in BOOLEAN /\ raced' \in BOOLEAN
    BY <1>3, <2>1, Zenon DEF OnSignal, FireOn, FireOff, Act, Refrain
  <2>2. CASE Poll
    BY <1>3, <2>1, <2>2, Zenon DEF Poll
  <2>3. CASE OnTick
    BY <1>3, <2>1, <2>3, Zenon DEF OnTick
  <2>4. CASE Age \/ Sense \/ UNCHANGED triggerVars
    BY <1>3, <2>4, Zenon DEF Age, Sense, triggerVars
  <2>5. CASE Play \/ PlayNotifies \/ StopNotifies \/ StopActs
    BY <1>3, <2>5, Zenon DEF Play, PlayNotifies, StopNotifies, StopActs, Reset
  <2> QED BY <1>3, <2>2, <2>3, <2>4, <2>5 DEF TriggerNext
<1>4. ASSUME TriggerNumbers, [TriggerNext]_triggerVars PROVE TriggerNumbers'
  <2> USE DEF TriggerNumbers, triggerState, triggerBounds
  <2>1. ASSUME NEW matched, OnSignal(matched) \/ FireOff
        PROVE  /\ lit' \in {"off", "trigger", "user"} /\ sinceAction' \in 0..Debounce
               /\ actionFailures' \in 0..MaxActionFailures
    BY <1>0, <1>4, <2>1 DEF OnSignal, FireOn, FireOff, Act, Refrain
  <2>2. CASE Poll
    BY <1>0, <1>4, <2>1, <2>2 DEF Poll, OnSignal, Never
  <2>3. CASE OnTick
    BY <1>4, <2>1, <2>3 DEF OnTick, Never
  <2>4. CASE Age
    BY <1>0, <1>4, <2>4 DEF Age, Older, Never
  <2>5. CASE Sense \/ UNCHANGED triggerVars
    BY <1>0, <1>4, <2>5 DEF Sense, triggerVars, Never
  <2>6. CASE Play \/ PlayNotifies \/ StopNotifies \/ StopActs
    BY <1>0, <1>4, <2>6 DEF Play, PlayNotifies, StopNotifies, StopActs, Request, Never
  <2> QED BY <1>4, <2>2, <2>3, <2>4, <2>5, <2>6 DEF TriggerNext
<1>5. TriggerFlags /\ TriggerNumbers => TriggerTypeOK
  BY DEF TriggerFlags, TriggerNumbers, TriggerTypeOK
<1> QED BY <1>1, <1>2, <1>3, <1>4, <1>5

\* The types of Occupancy.
LEMMA OccupancyTypes ==
  /\ OccupancyInit => OccupancyTypeOK
  /\ OccupancyTypeOK /\ [OccupancyNext]_occupancyVars => OccupancyTypeOK'
<1>0. /\ Confirm \in Nat /\ MaxTurns \in Nat /\ MaxRestarts \in Nat /\ MaxDbFaults \in Nat
      /\ NotSince = Confirm + 1
      /\ {"locked", "unlocked", Unheard} = Shown
  BY OccupancyAssumption DEF OccupancyAssumption, NotSince, Shown
<1> USE DEF OccupancyTypeOK
<1>1. OccupancyInit => OccupancyTypeOK
  <2> SUFFICES ASSUME OccupancyInit PROVE OccupancyTypeOK
    OBVIOUS
  <2>1. lockSignal \in [Locks -> Shown] /\ prevSignals = lockSignal /\ lockStates = lockSignal
    BY DEF OccupancyInit, Shown
  <2>2. tickDue \in BOOLEAN /\ bolt \in [Locks -> {"locked", "unlocked"}]
    BY DEF OccupancyInit
  <2>3. occupancy = HOME /\ occupancySignal = HOME /\ database = "none"
    BY DEF OccupancyInit
  <2>4. lockedFor = NotSince /\ openAgo = 0 /\ turns = 0 /\ serverRestarts = 0 /\ dbFaults = 0
    BY DEF OccupancyInit
  <2> QED BY <1>0, <2>1, <2>2, <2>3, <2>4
<1>2. ASSUME OccupancyTypeOK, [OccupancyNext]_occupancyVars PROVE OccupancyTypeOK'
  <2> USE DEF operatorVars, lockBounds
  <2>1. ASSUME NEW l \in Locks, TurnLock(l) PROVE OccupancyTypeOK'
    BY <1>0, <1>2, <2>1 DEF TurnLock, NotSince, HOME, AWAY, Shown
  <2>2. ASSUME NEW l \in Locks, ReportLock(l) PROVE OccupancyTypeOK'
    BY <1>0, <1>2, <2>2 DEF ReportLock, NotSince, Shown
  <2>3. CASE ASecondPasses
    BY <1>0, <1>2, <2>3 DEF ASecondPasses, NotSince, Shown
  <2>4. CASE PollSignals
    <3>1. lockStates' \in [Locks -> Shown] /\ prevSignals' \in [Locks -> Shown]
      BY <1>2, <2>4 DEF PollSignals, Changed
    <3>2. lockedFor' \in 0..NotSince /\ openAgo' \in 0..Confirm
      <4>1. lockedFor' \in {lockedFor, 0, NotSince} /\ openAgo' \in {openAgo, 0}
        BY <2>4 DEF PollSignals, TimerAfter
      <4> QED BY <1>0, <1>2, <4>1
    <3>3. \E new \in {HOME, AWAY} : SetOccupancy(new)
      BY <1>0, <1>2, <2>4 DEF PollSignals
    <3>4. /\ {occupancy', occupancySignal'} \subseteq {HOME, AWAY}
          /\ database' \in {HOME, AWAY, "none"} /\ dbFaults' \in 0..MaxDbFaults
      BY <1>0, <1>2, <3>3 DEF SetOccupancy
    <3> QED BY <1>2, <2>4, <3>1, <3>2, <3>4 DEF PollSignals, NotSince, Shown
  <2>5. CASE ServerRestarts
    <3>1. lockSignal' \in [Locks -> Shown] /\ prevSignals' = lockSignal'
      BY <1>0, <1>2, <2>5 DEF ServerRestarts
    <3>2. lockStates' \in [Locks -> Shown]
      BY <2>5 DEF ServerRestarts, Shown
    <3>3. {occupancy', occupancySignal'} \subseteq {HOME, AWAY}
      BY <2>5 DEF ServerRestarts
    <3>4. /\ lockedFor' = NotSince /\ openAgo' = 0 /\ tickDue' \in BOOLEAN
          /\ serverRestarts < MaxRestarts /\ serverRestarts' = serverRestarts + 1
          /\ UNCHANGED <<bolt, database, turns, dbFaults>>
      BY <2>5 DEF ServerRestarts
    <3> QED BY <1>0, <1>2, <3>1, <3>2, <3>3, <3>4 DEF NotSince, Shown
  <2>6. CASE UNCHANGED occupancyVars
    BY <1>2, <2>6 DEF occupancyVars, NotSince, Shown
  <2> QED BY <1>2, <2>1, <2>2, <2>3, <2>4, <2>5, <2>6 DEF OccupancyNext
<1> QED BY <1>1, <1>2

\* What the operator says of the house agrees everywhere: with the bus, with the
\* database unless a write has failed, with the locks it knows of (none of them is
\* unlocked in an empty house), and its timer runs whenever they let it.
OccupancyAgrees ==
  /\ occupancySignal = occupancy
  /\ dbFaults = 0 /\ database # "none" => database = occupancy
  /\ occupancy = AWAY => \A l \in Locks : lockStates[l] # "unlocked"
  /\ (\E l \in Locks : lockStates[l] # Unheard) /\ (\A l \in Locks : lockStates[l] # "unlocked")
       => lockedFor # NotSince

LEMMA AgreesStep ==
  TimerInv /\ OccupancyTypeOK /\ OccupancyAgrees /\ [OccupancyNext]_occupancyVars => OccupancyAgrees'
<1> SUFFICES ASSUME TimerInv, OccupancyTypeOK, OccupancyAgrees, [OccupancyNext]_occupancyVars
             PROVE  OccupancyAgrees'
  OBVIOUS
<1>0. Confirm \in Nat /\ NotSince = Confirm + 1 /\ HOME # AWAY /\ HOME # "none" /\ AWAY # "none"
  BY OccupancyAssumption DEF OccupancyAssumption, NotSince, HOME, AWAY
<1>1. ASSUME NEW l \in Locks, TurnLock(l) \/ ReportLock(l) PROVE OccupancyAgrees'
  BY <1>1 DEF TurnLock, ReportLock, operatorVars, lockBounds, OccupancyAgrees, NotSince
<1>2. CASE ASecondPasses
  <2>1. /\ lockedFor' = IF lockedFor < Confirm THEN lockedFor + 1 ELSE lockedFor
        /\ UNCHANGED <<lockStates, occupancy, occupancySignal, database, dbFaults>>
    BY <1>2 DEF ASecondPasses, lockBounds
  <2>2. lockedFor # NotSince => lockedFor' # NotSince
    BY <1>0, <2>1 DEF TimerInv
  <2> QED BY <2>1, <2>2 DEF OccupancyAgrees, NotSince
<1>3. CASE PollSignals
  <2> DEFINE said == IF tickDue /\ lockedFor' = Confirm THEN AWAY
                     ELSE IF Opened # {} THEN HOME ELSE occupancy
             states == [l \in Locks |-> IF l \in Changed THEN lockSignal[l] ELSE lockStates[l]]
             open == \E l \in Locks : states[l] = "unlocked"
  <2>1. SetOccupancy(said) /\ lockStates' = states
        /\ lockedFor' = IF Changed = {} THEN lockedFor ELSE IF open THEN NotSince
                        ELSE IF lockedFor = NotSince THEN 0 ELSE lockedFor
    BY <1>3 DEF PollSignals, TimerAfter
  <2>2. Changed = {} => states = lockStates
    BY DEF OccupancyTypeOK
  <2>3. /\ open <=> \E l \in Locks : lockStates'[l] = "unlocked"
        /\ open => lockedFor' = NotSince
    <3>1. open <=> \E l \in Locks : lockStates'[l] = "unlocked"
      BY <2>1
    <3>2. CASE Changed = {}
      <4>1. open => \E l \in Locks : lockStates[l] = "unlocked"
        BY <2>2, <3>2
      <4> QED BY <2>1, <3>1, <3>2, <4>1 DEF TimerInv
    <3> QED BY <2>1, <3>1, <3>2
  <2>4. open /\ Opened = {} => \E l \in Locks : lockStates[l] = "unlocked"
    BY DEF Opened
  <2>5. ASSUME ~open, \E l \in Locks : lockStates'[l] # Unheard PROVE lockedFor' # NotSince
    <3>1. CASE Changed = {}
      <4>1. lockStates' = lockStates /\ lockedFor' = lockedFor
        BY <2>1, <2>2, <3>1
      <4> QED BY <2>3, <2>5, <4>1 DEF OccupancyAgrees
    <3>2. CASE Changed # {}
      BY <1>0, <2>1, <2>5, <3>2
    <3> QED BY <3>1, <3>2
  <2>6. said \in {HOME, AWAY}
    BY DEF OccupancyTypeOK
  <2>7. said = AWAY => ~open
    BY <1>0, <2>3, <2>4 DEF OccupancyAgrees
  <2> HIDE DEF said, open, states
  <2>8. occupancy' = said /\ occupancySignal' = said
    BY <2>1 DEF SetOccupancy, OccupancyAgrees
  <2>9. dbFaults' = 0 /\ database' # "none" => database' = occupancy'
    <3>1. dbFaults \in Nat
      BY OccupancyAssumption DEF OccupancyAssumption, OccupancyTypeOK
    <3>2. dbFaults' \in {dbFaults, dbFaults + 1}
      BY <2>1 DEF SetOccupancy
    <3>3. said = occupancy => database' = database
      BY <2>1 DEF SetOccupancy
    <3>4. said # occupancy /\ dbFaults' = dbFaults => database' = said
      BY <2>1, <3>1 DEF SetOccupancy
    <3> QED BY <2>8, <3>1, <3>2, <3>3, <3>4 DEF OccupancyAgrees
  <2>10. occupancy' = AWAY => \A l \in Locks : lockStates'[l] # "unlocked"
    BY <2>3, <2>7, <2>8
  <2>11. (\E l \in Locks : lockStates'[l] # Unheard) /\ (\A l \in Locks : lockStates'[l] # "unlocked")
           => lockedFor' # NotSince
    BY <2>3, <2>5
  <2> QED BY <2>8, <2>9, <2>10, <2>11 DEF OccupancyAgrees, NotSince
<1>4. CASE ServerRestarts
  <2>1. /\ occupancy' = (IF database = AWAY THEN AWAY ELSE HOME) /\ occupancySignal' = occupancy'
        /\ \A l \in Locks : lockStates'[l] = Unheard
        /\ UNCHANGED <<database, dbFaults>>
    BY <1>4 DEF ServerRestarts
  <2>2. database \in {HOME, AWAY, "none"} /\ Unheard # "unlocked"
    BY DEF OccupancyTypeOK, Unheard
  <2> QED BY <2>1, <2>2 DEF OccupancyAgrees
<1>5. CASE UNCHANGED occupancyVars
  BY <1>5 DEF occupancyVars, operatorVars, lockBounds, OccupancyAgrees, NotSince
<1> QED BY <1>1, <1>2, <1>3, <1>4, <1>5 DEF OccupancyNext

\* The operator never contradicts itself (operators/occupancy.py): the bus and, unless a
\* write has failed, the database say what it holds, a house with a lock known to be
\* unlocked is not away, and the timer runs when all known locks are locked.  It
\* is the safety half of OccupancyFollowsLocks, through any restarts of the server.
THEOREM OccupancyAlwaysAgrees == OccupancySpec => []OccupancyAgrees
<1>1. OccupancyInit => TimerInv
  BY OccupancyAssumption DEF OccupancyAssumption, OccupancyInit, TimerInv, NotSince, Unheard
<1>2. OccupancyInit => OccupancyAgrees
  BY DEF OccupancyInit, OccupancyAgrees, Unheard, HOME, AWAY
<1> QED BY <1>1, <1>2, TimerStep, OccupancyTypes, AgreesStep, PTL DEF OccupancySpec

-----------------------------------------------------------------------------
(* The types of Media and of the Matter adapter.                           *)

MusicTyped == music \in BOOLEAN

LEMMA MusicStep == MusicTyped /\ [MediaNext]_mediaVars => MusicTyped'
<1> SUFFICES ASSUME MusicTyped, [MediaNext]_mediaVars PROVE MusicTyped'
  OBVIOUS
<1> USE DEF MusicTyped, managerVars
<1>1. ASSUME NEW i \in Source, Reader(i) \/ FfmpegDies(i) PROVE MusicTyped'
  BY <1>1, Zenon DEF Reader, Top, Spawn, EndRead, CleanUp, Waited, FfmpegDies
<1>2. CASE PlayMusic \/ StopRequested \/ Shutdown \/ PlayWithoutMusic \/ StopDevice \/ StartRequest
  BY <1>2, Zenon
     DEF PlayMusic, StopRequested, Shutdown, PlayWithoutMusic, StopDevice, StartRequest
<1>3. CASE Stop \/ UNCHANGED mediaVars
  BY <1>3, Zenon DEF Stop, ClearRunning, KillProcess, Joined, Finish, mediaVars
<1> QED BY <1>1, <1>2, <1>3 DEF MediaNext

\* What MediaInv leaves out: reference counts are bounded by the calls.
CountsTyped ==
  /\ op \in {"none", "add", "remove", "stop", "shutdown", "down"}
  /\ refs \in 0 .. ops /\ ops \in 0 .. MaxOps /\ mediaFaults \in 0 .. MaxMediaFaults
  /\ op # "none" => ops > 0

LEMMA CountsStep == CountsTyped /\ [MediaNext]_mediaVars => CountsTyped'
<1> SUFFICES ASSUME CountsTyped, [MediaNext]_mediaVars PROVE CountsTyped'
  OBVIOUS
<1>0. MaxOps \in Nat /\ MaxMediaFaults \in Nat
  BY MediaAssumption DEF MediaAssumption
<1> USE DEF CountsTyped, managerVars
<1>1. ASSUME NEW i \in Source, Reader(i) \/ FfmpegDies(i) PROVE CountsTyped'
  <2>1. UNCHANGED <<op, refs, ops>> /\ (UNCHANGED mediaFaults \/ MediaFault)
    BY <1>1 DEF Reader, Top, Spawn, EndRead, CleanUp, Waited, FfmpegDies
  <2> QED BY <1>0, <2>1 DEF MediaFault
<1>2. CASE PlayMusic \/ StopRequested \/ Shutdown
  BY <1>0, <1>2 DEF PlayMusic, StopRequested, Shutdown, Begin
<1>3. CASE PlayWithoutMusic \/ StopDevice
  BY <1>0, <1>3 DEF PlayWithoutMusic, StopDevice, Begin
<1>4. CASE StartRequest
  BY <1>0, <1>4 DEF StartRequest, Acquire
<1>5. CASE ClearRunning \/ KillProcess \/ Joined
  BY <1>5 DEF ClearRunning, KillProcess, Joined
<1>6. CASE Finish
  BY <1>0, <1>6 DEF Finish, Ended
<1>7. CASE UNCHANGED mediaVars
  BY <1>7 DEF mediaVars
<1> QED BY <1>1, <1>2, <1>3, <1>4, <1>5, <1>6, <1>7 DEF MediaNext, Stop

LEMMA MediaTypes ==
  /\ MediaInit => CountsTyped /\ MusicTyped
  /\ MediaInv /\ CountsTyped /\ MusicTyped => MediaTypeOK
<1>0. MaxOps \in Nat /\ MaxMediaFaults \in Nat
  BY MediaAssumption DEF MediaAssumption
<1>1. MediaInit => CountsTyped
  BY <1>0 DEF MediaInit, CountsTyped
<1>2. MediaInit => MusicTyped
  BY DEF MediaInit, MusicTyped
<1>3. MediaInv /\ CountsTyped /\ MusicTyped => MediaTypeOK
  <2> SUFFICES ASSUME MediaInv, CountsTyped, MusicTyped PROVE MediaTypeOK
    OBVIOUS
  <2>1. refs \in 0 .. MaxOps
    BY <1>0 DEF CountsTyped
  <2> QED BY <2>1 DEF MediaInv, SourcesTyped, CallInv, CountsTyped, MusicTyped, MediaTypeOK
<1> QED BY <1>1, <1>2, <1>3

\* The Matter adapter.
MatterFlags ==
  reachable \in BOOLEAN /\ client \in BOOLEAN /\ socket \in BOOLEAN /\ matterRunning \in BOOLEAN
MatterStates ==
  /\ plug \in Powers /\ cached \in Powers \union {"unknown"} /\ lastEffect \in Powers
  /\ loop \in {"connect", "sync", "listen", "drain", "close", "sleep", "ended"}
  /\ done \in {NotYet, "sent", "failed"} /\ lastResult \in {"none", "ok", "failed", "refused"}
  /\ ordersGiven \in 0 .. MaxCommands /\ matterFaults \in 0 .. MaxMatterFaults

LEMMA MatterFlagsStep == MatterFlags /\ [MatterNext]_matterVars => MatterFlags'
<1> SUFFICES ASSUME MatterFlags, [MatterNext]_matterVars PROVE MatterFlags'
  OBVIOUS
<1> USE DEF MatterFlags, threadVars
<1>1. CASE Connect \/ ConnectFails \/ SyncState \/ CheckSocket \/ SendCommand \/ SendFails
  BY <1>1, Zenon DEF Connect, ConnectFails, SyncState, CheckSocket, SendCommand, SendFails
<1>2. CASE SendCancelled \/ Drained \/ CloseClient \/ WakeUp \/ EndLoop
  BY <1>2, Zenon DEF SendCancelled, Drained, CloseClient, WakeUp, EndLoop
<1>3. CASE LoseSocket \/ ChangeReach \/ UseSwitch \/ StopAdapterThread \/ UNCHANGED matterVars
  BY <1>3, Zenon DEF LoseSocket, ChangeReach, UseSwitch, StopAdapterThread, matterVars
<1>4. CASE CallReturns \/ CallTimesOut \/ \E order \in Orders : PowerCommand(order)
  BY <1>4, Zenon DEF CallReturns, CallTimesOut, PowerCommand
<1> QED BY <1>1, <1>2, <1>3, <1>4 DEF MatterNext, MatterThread

LEMMA MatterStatesStep == CommandInv /\ MatterStates /\ [MatterNext]_matterVars => MatterStates'
<1> SUFFICES ASSUME CommandInv, MatterStates, [MatterNext]_matterVars PROVE MatterStates'
  OBVIOUS
<1>0. MaxCommands \in Nat /\ MaxMatterFaults \in Nat
  BY MatterAssumption DEF MatterAssumption
<1>a. \A order \in Orders : After(order) \in Powers
  BY DEF After, Orders, Powers
<1>b. "toggle" \in Orders /\ (queue # << >> => Head(queue).order \in Orders)
  <2>1. queue # << >> => Head(queue) \in Command
    BY HeadTailProperties DEF CommandInv
  <2> QED BY <2>1 DEF Command, Orders
<1>c. ASSUME queue # << >>, Performs \/ UNCHANGED deviceVars
      PROVE  plug' \in Powers /\ lastEffect' \in Powers
  BY <1>a, <1>b, <1>c DEF Performs, deviceVars, MatterStates
<1> USE DEF MatterStates, callVars, deviceVars
<1>1. CASE Connect \/ ConnectFails \/ SyncState \/ CheckSocket
  BY <1>0, <1>1 DEF Connect, ConnectFails, SyncState, CheckSocket, At, MatterFault
<1>2. CASE Drained \/ CloseClient \/ WakeUp \/ EndLoop
  BY <1>2 DEF Drained, CloseClient, WakeUp, EndLoop, At
<1>3. CASE SendCommand \/ SendFails
  <2>1. /\ plug' \in Powers /\ lastEffect' \in Powers
        /\ done' \in {done, "sent", "failed"}
    BY <1>3, <1>c DEF SendCommand, SendFails, Settle
  <2> QED BY <1>0, <1>3, <2>1 DEF SendCommand, SendFails, threadVars, MatterFault
<1>4. CASE SendCancelled
  <2>1. plug' \in Powers /\ lastEffect' \in Powers
    BY <1>4, <1>c DEF SendCancelled
  <2> QED BY <1>0, <1>4, <2>1 DEF SendCancelled, MatterFault
<1>5. CASE LoseSocket \/ ChangeReach \/ StopAdapterThread \/ UNCHANGED matterVars
  BY <1>0, <1>5
     DEF LoseSocket, ChangeReach, StopAdapterThread, matterVars, threadVars, MatterFault
<1>7. CASE UseSwitch
  BY <1>0, <1>7, <1>a, <1>b DEF UseSwitch, threadVars, MatterFault
<1>6. CASE CallReturns \/ CallTimesOut \/ \E order \in Orders : PowerCommand(order)
  <2>1. /\ UNCHANGED <<plug, cached, lastEffect, loop, matterFaults>>
        /\ done' \in {NotYet, done} /\ lastResult' \in {lastResult, "ok", "failed", "refused"}
        /\ \/ ordersGiven' = ordersGiven
           \/ ordersGiven < MaxCommands /\ ordersGiven' = ordersGiven + 1
    <3>1. CASE CallReturns \/ CallTimesOut
      BY <3>1 DEF CallReturns, CallTimesOut, threadVars
    <3>2. ASSUME NEW order \in Orders, PowerCommand(order)
          PROVE  /\ done' \in {NotYet, done} /\ lastResult' \in {lastResult, "refused"}
                 /\ ordersGiven < MaxCommands /\ ordersGiven' = ordersGiven + 1
                 /\ UNCHANGED <<plug, cached, lastEffect, loop, matterFaults>>
      BY <3>2 DEF PowerCommand, threadVars
    <3> QED BY <1>6, <3>1, <3>2
  <2> QED BY <1>0, <2>1
<1> QED BY <1>1, <1>2, <1>3, <1>4, <1>5, <1>6, <1>7 DEF MatterNext, MatterThread

LEMMA MatterTypes ==
  /\ MatterInit => MatterFlags /\ MatterStates
  /\ CommandInv /\ MatterFlags /\ MatterStates => MatterTypeOK
<1>0. MaxCommands \in Nat /\ MaxMatterFaults \in Nat
  BY MatterAssumption DEF MatterAssumption
<1>1. MatterInit => MatterFlags
  BY Zenon DEF MatterInit, MatterFlags
<1>2. MatterInit => MatterStates
  BY <1>0 DEF MatterInit, MatterStates
<1>3. ASSUME CommandInv, MatterFlags, MatterStates PROVE MatterTypeOK
  <2>1. \A k \in 1..Len(queue) : queue[k].order \in Orders /\ queue[k].id \in 1..ordersGiven
    <3> SUFFICES ASSUME NEW k \in 1..Len(queue)
                 PROVE  queue[k].order \in Orders /\ queue[k].id \in 1..ordersGiven
      OBVIOUS
    <3>1. queue[k] \in Command /\ queue[k].id \in Nat
      BY <1>3, QueuedId
    <3>2. queue[k].id > lastPerformed /\ queue[k].id <= ordersGiven
          /\ lastPerformed \in 0 .. ordersGiven
      BY <1>3 DEF CommandInv
    <3> QED BY <1>3, <3>1, <3>2 DEF Command, MatterStates
  <2>2. awaited \in 0..ordersGiven /\ lastPerformed \in 0..ordersGiven
    BY <1>3 DEF CommandInv
  <2>3. {reachable, client, socket, matterRunning} \subseteq BOOLEAN
    BY <1>3 DEF MatterFlags
  <2>4. {plug, cached, lastEffect} \subseteq Powers \union {"unknown"}
    BY <1>3 DEF MatterStates
  <2> QED BY <1>3, <2>1, <2>2, <2>3, <2>4 DEF MatterStates, MatterTypeOK
<1> QED BY <1>1, <1>2, <1>3

-----------------------------------------------------------------------------
(* The server.                                                             *)

\* Every component begins at one of its initial states, in focus or not, ...
LEMMA ComponentsBegin ==
  ServerInit =>
    /\ AdapterRpcInit /\ HealthInit /\ ResilientInit /\ MediaInit /\ SignalBusInit
    /\ MatterInit /\ TriggerInit /\ OccupancyInit /\ BindingsInit /\ OrderInit
    /\ EntriesInit /\ AckWorkerInit /\ ZonesInit /\ UdpInit /\ RegistryInit
    /\ DevicesInit /\ KeepaliveInit /\ DiscoveryInit
<1> SUFFICES ASSUME ServerInit PROVE OrderInit
  BY DEF ServerInit
<1>1. CASE focus = "order"
  BY <1>1 DEF ServerInit
<1>2. CASE focus # "order"
  <2> DEFINE types == [s \in Slots |-> CHOOSE t \in Types : TRUE]
             deps == [s \in Slots |-> {}]
  <2>1. types \in [Slots -> Types] /\ deps \in [Slots -> SUBSET Types]
    BY OrderAssumption DEF OrderAssumption
  <2>2. StartSort(types, deps)
    BY <1>2 DEF ServerInit
  <2> QED BY <2>1, <2>2 DEF OrderInit
<1> QED BY <1>1, <1>2

\* ... and makes steps of its own.
LEMMA ComponentsStep ==
  [ServerNext]_everything =>
    /\ [AdapterRpcNext]_adapterRpcVars /\ [HealthNext]_healthVars
    /\ [ResilientNext]_resilientVars /\ [MediaNext]_mediaVars
    /\ [SignalBusNext]_signalBusVars /\ [MatterNext]_matterVars
    /\ [TriggerNext]_triggerVars /\ [OccupancyNext]_occupancyVars
    /\ [BindingsNext]_bindingVars /\ [OrderNext]_orderVars /\ [EntriesNext]_entriesVars
    /\ [AckWorkerNext]_ackWorkerVars /\ [ZonesNext]_zonesVars /\ [UdpNext]_udpVars
    /\ [RegistryNext]_registryVars /\ [DevicesNext]_devicesVars
    /\ [KeepaliveNext]_keepaliveVars /\ [DiscoveryNext]_discoveryVars
BY SMTT(60) DEF ServerNext, everything

\* What each component's steps keep, its types among it: an inductive invariant
\* of every component, side by side.
ServerInv ==
  /\ AdapterRpcTypeOK /\ InCall
  /\ HealthFlags /\ HealthStates
  /\ ResilientFlags /\ RecoveryInv
  /\ MediaInv /\ CountsTyped /\ MusicTyped
  /\ BusInv
  /\ CommandInv /\ MatterFlags /\ MatterStates
  /\ TriggerFlags /\ TriggerNumbers
  /\ OccupancyTypeOK
  /\ BindingsTypeOK /\ NoBindingCycle
  /\ OrderInv
  /\ EntriesTypeOK
  /\ AckFlags /\ AckInv
  /\ ZonesInv
  /\ UdpInv
  /\ RegistryInv
  /\ TaskInv
  /\ KeepaliveInv
  /\ DiscoveryInv

LEMMA ServerBegins == ServerInit => ServerInv
<1> SUFFICES ASSUME ServerInit PROVE ServerInv
  OBVIOUS
<1>1. AdapterRpcTypeOK /\ InCall /\ HealthFlags /\ HealthStates
  BY ComponentsBegin, InitType, HealthTypes, Zenon
<1>2. ResilientFlags /\ RecoveryInv /\ MediaInv /\ CountsTyped /\ MusicTyped
  BY ComponentsBegin, ResilientFlagsBegin, RecoveryBegin, MediaBegin, MediaTypes, Zenon
<1>3. BusInv /\ CommandInv /\ MatterFlags /\ MatterStates
  BY ComponentsBegin, BusBegin, MatterBegin, MatterTypes, Zenon
<1>4. TriggerFlags /\ TriggerNumbers /\ OccupancyTypeOK /\ BindingsTypeOK /\ NoBindingCycle
  BY ComponentsBegin, TriggerTypes, OccupancyTypes, BindingsBegin, Zenon
<1>5. OrderInv /\ EntriesTypeOK /\ AckFlags /\ AckInv
  BY ComponentsBegin, OrderBegin, EntriesTypes, AckTypes, Zenon
<1>6. ZonesInv /\ UdpInv /\ KeepaliveInv /\ DiscoveryInv
  BY ComponentsBegin, ZonesBegin, UdpBegin, KeepaliveBegin, DiscoveryBegin, Zenon
<1>7. RegistryInv /\ TaskInv
  BY ComponentsBegin, RegistryBegin, DevicesBegin, Zenon
<1> QED BY <1>1, <1>2, <1>3, <1>4, <1>5, <1>6, <1>7, Zenon DEF ServerInv

LEMMA ServerStep == ServerInv /\ [ServerNext]_everything => ServerInv'
<1> SUFFICES ASSUME ServerInv, [ServerNext]_everything PROVE ServerInv'
  OBVIOUS
<1> USE DEF ServerInv
<1>1. (AdapterRpcTypeOK /\ InCall /\ HealthFlags /\ HealthStates)'
  BY ComponentsStep, NextType, HealthTypes, Zenon
<1>2. (ResilientFlags /\ RecoveryInv /\ MediaInv /\ CountsTyped /\ MusicTyped)'
  BY ComponentsStep, ResilientFlagsStep, RecoveryStep, MediaStep, CountsStep, MusicStep, Zenon
<1>3. (BusInv /\ CommandInv /\ MatterFlags /\ MatterStates)'
  BY ComponentsStep, BusStep, CommandStep, MatterFlagsStep, MatterStatesStep, Zenon
<1>4. (TriggerFlags /\ TriggerNumbers /\ OccupancyTypeOK /\ BindingsTypeOK /\ NoBindingCycle)'
  BY ComponentsStep, TriggerTypes, OccupancyTypes, BindingsStep, Zenon
<1>5. (OrderInv /\ EntriesTypeOK /\ AckFlags /\ AckInv)'
  BY ComponentsStep, OrderStep, EntriesTypes, AckFlagsStep, AckStep, Zenon
<1>6. (ZonesInv /\ UdpInv /\ KeepaliveInv /\ DiscoveryInv)'
  BY ComponentsStep, ZonesStep, UdpStep, KeepaliveStep, DiscoveryStep, Zenon
<1>7. (RegistryInv /\ TaskInv)'
  BY ComponentsStep, RegistryStep, TaskStep, Zenon
<1> QED BY <1>1, <1>2, <1>3, <1>4, <1>5, <1>6, <1>7, Zenon

LEMMA ServerTypes == ServerInv => ServerTypeOK
<1> SUFFICES ASSUME ServerInv PROVE ServerTypeOK
  OBVIOUS
<1>1. AdapterRpcTypeOK /\ HealthTypeOK /\ ResilientTypeOK /\ MediaTypeOK
  BY HealthTypes, ResilientTypes, MediaTypes, Zenon DEF ServerInv
<1>2. SignalBusTypeOK /\ MatterTypeOK /\ TriggerTypeOK /\ OccupancyTypeOK
  BY BusTypes, MatterTypes, TriggerTypes, Zenon DEF ServerInv
<1>3. BindingsTypeOK /\ OrderTypeOK /\ EntriesTypeOK /\ AckWorkerTypeOK
  BY AckTypes, Zenon DEF ServerInv, OrderInv
<1>4. ZonesTypeOK /\ UdpTypeOK /\ RegistryTypeOK
  BY ZonesTypes, Zenon DEF ServerInv, UdpInv, NumbersInv, RegistryInv
<1>5. DevicesTypeOK /\ KeepaliveTypeOK /\ DiscoveryTypeOK
  BY KeepaliveTypes, DiscoveryTypes, Zenon DEF ServerInv, TaskInv
<1> QED BY <1>1, <1>2, <1>3, <1>4, <1>5, Zenon DEF ServerTypeOK

\* In whatever order the server's threads, its requests, the network and the
\* devices act, all its components' variables keep their types: no counter goes
\* past its bound, no queue holds what its reader cannot handle, no thread is at
\* a place its code does not have, and no table refers to what is not there.
THEOREM ServerTypeCorrect == ServerSpec => []ServerTypeOK
BY ServerBegins, ServerStep, ServerTypes, PTL DEF ServerSpec
=============================================================================
