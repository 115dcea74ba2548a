------------------------------- MODULE Media -------------------------------
(***************************************************************************)
(* Media sources: MediaManager's registry (media/__init__.py), a source's   *)
(* reader thread and its ffmpeg process (media/source.py), and the music    *)
(* source a play request creates (handlers/device.py).                      *)
(*                                                                         *)
(* One source name; a source object is named by its order of creation.      *)
(* Calls on the source are made one at a time: two at once are outside      *)
(* this model (start() and stop() do not exclude each other).  stop()'s     *)
(* join is taken to see the reader end: it sleeps in half seconds.          *)
(***************************************************************************)
EXTENDS Naturals

CONSTANTS MaxSources,     \* bound: source objects created
          MaxMediaFaults, \* bound: ffmpeg processes that die or fail to start
          MaxOps          \* bound: API calls

ASSUME MediaAssumption == {MaxSources, MaxMediaFaults, MaxOps} \subseteq Nat

Source == 1..MaxSources

VARIABLES
  made,          \* source objects created
  registered,    \* _sources[name], or 0
  refs,          \* _ref_counts[name]
  sourceRunning, \* _running of each object
  reader,        \* _thread of each object: where _reader_loop() is
  process,       \* _process is set
  ffmpeg,        \* the ffmpeg process last spawned lives
  op, target, step, \* the API call in progress, the object it stops, and how far
  music,         \* DeviceManager._music_sources holds the name
  mediaFaults, ops

sourceVars == <<sourceRunning, reader, process, ffmpeg>>
managerVars == <<made, registered, refs, op, target, step, music, ops>>
mediaVars == <<sourceVars, managerVars, mediaFaults>>

MediaTypeOK ==
  /\ made \in 0..MaxSources /\ registered \in 0..made /\ refs \in 0..MaxOps
  /\ sourceRunning \in [Source -> BOOLEAN]
  /\ reader \in [Source -> {"none", "top", "spawn", "read", "clean up", "wait"}]
  /\ process \in [Source -> BOOLEAN] /\ ffmpeg \in [Source -> BOOLEAN]
  /\ op \in {"none", "add", "remove", "stop", "shutdown", "down"} /\ target \in 0..made
  /\ step \in {"done", "flag", "kill", "join", "finish"}
  /\ music \in BOOLEAN
  /\ mediaFaults \in 0..MaxMediaFaults /\ ops \in 0..MaxOps

MediaInit ==
  /\ made = 0 /\ registered = 0 /\ refs = 0
  /\ sourceRunning = [i \in Source |-> FALSE] /\ reader = [i \in Source |-> "none"]
  /\ process = [i \in Source |-> FALSE] /\ ffmpeg = [i \in Source |-> FALSE]
  /\ op = "none" /\ target = 0 /\ step = "done" /\ music = FALSE
  /\ mediaFaults = 0 /\ ops = 0

MediaFault == mediaFaults < MaxMediaFaults /\ mediaFaults' = mediaFaults + 1

----------------------------------------------------------------------------
(* MediaSource                                                             *)

IsAlive(i) == i # 0 /\ sourceRunning[i] /\ reader[i] # "none"

\* start(): nothing if it is running already.
StartSource(i) ==
  /\ sourceRunning' = [sourceRunning EXCEPT ![i] = TRUE]
  /\ reader' = IF sourceRunning[i] THEN reader ELSE [reader EXCEPT ![i] = "top"]
  /\ UNCHANGED <<process, ffmpeg>>

Kill(i) ==
  /\ process' = [process EXCEPT ![i] = FALSE]
  /\ ffmpeg' = IF process[i] THEN [ffmpeg EXCEPT ![i] = FALSE] ELSE ffmpeg

\* _reader_loop(), from one look at _running to the next.
Top(i) ==
  /\ reader[i] = "top"
  /\ reader' = [reader EXCEPT ![i] = IF sourceRunning[i] THEN "spawn" ELSE "none"]
  /\ UNCHANGED <<sourceRunning, process, ffmpeg, managerVars, mediaFaults>>

Spawn(i) ==
  /\ reader[i] = "spawn"
  /\ \/ /\ process' = [process EXCEPT ![i] = TRUE]
        /\ ffmpeg' = [ffmpeg EXCEPT ![i] = TRUE]
        /\ reader' = [reader EXCEPT ![i] = "read"]
        /\ UNCHANGED <<sourceRunning, mediaFaults>>
     \/ /\ MediaFault
        /\ sourceRunning' = [sourceRunning EXCEPT ![i] = FALSE]
        /\ reader' = [reader EXCEPT ![i] = "none"]
        /\ UNCHANGED <<process, ffmpeg>>
  /\ UNCHANGED managerVars

\* The inner loop ends: end of file, or stop().
EndRead(i) ==
  /\ reader[i] = "read"
  /\ ~sourceRunning[i] \/ ~process[i] \/ ~ffmpeg[i]
  /\ reader' = [reader EXCEPT ![i] = "clean up"]
  /\ UNCHANGED <<sourceRunning, process, ffmpeg, managerVars, mediaFaults>>

\* Mutant of CleanUp: the process is left to stop().
CleanUpNothing(i) ==
  /\ reader[i] = "clean up"
  /\ reader' = [reader EXCEPT ![i] = IF sourceRunning[i] THEN "wait" ELSE "top"]
  /\ UNCHANGED <<process, ffmpeg, sourceRunning, managerVars, mediaFaults>>

\* Mutant of CleanUp: the stream is over at end of file.
CleanUpAndEnd(i) ==
  /\ reader[i] = "clean up"
  /\ Kill(i)
  /\ reader' = [reader EXCEPT ![i] = "none"]
  /\ UNCHANGED <<sourceRunning, managerVars, mediaFaults>>

CleanUp(i) ==
  /\ reader[i] = "clean up"
  /\ Kill(i)
  /\ reader' = [reader EXCEPT ![i] = IF sourceRunning[i] THEN "wait" ELSE "top"]
  /\ UNCHANGED <<sourceRunning, managerVars, mediaFaults>>

\* The backoff is over, or _running was cleared meanwhile.
Waited(i) ==
  /\ reader[i] = "wait"
  /\ reader' = [reader EXCEPT ![i] = "top"]
  /\ UNCHANGED <<sourceRunning, process, ffmpeg, managerVars, mediaFaults>>

FfmpegDies(i) ==
  /\ MediaFault /\ ffmpeg[i]
  /\ ffmpeg' = [ffmpeg EXCEPT ![i] = FALSE]
  /\ UNCHANGED <<sourceRunning, reader, process, managerVars>>

----------------------------------------------------------------------------
(* API calls                                                               *)

\* A call that stops an object goes through stop() if it is alive.
Begin(name, i) ==
  /\ op = "none" /\ ops < MaxOps
  /\ op' = name /\ target' = i /\ ops' = ops + 1
  /\ step' = IF IsAlive(i) THEN "flag" ELSE "finish"
  /\ UNCHANGED <<made, sourceVars, mediaFaults>>

\* acquire()
Acquire(i) ==
  /\ refs' = refs + 1
  /\ IF IsAlive(i) THEN UNCHANGED sourceVars ELSE StartSource(i)

\* A play request with music: add_source() replaces what the name stood for.
PlayMusic ==
  /\ made < MaxSources
  /\ Begin("add", registered) /\ UNCHANGED <<registered, refs, music>>

\* A play request without music forgets the source; it does not stop it.
PlayWithoutMusic ==
  /\ op = "none" /\ ops < MaxOps /\ music
  /\ music' = FALSE /\ ops' = ops + 1
  /\ UNCHANGED <<sourceVars, made, registered, refs, op, target, step, mediaFaults>>

\* Stopping the device: remove_source().
StopDevice ==
  /\ music
  /\ Begin("remove", registered)
  /\ registered' = 0 /\ refs' = 0 /\ music' = FALSE

StartRequest ==
  /\ op = "none" /\ ops < MaxOps /\ registered # 0
  /\ Acquire(registered)
  /\ ops' = ops + 1
  /\ UNCHANGED <<made, registered, op, target, step, music, mediaFaults>>

StopRequested ==
  /\ registered # 0
  /\ Begin("stop", registered)
  /\ refs' = 0 /\ UNCHANGED <<registered, music>>

Shutdown ==
  Begin("shutdown", registered) /\ UNCHANGED <<registered, refs, music>>

\* MediaSource.stop()
ClearRunning ==
  /\ step = "flag"
  /\ sourceRunning' = [sourceRunning EXCEPT ![target] = FALSE]
  /\ step' = "kill"
  /\ UNCHANGED <<reader, process, ffmpeg, made, registered, refs, op, target, music,
                 mediaFaults, ops>>

KillProcess ==
  /\ step = "kill" /\ Kill(target)
  /\ step' = "join"
  /\ UNCHANGED <<sourceRunning, reader, made, registered, refs, op, target, music,
                 mediaFaults, ops>>

Joined ==
  /\ step = "join" /\ reader[target] = "none"
  /\ step' = "finish"
  /\ UNCHANGED <<sourceVars, made, registered, refs, op, target, music, mediaFaults, ops>>

Ended == IF op = "shutdown" THEN "down" ELSE "none"

\* After the stop: add_source() registers the new object and acquires it; if
\* the device's play() then fails, remove_source() follows.
Finish ==
  /\ step = "finish"
  /\ \/ /\ op = "add"
        /\ made' = made + 1
        /\ StartSource(made + 1)
        /\ \/ /\ registered' = made + 1 /\ refs' = 1 /\ music' = TRUE
              /\ op' = "none" /\ step' = "done" /\ target' = 0
           \/ /\ registered' = 0 /\ refs' = 0 /\ music' = music
              /\ op' = "remove" /\ step' = "flag" /\ target' = made + 1
     \/ /\ op # "add"
        /\ op' = Ended /\ step' = "done" /\ target' = 0
        /\ UNCHANGED <<sourceVars, made, registered, refs, music>>
  /\ UNCHANGED <<mediaFaults, ops>>

----------------------------------------------------------------------------
Reader(i) == Top(i) \/ Spawn(i) \/ EndRead(i) \/ CleanUp(i) \/ Waited(i)
Stop == ClearRunning \/ KillProcess \/ Joined \/ Finish

MediaNext ==
  \/ \E i \in Source : Reader(i) \/ FfmpegDies(i)
  \/ PlayMusic \/ PlayWithoutMusic \/ StopDevice
  \/ StartRequest \/ StopRequested \/ Shutdown
  \/ Stop

\* Threads run; a read returns at end of file.
MediaFairness ==
  WF_mediaVars(Stop) /\ \A i \in Source : WF_mediaVars(Reader(i))

MediaSpec == MediaInit /\ [][MediaNext]_mediaVars /\ MediaFairness

----------------------------------------------------------------------------
(* Properties                                                              *)

\* Between calls, an ffmpeg process belongs to the registered source and that
\* source is running: none survives a stop, a replacement or a removal, even
\* one the reader spawned while stop() was already at work.
NoOrphanFfmpeg ==
  op \in {"none", "down"} =>
    \A i \in Source : ffmpeg[i] => i = registered /\ sourceRunning[i]

\* A running source whose ffmpeg died gets another one, unless it is stopped.
StreamRestored == []<>(\A i \in Source : sourceRunning[i] => ffmpeg[i])
=============================================================================
