----------------------------- MODULE NvrManager -----------------------------
(***************************************************************************)
(* The local network video recorder, adapters/nvr_manager.py.              *)
(*                                                                         *)
(* NVRManager keeps one _CameraRecorder per camera name.  A recorder owns  *)
(* a watcher thread (_run) that resolves a stream URL, spawns ffmpeg,      *)
(* waits for it to exit and restarts it after a backoff.  The manager is   *)
(* called from worker threads (asyncio.to_thread) and, at shutdown, from   *)
(* the SIGTERM handler and the atexit hook.                                *)
(*                                                                         *)
(* One step is one region executed under _lock, or one blocking call.      *)
(* Recorders, threads and processes are objects: an identity is taken      *)
(* again once nothing refers to it, so pools of a few identities stand for *)
(* the unbounded supply of the program.                                    *)
(***************************************************************************)
EXTENDS Naturals, FiniteSets

CONSTANTS
  Names,          \* the camera names
  Recs,           \* the identities of _CameraRecorder objects
  Watchers,       \* the identities of watcher threads
  Procs,          \* the identities of ffmpeg processes
  Callers,        \* the threads that call the manager
  FloatExpLimit,  \* least n for which 5.0 * 2**n raises OverflowError: 1024
  SlowResolver,   \* whether a watcher may need more than 10 seconds to stop
  NoRec, NoWatcher, NoProc

ASSUME NullAssumption ==
  /\ NoRec \notin Recs
  /\ NoWatcher \notin Watchers
  /\ NoProc \notin Procs

ASSUME LimitAssumption == FloatExpLimit \in Nat \ {0}

ASSUME SlowAssumption == SlowResolver \in BOOLEAN

VARIABLES
  recorders,  \* NVRManager._recorders: the recorder of a name, or NoRec
  stopEvent,  \* _CameraRecorder._stop_event
  thread,     \* _CameraRecorder._thread
  proc,       \* _CameraRecorder._proc
  wpc,        \* where a watcher thread is in _run
  wrec,       \* the recorder a watcher belongs to
  wproc,      \* the local variable proc of _run
  fast,       \* the local variable consecutive_fast_exits of _run
  cpc,        \* where a caller is in start() or stop()
  target,     \* the recorder a caller has in its hands
  todo,       \* the recorders stop_all has still to stop
  cproc,      \* the local variable proc of stop()
  joinee,     \* the local variable thread of stop()
  ff,         \* the state of an ffmpeg process
  phase       \* whether the Python process is up, in atexit, or gone

recVars     == <<stopEvent, thread, proc>>
watcherVars == <<wpc, wrec, wproc, fast>>
callerVars  == <<cpc, target, todo, cproc, joinee>>
vars == <<recorders, recVars, watcherVars, callerVars, ff, phase>>

WatcherPC == {"done", "check", "spawn", "retry", "handoff", "selfterm",
              "selfwait", "wait", "exited", "backoff", "woken"}
CallerPC  == {"idle", "start", "signal", "terminate", "wait", "join", "clear"}
ProcState == {"dead", "alive", "sigterm", "killed"}

TypeOK ==
  /\ recorders \in [Names -> Recs \cup {NoRec}]
  /\ stopEvent \in [Recs -> BOOLEAN]
  /\ thread    \in [Recs -> Watchers \cup {NoWatcher}]
  /\ proc      \in [Recs -> Procs \cup {NoProc}]
  /\ wpc       \in [Watchers -> WatcherPC]
  /\ wrec      \in [Watchers -> Recs \cup {NoRec}]
  /\ wproc     \in [Watchers -> Procs \cup {NoProc}]
  /\ fast      \in [Watchers -> 0 .. FloatExpLimit - 1]
  /\ cpc       \in [Callers -> CallerPC]
  /\ target    \in [Callers -> Recs \cup {NoRec}]
  /\ todo      \in [Callers -> SUBSET Recs]
  /\ cproc     \in [Callers -> Procs \cup {NoProc}]
  /\ joinee    \in [Callers -> Watchers \cup {NoWatcher}]
  /\ ff        \in [Procs -> ProcState]
  /\ phase     \in {"up", "atexit", "gone"}

Init ==
  /\ recorders = [n \in Names |-> NoRec]
  /\ stopEvent = [r \in Recs |-> FALSE]
  /\ thread    = [r \in Recs |-> NoWatcher]
  /\ proc      = [r \in Recs |-> NoProc]
  /\ wpc       = [w \in Watchers |-> "done"]
  /\ wrec      = [w \in Watchers |-> NoRec]
  /\ wproc     = [w \in Watchers |-> NoProc]
  /\ fast      = [w \in Watchers |-> 0]
  /\ cpc       = [c \in Callers |-> "idle"]
  /\ target    = [c \in Callers |-> NoRec]
  /\ todo      = [c \in Callers |-> {}]
  /\ cproc     = [c \in Callers |-> NoProc]
  /\ joinee    = [c \in Callers |-> NoWatcher]
  /\ ff        = [p \in Procs |-> "dead"]
  /\ phase     = "up"

-----------------------------------------------------------------------------
(* State formulae.                                                         *)

\* Thread.is_alive().
Alive(w) == wpc[w] # "done"

\* The recorder is the value of some name in _recorders.
Tracked(r) == \E n \in Names : recorders[n] = r

\* Slip: a recorder between two ffmpeg processes counts as not running.
RunningByProc(r) == proc[r] # NoProc

\* _CameraRecorder.running.
Running(r) == thread[r] # NoWatcher /\ Alive(thread[r])

\* The process is executing and nobody has signalled it.
Recording(p) == ff[p] = "alive"

\* Nothing refers to the object any more: its identity can be taken again.
FreeRec(r) ==
  /\ ~Tracked(r)
  /\ \A c \in Callers : target[c] # r /\ r \notin todo[c]
  /\ \A w \in Watchers : wrec[w] # r

\* The watcher can be the next one of recorder r, whose _thread is replaced.
FreeWatcher(w, r) ==
  /\ ~Alive(w)
  /\ \A s \in Recs \ {r} : thread[s] # w
  /\ \A c \in Callers : joinee[c] # w

FreeProc(p) ==
  /\ ff[p] = "dead"
  /\ \A r \in Recs : proc[r] # p
  /\ \A w \in Watchers : wproc[w] # p
  /\ \A c \in Callers : cproc[c] # p

Idle(c) == cpc[c] = "idle"

\* A caller goes from one place of its code to the next.
Goto(c, from, to) ==
  /\ phase # "gone"
  /\ cpc[c] = from
  /\ cpc' = [cpc EXCEPT ![c] = to]

\* A watcher goes from one place of _run to the next.
Step(w, from, to) ==
  /\ phase # "gone"
  /\ wpc[w] = from
  /\ wpc' = [wpc EXCEPT ![w] = to]

\* _run returns or raises: the frame and its locals are gone.
Return(w, from) ==
  /\ Step(w, from, "done")
  /\ wrec'  = [wrec EXCEPT ![w] = NoRec]
  /\ wproc' = [wproc EXCEPT ![w] = NoProc]
  /\ fast'  = [fast EXCEPT ![w] = 0]

\* Popen.terminate() and Popen.kill() on a process that may have exited.
Sigterm(p) == ff' = [ff EXCEPT ![p] = IF @ = "alive" THEN "sigterm" ELSE @]
Sigkill(p) == ff' = [ff EXCEPT ![p] = IF @ = "dead" THEN "dead" ELSE "killed"]

-----------------------------------------------------------------------------
(* start_recording: the look-up under the manager's lock, then rec.start() *)
(* outside it.                                                             *)

\* The name has a recorder: the old one is taken as it is.
LookUp(c, n) ==
  /\ phase = "up"
  /\ recorders[n] # NoRec
  /\ Goto(c, "idle", "start")
  /\ target' = [target EXCEPT ![c] = recorders[n]]
  /\ UNCHANGED <<recorders, recVars, watcherVars, todo, cproc, joinee, ff, phase>>

\* The name has none: a _CameraRecorder is constructed and stored.
Create(c, n) ==
  /\ phase = "up"
  /\ recorders[n] = NoRec
  /\ Goto(c, "idle", "start")
  /\ \E r \in Recs :
       /\ FreeRec(r)
       /\ recorders' = [recorders EXCEPT ![n] = r]
       /\ target'    = [target EXCEPT ![c] = r]
       /\ stopEvent' = [stopEvent EXCEPT ![r] = FALSE]
       /\ thread'    = [thread EXCEPT ![r] = NoWatcher]
       /\ proc'      = [proc EXCEPT ![r] = NoProc]
  /\ UNCHANGED <<watcherVars, todo, cproc, joinee, ff, phase>>

\* _CameraRecorder.start() of a running recorder: returns True, does nothing.
StartRunning(c) ==
  /\ Goto(c, "start", "idle")
  /\ Running(target[c])
  /\ target' = [target EXCEPT ![c] = NoRec]
  /\ UNCHANGED <<recorders, recVars, watcherVars, todo, cproc, joinee, ff, phase>>

\* _CameraRecorder.start() otherwise: clears the event, starts a new thread.
StartThread(c) ==
  /\ Goto(c, "start", "idle")
  /\ ~Running(target[c])
  /\ target'    = [target EXCEPT ![c] = NoRec]
  /\ stopEvent' = [stopEvent EXCEPT ![target[c]] = FALSE]
  /\ \E w \in Watchers :
       /\ FreeWatcher(w, target[c])
       /\ thread' = [thread EXCEPT ![target[c]] = w]
       /\ wpc'    = [wpc EXCEPT ![w] = "check"]
       /\ wrec'   = [wrec EXCEPT ![w] = target[c]]
  /\ UNCHANGED <<recorders, proc, wproc, fast, todo, cproc, joinee, ff, phase>>

-----------------------------------------------------------------------------
(* stop_recording and stop_all: recorders are removed under the manager's  *)
(* lock and stopped one by one outside it.                                 *)

\* Slip: the recorder is looked up and not removed.
StopRecordingKeeps(c, n) ==
  /\ phase = "up"
  /\ recorders[n] # NoRec
  /\ Goto(c, "idle", "signal")
  /\ target' = [target EXCEPT ![c] = recorders[n]]
  /\ UNCHANGED <<recorders, recVars, watcherVars, todo, cproc, joinee, ff, phase>>

\* Slip: the recorder is removed and not stopped.
StopRecordingDrops(c, n) ==
  /\ phase = "up"
  /\ recorders[n] # NoRec
  /\ Idle(c)
  /\ recorders' = [recorders EXCEPT ![n] = NoRec]
  /\ UNCHANGED <<recVars, watcherVars, callerVars, ff, phase>>

\* stop_recording.
StopRecording(c, n) ==
  /\ phase = "up"
  /\ recorders[n] # NoRec
  /\ Goto(c, "idle", "signal")
  /\ target'    = [target EXCEPT ![c] = recorders[n]]
  /\ recorders' = [recorders EXCEPT ![n] = NoRec]
  /\ UNCHANGED <<recVars, watcherVars, todo, cproc, joinee, ff, phase>>

\* The first recorder of the list is in the caller's hands, the rest in todo.
TakeAll(c) ==
  /\ \E r \in Recs :
       /\ Tracked(r)
       /\ Goto(c, "idle", "signal")
       /\ target' = [target EXCEPT ![c] = r]
       /\ todo'   = [todo EXCEPT ![c] = {s \in Recs : Tracked(s)} \ {r}]
  /\ recorders' = [n \in Names |-> NoRec]
  /\ UNCHANGED <<recVars, watcherVars, cproc, joinee, ff>>

\* The SIGTERM handler.
StopAll(c) ==
  /\ phase = "up"
  /\ TakeAll(c)
  /\ UNCHANGED phase

\* stop(), first region: set the event, read _proc.  Event.set() wakes a
\* watcher of the recorder that waits on it.
Signal(c) ==
  /\ Goto(c, "signal", IF proc[target[c]] = NoProc THEN "wait" ELSE "terminate")
  /\ stopEvent' = [stopEvent EXCEPT ![target[c]] = TRUE]
  /\ cproc'     = [cproc EXCEPT ![c] = proc[target[c]]]
  /\ wpc'       = [w \in Watchers |->
                     IF wrec[w] = target[c] /\ wpc[w] \in {"retry", "backoff"}
                     THEN "woken" ELSE wpc[w]]
  /\ UNCHANGED <<recorders, thread, proc, wrec, wproc, fast, target, todo,
                 joinee, ff, phase>>

\* _terminate: SIGTERM, then a wait of 5 seconds.
Terminate(c) ==
  /\ Goto(c, "terminate", "wait")
  /\ Sigterm(cproc[c])
  /\ UNCHANGED <<recorders, recVars, watcherVars, target, todo, cproc, joinee, phase>>

\* The wait ended, or there was nothing to wait for; _thread is read.
Terminated(c) ==
  /\ Goto(c, "wait", "join")
  /\ cproc[c] # NoProc => ff[cproc[c]] = "dead"
  /\ cproc'  = [cproc EXCEPT ![c] = NoProc]
  /\ joinee' = [joinee EXCEPT ![c] = thread[target[c]]]
  /\ UNCHANGED <<recorders, recVars, watcherVars, target, todo, ff, phase>>

\* Slip: the wait has no timeout.
KillNever(c) == FALSE

\* The wait timed out: the process is killed and not waited for.
Kill(c) ==
  /\ Goto(c, "wait", "join")
  /\ cproc[c] # NoProc /\ ff[cproc[c]] # "dead"
  /\ Sigkill(cproc[c])
  /\ cproc'  = [cproc EXCEPT ![c] = NoProc]
  /\ joinee' = [joinee EXCEPT ![c] = thread[target[c]]]
  /\ UNCHANGED <<recorders, recVars, watcherVars, target, todo, phase>>

\* thread.join(timeout=10) returns when the thread has ended or, because of
\* the timeout, while it still runs; without a thread there is no join.
Joined(c) ==
  /\ Goto(c, "join", "clear")
  /\ joinee[c] # NoWatcher => ~Alive(joinee[c])
  /\ joinee' = [joinee EXCEPT ![c] = NoWatcher]
  /\ UNCHANGED <<recorders, recVars, watcherVars, target, todo, cproc, ff, phase>>

JoinTimeout(c) ==
  /\ SlowResolver
  /\ Goto(c, "join", "clear")
  /\ joinee[c] # NoWatcher /\ Alive(joinee[c])
  /\ joinee' = [joinee EXCEPT ![c] = NoWatcher]
  /\ UNCHANGED <<recorders, recVars, watcherVars, target, todo, cproc, ff, phase>>

\* stop(), last region; stop_all goes on with its next recorder.
Clear(c) ==
  /\ \/ /\ todo[c] = {}
        /\ Goto(c, "clear", "idle")
        /\ target' = [target EXCEPT ![c] = NoRec]
        /\ UNCHANGED todo
     \/ \E r \in todo[c] :
          /\ Goto(c, "clear", "signal")
          /\ target' = [target EXCEPT ![c] = r]
          /\ todo'   = [todo EXCEPT ![c] = @ \ {r}]
  /\ proc'   = [proc EXCEPT ![target[c]] = NoProc]
  /\ thread' = [thread EXCEPT ![target[c]] = NoWatcher]
  /\ UNCHANGED <<recorders, stopEvent, watcherVars, cproc, joinee, ff, phase>>

-----------------------------------------------------------------------------
(* The watcher thread, _run.                                               *)

\* The test of the while loop.
CheckLoop(w) ==
  /\ \/ /\ Return(w, "check")
        /\ stopEvent[wrec[w]]
     \/ /\ Step(w, "check", "spawn")
        /\ ~stopEvent[wrec[w]]
        /\ UNCHANGED <<wrec, wproc, fast>>
  /\ UNCHANGED <<recorders, recVars, callerVars, ff, phase>>

\* _spawn_once: the resolver, makedirs and Popen.  Any of them may fail.
SpawnFails(w) ==
  /\ Step(w, "spawn", "retry")
  /\ UNCHANGED <<recorders, recVars, wrec, wproc, fast, callerVars, ff, phase>>

Spawn(w) ==
  /\ Step(w, "spawn", "handoff")
  /\ \E p \in Procs :
       /\ FreeProc(p)
       /\ wproc' = [wproc EXCEPT ![w] = p]
       /\ ff'    = [ff EXCEPT ![p] = "alive"]
  /\ UNCHANGED <<recorders, recVars, wrec, fast, callerVars, phase>>

\* Slip: the process is handed over without a look at the event.
HandOffBlind(w) ==
  /\ Step(w, "handoff", "wait")
  /\ proc' = [proc EXCEPT ![wrec[w]] = wproc[w]]
  /\ UNCHANGED <<recorders, stopEvent, thread, wrec, wproc, fast, callerVars, ff, phase>>

\* already_stopped is read and _proc is set in one region under _lock.
HandOff(w) ==
  /\ \/ /\ Step(w, "handoff", "selfterm")
        /\ stopEvent[wrec[w]]
        /\ UNCHANGED proc
     \/ /\ Step(w, "handoff", "wait")
        /\ ~stopEvent[wrec[w]]
        /\ proc' = [proc EXCEPT ![wrec[w]] = wproc[w]]
  /\ UNCHANGED <<recorders, stopEvent, thread, wrec, wproc, fast, callerVars, ff, phase>>

\* The watcher terminates the process it did not hand over, and returns.
SelfTerminate(w) ==
  /\ Step(w, "selfterm", "selfwait")
  /\ Sigterm(wproc[w])
  /\ UNCHANGED <<recorders, recVars, wrec, wproc, fast, callerVars, phase>>

SelfWait(w) ==
  /\ Return(w, "selfwait")
  /\ Sigkill(wproc[w])   \* no change when the process has exited in time
  /\ UNCHANGED <<recorders, recVars, callerVars, phase>>

\* proc.wait() returns; _proc is cleared under _lock.
Reap(w) ==
  /\ Step(w, "wait", "exited")
  /\ ff[wproc[w]] = "dead"
  /\ wproc' = [wproc EXCEPT ![w] = NoProc]
  /\ proc'  = [proc EXCEPT ![wrec[w]] = NoProc]
  /\ UNCHANGED <<recorders, stopEvent, thread, wrec, fast, callerVars, ff, phase>>

\* The event is set: the watcher returns instead of restarting ffmpeg.
ExitStopped(w) ==
  /\ Return(w, "exited")
  /\ stopEvent[wrec[w]]
  /\ UNCHANGED <<recorders, recVars, callerVars, ff, phase>>

\* ffmpeg ran for 30 seconds or longer.
ExitClean(w) ==
  /\ Step(w, "exited", "backoff")
  /\ ~stopEvent[wrec[w]]
  /\ fast' = [fast EXCEPT ![w] = 0]
  /\ UNCHANGED <<recorders, recVars, wrec, wproc, callerVars, ff, phase>>

\* ffmpeg exited sooner.  2**consecutive_fast_exits has no cap of its own:
\* min() caps the product, and the product raises first.
ExitFast(w) ==
  /\ Step(w, "exited", "backoff")
  /\ ~stopEvent[wrec[w]]
  /\ fast[w] + 1 < FloatExpLimit
  /\ fast' = [fast EXCEPT ![w] = @ + 1]
  /\ UNCHANGED <<recorders, recVars, wrec, wproc, callerVars, ff, phase>>

ExitOverflow(w) ==
  /\ Return(w, "exited")
  /\ ~stopEvent[wrec[w]]
  /\ fast[w] + 1 >= FloatExpLimit
  /\ UNCHANGED <<recorders, recVars, callerVars, ff, phase>>

\* _stop_event.wait(timeout): True when the event is set on entry or while
\* waiting, False after the timeout.
WaitOver(w, from) ==
  /\ \/ /\ Return(w, from)
        /\ stopEvent[wrec[w]]
     \/ /\ Step(w, from, "check")
        /\ ~stopEvent[wrec[w]]
        /\ UNCHANGED <<wrec, wproc, fast>>
  /\ UNCHANGED <<recorders, recVars, callerVars, ff, phase>>

\* Slip: _run returns after a failed spawn instead of trying again.
RetryReturns(w) ==
  /\ Return(w, "retry")
  /\ UNCHANGED <<recorders, recVars, callerVars, ff, phase>>

Retry(w)   == WaitOver(w, "retry")
Backoff(w) == WaitOver(w, "backoff")

Woken(w) ==
  /\ Return(w, "woken")
  /\ UNCHANGED <<recorders, recVars, callerVars, ff, phase>>

-----------------------------------------------------------------------------
(* ffmpeg and the end of the Python process.                               *)

\* ffmpeg exits by itself, after a signal, or because it was killed.
FfmpegExits(p) ==
  /\ ff[p] # "dead"
  /\ ff' = [ff EXCEPT ![p] = "dead"]
  /\ UNCHANGED <<recorders, recVars, watcherVars, callerVars, phase>>

\* Slip: no atexit hook is registered.
AtExitUnregistered(c) ==
  /\ phase = "up"
  /\ \A d \in Callers : Idle(d)
  /\ phase' = "atexit"
  /\ UNCHANGED <<recorders, recVars, watcherVars, callerVars, ff>>

\* The interpreter joins the worker threads and then runs the atexit hook.
AtExit(c) ==
  /\ phase = "up"
  /\ \A d \in Callers : Idle(d)
  /\ phase' = "atexit"
  /\ \/ TakeAll(c)
     \/ /\ \A n \in Names : recorders[n] = NoRec
        /\ UNCHANGED <<recorders, recVars, watcherVars, callerVars, ff>>

\* The process ends and its daemon threads with it; its children do not.
Exit ==
  /\ phase = "atexit"
  /\ \A d \in Callers : Idle(d)
  /\ phase' = "gone"
  /\ UNCHANGED <<recorders, recVars, watcherVars, callerVars, ff>>

Gone == phase = "gone" /\ UNCHANGED vars

-----------------------------------------------------------------------------
StopStep(c) ==
  \/ Signal(c) \/ Terminate(c) \/ Terminated(c) \/ Kill(c)
  \/ Joined(c) \/ JoinTimeout(c) \/ Clear(c)

CallerStep(c) == StartRunning(c) \/ StartThread(c) \/ StopStep(c)

WatcherStep(w) ==
  \/ CheckLoop(w) \/ SpawnFails(w) \/ Spawn(w) \/ HandOff(w)
  \/ SelfTerminate(w) \/ SelfWait(w) \/ Reap(w)
  \/ ExitStopped(w) \/ ExitClean(w) \/ ExitFast(w) \/ ExitOverflow(w)
  \/ Retry(w) \/ Backoff(w) \/ Woken(w)

Call(c) ==
  \/ \E n \in Names : LookUp(c, n) \/ Create(c, n) \/ StopRecording(c, n)
  \/ StopAll(c)
  \/ AtExit(c)

Next ==
  \/ \E c \in Callers : Call(c) \/ CallerStep(c)
  \/ \E w \in Watchers : WatcherStep(w)
  \/ \E p \in Procs : FfmpegExits(p)
  \/ Exit
  \/ Gone

Spec == Init /\ [][Next]_vars

\* Threads are scheduled and every wait but proc.wait() has a timeout.  The
\* resolver returns: its requests have timeouts.  A killed process dies; one
\* that only got SIGTERM, or none, need not.  Users need not call anything.
Fairness ==
  /\ \A c \in Callers : WF_vars(CallerStep(c))
  /\ \A w \in Watchers : WF_vars(WatcherStep(w))
  /\ \A p \in Procs : WF_vars(ff[p] = "killed" /\ FfmpegExits(p))

FairSpec == Spec /\ Fairness
-----------------------------------------------------------------------------
(* Safety.                                                                 *)

\* The claim of the comment in _run on a stop() that overtakes a spawn: an
\* ffmpeg that nobody has signalled is in the hands of a watcher, and if the
\* watcher's recorder is stopped, the watcher itself is about to terminate it
\* or a stop() is about to terminate exactly this process.
NoLeakedFfmpeg ==
  \A p \in Procs : Recording(p) =>
    \E w \in Watchers :
      /\ Alive(w) /\ wproc[w] = p
      /\ stopEvent[wrec[w]] =>
           \/ wpc[w] \in {"handoff", "selfterm"}
           \/ \E c \in Callers : cpc[c] = "terminate" /\ cproc[c] = p

\* A recorder the manager knows has one watcher at most, so that one ffmpeg at
\* most writes its segments, however many calls of start_recording overlap.
OneWatcherPerTracked ==
  \A v, w \in Watchers :
    Alive(v) /\ Alive(w) /\ wrec[v] = wrec[w] /\ Tracked(wrec[w]) => v = w

\* A stop() of a recorder that was removed never signals the ffmpeg of the
\* recorder that has taken its place under the same name.
StopHitsOnlyForgotten ==
  [][\A p \in Procs : Recording(p) /\ ff'[p] = "sigterm" =>
       \E w \in Watchers : wproc[w] = p /\ ~Tracked(wrec[w])]_vars

\* The watcher of a recorder the manager knows goes on for ever, whatever
\* stop() does to other recorders, but for the overflow of the backoff.
TrackedWatcherSurvives ==
  [][\A w \in Watchers : Alive(w) /\ Tracked(wrec[w]) /\ ~Alive(w)' =>
       wpc[w] = "exited" /\ fast[w] + 1 >= FloatExpLimit]_vars

\* "Stop and forget the recorder", says stop_recording: between calls, a
\* recorder that is forgotten is stopped.
ForgottenIsStopped ==
  (\A c \in Callers : Idle(c)) =>
    \A w \in Watchers : Alive(w) /\ ~Tracked(wrec[w]) => stopEvent[wrec[w]]

\* "Every camera's ffmpeg child is reaped on shutdown", says get_manager.
ReapedOnShutdown == phase = "gone" => \A p \in Procs : ~Recording(p)

(* Liveness, under FairSpec.                                               *)

\* A stopped recorder's ffmpeg dies, even one that ignores SIGTERM or that is
\* spawned after stop() gave up waiting, unless start() revives the recorder
\* or the program ends first.
StopEndsRecording ==
  \A w \in Watchers, p \in Procs :
    wproc[w] = p /\ Alive(w) /\ stopEvent[wrec[w]] ~>
      ff[p] = "dead" \/ phase = "gone" \/ (Alive(w) /\ ~stopEvent[wrec[w]])

\* No call of the manager blocks for ever.
CallsReturn == \A c \in Callers : ~Idle(c) ~> Idle(c)
-----------------------------------------------------------------------------
(* The inductive invariant behind the safety properties.                   *)

\* The caller has removed the recorder and has not finished its stop().
Stopping(c, r) ==
  r \in todo[c] \/ (target[c] = r /\ cpc[c] \notin {"idle", "start"})

\* Between its construction and the end of its stop().
Held(r) == Tracked(r) \/ \E c \in Callers : Stopping(c, r)

CallerInv ==
  \A c \in Callers :
    /\ Idle(c) <=> target[c] = NoRec
    /\ cpc[c] \in {"idle", "start"} => todo[c] = {}
    /\ cpc[c] = "terminate" => cproc[c] # NoProc
    /\ cproc[c] # NoProc => cpc[c] \in {"terminate", "wait"}

WatcherInv ==
  \A w \in Watchers :
    /\ Alive(w) <=> wrec[w] # NoRec
    /\ wproc[w] # NoProc <=> wpc[w] \in {"handoff", "selfterm", "selfwait", "wait"}

\* A process has one owner, and whoever refers to it through a recorder or
\* through the local variable of stop() means that owner's recorder.
ProcInv ==
  /\ \A v, w \in Watchers : wproc[v] = wproc[w] /\ wproc[w] # NoProc => v = w
  /\ \A p \in Procs : Recording(p) => \E w \in Watchers : wproc[w] = p
  /\ \A w \in Watchers, r \in Recs :
       wproc[w] # NoProc /\ proc[r] = wproc[w] => wrec[w] = r
  /\ \A w \in Watchers, c \in Callers :
       wproc[w] # NoProc /\ cproc[c] = wproc[w] => wrec[w] = target[c]
  /\ \A w \in Watchers : wpc[w] = "selfwait" => ~Recording(wproc[w])

\* A recorder is the value of one name, or in the hands of one stop(), or
\* neither; it is stopped once at most.
RemovalInv ==
  /\ \A m, n \in Names :
       recorders[m] = recorders[n] /\ recorders[n] # NoRec => m = n
  /\ \A c \in Callers, r \in Recs : Stopping(c, r) => ~Tracked(r)
  /\ \A c, d \in Callers, r \in Recs : Stopping(c, r) /\ Stopping(d, r) => c = d
  /\ \A c \in Callers : target[c] \notin todo[c]

\* Only a recorder that was removed is stopped.
StopInv ==
  /\ \A r \in Recs : Tracked(r) => ~stopEvent[r]
  /\ \A w \in Watchers :
       wpc[w] \in {"selfterm", "selfwait", "woken"} => ~Tracked(wrec[w])

\* Until its stop() ends a recorder knows its watcher and its process.
ThreadInv ==
  \A w \in Watchers, r \in Recs : wrec[w] = r /\ Held(r) =>
    /\ thread[r] = w
    /\ wpc[w] = "wait" => proc[r] = wproc[w]

LeakInv ==
  \A w \in Watchers :
    wproc[w] # NoProc /\ Recording(wproc[w]) /\ stopEvent[wrec[w]] =>
      \/ wpc[w] \in {"handoff", "selfterm"}
      \/ \E c \in Callers : cpc[c] = "terminate" /\ cproc[c] = wproc[w]

IInv ==
  /\ TypeOK /\ CallerInv /\ WatcherInv /\ ProcInv
  /\ RemovalInv /\ StopInv /\ ThreadInv /\ LeakInv
=============================================================================
