-------------------------- MODULE NvrManagerProofs --------------------------
(***************************************************************************)
(* Proofs about NvrManager, for any number of cameras, recorders, threads, *)
(* processes and callers and any limit of the backoff.  IInv is inductive; *)
(* the safety properties follow from it.                                   *)
(***************************************************************************)
EXTENDS NvrManager, TLAPS

USE NullAssumption, LimitAssumption, SlowAssumption

-----------------------------------------------------------------------------
(* The type invariant.                                                     *)

\* A program that starts has its types.
LEMMA InitType == Init => TypeOK
BY DEF Init, TypeOK, WatcherPC, CallerPC, ProcState

\* Every step keeps the types.  CallerInv is needed: a caller that is not idle
\* has a recorder in its hands, whose fields it reads.
LEMMA Typing == TypeOK /\ CallerInv /\ [Next]_vars => TypeOK'
<1> SUFFICES ASSUME TypeOK, CallerInv, [Next]_vars PROVE TypeOK'
  OBVIOUS
<1> USE DEF TypeOK, WatcherPC, CallerPC, ProcState, recVars, watcherVars,
            callerVars, Goto, Step, Return
<1>1. ASSUME NEW c \in Callers, NEW n \in Names, LookUp(c, n)
      PROVE  TypeOK'
  BY <1>1 DEF LookUp
<1>2. ASSUME NEW c \in Callers, NEW n \in Names, Create(c, n)
      PROVE  TypeOK'
  BY <1>2 DEF Create
<1>3. ASSUME NEW c \in Callers, NEW n \in Names, StopRecording(c, n)
      PROVE  TypeOK'
  BY <1>3 DEF StopRecording
<1>4. ASSUME NEW c \in Callers, StopAll(c) \/ AtExit(c)
      PROVE  TypeOK'
  BY <1>4 DEF StopAll, AtExit, TakeAll
<1>5. ASSUME NEW c \in Callers, StartRunning(c)
      PROVE  TypeOK'
  BY <1>5 DEF StartRunning
<1>6. ASSUME NEW c \in Callers, StartThread(c)
      PROVE  TypeOK'
  <2>1. PICK w \in Watchers : StartThread(c)!5!(w)
    BY <1>6 DEF StartThread
  <2> QED
    BY <1>6, <2>1 DEF StartThread
<1>7. ASSUME NEW c \in Callers, StopStep(c)
      PROVE  TypeOK'
  <2>1. CASE Signal(c)
    <3>1. target[c] \in Recs
      BY <2>1 DEF Signal, CallerInv, Idle
    <3> QED
      BY <2>1, <3>1 DEF Signal
  <2>2. CASE Terminate(c)
    BY <2>2 DEF Terminate, Sigterm
  <2>3. CASE Terminated(c) \/ Kill(c)
    <3>1. target[c] \in Recs
      BY <2>3 DEF Terminated, Kill, CallerInv, Idle
    <3> QED
      BY <2>3, <3>1 DEF Terminated, Kill, Sigkill
  <2>4. CASE Joined(c) \/ JoinTimeout(c)
    BY <2>4 DEF Joined, JoinTimeout
  <2>5. CASE Clear(c)
    <3>1. /\ cpc'    \in [Callers -> CallerPC]
          /\ target' \in [Callers -> Recs \cup {NoRec}]
          /\ todo'   \in [Callers -> SUBSET Recs]
      BY <2>5 DEF Clear
    <3>2. /\ proc'   \in [Recs -> Procs \cup {NoProc}]
          /\ thread' \in [Recs -> Watchers \cup {NoWatcher}]
      BY <2>5 DEF Clear
    <3> QED
      BY <2>5, <3>1, <3>2 DEF Clear
  <2> QED
    BY <1>7, <2>1, <2>2, <2>3, <2>4, <2>5 DEF StopStep
<1>8. ASSUME NEW w \in Watchers, WatcherStep(w)
      PROVE  TypeOK'
  <2>1. CASE CheckLoop(w) \/ SpawnFails(w)
    BY <2>1 DEF CheckLoop, SpawnFails
  <2>2. CASE Spawn(w)
    BY <2>2 DEF Spawn
  <2>3. CASE HandOff(w)
    BY <2>3 DEF HandOff
  <2>4. CASE SelfTerminate(w) \/ SelfWait(w)
    BY <2>4 DEF SelfTerminate, SelfWait, Sigterm, Sigkill
  <2>5. CASE Reap(w)
    BY <2>5 DEF Reap
  <2>6. CASE ExitStopped(w) \/ ExitClean(w) \/ ExitFast(w) \/ ExitOverflow(w)
    BY <2>6 DEF ExitStopped, ExitClean, ExitFast, ExitOverflow
  <2>7. CASE Retry(w) \/ Backoff(w) \/ Woken(w)
    BY <2>7 DEF Retry, Backoff, WaitOver, Woken
  <2> QED
    BY <1>8, <2>1, <2>2, <2>3, <2>4, <2>5, <2>6, <2>7 DEF WatcherStep
<1>9. ASSUME NEW p \in Procs, FfmpegExits(p)
      PROVE  TypeOK'
  BY <1>9 DEF FfmpegExits
<1>10. CASE Exit \/ Gone \/ UNCHANGED vars
  BY <1>10 DEF Exit, Gone, vars
<1> QED
  BY <1>1, <1>2, <1>3, <1>4, <1>5, <1>6, <1>7, <1>8, <1>9, <1>10
     DEF Next, Call, CallerStep

-----------------------------------------------------------------------------
(* Where the callers are and what they hold.                               *)

\* Every step keeps the shape of the calls.
LEMMA CallerStable == TypeOK /\ CallerInv /\ [Next]_vars => CallerInv'
<1> SUFFICES ASSUME TypeOK, CallerInv, [Next]_vars PROVE CallerInv'
  OBVIOUS
<1> USE DEF TypeOK, CallerInv, Idle, Goto, callerVars
<1>1. ASSUME NEW c \in Callers, NEW n \in Names,
             LookUp(c, n) \/ Create(c, n) \/ StopRecording(c, n)
      PROVE  CallerInv'
  BY <1>1 DEF LookUp, Create, StopRecording
<1>2. ASSUME NEW c \in Callers, StopAll(c) \/ AtExit(c)
      PROVE  CallerInv'
  BY <1>2 DEF StopAll, AtExit, TakeAll
<1>3. ASSUME NEW c \in Callers, StartRunning(c) \/ StartThread(c)
      PROVE  CallerInv'
  BY <1>3 DEF StartRunning, StartThread
<1>4. ASSUME NEW c \in Callers, Signal(c)
      PROVE  CallerInv'
  BY <1>4 DEF Signal
<1>5. ASSUME NEW c \in Callers, Terminate(c) \/ Joined(c) \/ JoinTimeout(c)
      PROVE  CallerInv'
  BY <1>5 DEF Terminate, Joined, JoinTimeout
<1>6. ASSUME NEW c \in Callers, Terminated(c) \/ Kill(c)
      PROVE  CallerInv'
  BY <1>6 DEF Terminated, Kill
<1>7. ASSUME NEW c \in Callers, Clear(c)
      PROVE  CallerInv'
  BY <1>7 DEF Clear
<1>8. CASE UNCHANGED callerVars
  BY <1>8
<1>9. ASSUME NEW w \in Watchers, WatcherStep(w)
      PROVE  UNCHANGED callerVars
  BY <1>9 DEF WatcherStep, CheckLoop, SpawnFails, Spawn, HandOff, SelfTerminate,
     SelfWait, Reap, ExitStopped, ExitClean, ExitFast, ExitOverflow, Retry,
     Backoff, WaitOver, Woken
<1>10. ASSUME NEW p \in Procs, FfmpegExits(p)
       PROVE  UNCHANGED callerVars
  BY <1>10 DEF FfmpegExits
<1>11. CASE Exit \/ Gone \/ UNCHANGED vars
  BY <1>11 DEF Exit, Gone, vars
<1> QED
  BY <1>1, <1>2, <1>3, <1>4, <1>5, <1>6, <1>7, <1>8, <1>9, <1>10, <1>11
     DEF Next, Call, CallerStep, StopStep

-----------------------------------------------------------------------------
(* Where the watchers are and what they hold.                              *)

\* Every step keeps what each place of a watcher means.
LEMMA WatcherStable == TypeOK /\ CallerInv /\ WatcherInv /\ [Next]_vars => WatcherInv'
<1> SUFFICES ASSUME TypeOK, CallerInv, WatcherInv, [Next]_vars PROVE WatcherInv'
  OBVIOUS
<1> USE DEF TypeOK, WatcherInv, Alive, Step, Return, watcherVars
<1>1. ASSUME NEW c \in Callers, StartThread(c)
      PROVE  WatcherInv'
  <2>1. target[c] \in Recs
    BY <1>1 DEF StartThread, Goto, CallerInv, Idle
  <2> QED
    BY <1>1, <2>1 DEF StartThread, FreeWatcher
<1>2. ASSUME NEW c \in Callers, Signal(c)
      PROVE  WatcherInv'
  BY <1>2 DEF Signal
<1>3. ASSUME NEW w \in Watchers, WatcherStep(w)
      PROVE  WatcherInv'
  <2>1. CASE CheckLoop(w) \/ SpawnFails(w)
    BY <2>1 DEF CheckLoop, SpawnFails
  <2>2. CASE Spawn(w)
    BY <2>2 DEF Spawn
  <2>3. CASE HandOff(w)
    BY <2>3 DEF HandOff
  <2>4. CASE SelfTerminate(w) \/ SelfWait(w)
    BY <2>4 DEF SelfTerminate, SelfWait
  <2>5. CASE Reap(w)
    BY <2>5 DEF Reap
  <2>6. CASE ExitStopped(w) \/ ExitClean(w) \/ ExitFast(w) \/ ExitOverflow(w)
    BY <2>6 DEF ExitStopped, ExitClean, ExitFast, ExitOverflow
  <2>7. CASE Retry(w) \/ Backoff(w) \/ Woken(w)
    BY <2>7 DEF Retry, Backoff, WaitOver, Woken
  <2> QED
    BY <1>3, <2>1, <2>2, <2>3, <2>4, <2>5, <2>6, <2>7 DEF WatcherStep
<1>4. CASE UNCHANGED watcherVars
  BY <1>4
<1>5. ASSUME NEW c \in Callers, Call(c) \/ CallerStep(c)
      PROVE  StartThread(c) \/ Signal(c) \/ UNCHANGED watcherVars
  BY <1>5 DEF Call, CallerStep, StopStep, LookUp, Create, StopRecording, StopAll,
     AtExit, TakeAll, StartRunning, Terminate, Terminated, Kill, Joined,
     JoinTimeout, Clear
<1>6. ASSUME NEW p \in Procs, FfmpegExits(p)
      PROVE  UNCHANGED watcherVars
  BY <1>6 DEF FfmpegExits
<1>7. CASE Exit \/ Gone \/ UNCHANGED vars
  BY <1>7 DEF Exit, Gone, vars
<1> QED
  BY <1>1, <1>2, <1>3, <1>4, <1>5, <1>6, <1>7 DEF Next

-----------------------------------------------------------------------------
(* What most actions leave alone.                                          *)

\* The watchers, ffmpeg and the end of the program change nothing of the
\* manager's dictionary and nothing of the callers.
LEMMA OthersKeepCallers ==
  ASSUME \/ \E w \in Watchers : WatcherStep(w)
         \/ \E p \in Procs : FfmpegExits(p)
         \/ Exit \/ Gone \/ UNCHANGED vars
  PROVE  UNCHANGED <<recorders, callerVars>>
BY DEF WatcherStep, CheckLoop, SpawnFails, Spawn, HandOff, SelfTerminate,
   SelfWait, Reap, ExitStopped, ExitClean, ExitFast, ExitOverflow, Retry,
   Backoff, WaitOver, Woken, FfmpegExits, Exit, Gone, vars, callerVars

\* The actions that signal, wait or join keep every recorder where it is.
LEMMA StopKeepsRemoval ==
  ASSUME TypeOK, NEW c \in Callers,
         \/ Signal(c) \/ Terminate(c) \/ Terminated(c) \/ Kill(c)
         \/ Joined(c) \/ JoinTimeout(c)
  PROVE  /\ UNCHANGED <<recorders, target, todo>>
         /\ \A d \in Callers, r \in Recs : Stopping(d, r)' <=> Stopping(d, r)
<1>1. UNCHANGED <<recorders, target, todo>>
  BY DEF Signal, Terminate, Terminated, Kill, Joined, JoinTimeout
<1>2. \E to \in {"terminate", "wait", "join", "clear"} :
        cpc' = [cpc EXCEPT ![c] = to]
  BY DEF Signal, Terminate, Terminated, Kill, Joined, JoinTimeout, Goto
<1>3. cpc[c] \notin {"idle", "start"}
  BY DEF Signal, Terminate, Terminated, Kill, Joined, JoinTimeout, Goto
<1> QED
  BY <1>1, <1>2, <1>3 DEF Stopping, TypeOK

-----------------------------------------------------------------------------
(* A recorder is removed and stopped once.                                 *)

\* Every step leaves a recorder stopped once at most.
LEMMA RemovalStable ==
  TypeOK /\ CallerInv /\ RemovalInv /\ [Next]_vars => RemovalInv'
<1> SUFFICES ASSUME TypeOK, CallerInv, RemovalInv, [Next]_vars PROVE RemovalInv'
  OBVIOUS
<1> USE DEF TypeOK, CallerInv, RemovalInv, Stopping, Tracked, Idle, Goto
<1>1. ASSUME NEW c \in Callers, NEW n \in Names, LookUp(c, n)
      PROVE  RemovalInv'
  BY <1>1 DEF LookUp
<1>2. ASSUME NEW c \in Callers, NEW n \in Names, Create(c, n)
      PROVE  RemovalInv'
  BY <1>2 DEF Create, FreeRec
<1>3. ASSUME NEW c \in Callers, NEW n \in Names, StopRecording(c, n)
      PROVE  RemovalInv'
  <2>0. PICK r \in Recs : r = recorders[n]
    BY <1>3 DEF StopRecording
  <2>1. ~Tracked(r)'
    BY <1>3, <2>0 DEF StopRecording
  <2>2. \A s \in Recs : Tracked(s)' => Tracked(s)
    BY <1>3 DEF StopRecording
  <2>3. \A d \in Callers, s \in Recs :
          Stopping(d, s)' <=> Stopping(d, s) \/ (d = c /\ s = r)
    BY <1>3, <2>0 DEF StopRecording
  <2>4. \A d \in Callers : ~Stopping(d, r)
    BY <1>3, <2>0 DEF StopRecording
  <2>5. \A m, k \in Names :
          recorders'[m] = recorders'[k] /\ recorders'[m] # NoRec => m = k
    BY <1>3 DEF StopRecording
  <2>6. \A d \in Callers : target'[d] \notin todo'[d]
    BY <1>3 DEF StopRecording
  <2> HIDE DEF Stopping, Tracked
  <2> QED
    BY <2>1, <2>2, <2>3, <2>4, <2>5, <2>6
<1>4. ASSUME NEW c \in Callers, StopAll(c) \/ AtExit(c)
      PROVE  RemovalInv'
  <2>1. CASE TakeAll(c)
    BY <2>1 DEF TakeAll
  <2>2. CASE UNCHANGED <<recorders, callerVars>>
    BY <2>2 DEF callerVars
  <2> QED
    BY <1>4, <2>1, <2>2 DEF StopAll, AtExit
<1>5. ASSUME NEW c \in Callers, StartRunning(c) \/ StartThread(c)
      PROVE  RemovalInv'
  <2>1. \A d \in Callers, r \in Recs : Stopping(d, r)' <=> Stopping(d, r)
    BY <1>5 DEF StartRunning, StartThread
  <2>2. recorders' = recorders /\ todo' = todo
    BY <1>5 DEF StartRunning, StartThread
  <2>3. \A d \in Callers : target'[d] \notin todo'[d]
    BY <1>5 DEF StartRunning, StartThread
  <2> QED
    BY <2>1, <2>2, <2>3
<1>6. ASSUME NEW c \in Callers,
             \/ Signal(c) \/ Terminate(c) \/ Terminated(c) \/ Kill(c)
             \/ Joined(c) \/ JoinTimeout(c)
      PROVE  RemovalInv'
  BY <1>6, StopKeepsRemoval
<1>7. ASSUME NEW c \in Callers, Clear(c)
      PROVE  RemovalInv'
  <2>1. \A d \in Callers, r \in Recs : Stopping(d, r)' => Stopping(d, r)
    BY <1>7 DEF Clear
  <2>2. UNCHANGED recorders
    BY <1>7 DEF Clear
  <2>3. \A d \in Callers : target'[d] \notin todo'[d]
    BY <1>7 DEF Clear
  <2> HIDE DEF Stopping
  <2> QED
    BY <2>1, <2>2, <2>3
<1>8. CASE UNCHANGED <<recorders, callerVars>>
  BY <1>8 DEF callerVars
<1> QED
  BY <1>1, <1>2, <1>3, <1>4, <1>5, <1>6, <1>7, <1>8, OthersKeepCallers
     DEF Next, Call, CallerStep, StopStep

-----------------------------------------------------------------------------
(* Processes have one owner.                                               *)

\* Every step leaves a process with one owner.
LEMMA ProcStable ==
  TypeOK /\ CallerInv /\ WatcherInv /\ ProcInv /\ [Next]_vars => ProcInv'
<1> SUFFICES ASSUME TypeOK, CallerInv, WatcherInv, ProcInv, [Next]_vars
             PROVE  ProcInv'
  OBVIOUS
<1> USE DEF TypeOK, ProcInv, Recording
\* The calls: a recorder is taken up or put down, a thread is started.
<1>1. ASSUME NEW c \in Callers, NEW n \in Names,
             LookUp(c, n) \/ StopRecording(c, n)
      PROVE  ProcInv'
  BY <1>1 DEF LookUp, StopRecording, Goto, recVars, watcherVars, CallerInv
<1>2. ASSUME NEW c \in Callers, NEW n \in Names, Create(c, n)
      PROVE  ProcInv'
  BY <1>2 DEF Create, Goto, watcherVars, CallerInv
<1>3. ASSUME NEW c \in Callers, StopAll(c) \/ AtExit(c)
      PROVE  ProcInv'
  BY <1>3 DEF StopAll, AtExit, TakeAll, Goto, recVars, watcherVars, callerVars, CallerInv
<1>4. ASSUME NEW c \in Callers, StartRunning(c)
      PROVE  ProcInv'
  BY <1>4 DEF StartRunning, Goto, recVars, watcherVars, CallerInv
<1>5. ASSUME NEW c \in Callers, StartThread(c)
      PROVE  ProcInv'
  BY <1>5 DEF StartThread, Goto, FreeWatcher, Alive, WatcherInv, CallerInv
\* stop().
<1>6. ASSUME NEW c \in Callers, Signal(c)
      PROVE  ProcInv'
  BY <1>6 DEF Signal, Goto, CallerInv, Idle
<1>7. ASSUME NEW c \in Callers, Terminate(c)
      PROVE  ProcInv'
  BY <1>7 DEF Terminate, Sigterm, recVars, watcherVars
<1>8. ASSUME NEW c \in Callers, Terminated(c)
      PROVE  ProcInv'
  BY <1>8 DEF Terminated, recVars, watcherVars
<1>9. ASSUME NEW c \in Callers, Kill(c)
      PROVE  ProcInv'
  BY <1>9 DEF Kill, Sigkill, recVars, watcherVars
<1>10. ASSUME NEW c \in Callers, Joined(c) \/ JoinTimeout(c)
       PROVE  ProcInv'
  BY <1>10 DEF Joined, JoinTimeout, recVars, watcherVars
<1>11. ASSUME NEW c \in Callers, Clear(c)
       PROVE  ProcInv'
  BY <1>11 DEF Clear, Goto, watcherVars, CallerInv
\* The watcher.
<1>12. ASSUME NEW w \in Watchers, Spawn(w)
       PROVE  ProcInv'
  BY <1>12 DEF Spawn, Step, FreeProc, recVars, callerVars, WatcherInv
<1>13. ASSUME NEW w \in Watchers, HandOff(w)
       PROVE  ProcInv'
  BY <1>13 DEF HandOff, Step, callerVars, WatcherInv
<1>14. ASSUME NEW w \in Watchers, SelfTerminate(w) \/ SelfWait(w)
       PROVE  ProcInv'
  <2>1. CASE SelfTerminate(w)
    BY <1>14, <2>1 DEF SelfTerminate, Step, Sigterm, recVars, callerVars, WatcherInv
  \* The watcher that returns gives its process up, and the process is not recording any more.
  <2>2. CASE SelfWait(w)
    <3>1. /\ wproc' = [wproc EXCEPT ![w] = NoProc] /\ wrec' = [wrec EXCEPT ![w] = NoRec]
          /\ wpc' = [wpc EXCEPT ![w] = "done"] /\ wpc[w] = "selfwait"
          /\ ff' = [ff EXCEPT ![wproc[w]] = IF @ = "dead" THEN "dead" ELSE "killed"]
          /\ proc' = proc /\ cproc' = cproc /\ target' = target
      BY <2>2 DEF SelfWait, Step, Return, Sigkill, recVars, callerVars
    <3>2. \A v \in Watchers : v # w /\ wproc'[v] # NoProc => wproc'[v] = wproc[v] /\ wrec'[v] = wrec[v]
      BY <3>1
    <3>3. wproc'[w] = NoProc /\ wpc'[w] = "done"
      BY <3>1
    <3>4. \A p \in Procs : Recording(p)' => Recording(p) /\ p # wproc[w]
      BY <3>1
    <3>5. \A p \in Procs : Recording(p)' => \E v \in Watchers : wproc'[v] = p
      BY <3>1, <3>4
    <3>6. \A v \in Watchers : wpc'[v] = "selfwait" => ~Recording(wproc[v])' /\ wproc'[v] = wproc[v]
      BY <1>14, <3>1, <3>4, NullAssumption DEF WatcherInv
    <3> QED
      BY <3>1, <3>2, <3>3, <3>5, <3>6
  <2> QED
    BY <1>14, <2>1, <2>2
<1>15. ASSUME NEW w \in Watchers, Reap(w)
       PROVE  ProcInv'
  BY <1>15 DEF Reap, Step, callerVars, WatcherInv
<1>16. ASSUME NEW w \in Watchers, CheckLoop(w) \/ SpawnFails(w) \/ Woken(w)
       PROVE  ProcInv'
  BY <1>16 DEF CheckLoop, SpawnFails, Woken, Step, Return, recVars, callerVars,
     WatcherInv
<1>17. ASSUME NEW w \in Watchers,
              ExitStopped(w) \/ ExitClean(w) \/ ExitFast(w) \/ ExitOverflow(w)
       PROVE  ProcInv'
  BY <1>17 DEF ExitStopped, ExitClean, ExitFast, ExitOverflow, Step, Return,
     recVars, callerVars, WatcherInv
<1>18. ASSUME NEW w \in Watchers, Retry(w) \/ Backoff(w)
       PROVE  ProcInv'
  BY <1>18 DEF Retry, Backoff, WaitOver, Step, Return, recVars, callerVars,
     WatcherInv
\* The rest.
<1>19. ASSUME NEW p \in Procs, FfmpegExits(p)
       PROVE  ProcInv'
  BY <1>19 DEF FfmpegExits, recVars, watcherVars, callerVars
<1>20. CASE Exit \/ Gone \/ UNCHANGED vars
  BY <1>20 DEF Exit, Gone, vars, recVars, watcherVars, callerVars
<1> QED
  BY <1>1, <1>2, <1>3, <1>4, <1>5, <1>6, <1>7, <1>8, <1>9, <1>10, <1>11, <1>12,
     <1>13, <1>14, <1>15, <1>16, <1>17, <1>18, <1>19, <1>20
     DEF Next, Call, CallerStep, StopStep, WatcherStep

-----------------------------------------------------------------------------
(* A recorder becomes known only when it is constructed.                   *)

\* A recorder comes into the dictionary only by its construction.
LEMMA NewlyHeld ==
  ASSUME TypeOK, CallerInv, [Next]_vars, NEW r \in Recs
  PROVE  /\ Tracked(r)' /\ ~Tracked(r) => FreeRec(r) /\ UNCHANGED watcherVars
         /\ Held(r)' /\ ~Held(r) => Tracked(r)' /\ ~Tracked(r)
<1> USE DEF TypeOK, Tracked, Held
<1>1. ASSUME NEW c \in Callers, NEW n \in Names, Create(c, n)
      PROVE  /\ Tracked(r)' /\ ~Tracked(r) => FreeRec(r) /\ UNCHANGED watcherVars
             /\ \A d \in Callers : Stopping(d, r)' => Stopping(d, r)
  BY <1>1 DEF Create, Goto, Stopping
<1>2. ASSUME NEW c \in Callers, NEW n \in Names, StopRecording(c, n)
      PROVE  /\ Tracked(r)' => Tracked(r)
             /\ Held(r)' => Held(r)
  BY <1>2 DEF StopRecording, Goto, Stopping, CallerInv, Idle
<1>3. ASSUME NEW c \in Callers, TakeAll(c)
      PROVE  /\ Tracked(r)' => Tracked(r)
             /\ Held(r)' => Held(r)
  BY <1>3 DEF TakeAll, Goto, Stopping, CallerInv, Idle
<1>4. ASSUME NEW c \in Callers, NEW n \in Names, LookUp(c, n)
      PROVE  /\ UNCHANGED recorders
             /\ \A d \in Callers : Stopping(d, r)' => Stopping(d, r)
  BY <1>4 DEF LookUp, Goto, Stopping, CallerInv, Idle
<1>5. ASSUME NEW c \in Callers, StartRunning(c) \/ StartThread(c)
      PROVE  /\ UNCHANGED recorders
             /\ \A d \in Callers : Stopping(d, r)' => Stopping(d, r)
  BY <1>5 DEF StartRunning, StartThread, Goto, Stopping
<1>6. ASSUME NEW c \in Callers, Clear(c)
      PROVE  /\ UNCHANGED recorders
             /\ \A d \in Callers : Stopping(d, r)' => Stopping(d, r)
  BY <1>6 DEF Clear, Goto, Stopping
<1>7. ASSUME UNCHANGED <<recorders, callerVars>>
      PROVE  /\ UNCHANGED recorders
             /\ \A d \in Callers : Stopping(d, r)' => Stopping(d, r)
  BY <1>7 DEF callerVars, Stopping
<1> HIDE DEF TypeOK
<1> QED
  BY <1>1, <1>2, <1>3, <1>4, <1>5, <1>6, <1>7, StopKeepsRemoval, OthersKeepCallers
     DEF Next, Call, CallerStep, StopStep, StopAll, AtExit

-----------------------------------------------------------------------------
(* Only a recorder that was removed is stopped.                            *)

\* Every step leaves a stop to removed recorders.
LEMMA StopStable == IInv /\ [Next]_vars => StopInv'
<1> SUFFICES ASSUME IInv, [Next]_vars PROVE StopInv'
  OBVIOUS
<1> USE DEF TypeOK, IInv, StopInv, Goto, Step
\* Calls that change the dictionary or the event.
<1>0. \A w \in Watchers :
        wpc[w] \in {"selfterm", "selfwait", "woken"} => wrec[w] \in Recs
  BY DEF WatcherInv, Alive
<1>1. ASSUME NEW c \in Callers, NEW n \in Names,
             LookUp(c, n) \/ StopRecording(c, n)
      PROVE  StopInv'
  <2>1. \A r \in Recs : Tracked(r)' => Tracked(r)
    BY <1>1 DEF LookUp, StopRecording, Tracked
  <2>2. UNCHANGED <<recVars, watcherVars>>
    BY <1>1 DEF LookUp, StopRecording
  <2> QED
    BY <1>0, <2>1, <2>2 DEF recVars, watcherVars
<1>2. ASSUME NEW c \in Callers, NEW n \in Names, Create(c, n)
      PROVE  StopInv'
  <2>1. \A r \in Recs : Tracked(r)' => ~stopEvent'[r]
    BY <1>2 DEF Create, Tracked
  <2>2. PICK r \in Recs : FreeRec(r) /\ recorders' = [recorders EXCEPT ![n] = r]
    BY <1>2 DEF Create
  <2>3. \A w \in Watchers : wrec[w] # r
    BY <2>2 DEF FreeRec
  <2>4. \A w \in Watchers : Tracked(wrec[w])' => Tracked(wrec[w])
    BY <1>2, <2>2, <2>3 DEF Create, Tracked, watcherVars
  <2> QED
    BY <1>2, <2>1, <2>4 DEF Create, watcherVars
<1>3. ASSUME NEW c \in Callers, StopAll(c) \/ AtExit(c)
      PROVE  StopInv'
  <2>1. \A r \in Recs : Tracked(r)' => Tracked(r)
    BY <1>3 DEF StopAll, AtExit, TakeAll, Tracked
  <2>2. UNCHANGED <<recVars, watcherVars>>
    BY <1>3 DEF StopAll, AtExit, TakeAll
  <2> QED
    BY <1>0, <2>1, <2>2 DEF recVars, watcherVars
<1>4. ASSUME NEW c \in Callers, StartRunning(c)
      PROVE  StopInv'
  BY <1>4 DEF StartRunning, Tracked, recVars, watcherVars
<1>5. ASSUME NEW c \in Callers, StartThread(c)
      PROVE  StopInv'
  BY <1>5 DEF StartThread, Tracked, FreeWatcher, Alive
<1>6. ASSUME NEW c \in Callers, Signal(c)
      PROVE  StopInv'
  <2>1. Stopping(c, target[c]) /\ target[c] \in Recs
    BY <1>6 DEF Signal, Stopping, CallerInv, Idle
  <2>2. ~Tracked(target[c])
    BY <2>1 DEF RemovalInv
  <2> QED
    BY <1>6, <2>2 DEF Signal, Tracked
<1>7. ASSUME NEW c \in Callers,
             \/ Terminate(c) \/ Terminated(c) \/ Kill(c)
             \/ Joined(c) \/ JoinTimeout(c) \/ Clear(c)
      PROVE  StopInv'
  BY <1>7 DEF Terminate, Terminated, Kill, Joined, JoinTimeout, Clear, Tracked,
     recVars, watcherVars
\* The watcher: it terminates its own process only when it has seen the event.
<1>8. ASSUME NEW w \in Watchers, HandOff(w)
      PROVE  StopInv'
  BY <1>8 DEF HandOff, Tracked, WatcherInv, Alive
<1>9. ASSUME NEW w \in Watchers, WatcherStep(w), ~HandOff(w)
      PROVE  StopInv'
  <2>1. UNCHANGED <<recorders, stopEvent>>
    BY <1>9 DEF WatcherStep, CheckLoop, SpawnFails, Spawn, SelfTerminate, SelfWait,
       Reap, ExitStopped, ExitClean, ExitFast, ExitOverflow, Retry, Backoff,
       WaitOver, Woken, recVars
  <2>2. \A v \in Watchers :
          wpc'[v] \in {"selfterm", "selfwait", "woken"} =>
            wpc[v] \in {"selfterm", "selfwait", "woken"} /\ wrec'[v] = wrec[v]
    BY <1>9 DEF WatcherStep, CheckLoop, SpawnFails, Spawn, SelfTerminate, SelfWait,
       Reap, ExitStopped, ExitClean, ExitFast, ExitOverflow, Retry, Backoff,
       WaitOver, Woken, Return
  <2> QED
    BY <2>1, <2>2 DEF Tracked
<1>10. ASSUME NEW p \in Procs, FfmpegExits(p)
       PROVE  StopInv'
  BY <1>10 DEF FfmpegExits, Tracked, recVars, watcherVars
<1>11. CASE Exit \/ Gone \/ UNCHANGED vars
  BY <1>11 DEF Exit, Gone, Tracked, vars, recVars, watcherVars
<1> QED
  BY <1>1, <1>2, <1>3, <1>4, <1>5, <1>6, <1>7, <1>8, <1>9, <1>10, <1>11
     DEF Next, Call, CallerStep, StopStep

-----------------------------------------------------------------------------
(* Until its stop() ends a recorder knows its watcher and its process.     *)

\* The end of a stop() lets go of the recorder for good.
LEMMA ClearLetsGo ==
  ASSUME IInv, NEW c \in Callers, Clear(c), NEW r \in Recs, target[c] = r
  PROVE  ~Held(r)'
<1> USE DEF IInv, TypeOK
<1>1. Stopping(c, r)
  BY DEF Clear, Goto, Stopping
<1>2. UNCHANGED recorders /\ ~Tracked(r)
  BY <1>1 DEF Clear, RemovalInv
<1>3. \A d \in Callers \ {c} : ~Stopping(d, r)
  BY <1>1 DEF RemovalInv
<1>4. \A d \in Callers \ {c} : Stopping(d, r)' <=> Stopping(d, r)
  BY DEF Clear, Goto, Stopping
<1>5. r \notin todo'[c] /\ target'[c] # r
  BY NullAssumption DEF Clear, Goto, RemovalInv
<1> QED
  BY <1>2, <1>3, <1>4, <1>5 DEF Held, Tracked, Stopping

\* A recorder knows its watcher and its process until its stop() has ended.
LEMMA ThreadStable == IInv /\ [Next]_vars => ThreadInv'
<1> SUFFICES ASSUME IInv, [Next]_vars,
                    NEW w \in Watchers, NEW r \in Recs, wrec'[w] = r, Held(r)'
             PROVE  thread'[r] = w /\ (wpc'[w] = "wait" => proc'[r] = wproc'[w])
  BY DEF ThreadInv
<1> USE DEF TypeOK, IInv, Goto, Step
<1>1. wrec[w] = r => Held(r)
  BY NewlyHeld DEF watcherVars, FreeRec
<1> DEFINE Kept == /\ wrec[w] = r
                   /\ thread'[r] = thread[r]
                   /\ wpc'[w] = "wait" =>
                        wpc[w] = "wait" /\ wproc'[w] = wproc[w] /\ proc'[r] = proc[r]
           Goal == thread'[r] = w /\ (wpc'[w] = "wait" => proc'[r] = wproc'[w])
<1>2. Kept => Goal
  BY <1>1 DEF ThreadInv
<1>3. ASSUME NEW c \in Callers, NEW n \in Names, Create(c, n)
      PROVE  Kept
  <2>1. PICK s \in Recs : /\ FreeRec(s)
                          /\ thread' = [thread EXCEPT ![s] = NoWatcher]
                          /\ proc'   = [proc EXCEPT ![s] = NoProc]
    BY <1>3 DEF Create
  <2>2. wrec[w] # s
    BY <2>1 DEF FreeRec
  <2> QED
    BY <1>3, <2>1, <2>2 DEF Create, watcherVars
<1>4. ASSUME NEW c \in Callers, StartThread(c)
      PROVE  Goal
  <2>1. target[c] \in Recs
    BY <1>4 DEF StartThread, CallerInv, Idle
  <2>2. PICK v \in Watchers : /\ FreeWatcher(v, target[c])
                              /\ thread' = [thread EXCEPT ![target[c]] = v]
                              /\ wpc'    = [wpc EXCEPT ![v] = "check"]
                              /\ wrec'   = [wrec EXCEPT ![v] = target[c]]
    BY <1>4 DEF StartThread
  <2>3. CASE w = v
    BY <2>1, <2>2, <2>3
  <2>4. CASE w # v
    <3>1. wrec[w] = r /\ thread[r] = w /\ Alive(w)
      BY <1>1, <2>2, <2>4, NullAssumption DEF ThreadInv, WatcherInv
    <3>2. r # target[c]
      BY <1>4, <3>1, NullAssumption DEF StartThread, Running
    <3>3. Kept
      BY <1>4, <2>2, <2>4, <3>1, <3>2 DEF StartThread
    <3> QED
      BY <1>2, <3>3
  <2> QED
    BY <2>3, <2>4
<1>5. ASSUME NEW c \in Callers, Signal(c)
      PROVE  Kept
  BY <1>5 DEF Signal
<1>6. ASSUME NEW c \in Callers, Clear(c)
      PROVE  Kept
  <2>1. r # target[c]
    BY <1>6, ClearLetsGo
  <2> QED
    BY <1>6, <2>1 DEF Clear, watcherVars
<1>7. ASSUME NEW v \in Watchers, HandOff(v)
      PROVE  Goal
  <2>1. wrec[w] = r /\ thread[r] = w
    BY <1>1, <1>7 DEF HandOff, ThreadInv
  <2>2. CASE v = w
    BY <1>7, <2>1, <2>2 DEF HandOff
  <2>3. CASE v # w
    <3>1. Alive(v) /\ wrec[v] # r
      BY <1>1, <1>7, <2>1, <2>3 DEF HandOff, Alive, ThreadInv
    <3>2. Kept
      BY <1>7, <2>1, <2>3, <3>1 DEF HandOff
    <3> QED
      BY <1>2, <3>2
  <2> QED
    BY <2>2, <2>3
<1>8. ASSUME NEW v \in Watchers, Reap(v)
      PROVE  Goal
  <2>1. wrec[w] = r /\ thread[r] = w
    BY <1>1, <1>8 DEF Reap, ThreadInv
  <2>2. CASE v = w
    BY <1>8, <2>1, <2>2 DEF Reap
  <2>3. CASE v # w
    <3>1. wrec[v] # r
      BY <1>1, <2>1, <2>3 DEF ThreadInv
    <3>2. Kept
      BY <1>8, <2>1, <2>3, <3>1 DEF Reap
    <3> QED
      BY <1>2, <3>2
  <2> QED
    BY <2>2, <2>3
<1>9. ASSUME NEW v \in Watchers, WatcherStep(v), ~HandOff(v), ~Reap(v)
      PROVE  Kept
  <2>1. UNCHANGED <<thread, proc>>
    BY <1>9 DEF WatcherStep, CheckLoop, SpawnFails, Spawn, SelfTerminate, SelfWait,
       ExitStopped, ExitClean, ExitFast, ExitOverflow, Retry, Backoff, WaitOver,
       Woken, recVars
  <2>2. /\ wrec[w] = r
        /\ wpc'[w] = "wait" => wpc[w] = "wait" /\ wproc'[w] = wproc[w]
    BY <1>9, NullAssumption DEF WatcherStep, CheckLoop, SpawnFails, Spawn,
       SelfTerminate, SelfWait, ExitStopped, ExitClean, ExitFast, ExitOverflow,
       Retry, Backoff, WaitOver, Woken, Return
  <2> QED
    BY <2>1, <2>2
<1>10. ASSUME UNCHANGED <<thread, proc, watcherVars>>
       PROVE  Kept
  BY <1>10 DEF watcherVars
<1>11. ASSUME NEW c \in Callers, Call(c) \/ CallerStep(c),
              ~StartThread(c), ~Signal(c), ~Clear(c)
       PROVE  \/ UNCHANGED <<thread, proc, watcherVars>>
              \/ \E n \in Names : Create(c, n)
  BY <1>11 DEF Call, CallerStep, StopStep, LookUp, StopRecording, StopAll, AtExit,
     TakeAll, StartRunning, Terminate, Terminated, Kill, Joined, JoinTimeout, recVars
<1>12. ASSUME (\E p \in Procs : FfmpegExits(p)) \/ Exit \/ Gone \/ UNCHANGED vars
       PROVE  UNCHANGED <<thread, proc, watcherVars>>
  BY <1>12 DEF FfmpegExits, Exit, Gone, vars, recVars
<1> HIDE DEF Kept, Goal
<1>13. Goal
  BY <1>2, <1>3, <1>4, <1>5, <1>6, <1>7, <1>8, <1>9, <1>10, <1>11, <1>12 DEF Next
<1> QED
  BY <1>13 DEF Goal

-----------------------------------------------------------------------------
(* A stopped recorder's ffmpeg has somebody who is about to signal it.     *)

\* No step loses an ffmpeg.
LEMMA LeakStable == IInv /\ [Next]_vars => LeakInv'
<1> SUFFICES ASSUME IInv, [Next]_vars, NEW w \in Watchers,
                    wproc'[w] # NoProc, ff'[wproc'[w]] = "alive",
                    stopEvent'[wrec'[w]]
             PROVE  \/ wpc'[w] \in {"handoff", "selfterm"}
                    \/ \E c \in Callers : cpc'[c] = "terminate" /\ cproc'[c] = wproc'[w]
  BY DEF LeakInv, Recording
<1> USE DEF TypeOK, IInv, Goto, Step
<1> DEFINE Attended == \/ wpc'[w] \in {"handoff", "selfterm"}
                       \/ \E c \in Callers : cpc'[c] = "terminate"
                                             /\ cproc'[c] = wproc'[w]
\* A step that neither sets the event, nor moves this watcher, nor signals
\* this process leaves it as well attended as it was.
<1>1. ASSUME wproc'[w] = wproc[w], wpc'[w] = wpc[w], ff[wproc[w]] = "alive",
             stopEvent[wrec[w]],
             \A c \in Callers : cpc[c] = "terminate" /\ cproc[c] = wproc[w] =>
                                cpc'[c] = "terminate" /\ cproc'[c] = wproc[w]
      PROVE  Attended
  BY <1>1 DEF LeakInv, Recording
<1>2. ASSUME NEW c \in Callers, NEW n \in Names,
             LookUp(c, n) \/ Create(c, n) \/ StopRecording(c, n)
      PROVE  Attended
  <2>1. stopEvent[wrec[w]]
    BY <1>2 DEF LookUp, Create, StopRecording, watcherVars, recVars, WatcherInv, Alive
  <2> QED
    BY <1>1, <1>2, <2>1 DEF LookUp, Create, StopRecording, watcherVars
<1>3. ASSUME NEW c \in Callers, StopAll(c) \/ AtExit(c)
      PROVE  Attended
  BY <1>1, <1>3 DEF StopAll, AtExit, TakeAll, watcherVars, recVars, callerVars
<1>4. ASSUME NEW c \in Callers, StartRunning(c)
      PROVE  Attended
  BY <1>1, <1>4 DEF StartRunning, watcherVars, recVars
<1>5. ASSUME NEW c \in Callers, StartThread(c)
      PROVE  Attended
  <2>1. wpc'[w] = wpc[w] /\ wrec'[w] = wrec[w]
    BY <1>5 DEF StartThread, FreeWatcher, Alive, WatcherInv
  <2>2. stopEvent[wrec[w]]
    BY <1>5, <2>1 DEF StartThread, WatcherInv, Alive
  <2> QED
    BY <1>1, <1>5, <2>1, <2>2 DEF StartThread
\* stop() sets the event and reads, in the same region, the process of the
\* watcher that waits for its exit.
<1>6. ASSUME NEW c \in Callers, Signal(c)
      PROVE  Attended
  <2>1. target[c] \in Recs /\ Held(target[c])
    BY <1>6 DEF Signal, CallerInv, Idle, Held, Stopping
  <2>2. CASE wrec[w] # target[c]
    <3>1. stopEvent[wrec[w]]
      BY <1>6, <2>2 DEF Signal, WatcherInv, Alive
    <3>2. wpc'[w] = wpc[w]
      BY <1>6, <2>2 DEF Signal
    <3> QED
      BY <1>1, <1>6, <3>1, <3>2 DEF Signal
  <2>3. CASE wrec[w] = target[c]
    <3>1. wpc[w] \in {"handoff", "selfterm", "wait"} /\ wpc'[w] = wpc[w]
      BY <1>6 DEF Signal, WatcherInv, ProcInv, Recording
    <3>2. wpc[w] = "wait" => proc[target[c]] = wproc[w]
      BY <2>1, <2>3 DEF ThreadInv
    <3> QED
      BY <1>6, <3>1, <3>2 DEF Signal
  <2> QED
    BY <2>2, <2>3
<1>7. ASSUME NEW c \in Callers, Terminate(c)
      PROVE  Attended
  <2>1. cproc[c] # wproc[w]
    BY <1>7 DEF Terminate, Sigterm, watcherVars
  <2> QED
    BY <1>1, <1>7, <2>1 DEF Terminate, Sigterm, watcherVars, recVars
<1>8. ASSUME NEW c \in Callers,
             Terminated(c) \/ Kill(c) \/ Joined(c) \/ JoinTimeout(c) \/ Clear(c)
      PROVE  Attended
  BY <1>1, <1>8 DEF Terminated, Kill, Sigkill, Joined, JoinTimeout, Clear,
     watcherVars, recVars
<1>9. ASSUME NEW v \in Watchers, v # w, WatcherStep(v)
      PROVE  Attended
  <2>1. UNCHANGED <<stopEvent, callerVars>>
    BY <1>9 DEF WatcherStep, CheckLoop, SpawnFails, Spawn, HandOff, SelfTerminate,
       SelfWait, Reap, ExitStopped, ExitClean, ExitFast, ExitOverflow, Retry,
       Backoff, WaitOver, Woken, recVars
  <2>2. wpc'[w] = wpc[w] /\ wrec'[w] = wrec[w] /\ wproc'[w] = wproc[w]
    BY <1>9 DEF WatcherStep, CheckLoop, SpawnFails, Spawn, HandOff, SelfTerminate,
       SelfWait, Reap, ExitStopped, ExitClean, ExitFast, ExitOverflow, Retry,
       Backoff, WaitOver, Woken, Return
  <2>3. ff[wproc[w]] = "alive"
    BY <1>9, <2>2 DEF WatcherStep, CheckLoop, SpawnFails, Spawn, HandOff,
       SelfTerminate, SelfWait, Reap, ExitStopped, ExitClean, ExitFast,
       ExitOverflow, Retry, Backoff, WaitOver, Woken, Sigterm, Sigkill, FreeProc
  <2> QED
    BY <1>1, <2>1, <2>2, <2>3 DEF callerVars
<1>10. ASSUME WatcherStep(w)
       PROVE  Attended
  <2>1. CASE Spawn(w)
    BY <2>1 DEF Spawn
  <2>2. CASE HandOff(w)
    BY <2>2 DEF HandOff
  <2>3. CASE SelfTerminate(w)
    BY <2>3 DEF SelfTerminate, Sigterm, WatcherInv
  <2>4. CASE ~Spawn(w) /\ ~HandOff(w) /\ ~SelfTerminate(w)
    <3>1. wproc'[w] = NoProc
      BY <1>10, <2>4 DEF WatcherStep, CheckLoop, SpawnFails, SelfWait, Reap,
         ExitStopped, ExitClean, ExitFast, ExitOverflow, Retry, Backoff, WaitOver,
         Woken, Return, WatcherInv
    <3> QED
      BY <3>1
  <2> QED
    BY <2>1, <2>2, <2>3, <2>4
<1>11. ASSUME NEW p \in Procs, FfmpegExits(p)
       PROVE  Attended
  BY <1>1, <1>11 DEF FfmpegExits, watcherVars, recVars, callerVars
<1>12. ASSUME Exit \/ Gone \/ UNCHANGED vars
       PROVE  Attended
  BY <1>1, <1>12 DEF Exit, Gone, vars, watcherVars, recVars, callerVars
<1> HIDE DEF Attended, TypeOK, IInv, Goto, Step
<1>13. ASSUME NEW c \in Callers, Call(c) \/ CallerStep(c)
       PROVE  Attended
  BY <1>2, <1>3, <1>4, <1>5, <1>6, <1>7, <1>8, <1>13
     DEF Call, CallerStep, StopStep
<1>14. ASSUME NEW v \in Watchers, WatcherStep(v)
       PROVE  Attended
  <2>1. CASE v = w
    BY <1>10, <1>14, <2>1
  <2> QED
    BY <1>9, <1>14, <2>1
<1>15. Attended
  BY <1>11, <1>12, <1>13, <1>14 DEF Next
<1> QED
  BY <1>15 DEF Attended

-----------------------------------------------------------------------------
(* The inductive invariant and what follows from it.                       *)

\* A program that starts satisfies the invariant.
LEMMA InitIInv == Init => IInv
<1> SUFFICES ASSUME Init PROVE IInv
  OBVIOUS
<1>1. TypeOK
  BY InitType
<1>2. CallerInv /\ WatcherInv /\ ProcInv /\ StopInv /\ ThreadInv /\ LeakInv
  BY NullAssumption DEF Init, CallerInv, WatcherInv, ProcInv, StopInv, ThreadInv,
     LeakInv, Idle, Alive, Recording, Tracked
<1>3. RemovalInv
  BY NullAssumption DEF Init, RemovalInv, Stopping, Tracked
<1> QED
  BY <1>1, <1>2, <1>3 DEF IInv

\* IInv holds in every reachable state.
THEOREM Invariance == Spec => []IInv
<1>1. IInv /\ [Next]_vars => IInv'
  BY Typing, CallerStable, WatcherStable, ProcStable, RemovalStable, StopStable,
     ThreadStable, LeakStable DEF IInv
<1> QED
  BY <1>1, InitIInv, PTL DEF Spec

\* The state variables always have their types.
THEOREM TypeCorrectness == Spec => []TypeOK
<1>1. IInv => TypeOK
  BY DEF IInv
<1> QED
  BY <1>1, Invariance, PTL

\* No ffmpeg process is left recording without anybody who waits for it or is
\* about to terminate it: the claim of the comment in _run.
THEOREM NoLeak == Spec => []NoLeakedFfmpeg
<1>1. IInv => NoLeakedFfmpeg
  <2> SUFFICES ASSUME IInv, NEW p \in Procs, Recording(p)
               PROVE  \E w \in Watchers :
                        /\ Alive(w) /\ wproc[w] = p
                        /\ stopEvent[wrec[w]] =>
                             \/ wpc[w] \in {"handoff", "selfterm"}
                             \/ \E c \in Callers : cpc[c] = "terminate" /\ cproc[c] = p
    BY DEF NoLeakedFfmpeg
  <2>1. PICK w \in Watchers : wproc[w] = p
    BY DEF IInv, ProcInv
  <2>2. Alive(w)
    BY <2>1, NullAssumption DEF IInv, WatcherInv, Alive
  <2> QED
    BY <2>1, <2>2, NullAssumption DEF IInv, LeakInv
<1> QED
  BY <1>1, Invariance, PTL

\* A recorder that the manager knows never has two watchers.
THEOREM OneWatcher == Spec => []OneWatcherPerTracked
<1>1. IInv => OneWatcherPerTracked
  <2> SUFFICES ASSUME IInv, NEW v \in Watchers, NEW w \in Watchers,
                      Alive(v), Alive(w), wrec[v] = wrec[w], Tracked(wrec[w])
               PROVE  v = w
    BY DEF OneWatcherPerTracked
  <2>1. PICK r \in Recs : r = wrec[w]
    BY DEF IInv, TypeOK, WatcherInv
  <2> QED
    BY <2>1 DEF IInv, ThreadInv, Held
<1> QED
  BY <1>1, Invariance, PTL

\* A stop() never signals the ffmpeg of a recorder the manager knows, not even
\* when start_recording has put a new recorder under the same name meanwhile.
THEOREM StopHits == Spec => StopHitsOnlyForgotten
<1>1. ASSUME IInv, [Next]_vars, NEW p \in Procs, Recording(p), ff'[p] = "sigterm"
      PROVE  \E w \in Watchers : wproc[w] = p /\ ~Tracked(wrec[w])
  <2> USE DEF IInv, TypeOK
  <2>1. PICK w \in Watchers : wproc[w] = p
    BY <1>1 DEF ProcInv
  <2>2. CASE \E c \in Callers : Terminate(c)
    <3>1. PICK c \in Callers : Terminate(c)
      BY <2>2
    <3>2. cproc[c] = p
      BY <1>1, <3>1 DEF Terminate, Sigterm, Recording
    <3>3. PICK r \in Recs : r = target[c]
      BY <1>1, <3>1 DEF Terminate, Goto, CallerInv, Idle
    <3>4. Stopping(c, r)
      BY <1>1, <3>1, <3>3 DEF Terminate, Goto, Stopping
    <3>5. wrec[w] = r
      BY <1>1, <2>1, <3>2, <3>3 DEF ProcInv
    <3>6. ~Tracked(r)
      BY <1>1, <3>4 DEF RemovalInv
    <3> QED
      BY <2>1, <3>5, <3>6
  <2>3. CASE \E v \in Watchers : SelfTerminate(v)
    <3>1. PICK v \in Watchers : SelfTerminate(v)
      BY <2>3
    <3>2. wproc[v] = p /\ wpc[v] = "selfterm"
      BY <1>1, <3>1 DEF SelfTerminate, Sigterm, Step, Recording
    <3>3. ~Tracked(wrec[v])
      BY <1>1, <3>2 DEF StopInv
    <3> QED
      BY <3>2, <3>3
  <2>4. CASE ~(\E c \in Callers : Terminate(c)) /\ ~(\E v \in Watchers : SelfTerminate(v))
    <3>1. ff'[p] \in {ff[p], "dead", "alive", "killed"}
      BY <1>1, <2>4 DEF Next, Call, CallerStep, StopStep, WatcherStep, LookUp, Create,
         StopRecording, StopAll, AtExit, TakeAll, StartRunning, StartThread, Signal,
         Terminated, Kill, Joined, JoinTimeout, Clear, CheckLoop, SpawnFails, Spawn,
         HandOff, SelfWait, Reap, ExitStopped, ExitClean, ExitFast, ExitOverflow,
         Retry, Backoff, WaitOver, Woken, FfmpegExits, Exit, Gone, vars, Sigkill
    <3> QED
      BY <1>1, <3>1 DEF Recording
  <2> QED
    BY <2>2, <2>3, <2>4
<1>2. IInv /\ [Next]_vars =>
        [\A p \in Procs : Recording(p) /\ ff'[p] = "sigterm" =>
           \E w \in Watchers : wproc[w] = p /\ ~Tracked(wrec[w])]_vars
  BY <1>1
<1> QED
  BY <1>2, Invariance, PTL DEF Spec, StopHitsOnlyForgotten

\* The watcher of a recorder the manager knows ends only by the overflow.
THEOREM WatcherSurvives == Spec => TrackedWatcherSurvives
<1>1. ASSUME IInv, [Next]_vars, NEW w \in Watchers, Alive(w), Tracked(wrec[w]),
             ~Alive(w)'
      PROVE  wpc[w] = "exited" /\ fast[w] + 1 >= FloatExpLimit
  <2> USE DEF IInv, TypeOK, Alive
  <2>1. WatcherStep(w)
    <3>1. ASSUME NEW v \in Watchers, v # w, WatcherStep(v)
          PROVE  wpc'[w] = wpc[w]
      BY <1>1, <3>1 DEF WatcherStep, CheckLoop, SpawnFails, Spawn, HandOff, SelfTerminate,
         SelfWait, Reap, ExitStopped, ExitClean, ExitFast, ExitOverflow, Retry,
         Backoff, WaitOver, Woken, Return, Step
    <3>2. ASSUME NEW c \in Callers, Call(c) \/ CallerStep(c)
          PROVE  Alive(w)'
      BY <1>1, <3>2 DEF Call, CallerStep, StopStep, LookUp, Create, StopRecording,
         StopAll, AtExit, TakeAll, StartRunning, StartThread, Signal, Terminate,
         Terminated, Kill, Joined, JoinTimeout, Clear, watcherVars
    <3>3. CASE (\E p \in Procs : FfmpegExits(p)) \/ Exit \/ Gone \/ UNCHANGED vars
      BY <1>1, <3>3 DEF FfmpegExits, Exit, Gone, vars, watcherVars
    <3> QED
      BY <1>1, <3>1, <3>2, <3>3 DEF Next
  <2>2. PICK r \in Recs : r = wrec[w] /\ ~stopEvent[r]
    BY <1>1 DEF WatcherInv, StopInv
  <2>3. wpc[w] \notin {"selfwait", "woken"}
    BY <1>1 DEF StopInv
  <2> QED
    BY <1>1, <2>1, <2>2, <2>3 DEF WatcherStep, CheckLoop, SpawnFails, Spawn, HandOff,
       SelfTerminate, SelfWait, Reap, ExitStopped, ExitClean, ExitFast, ExitOverflow,
       Retry, Backoff, WaitOver, Woken, Return, Step
<1>2. IInv /\ [Next]_vars =>
        [\A w \in Watchers : Alive(w) /\ Tracked(wrec[w]) /\ ~Alive(w)' =>
           wpc[w] = "exited" /\ fast[w] + 1 >= FloatExpLimit]_vars
  BY <1>1
<1> QED
  BY <1>2, Invariance, PTL DEF Spec, TrackedWatcherSurvives

-----------------------------------------------------------------------------
(* One caller at a time.  What the code promises of forgetting a recorder  *)
(* and of the end of the program fails when calls overlap (a run shows it);*)
(* with a single thread that calls the manager it holds.                   *)

OneCaller == \A c, d \in Callers : c = d

\* A recorder in the hands of start() is still the manager's, and one that was
\* forgotten with its watcher alive is stopped or next in line to be.
ForgottenInv ==
  /\ \A c \in Callers : cpc[c] = "start" => Tracked(target[c])
  /\ \A w \in Watchers : Alive(w) /\ ~Tracked(wrec[w]) =>
       \/ stopEvent[wrec[w]]
       \/ \E c \in Callers : \/ wrec[w] \in todo[c]
                             \/ target[c] = wrec[w] /\ cpc[c] = "signal"

\* A forgotten recorder whose watcher is alive is inside its stop(), before the
\* end of the join, and the join is of exactly this watcher.
ReapInv ==
  /\ \A w \in Watchers : Alive(w) /\ ~Tracked(wrec[w]) =>
       \E c \in Callers : /\ Stopping(c, wrec[w])
                          /\ target[c] = wrec[w] => cpc[c] # "clear"
  /\ \A c \in Callers, w \in Watchers :
       cpc[c] = "join" /\ wrec[w] = target[c] => joinee[c] = w

\* The atexit hook forgets every recorder; nobody is in a call after the end.
PhaseInv ==
  /\ phase # "up" => \A n \in Names : recorders[n] = NoRec
  /\ phase = "gone" => \A c \in Callers : Idle(c)

\* A watcher, ffmpeg or the end of the program set no event and give no watcher
\* a recorder it did not have.
LEMMA OthersKeepWork ==
  ASSUME TypeOK,
         \/ \E w \in Watchers : WatcherStep(w)
         \/ \E p \in Procs : FfmpegExits(p)
         \/ Exit \/ Gone \/ UNCHANGED vars,
         NEW v \in Watchers, Alive(v)'
  PROVE  Alive(v) /\ wrec'[v] = wrec[v] /\ stopEvent' = stopEvent
<1> USE DEF TypeOK, Alive, Step, Return
<1>1. ASSUME NEW w \in Watchers, WatcherStep(w)
      PROVE  Alive(v) /\ wrec'[v] = wrec[v] /\ stopEvent' = stopEvent
  BY <1>1 DEF WatcherStep, CheckLoop, SpawnFails, Spawn, HandOff, SelfTerminate,
     SelfWait, Reap, ExitStopped, ExitClean, ExitFast, ExitOverflow, Retry,
     Backoff, WaitOver, Woken, recVars
<1>2. CASE (\E p \in Procs : FfmpegExits(p)) \/ Exit \/ Gone \/ UNCHANGED vars
  BY <1>2 DEF FfmpegExits, Exit, Gone, vars, recVars, watcherVars
<1> QED
  BY <1>1, <1>2

\* Every step of a single caller keeps what is known of the forgotten recorders.
LEMMA ForgottenStable ==
  ASSUME OneCaller, IInv, ForgottenInv, [Next]_vars
  PROVE  ForgottenInv'
<1> USE DEF TypeOK, IInv, CallerInv, Idle, Goto
<1>1. ASSUME NEW c \in Callers, cpc'[c] = "start"
      PROVE  Tracked(target[c])'
  <2>1. ASSUME NEW n \in Names, LookUp(c, n) \/ Create(c, n)
        PROVE  Tracked(target[c])'
    BY <2>1 DEF LookUp, Create, Tracked
  <2>2. ASSUME Call(c) \/ CallerStep(c), ~(\E n \in Names : LookUp(c, n) \/ Create(c, n))
        PROVE  FALSE
    BY <1>1, <2>2 DEF Call, CallerStep, StopStep, StopRecording, StopAll, AtExit, TakeAll,
       StartRunning, StartThread, Signal, Terminate, Terminated, Kill, Joined,
       JoinTimeout, Clear, callerVars
  <2>3. CASE UNCHANGED <<recorders, callerVars>>
    BY <1>1, <2>3 DEF callerVars, ForgottenInv, Tracked
  <2> QED
    BY <2>1, <2>2, <2>3, OthersKeepCallers DEF Next, OneCaller
<1>2. ASSUME NEW w \in Watchers, Alive(w)', ~Tracked(wrec[w])'
      PROVE  \/ stopEvent'[wrec'[w]]
             \/ \E c \in Callers : \/ wrec'[w] \in todo'[c]
                                   \/ target'[c] = wrec'[w] /\ cpc'[c] = "signal"
  <2> DEFINE Attended == \/ stopEvent'[wrec'[w]]
                         \/ \E c \in Callers : \/ wrec'[w] \in todo'[c]
                                               \/ target'[c] = wrec'[w] /\ cpc'[c] = "signal"
  <2> USE <1>2 DEF Tracked
  <2>1. ASSUME NEW c \in Callers, NEW n \in Names, LookUp(c, n)
        PROVE  Attended
    BY <2>1 DEF LookUp, ForgottenInv, OneCaller, recVars, watcherVars, Alive
  <2>2. ASSUME NEW c \in Callers, NEW n \in Names, Create(c, n)
        PROVE  Attended
    <3>1. PICK r \in Recs : Create(c, n)!4!(r)
      BY <2>2 DEF Create
    <3>2. Alive(w) /\ wrec'[w] = wrec[w] /\ wrec[w] # r /\ wrec[w] \in Recs
      BY <2>2, <3>1 DEF Create, FreeRec, watcherVars, Alive, WatcherInv
    <3>3. ~\E m \in Names : recorders[m] = wrec[w]
      BY <2>2, <3>1, <3>2 DEF Create
    <3> QED
      BY <2>2, <3>1, <3>2, <3>3 DEF Create, ForgottenInv, OneCaller
  <2>3. ASSUME NEW c \in Callers, NEW n \in Names, StopRecording(c, n)
        PROVE  Attended
    BY <2>3 DEF StopRecording, ForgottenInv, OneCaller, recVars, watcherVars, Alive
  <2>4. ASSUME NEW c \in Callers, TakeAll(c)
        PROVE  Attended
    BY <2>4 DEF TakeAll, ForgottenInv, OneCaller, recVars, watcherVars, Alive, WatcherInv
  <2>5. ASSUME NEW c \in Callers, StartRunning(c)
        PROVE  Attended
    BY <2>5 DEF StartRunning, ForgottenInv, OneCaller, recVars, watcherVars, Alive
  <2>6. ASSUME NEW c \in Callers, StartThread(c)
        PROVE  Attended
    <3>1. \E n \in Names : recorders'[n] = target[c]
      BY <2>6 DEF StartThread, ForgottenInv
    <3>2. wrec'[w] = wrec[w] /\ Alive(w) /\ wrec[w] # target[c]
      BY <2>6, <3>1 DEF StartThread, Alive
    <3> QED
      BY <2>6, <3>2 DEF StartThread, ForgottenInv, OneCaller, WatcherInv
  <2>7. ASSUME NEW c \in Callers, Signal(c)
        PROVE  Attended
    <3>1. target[c] \in Recs
      BY <2>7 DEF Signal
    <3>2. Alive(w) /\ wrec'[w] = wrec[w] /\ recorders' = recorders
      BY <2>7 DEF Signal, Alive
    <3> QED
      BY <2>7, <3>1, <3>2 DEF Signal, ForgottenInv, OneCaller, WatcherInv
  <2>8. ASSUME NEW c \in Callers,
               Terminate(c) \/ Terminated(c) \/ Kill(c) \/ Joined(c) \/ JoinTimeout(c)
        PROVE  Attended
    BY <2>8 DEF Terminate, Terminated, Kill, Joined, JoinTimeout, ForgottenInv,
       OneCaller, recVars, watcherVars, Alive
  <2>9. ASSUME NEW c \in Callers, Clear(c)
        PROVE  Attended
    BY <2>9 DEF Clear, ForgottenInv, OneCaller, watcherVars, Alive
  <2>10. ASSUME UNCHANGED <<recorders, callerVars>>, Alive(w), wrec'[w] = wrec[w],
                stopEvent' = stopEvent
         PROVE  Attended
    BY <2>10 DEF ForgottenInv, callerVars
  <2>11. ASSUME NEW c \in Callers, AtExit(c), ~TakeAll(c)
         PROVE  UNCHANGED <<recorders, callerVars>> /\ Alive(w) /\ wrec'[w] = wrec[w]
                /\ stopEvent' = stopEvent
    BY <2>11 DEF AtExit, callerVars, recVars, watcherVars, Alive
  <2> HIDE DEF Attended, TypeOK, IInv, CallerInv, Idle, Goto, Tracked
  <2>12. ASSUME NEW c \in Callers, Call(c) \/ CallerStep(c)
         PROVE  Attended
    <3>1. CASE Call(c)
      BY <2>1, <2>2, <2>3, <2>4, <2>10, <2>11, <3>1 DEF Call, StopAll
    <3>2. CASE CallerStep(c)
      BY <2>5, <2>6, <2>7, <2>8, <2>9, <3>2 DEF CallerStep, StopStep
    <3> QED
      BY <2>12, <3>1, <3>2
  <2>13. ASSUME \/ \E v \in Watchers : WatcherStep(v)
                \/ \E p \in Procs : FfmpegExits(p)
                \/ Exit \/ Gone \/ UNCHANGED vars
         PROVE  Attended
    <3>1. TypeOK
      BY DEF IInv
    <3>2. UNCHANGED <<recorders, callerVars>>
      BY <2>13, OthersKeepCallers
    <3>3. Alive(w) /\ wrec'[w] = wrec[w] /\ stopEvent' = stopEvent
      BY <2>13, <3>1, OthersKeepWork
    <3> QED
      BY <2>10, <3>2, <3>3
  <2>14. Attended
    BY <2>12, <2>13 DEF Next
  <2> QED
    BY <2>14 DEF Attended
<1> QED
  BY <1>1, <1>2 DEF ForgottenInv

\* "Stop and forget the recorder": between two calls of the only caller, the
\* watcher of a recorder that stop_recording or stop_all forgot has its stop
\* event set, however slow its URL resolver is.
THEOREM ForgottenStops == ASSUME OneCaller PROVE Spec => []ForgottenIsStopped
<1>1. Init => ForgottenInv
  BY DEF Init, ForgottenInv, Alive
<1>2. IInv /\ ForgottenInv /\ [Next]_vars => ForgottenInv'
  BY ForgottenStable
<1>3. IInv /\ ForgottenInv => ForgottenIsStopped
  BY DEF IInv, CallerInv, ForgottenInv, ForgottenIsStopped, Idle
<1> QED
  BY <1>1, <1>2, <1>3, Invariance, PTL DEF Spec

-----------------------------------------------------------------------------
(* The end of the program, with a resolver that returns within the join.   *)

\* A watcher whose recorder is forgotten ends inside the stop() that waits for it.
LEMMA ReapStable ==
  ASSUME OneCaller, ~SlowResolver, IInv, ForgottenInv, ReapInv, [Next]_vars
  PROVE  ReapInv'
<1> USE DEF TypeOK, IInv, CallerInv, Idle, Goto
<1>1. ASSUME NEW w \in Watchers, Alive(w)', ~Tracked(wrec[w])'
      PROVE  \E c \in Callers : /\ Stopping(c, wrec[w])'
                                /\ target'[c] = wrec'[w] => cpc'[c] # "clear"
  <2> DEFINE Attended == \E c \in Callers : /\ Stopping(c, wrec[w])'
                                            /\ target'[c] = wrec'[w] => cpc'[c] # "clear"
  <2> USE <1>1 DEF Tracked, Stopping
  <2>1. ASSUME NEW c \in Callers, NEW n \in Names, LookUp(c, n)
        PROVE  Attended
    BY <2>1 DEF LookUp, ReapInv, OneCaller, recVars, watcherVars, Alive
  <2>2. ASSUME NEW c \in Callers, NEW n \in Names, Create(c, n)
        PROVE  Attended
    <3>1. PICK r \in Recs : Create(c, n)!4!(r)
      BY <2>2 DEF Create
    <3>2. Alive(w) /\ wrec'[w] = wrec[w] /\ wrec[w] # r /\ wrec[w] \in Recs
      BY <2>2, <3>1 DEF Create, FreeRec, watcherVars, Alive, WatcherInv
    <3>3. ~\E m \in Names : recorders[m] = wrec[w]
      BY <2>2, <3>1, <3>2 DEF Create
    <3> QED
      BY <2>2, <3>1, <3>2, <3>3 DEF Create, ReapInv, OneCaller
  <2>3. ASSUME NEW c \in Callers, NEW n \in Names, StopRecording(c, n)
        PROVE  Attended
    BY <2>3 DEF StopRecording, ReapInv, OneCaller, recVars, watcherVars, Alive
  <2>4. ASSUME NEW c \in Callers, TakeAll(c)
        PROVE  Attended
    BY <2>4 DEF TakeAll, ReapInv, OneCaller, recVars, watcherVars, Alive, WatcherInv
  <2>5. ASSUME NEW c \in Callers, StartRunning(c)
        PROVE  Attended
    BY <2>5 DEF StartRunning, ReapInv, OneCaller, recVars, watcherVars, Alive
  <2>6. ASSUME NEW c \in Callers, StartThread(c)
        PROVE  Attended
    <3>1. \E n \in Names : recorders'[n] = target[c]
      BY <2>6 DEF StartThread, ForgottenInv
    <3>2. wrec'[w] = wrec[w] /\ Alive(w) /\ wrec[w] # target[c]
      BY <2>6, <3>1 DEF StartThread, Alive
    <3> QED
      BY <2>6, <3>2 DEF StartThread, ReapInv, OneCaller, WatcherInv
  <2>7. ASSUME NEW c \in Callers,
               Signal(c) \/ Terminate(c) \/ Terminated(c) \/ Kill(c)
        PROVE  Attended
    <3>1. Alive(w) /\ wrec'[w] = wrec[w] /\ UNCHANGED <<recorders, target, todo>>
      BY <2>7 DEF Signal, Terminate, Terminated, Kill, Alive, watcherVars
    <3>2. cpc'[c] \in {"terminate", "wait", "join"}
      BY <2>7 DEF Signal, Terminate, Terminated, Kill
    <3> QED
      BY <3>1, <3>2 DEF ReapInv, OneCaller
  <2>8. ASSUME NEW c \in Callers, Joined(c) \/ JoinTimeout(c)
        PROVE  Attended
    <3>1. /\ Alive(w) /\ wrec'[w] = wrec[w] /\ UNCHANGED <<recorders, target, todo>>
          /\ cpc[c] = "join" /\ cpc'[c] = "clear"
          /\ joinee[c] # NoWatcher => ~Alive(joinee[c])
      BY <2>8 DEF Joined, JoinTimeout, Alive, watcherVars
    <3>2. wrec[w] # target[c]
      BY <3>1 DEF ReapInv
    <3> QED
      BY <3>1, <3>2 DEF ReapInv, OneCaller
  <2>9. ASSUME NEW c \in Callers, Clear(c)
        PROVE  Attended
    BY <2>9 DEF Clear, ReapInv, OneCaller, watcherVars, Alive
  <2>10. ASSUME UNCHANGED <<recorders, callerVars>>, Alive(w), wrec'[w] = wrec[w]
         PROVE  Attended
    BY <2>10 DEF ReapInv, callerVars
  <2>11. ASSUME NEW c \in Callers, AtExit(c), ~TakeAll(c)
         PROVE  UNCHANGED <<recorders, callerVars>> /\ Alive(w) /\ wrec'[w] = wrec[w]
    BY <2>11 DEF AtExit, callerVars, watcherVars, Alive
  <2> HIDE DEF Attended, TypeOK, IInv, CallerInv, Idle, Goto, Tracked, Stopping
  <2>12. ASSUME NEW c \in Callers, Call(c) \/ CallerStep(c)
         PROVE  Attended
    <3>1. CASE Call(c)
      BY <2>1, <2>2, <2>3, <2>4, <2>10, <2>11, <3>1 DEF Call, StopAll
    <3>2. CASE CallerStep(c)
      BY <2>5, <2>6, <2>7, <2>8, <2>9, <3>2 DEF CallerStep, StopStep
    <3> QED
      BY <2>12, <3>1, <3>2
  <2>13. ASSUME \/ \E v \in Watchers : WatcherStep(v)
                \/ \E p \in Procs : FfmpegExits(p)
                \/ Exit \/ Gone \/ UNCHANGED vars
         PROVE  Attended
    <3>1. TypeOK
      BY DEF IInv
    <3>2. UNCHANGED <<recorders, callerVars>>
      BY <2>13, OthersKeepCallers
    <3>3. Alive(w) /\ wrec'[w] = wrec[w]
      BY <2>13, <3>1, OthersKeepWork
    <3> QED
      BY <2>10, <3>2, <3>3
  <2>14. Attended
    BY <2>12, <2>13 DEF Next
  <2> QED
    BY <2>14 DEF Attended
<1>2. ASSUME NEW c \in Callers, NEW w \in Watchers, cpc'[c] = "join",
             wrec'[w] = target'[c]
      PROVE  joinee'[c] = w
  <2>1. CASE Terminated(c) \/ Kill(c)
    <3>1. wrec[w] = target[c] /\ target[c] \in Recs /\ joinee'[c] = thread[target[c]]
      BY <1>2, <2>1 DEF Terminated, Kill, watcherVars
    <3>2. Held(target[c])
      BY <2>1, <3>1 DEF Terminated, Kill, Held, Stopping
    <3> QED
      BY <3>1, <3>2 DEF ThreadInv
  <2>2. ASSUME Call(c) \/ CallerStep(c), ~Terminated(c), ~Kill(c), ~(AtExit(c) /\ ~TakeAll(c))
        PROVE  FALSE
    BY <1>2, <2>2 DEF Call, CallerStep, StopStep, LookUp, Create, StopRecording, StopAll,
       AtExit, TakeAll, StartRunning, StartThread, Signal, Terminate, Joined,
       JoinTimeout, Clear
  <2>3. CASE AtExit(c) /\ ~TakeAll(c)
    BY <1>2, <2>3 DEF AtExit, callerVars
  <2>4. ASSUME \/ \E v \in Watchers : WatcherStep(v)
               \/ \E p \in Procs : FfmpegExits(p)
               \/ Exit \/ Gone \/ UNCHANGED vars
        PROVE  joinee'[c] = w
    <3>1. UNCHANGED callerVars
      BY <2>4, OthersKeepCallers
    <3>2. target[c] \in Recs /\ cpc[c] = "join"
      BY <1>2, <3>1 DEF callerVars
    <3>3. wrec[w] = wrec'[w]
      <4>1. ASSUME NEW v \in Watchers, WatcherStep(v)
            PROVE  wrec'[w] \in {wrec[w], NoRec}
        BY <4>1 DEF WatcherStep, CheckLoop, SpawnFails, Spawn, HandOff, SelfTerminate,
           SelfWait, Reap, ExitStopped, ExitClean, ExitFast, ExitOverflow, Retry,
           Backoff, WaitOver, Woken, Return
      <4>2. CASE (\E p \in Procs : FfmpegExits(p)) \/ Exit \/ Gone \/ UNCHANGED vars
        BY <4>2 DEF FfmpegExits, Exit, Gone, vars, watcherVars
      <4> QED
        BY <1>2, <2>4, <3>1, <3>2, <4>1, <4>2, NullAssumption DEF callerVars
    <3> QED
      BY <1>2, <3>1, <3>2, <3>3 DEF callerVars, ReapInv
  <2> QED
    BY <2>1, <2>2, <2>3, <2>4 DEF Next, OneCaller
<1> QED
  BY <1>1, <1>2 DEF ReapInv

\* Once the atexit hook has run nothing is recorded again, and nobody calls when all is gone.
LEMMA PhaseStable == IInv /\ PhaseInv /\ [Next]_vars => PhaseInv'
<1> SUFFICES ASSUME IInv, PhaseInv, [Next]_vars PROVE PhaseInv'
  OBVIOUS
<1> USE DEF PhaseInv, IInv, TypeOK, Idle, Goto
<1>1. ASSUME NEW c \in Callers, Call(c)
      PROVE  PhaseInv'
  BY <1>1 DEF Call, LookUp, Create, StopRecording, StopAll, AtExit, TakeAll, callerVars
<1>2. ASSUME NEW c \in Callers, CallerStep(c)
      PROVE  phase # "gone" /\ UNCHANGED <<recorders, phase>>
  BY <1>2 DEF CallerStep, StopStep, StartRunning, StartThread, Signal, Terminate,
     Terminated, Kill, Joined, JoinTimeout, Clear
<1>3. CASE Exit
  BY <1>3 DEF Exit, callerVars
<1>4. ASSUME \/ \E v \in Watchers : WatcherStep(v)
             \/ \E p \in Procs : FfmpegExits(p)
             \/ Gone \/ UNCHANGED vars
      PROVE  UNCHANGED <<recorders, callerVars, phase>>
  <2>1. UNCHANGED <<recorders, callerVars>>
    BY <1>4, OthersKeepCallers
  <2>2. UNCHANGED phase
    BY <1>4 DEF WatcherStep, CheckLoop, SpawnFails, Spawn, HandOff, SelfTerminate,
       SelfWait, Reap, ExitStopped, ExitClean, ExitFast, ExitOverflow, Retry,
       Backoff, WaitOver, Woken, FfmpegExits, Gone, vars
  <2> QED
    BY <2>1, <2>2
<1>5. ASSUME UNCHANGED <<recorders, callerVars, phase>>
      PROVE  PhaseInv'
  BY <1>5 DEF callerVars
<1> HIDE DEF PhaseInv, IInv, TypeOK, Idle, Goto
<1>6. ASSUME NEW c \in Callers, CallerStep(c)
      PROVE  PhaseInv'
  BY <1>2, <1>6 DEF PhaseInv
<1> QED
  BY <1>1, <1>3, <1>4, <1>5, <1>6 DEF Next

\* "Every camera's ffmpeg child is reaped on shutdown": when one thread calls
\* the manager and its resolver returns before the join gives up, no ffmpeg is
\* left recording when the Python process is gone.
THEOREM Reaped ==
  ASSUME OneCaller, ~SlowResolver
  PROVE  Spec => []ReapedOnShutdown
<1>1. Init => ForgottenInv /\ ReapInv /\ PhaseInv
  BY DEF Init, ForgottenInv, ReapInv, PhaseInv, Alive
<1>2. IInv /\ ForgottenInv /\ ReapInv /\ PhaseInv /\ [Next]_vars
        => ForgottenInv' /\ ReapInv' /\ PhaseInv'
  BY ForgottenStable, ReapStable, PhaseStable
<1>3. IInv /\ ReapInv /\ PhaseInv => ReapedOnShutdown
  <2> SUFFICES ASSUME IInv, ReapInv, PhaseInv, phase = "gone",
                      NEW p \in Procs, Recording(p)
               PROVE  FALSE
    BY DEF ReapedOnShutdown
  <2>1. PICK w \in Watchers : wproc[w] = p
    BY DEF IInv, ProcInv
  <2>2. Alive(w) /\ wrec[w] # NoRec
    BY <2>1, NullAssumption DEF IInv, WatcherInv, Alive
  <2>3. ~Tracked(wrec[w])
    BY <2>2 DEF PhaseInv, Tracked
  <2>4. PICK c \in Callers : Stopping(c, wrec[w])
    BY <2>2, <2>3 DEF ReapInv
  <2> QED
    BY <2>4 DEF PhaseInv, Stopping, Idle, IInv, CallerInv
<1> QED
  BY <1>1, <1>2, <1>3, Invariance, PTL DEF Spec
=============================================================================
