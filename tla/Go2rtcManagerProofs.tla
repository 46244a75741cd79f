------------------------- MODULE Go2rtcManagerProofs -------------------------
(***************************************************************************)
(* Proofs about Go2rtcManager, for any number of children and callers and  *)
(* whatever else may hold the port.                                        *)
(***************************************************************************)
EXTENDS Go2rtcManager, TLAPS

USE NullAssumption, OthersAssumption

-----------------------------------------------------------------------------
(* The type invariant.                                                     *)

\* Every step keeps the types.
LEMMA Typing == TypeOK /\ [Next]_vars => TypeOK'
<1> SUFFICES ASSUME TypeOK, [Next]_vars PROVE TypeOK'
  OBVIOUS
<1> USE DEF TypeOK, CallerPC, Starting, managerVars, callerVars, worldVars, Goto,
            Release
<1>1. ASSUME NEW c \in Callers,
             EnsureFast(c) \/ EnsureSlow(c) \/ Stop(c) \/ AtExit(c)
      PROVE  TypeOK'
  BY <1>1 DEF EnsureFast, EnsureSlow, Stop, AtExit, Capture
<1>2. ASSUME NEW c \in Callers, Acquire(c) \/ RecheckRunning(c) \/ RecheckStart(c)
      PROVE  TypeOK'
  BY <1>2 DEF Acquire, RecheckRunning, RecheckStart
<1>3. ASSUME NEW c \in Callers, Probe(c) \/ Reach(c) \/ Adopt(c)
      PROVE  TypeOK'
  BY <1>3 DEF Probe, Reach, Adopt
<1>4. ASSUME NEW c \in Callers, Spawn(c) \/ SpawnFails(c) \/ Record(c)
      PROVE  TypeOK'
  BY <1>4 DEF Spawn, SpawnFails, Record
<1>5. ASSUME NEW c \in Callers, AwaitOk(c) \/ AwaitExited(c) \/ AwaitTimeout(c) \/ AwaitRaises(c)
      PROVE  TypeOK'
  BY <1>5 DEF AwaitOk, AwaitExited, AwaitTimeout, AwaitRaises
<1>6. ASSUME NEW c \in Callers, Abort(c) \/ AbortTerminate(c) \/ AbortEnded(c)
      PROVE  TypeOK'
  BY <1>6 DEF Abort, AbortTerminate, AbortEnded, Capture, Terminate, Ended
<1>7. ASSUME NEW c \in Callers, StopTerminate(c) \/ StopEnded(c)
      PROVE  TypeOK'
  BY <1>7 DEF StopTerminate, StopEnded, Terminate, Ended
<1>8. CASE World
  BY <1>8 DEF World, Bind, Die, OtherComes, OtherGoes
<1>9. CASE Exit \/ Gone \/ UNCHANGED vars
  BY <1>9 DEF Exit, Gone, vars
<1> QED
  BY <1>1, <1>2, <1>3, <1>4, <1>5, <1>6, <1>7, <1>8, <1>9 DEF Next, Call, CallerStep

-----------------------------------------------------------------------------
(* The lock, the end of the program and the locals of the callers.         *)

\* One thread at most holds _start_lock.
LEMMA LockStable == TypeOK /\ LockInv /\ [Next]_vars => LockInv'
<1> SUFFICES ASSUME TypeOK, LockInv, [Next]_vars PROVE LockInv'
  OBVIOUS
<1> USE DEF TypeOK, LockInv, Starting, Goto, Release
<1>1. ASSUME NEW c \in Callers, Call(c)
      PROVE  LockInv'
  BY <1>1 DEF Call, EnsureFast, EnsureSlow, Stop, AtExit, Idle
<1>2. ASSUME NEW c \in Callers, CallerStep(c)
      PROVE  LockInv'
  BY <1>2 DEF CallerStep, Acquire, RecheckRunning, RecheckStart, Probe, Reach, Adopt,
     Spawn, SpawnFails, Record, AwaitOk, AwaitExited, AwaitTimeout, AwaitRaises, Abort,
     AbortTerminate, AbortEnded, StopTerminate, StopEnded, Terminate
<1>3. CASE World \/ Exit \/ Gone \/ UNCHANGED vars
  BY <1>3 DEF World, Bind, Die, OtherComes, OtherGoes, Exit, Gone, vars, callerVars
<1> QED
  BY <1>1, <1>2, <1>3 DEF Next

\* The shutdown hook meets no start.
LEMMA ExitStable == TypeOK /\ ExitInv /\ [Next]_vars => ExitInv'
<1> SUFFICES ASSUME TypeOK, ExitInv, [Next]_vars PROVE ExitInv'
  OBVIOUS
<1> USE DEF TypeOK, ExitInv, Idle, Goto, Release, managerVars
<1>1. ASSUME NEW c \in Callers, Call(c)
      PROVE  ExitInv'
  BY <1>1 DEF Call, EnsureFast, EnsureSlow, Stop, AtExit, Capture
<1>2. ASSUME NEW c \in Callers, CallerStep(c)
      PROVE  ExitInv'
  BY <1>2 DEF CallerStep, Acquire, RecheckRunning, RecheckStart, Probe, Reach, Adopt,
     Spawn, SpawnFails, Record, AwaitOk, AwaitExited, AwaitTimeout, AwaitRaises, Abort, Capture,
     AbortTerminate, AbortEnded, StopTerminate, StopEnded, Terminate, Ended
<1>3. CASE World \/ Exit \/ Gone \/ UNCHANGED vars
  BY <1>3 DEF World, Bind, Die, OtherComes, OtherGoes, Exit, Gone, vars, callerVars
<1> QED
  BY <1>1, <1>2, <1>3 DEF Next

\* Locals and _proc name different children.
LEMMA KidStable == TypeOK /\ KidInv /\ [Next]_vars => KidInv'
<1> SUFFICES ASSUME TypeOK, KidInv, [Next]_vars PROVE KidInv'
  OBVIOUS
<1> USE DEF TypeOK, KidInv, Goto, Release, managerVars, worldVars
<1>1. ASSUME NEW c \in Callers, EnsureFast(c) \/ EnsureSlow(c)
      PROVE  KidInv'
  BY <1>1 DEF EnsureFast, EnsureSlow, Idle
<1>2. ASSUME NEW c \in Callers, Stop(c) \/ AtExit(c)
      PROVE  KidInv'
  BY <1>2 DEF Stop, AtExit, Capture, Idle
<1>3. ASSUME NEW c \in Callers,
             \/ Acquire(c) \/ RecheckRunning(c) \/ RecheckStart(c) \/ Probe(c)
             \/ Reach(c) \/ Adopt(c) \/ SpawnFails(c)
             \/ AwaitOk(c) \/ AwaitExited(c) \/ AwaitTimeout(c) \/ AwaitRaises(c)
      PROVE  KidInv'
  BY <1>3 DEF Acquire, RecheckRunning, RecheckStart, Probe, Reach, Adopt, SpawnFails,
     AwaitOk, AwaitExited, AwaitTimeout, AwaitRaises
<1>4. ASSUME NEW c \in Callers, Spawn(c)
      PROVE  KidInv'
  BY <1>4 DEF Spawn, Free
<1>5. ASSUME NEW c \in Callers, Record(c)
      PROVE  KidInv'
  BY <1>5 DEF Record
<1>6. ASSUME NEW c \in Callers, Abort(c)
      PROVE  KidInv'
  BY <1>6 DEF Abort, Capture
<1>7. ASSUME NEW c \in Callers, AbortTerminate(c) \/ StopTerminate(c)
      PROVE  KidInv'
  BY <1>7 DEF AbortTerminate, StopTerminate, Terminate
<1>8. ASSUME NEW c \in Callers, AbortEnded(c) \/ StopEnded(c)
      PROVE  KidInv'
  BY <1>8 DEF AbortEnded, StopEnded, Ended
<1>9. CASE World \/ Exit \/ Gone \/ UNCHANGED vars
  BY <1>9 DEF World, Bind, Die, OtherComes, OtherGoes, Exit, Gone, vars, callerVars
<1> QED
  BY <1>1, <1>2, <1>3, <1>4, <1>5, <1>6, <1>7, <1>8, <1>9 DEF Next, Call, CallerStep

-----------------------------------------------------------------------------
(* One start at a time, and no child without somebody to attend to it.     *)

\* No old child is alive while a new one is on its way to _proc.
LEMMA StartStable == TypeOK /\ LockInv /\ StartInv /\ [Next]_vars => StartInv'
<1> SUFFICES ASSUME TypeOK, LockInv, StartInv, [Next]_vars PROVE StartInv'
  OBVIOUS
<1> USE DEF TypeOK, LockInv, Starting, StartInv, Alive, Goto, Release, managerVars,
            worldVars
<1>1. ASSUME NEW c \in Callers, Call(c)
      PROVE  StartInv'
  BY <1>1 DEF Call, EnsureFast, EnsureSlow, Stop, AtExit, Capture, Idle
<1>2. ASSUME NEW c \in Callers,
             \/ Acquire(c) \/ RecheckRunning(c) \/ Probe(c) \/ Reach(c) \/ Adopt(c)
             \/ SpawnFails(c) \/ AwaitOk(c) \/ AwaitExited(c) \/ AwaitTimeout(c) \/ AwaitRaises(c)
      PROVE  StartInv'
  BY <1>2 DEF Acquire, RecheckRunning, Probe, Reach, Adopt, SpawnFails, AwaitOk,
     AwaitExited, AwaitTimeout, AwaitRaises
<1>3. ASSUME NEW c \in Callers, RecheckStart(c)
      PROVE  StartInv'
  BY <1>3 DEF RecheckStart, Running
<1>4. ASSUME NEW c \in Callers, Spawn(c)
      PROVE  StartInv'
  BY <1>4 DEF Spawn, Free
<1>5. ASSUME NEW c \in Callers, Record(c)
      PROVE  StartInv'
  BY <1>5 DEF Record
<1>6. ASSUME NEW c \in Callers, Abort(c)
      PROVE  StartInv'
  BY <1>6 DEF Abort, Capture
<1>7. ASSUME NEW c \in Callers,
             AbortTerminate(c) \/ AbortEnded(c) \/ StopTerminate(c) \/ StopEnded(c)
      PROVE  StartInv'
  BY <1>7 DEF AbortTerminate, AbortEnded, StopTerminate, StopEnded, Terminate, Ended
<1>8. CASE World \/ Exit \/ Gone \/ UNCHANGED vars
  BY <1>8 DEF World, Bind, Die, OtherComes, OtherGoes, Exit, Gone, vars, callerVars
<1> QED
  BY <1>1, <1>2, <1>3, <1>4, <1>5, <1>6, <1>7, <1>8 DEF Next, Call, CallerStep

\* A child holds the port no longer than it lives.
LEMMA PortStable == TypeOK /\ PortInv /\ [Next]_vars => PortInv'
<1> SUFFICES ASSUME TypeOK, PortInv, [Next]_vars PROVE PortInv'
  OBVIOUS
<1> USE OthersAssumption DEF TypeOK, PortInv, Goto, Release, worldVars
<1>1. ASSUME NEW c \in Callers, Call(c)
      PROVE  PortInv'
  BY <1>1 DEF Call, EnsureFast, EnsureSlow, Stop, AtExit, Capture
<1>2. ASSUME NEW c \in Callers,
             \/ Acquire(c) \/ RecheckRunning(c) \/ RecheckStart(c) \/ Probe(c)
             \/ Reach(c) \/ Adopt(c) \/ SpawnFails(c) \/ Record(c)
             \/ AwaitOk(c) \/ AwaitExited(c) \/ AwaitTimeout(c) \/ AwaitRaises(c) \/ Abort(c)
      PROVE  PortInv'
  BY <1>2 DEF Acquire, RecheckRunning, RecheckStart, Probe, Reach, Adopt, SpawnFails,
     Record, AwaitOk, AwaitExited, AwaitTimeout, AwaitRaises, Abort, Capture
<1>3. ASSUME NEW c \in Callers, Spawn(c)
      PROVE  PortInv'
  BY <1>3 DEF Spawn
<1>4. ASSUME NEW c \in Callers,
             AbortTerminate(c) \/ AbortEnded(c) \/ StopTerminate(c) \/ StopEnded(c)
      PROVE  PortInv'
  BY <1>4 DEF AbortTerminate, AbortEnded, StopTerminate, StopEnded, Terminate, Ended
<1>5. CASE World \/ Exit \/ Gone \/ UNCHANGED vars
  BY <1>5 DEF World, Bind, Die, OtherComes, OtherGoes, Exit, Gone, vars
<1> QED
  BY <1>1, <1>2, <1>3, <1>4, <1>5 DEF Next, CallerStep

\* No step loses a child.
LEMMA AttendedStable == IInv /\ [Next]_vars => NoLeakedChild'
<1> SUFFICES ASSUME IInv, [Next]_vars, NEW k \in Kids, child'[k] = "alive"
             PROVE  \/ proc' = k
                    \/ \E c \in Callers : kid'[c] = k
                         /\ pc'[c] \in {"record", "term", "abortterm"}
  BY DEF NoLeakedChild, Attended
<1> DEFINE Goal == \/ proc' = k
                   \/ \E c \in Callers : kid'[c] = k
                        /\ pc'[c] \in {"record", "term", "abortterm"}
<1> USE DEF IInv, TypeOK, NoLeakedChild, Attended, Goto, Release, managerVars, worldVars
<1>1. ASSUME NEW c \in Callers, EnsureFast(c) \/ EnsureSlow(c)
      PROVE  Goal
  BY <1>1 DEF EnsureFast, EnsureSlow, Idle
<1>2. ASSUME NEW c \in Callers, Stop(c) \/ AtExit(c)
      PROVE  Goal
  BY <1>2 DEF Stop, AtExit, Capture, Idle
<1>3. ASSUME NEW c \in Callers,
             \/ Acquire(c) \/ RecheckRunning(c) \/ RecheckStart(c) \/ Probe(c)
             \/ Reach(c) \/ Adopt(c) \/ SpawnFails(c)
             \/ AwaitOk(c) \/ AwaitExited(c) \/ AwaitTimeout(c) \/ AwaitRaises(c)
      PROVE  Goal
  BY <1>3 DEF Acquire, RecheckRunning, RecheckStart, Probe, Reach, Adopt, SpawnFails,
     AwaitOk, AwaitExited, AwaitTimeout, AwaitRaises
<1>4. ASSUME NEW c \in Callers, Spawn(c)
      PROVE  Goal
  BY <1>4 DEF Spawn
\* The child that _proc named has exited: StartInv.
<1>5. ASSUME NEW c \in Callers, Record(c)
      PROVE  Goal
  BY <1>5 DEF Record, StartInv, Alive
<1>6. ASSUME NEW c \in Callers, Abort(c)
      PROVE  Goal
  BY <1>6 DEF Abort, Capture
<1>7. ASSUME NEW c \in Callers, AbortTerminate(c) \/ StopTerminate(c)
      PROVE  Goal
  BY <1>7 DEF AbortTerminate, StopTerminate, Terminate
<1>8. ASSUME NEW c \in Callers, AbortEnded(c) \/ StopEnded(c)
      PROVE  Goal
  BY <1>8 DEF AbortEnded, StopEnded, Ended
<1>9. ASSUME World \/ Exit \/ Gone \/ UNCHANGED vars
      PROVE  Goal
  BY <1>9 DEF World, Bind, Die, OtherComes, OtherGoes, Exit, Gone, vars, callerVars
<1> HIDE DEF Goal, IInv, TypeOK, Goto, Release
<1>10. Goal
  BY <1>1, <1>2, <1>3, <1>4, <1>5, <1>6, <1>7, <1>8, <1>9 DEF Next, Call, CallerStep
<1> QED
  BY <1>10 DEF Goal

-----------------------------------------------------------------------------
(* The inductive invariant and what follows from it.                       *)

\* IInv holds in every reachable state.
THEOREM Invariance == Spec => []IInv
<1>1. Init => IInv
  BY DEF Init, IInv, TypeOK, CallerPC, Starting, LockInv, KidInv, StartInv, ExitInv,
     PortInv, NoLeakedChild, Idle, Alive
<1>2. IInv /\ [Next]_vars => IInv'
  BY Typing, LockStable, KidStable, StartStable, PortStable, ExitStable,
     AttendedStable DEF IInv
<1> QED
  BY <1>1, <1>2, PTL DEF Spec

\* Every live child is known to the manager or in the hands of a thread that is
\* about to store it or to terminate it.
THEOREM NoLeak == Spec => []NoLeakedChild
<1>1. IInv => NoLeakedChild
  BY DEF IInv
<1> QED
  BY <1>1, Invariance, PTL

\* However many threads call ensure_running, there is one child at most that
\* nobody is about to terminate.
THEOREM Single == Spec => []SingleChild
<1>1. IInv => SingleChild
  BY DEF IInv, TypeOK, NoLeakedChild, Attended, SingleChild, Doomed, StartInv, Alive,
     LockInv, Starting
<1> QED
  BY <1>1, Invariance, PTL

\* No child survives the program unsignalled.
THEOREM Reaped == Spec => []ReapedOnShutdown
<1>1. IInv => ReapedOnShutdown
  BY DEF IInv, TypeOK, NoLeakedChild, Attended, ReapedOnShutdown, ExitInv, Idle
<1> QED
  BY <1>1, Invariance, PTL

\* While a thread waits for its child, no other thread stores another one.
THEOREM Exclusive == Spec => StartIsExclusive
<1>1. ASSUME IInv, [Next]_vars, NEW c \in Callers, pc[c] = "await", proc # NoKid
      PROVE  proc' \in {proc, NoKid}
  <2>1. \A d \in Callers : ~Record(d)
    BY <1>1 DEF IInv, TypeOK, LockInv, Starting, Record, Goto
  <2> QED
    BY <1>1, <2>1 DEF Next, Call, EnsureFast, EnsureSlow, Stop, AtExit, CallerStep,
       Acquire, RecheckRunning, RecheckStart, Probe, Reach, Adopt, Spawn, SpawnFails,
       AwaitOk, AwaitExited, AwaitTimeout, AwaitRaises, Abort, AbortTerminate, AbortEnded,
       StopTerminate, StopEnded, Terminate, Ended, Capture, World, Bind, Die,
       OtherComes, OtherGoes, Exit, Gone, vars, managerVars
<1>2. IInv /\ [Next]_vars =>
        [\A c \in Callers : pc[c] = "await" /\ proc # NoKid =>
           proc' \in {proc, NoKid}]_vars
  BY <1>1
<1> QED
  BY <1>2, Invariance, PTL DEF Spec, StartIsExclusive

\* What is adopted is not a child that the manager still holds.
THEOREM AdoptsOthers == Spec => AdoptsOnlyOthers
<1>1. ASSUME IInv, [Next]_vars, ~reusing, reusing', listener \in Kids
      PROVE  listener # proc /\ (child[listener] = "alive" => Doomed(listener))
  <2>1. PICK c \in Callers : Adopt(c)
    BY <1>1 DEF Next, Call, EnsureFast, EnsureSlow, Stop, AtExit, CallerStep,
       Acquire, RecheckRunning, RecheckStart, Probe, Reach, Spawn, SpawnFails, Record,
       AwaitOk, AwaitExited, AwaitTimeout, AwaitRaises, Abort, AbortTerminate, AbortEnded,
       StopTerminate, StopEnded, Terminate, Ended, Capture, World, Bind, Die,
       OtherComes, OtherGoes, Exit, Gone, vars, managerVars
  <2> QED
    <3>1. pc[c] = "adopt"
      BY <2>1 DEF Adopt, Release, Goto
    <3>2. ~Alive(proc) /\ child[listener] # "dead"
      BY <1>1, <3>1 DEF IInv, StartInv, PortInv
    <3>3. \A d \in Callers : pc[d] # "record"
      BY <1>1, <3>1 DEF IInv, TypeOK, LockInv, Starting
    <3> QED
      BY <1>1, <3>2, <3>3, NullAssumption
      DEF IInv, NoLeakedChild, Attended, Doomed, Alive
<1>2. IInv /\ [Next]_vars =>
        [~reusing /\ reusing' /\ listener \in Kids =>
           /\ listener # proc
           /\ child[listener] = "alive" => Doomed(listener)]_vars
  BY <1>1
<1> QED
  BY <1>2, Invariance, PTL DEF Spec, AdoptsOnlyOthers
=============================================================================
