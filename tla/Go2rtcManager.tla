--------------------------- MODULE Go2rtcManager ---------------------------
(***************************************************************************)
(* The one go2rtc process of the application, adapters/go2rtc_manager.py.  *)
(*                                                                         *)
(* ensure_running() spawns go2rtc, or adopts an instance that holds the    *)
(* API port already; start-up is serialised by _start_lock and the wait    *)
(* for the API is outside the state lock _lock.  stop() may run at any     *)
(* time: from the SIGTERM handler, app.on_shutdown, the atexit hook, and   *)
(* from a start that failed.                                               *)
(*                                                                         *)
(* One step is one region under _lock, or one system call or request.      *)
(* The temporary configuration of a child is named by the child, since     *)
(* _proc and _cfg_path are always assigned together.                       *)
(***************************************************************************)
EXTENDS Naturals, FiniteSets

CONSTANTS
  Kids,     \* the identities of go2rtc children
  Callers,  \* the threads that call the manager
  Others,   \* what else may hold the port: a subset of {"external", "foreign"}
  NoKid, NoCaller

ASSUME NullAssumption ==
  /\ NoKid \notin Kids
  /\ NoCaller \notin Callers

ASSUME OthersAssumption ==
  /\ Others \subseteq {"external", "foreign"}
  /\ Kids \cap {"external", "foreign", "nobody"} = {}

VARIABLES
  proc,       \* _proc, and with it _cfg_path
  reusing,    \* _reusing_external
  startLock,  \* the holder of _start_lock
  pc,         \* where a caller is
  kid,        \* the child a caller has in a local variable
  child,      \* the state of a child process
  listener,   \* who holds the API port
  files,      \* the children whose temporary configuration is on disk
  phase       \* whether the Python process is up, in atexit, or gone

managerVars == <<proc, reusing>>
callerVars  == <<pc, kid>>
worldVars   == <<child, listener>>
vars == <<managerVars, startLock, callerVars, worldVars, files, phase>>

\* The places where a caller holds _start_lock.
Starting == {"recheck", "probe", "reach", "adopt", "spawn", "record", "await",
             "abort", "abortterm", "abortwait"}
CallerPC == {"idle", "acquire", "ready", "failed", "term", "wait"} \cup Starting

TypeOK ==
  /\ proc      \in Kids \cup {NoKid}
  /\ reusing   \in BOOLEAN
  /\ startLock \in Callers \cup {NoCaller}
  /\ pc        \in [Callers -> CallerPC]
  /\ kid       \in [Callers -> Kids \cup {NoKid}]
  /\ child     \in [Kids -> {"dead", "alive", "sigterm", "killed"}]
  /\ listener  \in Kids \cup {"nobody", "external", "foreign"}
  /\ files     \in SUBSET Kids
  /\ phase     \in {"up", "atexit", "gone"}

Init ==
  /\ proc = NoKid
  /\ reusing = FALSE
  /\ startLock = NoCaller
  /\ pc = [c \in Callers |-> "idle"]
  /\ kid = [c \in Callers |-> NoKid]
  /\ child = [k \in Kids |-> "dead"]
  /\ listener \in {"nobody"} \cup Others
  /\ files = {}
  /\ phase = "up"

-----------------------------------------------------------------------------
(* State formulae.                                                         *)

\* proc.poll() is None.
Alive(k) == k # NoKid /\ child[k] # "dead"

\* The running property: an adopted instance is never looked at again.
Running == reusing \/ Alive(proc)

\* _api_reachable: any HTTP answer on the port counts as go2rtc's.
Answering == listener \in Kids \cup {"external"}

\* No reference to the child is left: its identity can be taken again.
Free(k) == child[k] = "dead" /\ proc # k /\ \A c \in Callers : kid[c] # k

Idle(c) == pc[c] \in {"idle", "ready", "failed"}

Goto(c, from, to) ==
  /\ phase # "gone"
  /\ pc[c] = from
  /\ pc' = [pc EXCEPT ![c] = to]

\* The end of the with block over _start_lock, by a return.
Release(c, from, to) == Goto(c, from, to) /\ startLock' = NoCaller

-----------------------------------------------------------------------------
(* ensure_running; add_stream begins with it.                              *)

\* The first test, without the lock, finds an instance.
EnsureFast(c) ==
  /\ phase = "up" /\ Idle(c)
  /\ Running
  /\ pc' = [pc EXCEPT ![c] = "ready"]
  /\ UNCHANGED <<managerVars, startLock, kid, worldVars, files, phase>>

EnsureSlow(c) ==
  /\ phase = "up" /\ Idle(c)
  /\ ~Running
  /\ pc' = [pc EXCEPT ![c] = "acquire"]
  /\ UNCHANGED <<managerVars, startLock, kid, worldVars, files, phase>>

\* Slip: nothing serialises the starts.
AcquireUnlocked(c) ==
  /\ Goto(c, "acquire", "recheck")
  /\ startLock' = c
  /\ UNCHANGED <<managerVars, kid, worldVars, files, phase>>

Acquire(c) ==
  /\ startLock = NoCaller
  /\ Goto(c, "acquire", "recheck")
  /\ startLock' = c
  /\ UNCHANGED <<managerVars, kid, worldVars, files, phase>>

\* Another thread has won.
RecheckRunning(c) ==
  /\ Running
  /\ Release(c, "recheck", "ready")
  /\ UNCHANGED <<managerVars, kid, worldVars, files, phase>>

\* Slip: running is not tested again under _start_lock.
RecheckNever(c) ==
  /\ \/ Goto(c, "recheck", "probe") /\ UNCHANGED startLock
     \/ Release(c, "recheck", "failed")
  /\ UNCHANGED <<managerVars, kid, worldVars, files, phase>>

\* Nobody has: the binary is looked up.
RecheckStart(c) ==
  /\ ~Running
  /\ \/ Goto(c, "recheck", "probe") /\ UNCHANGED startLock
     \/ Release(c, "recheck", "failed")
  /\ UNCHANGED <<managerVars, kid, worldVars, files, phase>>

\* _port_free.
Probe(c) ==
  /\ Goto(c, "probe", IF listener = "nobody" THEN "spawn" ELSE "reach")
  /\ UNCHANGED <<managerVars, startLock, kid, worldVars, files, phase>>

\* _api_reachable on a busy port.  A request that is not answered in time ends
\* in a URLError, which means False, or in another exception, which leaves
\* ensure_running.
Reach(c) ==
  /\ \/ Answering /\ Goto(c, "reach", "adopt") /\ UNCHANGED startLock
     \/ Release(c, "reach", "failed")
  /\ UNCHANGED <<managerVars, kid, worldVars, files, phase>>

Adopt(c) ==
  /\ Release(c, "adopt", "ready")
  /\ reusing' = TRUE
  /\ UNCHANGED <<proc, kid, worldVars, files, phase>>

\* The configuration is written and Popen succeeds, or Popen raises OSError
\* and the configuration is unlinked.
Spawn(c) ==
  /\ Goto(c, "spawn", "record")
  /\ \E k \in Kids :
       /\ Free(k)
       /\ kid'   = [kid EXCEPT ![c] = k]
       /\ child' = [child EXCEPT ![k] = "alive"]
       /\ files' = files \cup {k}
  /\ UNCHANGED <<managerVars, startLock, listener, phase>>

SpawnFails(c) ==
  /\ Release(c, "spawn", "failed")
  /\ UNCHANGED <<managerVars, kid, worldVars, files, phase>>

Record(c) ==
  /\ Goto(c, "record", "await")
  /\ proc' = kid[c]
  /\ kid'  = [kid EXCEPT ![c] = NoKid]
  /\ UNCHANGED <<reusing, startLock, worldVars, files, phase>>

\* _wait_for_api: something answers on the port.
AwaitOk(c) ==
  /\ ~(proc # NoKid /\ child[proc] = "dead")
  /\ Answering
  /\ Release(c, "await", "ready")
  /\ UNCHANGED <<managerVars, kid, worldVars, files, phase>>

\* _wait_for_api: the child, as _proc names it now, has exited.
AwaitExited(c) ==
  /\ proc # NoKid /\ child[proc] = "dead"
  /\ Goto(c, "await", "abort")
  /\ UNCHANGED <<managerVars, startLock, kid, worldVars, files, phase>>

\* Slip: the wait has no deadline.
AwaitForever(c) == FALSE

AwaitTimeout(c) ==
  /\ Goto(c, "await", "abort")
  /\ UNCHANGED <<managerVars, startLock, kid, worldVars, files, phase>>

\* Whoever accepts the connection answers too late, or ends: the exception is no
\* URLError and leaves ensure_running, with the child still in _proc.
AwaitRaises(c) ==
  /\ listener # "nobody"
  /\ Release(c, "await", "failed")
  /\ UNCHANGED <<managerVars, kid, worldVars, files, phase>>

-----------------------------------------------------------------------------
(* stop(), called by itself or by a start that failed.                     *)

\* Capture and clear under _lock.  Without a process there is no
\* configuration either and stop() is over.
Capture(c) ==
  /\ proc' = NoKid
  /\ reusing' = FALSE
  /\ kid' = [kid EXCEPT ![c] = proc]
  /\ UNCHANGED <<worldVars, files>>

Stop(c) ==
  /\ phase = "up" /\ Idle(c)
  /\ pc' = [pc EXCEPT ![c] = IF proc = NoKid THEN "idle" ELSE "term"]
  /\ Capture(c)
  /\ UNCHANGED <<startLock, phase>>

\* Slip: a failed start forgets its child instead of stopping it.
AbortForgets(c) ==
  /\ Release(c, "abort", "failed")
  /\ proc' = NoKid
  /\ reusing' = FALSE
  /\ UNCHANGED <<kid, worldVars, files, phase>>

Abort(c) ==
  /\ \/ proc # NoKid /\ Goto(c, "abort", "abortterm") /\ UNCHANGED startLock
     \/ proc = NoKid /\ Release(c, "abort", "failed")
  /\ Capture(c)
  /\ UNCHANGED phase

\* terminate() of a child that may have exited.
Terminate(c, from, to) ==
  /\ Goto(c, from, to)
  /\ child' = [child EXCEPT ![kid[c]] = IF @ = "alive" THEN "sigterm" ELSE @]
  /\ UNCHANGED <<managerVars, startLock, kid, listener, files, phase>>

StopTerminate(c)  == Terminate(c, "term", "wait")
AbortTerminate(c) == Terminate(c, "abortterm", "abortwait")

\* Slip: a child that has exited in time ends stop() before the unlink.
EndedEarly(c) ==
  /\ child' = [child EXCEPT ![kid[c]] = IF @ = "dead" THEN "dead" ELSE "killed"]
  /\ files' = IF child[kid[c]] = "dead" THEN files ELSE files \ {kid[c]}
  /\ kid'   = [kid EXCEPT ![c] = NoKid]
  /\ UNCHANGED <<managerVars, listener, phase>>

\* wait(timeout=5) ends, with a kill() on a timeout; the configuration goes.
Ended(c) ==
  /\ child' = [child EXCEPT ![kid[c]] = IF @ = "dead" THEN "dead" ELSE "killed"]
  /\ files' = files \ {kid[c]}
  /\ kid'   = [kid EXCEPT ![c] = NoKid]
  /\ UNCHANGED <<managerVars, listener, phase>>

StopEnded(c)  == Goto(c, "wait", "idle") /\ Ended(c) /\ UNCHANGED startLock
AbortEnded(c) == Release(c, "abortwait", "failed") /\ Ended(c)

-----------------------------------------------------------------------------
(* The children, the port and the end of the Python process.               *)

\* A child opens its API, even one that was signalled while it booted.
Bind(k) ==
  /\ child[k] # "dead" /\ listener = "nobody"
  /\ listener' = k
  /\ UNCHANGED <<managerVars, startLock, callerVars, child, files, phase>>

\* A child crashes, obeys a signal or is killed.
Die(k) ==
  /\ child[k] # "dead"
  /\ child' = [child EXCEPT ![k] = "dead"]
  /\ listener' = IF listener = k THEN "nobody" ELSE listener
  /\ UNCHANGED <<managerVars, startLock, callerVars, files, phase>>

\* Another program takes the port, or lets go of it.
OtherComes(o) ==
  /\ listener = "nobody"
  /\ listener' = o
  /\ UNCHANGED <<managerVars, startLock, callerVars, child, files, phase>>

OtherGoes(o) ==
  /\ listener = o
  /\ listener' = "nobody"
  /\ UNCHANGED <<managerVars, startLock, callerVars, child, files, phase>>

\* The interpreter has joined the worker threads and runs the atexit hook.
AtExit(c) ==
  /\ phase = "up"
  /\ \A d \in Callers : Idle(d)
  /\ phase' = "atexit"
  /\ pc' = [pc EXCEPT ![c] = IF proc = NoKid THEN "idle" ELSE "term"]
  /\ Capture(c)
  /\ UNCHANGED startLock

Exit ==
  /\ phase = "atexit"
  /\ \A d \in Callers : Idle(d)
  /\ phase' = "gone"
  /\ UNCHANGED <<managerVars, startLock, callerVars, worldVars, files>>

Gone == phase = "gone" /\ UNCHANGED vars

-----------------------------------------------------------------------------
Call(c) == EnsureFast(c) \/ EnsureSlow(c) \/ Stop(c) \/ AtExit(c)

CallerStep(c) ==
  \/ Acquire(c) \/ RecheckRunning(c) \/ RecheckStart(c) \/ Probe(c)
  \/ Reach(c) \/ Adopt(c) \/ Spawn(c) \/ SpawnFails(c) \/ Record(c)
  \/ AwaitOk(c) \/ AwaitExited(c) \/ AwaitTimeout(c) \/ AwaitRaises(c)
  \/ Abort(c) \/ AbortTerminate(c) \/ AbortEnded(c)
  \/ StopTerminate(c) \/ StopEnded(c)

World ==
  \/ \E k \in Kids : Bind(k) \/ Die(k)
  \/ \E o \in Others : OtherComes(o) \/ OtherGoes(o)

Next ==
  \/ \E c \in Callers : Call(c) \/ CallerStep(c)
  \/ World
  \/ Exit
  \/ Gone

Spec == Init /\ [][Next]_vars

\* Threads are scheduled; a thread that waits for _start_lock gets it if the
\* lock becomes free again and again.  A killed child dies.
Fairness ==
  /\ \A c \in Callers : WF_vars(CallerStep(c)) /\ SF_vars(Acquire(c))
  /\ \A k \in Kids : WF_vars(child[k] = "killed" /\ Die(k))

FairSpec == Spec /\ Fairness

-----------------------------------------------------------------------------
(* Safety.                                                                 *)

\* A child that nobody has signalled is the one the manager knows, or a
\* thread has it in its hands, to store it or to terminate it.  A stop() that
\* overtakes a start must not lose the child in between.
Attended(k) ==
  \/ proc = k
  \/ \E c \in Callers : kid[c] = k /\ pc[c] \in {"record", "term", "abortterm"}

NoLeakedChild == \A k \in Kids : child[k] = "alive" => Attended(k)

\* "Concurrent callers never spawn twice": of the children that no stop() is
\* about to terminate, one at most is alive.
Doomed(k) == \E c \in Callers : kid[c] = k /\ pc[c] \in {"term", "abortterm"}

SingleChild ==
  \A j, k \in Kids :
    child[j] = "alive" /\ child[k] = "alive" /\ ~Doomed(j) /\ ~Doomed(k) => j = k

\* "So the go2rtc child is reaped on shutdown": no child survives the program
\* unsignalled, whatever was starting when the shutdown began.
ReapedOnShutdown == phase = "gone" => \A k \in Kids : child[k] # "alive"

\* A thread that waits for the API waits for the child it spawned: as long as
\* one starts, no other thread replaces _proc by another child.
StartIsExclusive ==
  [][\A c \in Callers : pc[c] = "await" /\ proc # NoKid => proc' \in {proc, NoKid}]_vars

\* "Returns True if a usable instance is running afterwards", says
\* ensure_running: a caller for whom the first test returns True at this step
\* has an instance at this step, the manager's child (which may still boot) or
\* something that answers on the port.
ReuseIsUsable ==
  [][\A c \in Callers : pc[c] \in {"idle", "failed"} /\ pc'[c] = "ready" =>
       Alive(proc) \/ Answering]_vars

\* "Reuse an already-running go2rtc": a child of the manager that answers on
\* the port is adopted as a foreign one only when a stop() is ending it.
AdoptsOnlyOthers ==
  [][~reusing /\ reusing' /\ listener \in Kids =>
       /\ listener # proc
       /\ child[listener] = "alive" => Doomed(listener)]_vars

(* Liveness, under FairSpec.                                               *)

\* Every call returns: nobody waits for _start_lock for ever, and the waits
\* for the API and for the child's end have timeouts.
CallsReturn == \A c \in Callers : ~Idle(c) ~> Idle(c)

\* "Terminate the subprocess and remove the temp config", says stop(): the
\* configuration of a child that was signalled goes, whichever thread stops it.
StoppedLeavesNoConfig ==
  \A k \in Kids : child[k] \in {"sigterm", "killed"} ~> k \notin files
-----------------------------------------------------------------------------
(* The inductive invariant behind the safety properties.                   *)

LockInv == \A c \in Callers : startLock = c <=> pc[c] \in Starting

\* The locals of different callers, and _proc, name different children; a
\* child that a stop() waits for has been signalled.
KidInv ==
  /\ \A c \in Callers :
       /\ kid[c] # NoKid <=>
            pc[c] \in {"record", "term", "wait", "abortterm", "abortwait"}
       /\ kid[c] # NoKid => kid[c] # proc
       /\ pc[c] \in {"wait", "abortwait"} => child[kid[c]] # "alive"
  /\ \A c, d \in Callers : kid[c] = kid[d] /\ kid[c] # NoKid => c = d

\* From the second test of running to the moment the new child is stored there
\* is no old one.
StartInv ==
  \A c \in Callers :
    pc[c] \in {"probe", "reach", "adopt", "spawn", "record"} => ~Alive(proc)

\* A child holds the port no longer than it lives.
PortInv == listener \in Kids => child[listener] # "dead"

\* The hook finds no start under way and leaves no child behind.
ExitInv ==
  /\ phase # "up" => proc = NoKid /\ \A c \in Callers :
       pc[c] \in {"idle", "ready", "failed", "term", "wait"}
  /\ phase = "gone" => \A c \in Callers : Idle(c)

IInv ==
  /\ TypeOK /\ LockInv /\ KidInv /\ StartInv /\ PortInv /\ ExitInv
  /\ NoLeakedChild
=============================================================================
