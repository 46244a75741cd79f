--------------------------- MODULE LiveViewProofs ---------------------------
(***************************************************************************)
(* Proofs about LiveView, for any number of pages, cameras and sessions:   *)
(* first for impatient users and a go2rtc that crashes and refuses, then   *)
(* what a patient user of one tab can rely on.                             *)
(***************************************************************************)
EXTENDS LiveView, FiniteSetTheorems, TLAPS

USE ViewAssumption

-----------------------------------------------------------------------------
(* The type invariant.                                                     *)

\* A run of _setup_live keeps the types.
LEMMA SetUpTyping ==
  ASSUME TypeOK, NEW s \in Sessions, NEW v \in Views, NEW q \in Qualities,
         SetUp(s, v, q)
  PROVE  /\ loaded'  \in [Views -> BOOLEAN]
         /\ current' \in [Views -> Sessions \cup {NoSession}]
         /\ players' \in [Views -> SUBSET Sessions]
         /\ pc'      \in [Sessions -> {"none", "live", "snapshot"} \cup SetupPC \cup RefreshPC]
         /\ got'     \in [Sessions -> Qualities \cup {NoSource}]
<1>1. /\ loaded'  \in [Views -> BOOLEAN]
      /\ players' \in [Views -> SUBSET Sessions]
  BY DEF TypeOK, SetUp
<1>2. CASE loaded[v]
  BY <1>1, <1>2 DEF TypeOK, SetUp, SetupPC, StartPC
<1>3. CASE ~loaded[v]
  BY <1>1, <1>3 DEF TypeOK, SetUp, SetupPC
<1> QED
  BY <1>2, <1>3

\* Every step keeps the types.
LEMMA Typing == TypeOK /\ [Next]_vars => TypeOK'
<1> SUFFICES ASSUME TypeOK, [Next]_vars PROVE TypeOK'
  OBVIOUS
<1> USE DEF TypeOK, SetupPC, StartPC, RefreshPC, pageVars, sessionVars
<1>1. ASSUME NEW v \in Views, NEW s \in Sessions, Open(v, s)
      PROVE  TypeOK'
  BY <1>1 DEF Open, NewRun
<1>2. ASSUME NEW v \in Views, NEW q \in Qualities, NEW s \in Sessions,
             ChangeQuality(v, q, s)
      PROVE  TypeOK'
  <2>1. /\ page' \in [Views -> {"new", "open", "closed"}]
        /\ quality' \in [Views -> Qualities] /\ viewOf' \in [Sessions -> Views]
        /\ handlers' \subseteq Sessions
        /\ streams' \in [Cameras -> Qualities \cup {NoSource}] /\ orphans' \subseteq Cameras
    BY <1>2 DEF ChangeQuality, NewRun
  <2>2. active' \in [Sessions -> BOOLEAN] /\ removing' \subseteq Sessions
    BY <1>2 DEF ChangeQuality, StopAll
  <2>3. CASE current[v] \in Sessions /\ active[current[v]]
    BY <1>2, <2>1, <2>2, <2>3 DEF ChangeQuality
  <2>4. CASE ~(current[v] \in Sessions /\ active[current[v]])
    <3>1. SetUp(s, v, q) /\ UNCHANGED victim
      BY <1>2, <2>4 DEF ChangeQuality
    <3>2. UNCHANGED victim
      BY <3>1
    <3> QED
      BY <2>1, <2>2, <3>1, <3>2, SetUpTyping
  <2> QED
    BY <2>3, <2>4
<1>3. ASSUME NEW v \in Views, Close(v)
      PROVE  TypeOK'
  BY <1>3 DEF Close, StopAll
<1>4. ASSUME NEW s \in Sessions, FirstRun(s) \/ Rebuild(s)
      PROVE  TypeOK'
  <2>1. SetUp(s, viewOf[s], quality[viewOf[s]])
    BY <1>4 DEF FirstRun, Rebuild
  <2>2. /\ UNCHANGED <<page, quality, viewOf, active, handlers, removing, streams, orphans>>
        /\ victim' \in [Sessions -> Sessions \cup {NoSession}]
    BY <1>4 DEF FirstRun, Rebuild
  <2>3. quality[viewOf[s]] \in Qualities /\ viewOf[s] \in Views
    OBVIOUS
  <2> QED
    BY <2>1, <2>2, <2>3, SetUpTyping
<1>5. ASSUME NEW s \in Sessions,
             NeverRun(s) \/ Begin(s) \/ Mount(s) \/ MountRaises(s) \/ FallBack(s)
      PROVE  TypeOK'
  <2>1. CASE NeverRun(s) \/ FallBack(s)
    BY <2>1 DEF NeverRun, FallBack
  <2>2. CASE MountRaises(s)
    BY <2>2 DEF MountRaises
  <2>3. CASE Begin(s)
    BY <2>3 DEF Begin
  <2>4. CASE Mount(s)
    BY <2>4 DEF Mount
  <2> QED
    BY <1>5, <2>1, <2>2, <2>3, <2>4
<1>6. ASSUME NEW s \in Sessions,
             Resolved(s) \/ Put(s) \/ Verify(s) \/ VerifyFails(s) \/ Refresh(s)
      PROVE  TypeOK'
  BY <1>6 DEF Resolved, Put, Verify, VerifyFails, Refresh, Camera
<1>12. ASSUME NEW s \in Sessions, PutFails(s)
      PROVE  TypeOK'
  BY <1>12 DEF PutFails, Camera
<1>7. ASSUME NEW s \in Sessions, Remove(s) \/ RemoveFails(s)
      PROVE  TypeOK'
  BY <1>7 DEF Remove, RemoveFails, Camera
<1>13. ASSUME NEW s \in Sessions, RemoveRaises(s)
      PROVE  TypeOK'
  BY <1>13 DEF RemoveRaises, Camera
<1>8. CASE Crash \/ UNCHANGED vars
  BY <1>8 DEF Crash, vars
<1> HIDE DEF TypeOK
<1> QED
  BY <1>1, <1>2, <1>3, <1>4, <1>5, <1>6, <1>7, <1>8, <1>12, <1>13
     DEF Next, User, SessionStep

-----------------------------------------------------------------------------
(* The steps preserve the invariant about removals.                        *)

\* Only Mount makes a session active, from a place where nothing removes it;
\* only a session that is active begins to be removed.
LEMMA RemovingStable == TypeOK /\ RemovingIsStopped /\ [Next]_vars => RemovingIsStopped'
<1> SUFFICES ASSUME TypeOK, RemovingIsStopped, [Next]_vars PROVE RemovingIsStopped'
  OBVIOUS
<1> USE DEF TypeOK, RemovingIsStopped, SetupPC, StartPC, RefreshPC, pageVars,
            sessionVars
<1>1. ASSUME NEW v \in Views, NEW s \in Sessions, Open(v, s)
      PROVE  RemovingIsStopped'
  BY <1>1 DEF Open, NewRun, Free, Resting
<1>2. ASSUME NEW v \in Views, NEW q \in Qualities, NEW s \in Sessions,
             ChangeQuality(v, q, s)
      PROVE  RemovingIsStopped'
  <2>1. \A t \in Sessions : t # s => pc'[t] = pc[t]
    BY <1>2 DEF ChangeQuality, SetUp
  <2>2. ~active[s] /\ s \notin removing
    BY <1>2 DEF ChangeQuality, NewRun, Free, Resting
  <2> QED
    BY <1>2, <2>1, <2>2 DEF ChangeQuality, StopAll
<1>3. ASSUME NEW v \in Views, Close(v)
      PROVE  RemovingIsStopped'
  BY <1>3 DEF Close, StopAll
<1>4. ASSUME NEW s \in Sessions, FirstRun(s) \/ Rebuild(s)
      PROVE  RemovingIsStopped'
  BY <1>4 DEF FirstRun, Rebuild, SetUp
<1>5. ASSUME NEW s \in Sessions,
             NeverRun(s) \/ Begin(s) \/ Mount(s) \/ MountRaises(s) \/ FallBack(s)
      PROVE  RemovingIsStopped'
  BY <1>5 DEF NeverRun, Begin, Mount, MountRaises, FallBack
<1>6. ASSUME NEW s \in Sessions,
             Resolved(s) \/ Put(s) \/ Verify(s) \/ VerifyFails(s) \/ Refresh(s)
      PROVE  RemovingIsStopped'
  BY <1>6 DEF Resolved, Put, Verify, VerifyFails, Refresh
<1>12. ASSUME NEW s \in Sessions, PutFails(s)
      PROVE  RemovingIsStopped'
  BY <1>12 DEF PutFails
<1>13. ASSUME NEW s \in Sessions, RemoveRaises(s)
      PROVE  RemovingIsStopped'
  BY <1>13 DEF RemoveRaises
<1>7. ASSUME NEW s \in Sessions, Remove(s) \/ RemoveFails(s)
      PROVE  RemovingIsStopped'
  BY <1>7 DEF Remove, RemoveFails
<1>8. CASE Crash \/ UNCHANGED vars
  BY <1>8 DEF Crash, vars
<1> HIDE DEF TypeOK, RemovingIsStopped
<1> QED
  BY <1>1, <1>2, <1>3, <1>4, <1>5, <1>6, <1>7, <1>8, <1>12, <1>13
     DEF Next, User, SessionStep

-----------------------------------------------------------------------------
(* The inductive invariant and what follows from it.                       *)

\* IInv holds in every reachable state.
THEOREM Invariance == Spec => []IInv
<1>1. Init => IInv
  BY DEF Init, IInv, TypeOK, SetupPC, StartPC, RemovingIsStopped
<1>2. IInv /\ [Next]_vars => IInv'
  BY Typing, RemovingStable DEF IInv
<1> QED
  BY <1>1, <1>2, PTL DEF Spec

\* Every variable has its type.
THEOREM TypeCorrectness == Spec => []TypeOK
  BY Invariance, PTL DEF IInv

\* Nothing removes the stream of a session that starts or is active on that
\* session's behalf.
THEOREM Removing == Spec => []RemovingIsStopped
  BY Invariance, PTL DEF IInv

-----------------------------------------------------------------------------
(* A patient user with one tab, and a go2rtc that keeps its streams.       *)

Patient == Tabs <= 1 /\ ~Overlap /\ ~Faults

Busy(s) == pc[s] \in SetupPC \cup RefreshPC

OneTab == \A v, w \in Views : page[v] = "open" /\ page[w] = "open" => v = w

\* One coroutine is under way at most, for the page that is open.  A run finds no session active
\* and, unless it still waits for a stop(), a page without a player; a refresh finds its own.
BusyIsAlone ==
  \A s \in Sessions : Busy(s) =>
    /\ page[viewOf[s]] = "open"
    /\ \A t \in Sessions : Busy(t) => t = s
    /\ \A t \in removing : pc[s] = "stopping" /\ victim[s] = t
    /\ pc[s] \in SetupPC => \A t \in Sessions : ~active[t]
    /\ pc[s] \in RefreshPC => active[s]
    /\ pc[s] \in StartPC => current[viewOf[s]] = s
    /\ pc[s] \in SetupPC \ {"stopping"} => players[viewOf[s]] = {}

\* One stream is being removed at most, and then no session is active.
RemovedAlone ==
  \A s \in removing : /\ \A t \in removing : t = s
                      /\ \A t \in Sessions : ~active[t]

\* An active session is the one of the page that is open.
ActiveIsShown ==
  \A s \in Sessions : active[s] =>
    /\ s \in handlers
    /\ page[viewOf[s]] = "open" /\ current[viewOf[s]] = s
    /\ pc[s] \in {"live"} \cup RefreshPC

\* A player belongs to an active session, but while a quality change waits for its stop().
ShownIsActive ==
  \A v \in Views :
    /\ page[v] # "open" => players[v] = {}
    /\ \A s \in players[v] :
         /\ players[v] = {s}
         /\ \/ active[s] /\ viewOf[s] = v
            \/ \E t \in Sessions : pc[t] = "stopping" /\ viewOf[t] = v

\* go2rtc has no stream but that of a session which is active, about to be, or being removed,
\* and those that a start() has left which reported a failure.
StreamIsOwned ==
  \A m \in Cameras \ orphans : streams[m] # NoSource =>
    \E s \in Sessions : /\ Camera(s) = m
                        /\ active[s] \/ s \in removing \/ pc[s] \in {"verify", "ok"}

\* What was registered and what is about to be registered has the quality that is selected.
StreamIsSelected ==
  \A s \in Sessions :
    /\ active[s] \/ pc[s] \in {"verify", "ok"} => streams[Camera(s)] = quality[viewOf[s]]
    /\ pc[s] \in {"resolve", "put", "resolve2", "put2"} => got[s] = quality[viewOf[s]]

PatientInv == /\ OneTab /\ BusyIsAlone /\ RemovedAlone /\ ActiveIsShown
              /\ ShownIsActive /\ StreamIsOwned /\ StreamIsSelected

\* Before the first page there is nothing to be wrong.
LEMMA PatientInit == Init => PatientInv
  BY DEF Init, PatientInv, OneTab, BusyIsAlone, Busy, SetupPC, StartPC, RefreshPC, RemovedAlone,
         ActiveIsShown, ShownIsActive, StreamIsOwned, StreamIsSelected

\* The page that is open is the only one, and when it opens there was none.
LEMMA OneTabStable ==
  ASSUME Patient, OneTab, TypeOK, [Next]_vars
  PROVE  OneTab'
<1> USE DEF OneTab
<1>1. ASSUME NEW v \in Views, NEW s \in Sessions, Open(v, s)
      PROVE  OneTab'
  <2> DEFINE E == {w \in Views : page[w] = "open"}
  <2>1. ASSUME NEW w \in Views, page[w] = "open"
        PROVE  FALSE
    <3>1. E = {w}
      BY <2>1
    <3>2. Cardinality(E) = 1
      BY <3>1, FS_Singleton
    <3>3. Cardinality(E) < Tabs
      BY <1>1 DEF Open
    <3> QED
      BY <3>2, <3>3 DEF Patient
  <2> QED
    BY <1>1, <2>1 DEF Open, TypeOK
<1>2. ASSUME NEW v \in Views, Close(v)
      PROVE  OneTab'
  BY <1>2 DEF Close, TypeOK
<1>3. CASE UNCHANGED page
  BY <1>3
<1> QED
  BY <1>1, <1>2, <1>3 DEF Next, User, SessionStep, vars, pageVars, Crash,
     ChangeQuality, FirstRun, NeverRun, Rebuild, Begin, Mount, MountRaises, FallBack, Resolved,
     Put, PutFails, Verify, VerifyFails, Refresh, Remove, RemoveFails, RemoveRaises

\* With nothing active, nothing removed and nothing registered, go2rtc has no stream that is owned.
LEMMA NothingRegistered ==
  ASSUME StreamIsOwned, removing = {}, \A t \in Sessions : ~active[t],
         \A t \in Sessions : pc[t] \notin {"verify", "ok"}
  PROVE  \A m \in Cameras \ orphans : streams[m] = NoSource
  BY DEF StreamIsOwned

\* With nothing active and no run waiting, no page has a player.
LEMMA NothingShown ==
  ASSUME TypeOK, ShownIsActive, NEW v \in Views,
         \A t \in Sessions : ~active[t],
         \A t \in Sessions : viewOf[t] = v => pc[t] # "stopping"
  PROVE  players[v] = {}
<1>1. ASSUME NEW t \in players[v]
      PROVE  FALSE
  <2>1. t \in Sessions
    BY <1>1 DEF TypeOK
  <2> QED
    BY <1>1, <2>1, Zenon DEF ShownIsActive
<1> QED
  BY <1>1

\* A page opens: nothing is under way, nothing is active, and it has no player.
LEMMA PatientOpen ==
  ASSUME Patient, PatientInv, TypeOK, NEW v \in Views, NEW s \in Sessions, Open(v, s), OneTab'
  PROVE  PatientInv'
<1>1. /\ page[v] = "new" /\ Free(s) /\ Quiet
      /\ viewOf' = [viewOf EXCEPT ![s] = v] /\ handlers' = handlers \ {s}
      /\ page' = [page EXCEPT ![v] = "open"] /\ pc' = [pc EXCEPT ![s] = "timer"]
      /\ UNCHANGED <<quality, loaded, current, players, victim, got, active, removing, streams, orphans>>
  BY DEF Open, NewRun, Patient
<1>2. \A t \in Sessions : ~active[t]
  <2>1. \A w \in Views : page[w] # "open"
    <3>1. ASSUME NEW w \in Views, page[w] = "open"
          PROVE  FALSE
      <4>1. page'[w] = "open" /\ page'[v] = "open"
        BY <1>1, <3>1 DEF TypeOK
      <4> QED
        BY <1>1, <3>1, <4>1 DEF OneTab
    <3> QED
      BY <3>1
  <2> QED
    BY <2>1 DEF PatientInv, ActiveIsShown, TypeOK
<1>3. removing = {} /\ \A t \in Sessions : ~Busy(t)
  BY <1>1 DEF Quiet, Resting, TypeOK, Busy, SetupPC, StartPC, RefreshPC
<1>4. players[v] = {}
  BY <1>1 DEF PatientInv, ShownIsActive
<1>5. /\ viewOf'[s] = v /\ page'[v] = "open" /\ pc'[s] = "timer" /\ ~Busy(s)
      /\ \A t \in Sessions \ {s} : pc'[t] = pc[t] /\ viewOf'[t] = viewOf[t] /\ Busy(t)' = Busy(t)
  BY <1>1, <1>3 DEF TypeOK, Busy
<1>6. BusyIsAlone'
  BY <1>1, <1>2, <1>3, <1>4, <1>5 DEF BusyIsAlone, SetupPC, StartPC, RefreshPC
<1>7. RemovedAlone' /\ ActiveIsShown'
  BY <1>1, <1>2, <1>3 DEF RemovedAlone, ActiveIsShown
<1>8. ShownIsActive'
  <2>1. \A t \in Sessions : pc[t] # "stopping"
    BY <1>3 DEF Busy, SetupPC
  <2>2. \A w \in Views : players[w] = {}
    BY <1>2, <2>1, NothingShown DEF PatientInv
  <2>3. \A w \in Views : players'[w] = {}
    BY <1>1, <2>2
  <2> QED
    BY <2>3 DEF ShownIsActive
<1>9. \A m \in Cameras \ orphans : streams'[m] = NoSource
  BY <1>1, <1>2, <1>3 DEF PatientInv, StreamIsOwned, Busy, SetupPC, StartPC
<1>10. StreamIsOwned'
  BY <1>1, <1>9 DEF StreamIsOwned
<1>11. StreamIsSelected'
  <2>1. \A t \in Sessions : pc'[t] \notin {"verify", "ok", "resolve", "put", "resolve2", "put2"}
    BY <1>3, <1>5 DEF Busy, SetupPC, StartPC, RefreshPC
  <2> QED
    BY <1>1, <1>2, <2>1 DEF StreamIsSelected
<1> QED
  BY <1>6, <1>7, <1>8, <1>10, <1>11 DEF PatientInv

\* What SetUp leaves: the run of s goes on and the page of v has no player.
LEMMA SetUpEffect ==
  ASSUME TypeOK, NEW s \in Sessions, NEW v \in Views, NEW q \in Qualities, SetUp(s, v, q)
  PROVE  /\ players' = [players EXCEPT ![v] = {}]
         /\ pc'[s] \in {"resolve", "status"} /\ \A t \in Sessions \ {s} : pc'[t] = pc[t]
         /\ \A w \in Views \ {v} : current'[w] = current[w]
         /\ pc'[s] = "resolve" => current'[v] = s /\ got'[s] = q
         /\ \A t \in Sessions \ {s} : got'[t] = got[t]
<1>1. CASE loaded[v]
  BY <1>1 DEF SetUp, TypeOK
<1>2. CASE ~loaded[v]
  BY <1>2 DEF SetUp, TypeOK
<1> QED
  BY <1>1, <1>2

\* A run begins for the page that is open, and nothing else is under way or registered: that is
\* all that is left of the invariant.
LEMMA PatientRun ==
  ASSUME NEW s \in Sessions, NEW v \in Views,
         OneTab', page'[v] = "open", viewOf'[s] = v, UNCHANGED <<streams, orphans>>,
         viewOf' \in [Sessions -> Views], CameraOf \in [Views -> Cameras],
         removing' = {}, \A t \in Sessions : ~active'[t],
         \A t \in Sessions \ {s} : ~Busy(t)',
         pc'[s] \in {"resolve", "status"},
         pc'[s] = "resolve" => current'[v] = s /\ got'[s] = quality'[v],
         \A w \in Views : players'[w] = {},
         \A m \in Cameras \ orphans : streams[m] = NoSource
  PROVE  PatientInv'
<1> USE DEF Busy, SetupPC, StartPC, RefreshPC
<1>1. BusyIsAlone'
  BY DEF BusyIsAlone
<1>2. RemovedAlone' /\ ActiveIsShown' /\ ShownIsActive' /\ StreamIsOwned'
  BY DEF RemovedAlone, ActiveIsShown, ShownIsActive, StreamIsOwned
<1>3. StreamIsSelected'
  BY DEF StreamIsSelected
<1> QED
  BY <1>1, <1>2, <1>3 DEF PatientInv

\* The run that the page waits for, or a rebuild, goes on to SetUp.
LEMMA PatientSetUp ==
  ASSUME Patient, PatientInv, TypeOK, NEW s \in Sessions, FirstRun(s) \/ Rebuild(s), OneTab'
  PROVE  PatientInv'
<1> DEFINE v == viewOf[s]
<1>1. /\ pc[s] \in {"timer", "stopping"}
      /\ pc[s] = "stopping" => victim[s] \notin removing
      /\ SetUp(s, v, quality[v])
      /\ UNCHANGED <<page, quality, viewOf, active, removing, streams, orphans>>
  BY DEF FirstRun, Rebuild
<1>2. v \in Views /\ quality[v] \in Qualities
  BY DEF TypeOK
<1>3. /\ page[v] = "open"
      /\ \A t \in Sessions \ {s} : ~Busy(t)
      /\ \A t \in Sessions : ~active[t]
      /\ \A t \in removing : pc[s] = "stopping" /\ victim[s] = t
  BY <1>1 DEF PatientInv, BusyIsAlone, Busy, SetupPC
<1>4. removing = {}
  BY <1>1, <1>3
<1>5. /\ players' = [players EXCEPT ![v] = {}]
      /\ pc'[s] \in {"resolve", "status"} /\ \A t \in Sessions \ {s} : pc'[t] = pc[t]
      /\ pc'[s] = "resolve" => current'[v] = s /\ got'[s] = quality[v]
  BY <1>1, <1>2, SetUpEffect
<1>6. \A m \in Cameras \ orphans : streams[m] = NoSource
  <2>1. \A t \in Sessions : pc[t] \notin {"verify", "ok"}
    BY <1>1, <1>3 DEF Busy, SetupPC, StartPC
  <2> QED
    BY <1>3, <1>4, <2>1, NothingRegistered DEF PatientInv
<1>7. \A w \in Views : players'[w] = {}
  <2>1. ASSUME NEW w \in Views, w # v
        PROVE  players'[w] = {}
    <3>1. \A t \in Sessions : viewOf[t] = w => pc[t] # "stopping"
      BY <1>1, <1>3, <2>1 DEF Busy, SetupPC
    <3>2. players[w] = {}
      BY <1>3, <3>1, NothingShown DEF PatientInv
    <3> QED
      BY <1>5, <2>1, <3>2 DEF TypeOK
  <2>2. players'[v] = {}
    BY <1>2, <1>5 DEF TypeOK
  <2> QED
    BY <2>1, <2>2
<1>8. \A t \in Sessions \ {s} : ~Busy(t)'
  BY <1>3, <1>5 DEF Busy
<1> QED
  BY <1>1, <1>2, <1>3, <1>4, <1>5, <1>6, <1>7, <1>8, PatientRun DEF TypeOK

\* The user chooses a quality while nothing is under way: either the session of the page is
\* stopped first, or there is none.
LEMMA PatientQuality ==
  ASSUME Patient, PatientInv, TypeOK, NEW v \in Views, NEW q \in Qualities, NEW s \in Sessions,
         ChangeQuality(v, q, s), OneTab'
  PROVE  PatientInv'
<1>1. /\ page[v] = "open" /\ Free(s) /\ Quiet
      /\ viewOf' = [viewOf EXCEPT ![s] = v] /\ handlers' = handlers \ {s}
      /\ quality' = [quality EXCEPT ![v] = q]
      /\ StopAll({current[v]} \cap Sessions)
      /\ UNCHANGED <<page, streams, orphans>>
  BY DEF ChangeQuality, NewRun, Patient
<1>2. removing = {} /\ \A t \in Sessions : ~Busy(t)
  BY <1>1 DEF Quiet, Resting, TypeOK, Busy, SetupPC, StartPC, RefreshPC
<1>3. \A t \in Sessions : active[t] => t = current[v] /\ viewOf[t] = v /\ t # s
  BY <1>1 DEF PatientInv, ActiveIsShown, OneTab, TypeOK, Free
<1>4. \A t \in Sessions : ~active'[t]
  BY <1>1, <1>3 DEF StopAll, TypeOK
<1>5. viewOf'[s] = v /\ viewOf' \in [Sessions -> Views]
  BY <1>1 DEF TypeOK
<1>6. quality'[v] = q
  BY <1>1 DEF TypeOK
<1>7. CASE current[v] \in Sessions /\ active[current[v]]
  <2> DEFINE c == current[v]
  <2>1. /\ pc' = [pc EXCEPT ![s] = "stopping"] /\ victim' = [victim EXCEPT ![s] = c]
        /\ UNCHANGED <<loaded, current, players, got>>
    BY <1>7 DEF ChangeQuality
  <2>2. c \in Sessions /\ active[c] /\ viewOf[c] = v /\ c # s /\ removing' = {c}
    BY <1>1, <1>2, <1>3, <1>7 DEF StopAll
  <2>3. /\ pc'[s] = "stopping" /\ victim'[s] = c
        /\ \A t \in Sessions \ {s} : pc'[t] = pc[t] /\ ~Busy(t)' /\ viewOf'[t] = viewOf[t]
    BY <1>1, <1>2, <2>1 DEF TypeOK, Busy
  <2>4. BusyIsAlone'
    BY <1>1, <1>4, <1>5, <2>2, <2>3 DEF BusyIsAlone, SetupPC, StartPC, RefreshPC
  <2>5. RemovedAlone' /\ ActiveIsShown'
    BY <1>4, <2>2 DEF RemovedAlone, ActiveIsShown
  <2>6. ShownIsActive'
    <3>1. ASSUME NEW w \in Views, NEW t \in players[w]
          PROVE  /\ players[w] = {t}
                 /\ w = v
      <4>1. \A u \in Sessions : pc[u] # "stopping"
        BY <1>2 DEF Busy, SetupPC
      <4>2. players[w] = {t} /\ active[t] /\ viewOf[t] = w /\ t \in Sessions
        BY <3>1, <4>1 DEF PatientInv, ShownIsActive, TypeOK
      <4> QED
        BY <1>3, <4>2
    <3>2. \A w \in Views : page[w] # "open" => players[w] = {}
      BY DEF PatientInv, ShownIsActive
    <3> QED
      BY <1>1, <1>5, <2>1, <2>3, <3>1, <3>2 DEF ShownIsActive
  <2>7. StreamIsOwned'
    <3>1. ASSUME NEW m \in Cameras \ orphans, streams[m] # NoSource
          PROVE  CameraOf[viewOf'[c]] = m
      <4>1. PICK t \in Sessions : /\ Camera(t) = m
                                  /\ active[t] \/ t \in removing \/ pc[t] \in {"verify", "ok"}
        BY <3>1 DEF PatientInv, StreamIsOwned
      <4>2. t = c
        BY <1>2, <1>3, <4>1 DEF Busy, SetupPC, StartPC
      <4>3. viewOf'[c] = viewOf[c]
        BY <2>2, <2>3
      <4> QED
        BY <4>1, <4>2, <4>3 DEF Camera
    <3>2. c \in Sessions /\ c \in removing'
      BY <2>2
    <3>3. UNCHANGED <<streams, orphans>>
      BY <1>1
    <3> HIDE DEF c
    <3> QED
      BY <3>1, <3>2, <3>3 DEF StreamIsOwned, Camera
  <2>8. StreamIsSelected'
    <3>1. \A t \in Sessions : pc'[t] \notin {"verify", "ok", "resolve", "put", "resolve2", "put2"}
      BY <2>3 DEF Busy, SetupPC, StartPC, RefreshPC
    <3> QED
      BY <1>4, <3>1 DEF StreamIsSelected
  <2> QED
    BY <2>4, <2>5, <2>6, <2>7, <2>8 DEF PatientInv
<1>8. CASE ~(current[v] \in Sessions /\ active[current[v]])
  <2>1. SetUp(s, v, q)
    BY <1>8 DEF ChangeQuality
  <2>2. \A t \in Sessions : ~active[t]
    BY <1>3, <1>8
  <2>3. removing' = {}
    BY <1>1, <1>2, <2>2 DEF StopAll
  <2>4. /\ players' = [players EXCEPT ![v] = {}]
        /\ pc'[s] \in {"resolve", "status"} /\ \A t \in Sessions \ {s} : pc'[t] = pc[t]
        /\ pc'[s] = "resolve" => current'[v] = s /\ got'[s] = q
    BY <2>1, SetUpEffect
  <2>5. \A t \in Sessions : pc[t] \notin {"verify", "ok", "stopping"}
    BY <1>2 DEF Busy, SetupPC, StartPC
  <2>6. \A m \in Cameras \ orphans : streams[m] = NoSource
    BY <1>2, <2>2, <2>5, NothingRegistered DEF PatientInv
  <2>7. \A w \in Views : players'[w] = {}
    <3>1. \A w \in Views : players[w] = {}
      BY <2>2, <2>5, NothingShown DEF PatientInv
    <3> QED
      BY <2>4, <3>1 DEF TypeOK
  <2>8. \A t \in Sessions \ {s} : ~Busy(t)'
    BY <1>2, <2>4 DEF Busy
  <2> QED
    BY <1>1, <1>4, <1>5, <1>6, <2>3, <2>4, <2>6, <2>7, <2>8, PatientRun
<1> QED
  BY <1>7, <1>8

\* The page closes while nothing is under way: its session is stopped.
LEMMA PatientClose ==
  ASSUME Patient, PatientInv, TypeOK, NEW v \in Views, Close(v), OneTab'
  PROVE  PatientInv'
<1>1. /\ page[v] = "open" /\ Quiet
      /\ page' = [page EXCEPT ![v] = "closed"]
      /\ players' = [players EXCEPT ![v] = {}]
      /\ StopAll(handlers)
      /\ UNCHANGED <<quality, current, pc, viewOf, got, handlers, streams, orphans>>
  BY DEF Close, Patient
<1>2. removing = {} /\ \A t \in Sessions : ~Busy(t)
  BY <1>1 DEF Quiet, Resting, TypeOK, Busy, SetupPC, StartPC, RefreshPC
<1>3. \A t \in Sessions : ~active'[t]
  BY <1>1 DEF PatientInv, ActiveIsShown, StopAll
<1>4. \A t \in Sessions : active[t] <=> t \in removing'
  BY <1>1, <1>2 DEF PatientInv, ActiveIsShown, StopAll, TypeOK
<1>5. \A t, u \in Sessions : active[t] /\ active[u] => t = u
  BY DEF PatientInv, ActiveIsShown, OneTab, TypeOK
<1>6. \A t \in Sessions : pc'[t] \notin SetupPC \cup RefreshPC
  BY <1>1, <1>2 DEF Busy
<1>7. BusyIsAlone' /\ ActiveIsShown'
  <2>1. \A t \in Sessions : ~Busy(t)'
    BY <1>6 DEF Busy
  <2> QED
    BY <1>3, <2>1 DEF BusyIsAlone, ActiveIsShown
<1>8. RemovedAlone'
  <2>1. removing' \subseteq Sessions
    BY <1>1, <1>2 DEF StopAll, TypeOK
  <2> QED
    BY <1>3, <1>4, <1>5, <2>1 DEF RemovedAlone
<1>9. ShownIsActive'
  <2>1. \A w \in Views : players'[w] = {}
    <3>1. \A w \in Views \ {v} : page[w] # "open"
      BY <1>1 DEF PatientInv, OneTab
    <3> QED
      BY <1>1, <3>1 DEF PatientInv, ShownIsActive, TypeOK
  <2> QED
    BY <2>1 DEF ShownIsActive
<1>10. StreamIsOwned'
  <2>1. \A t \in Sessions : pc[t] \notin {"verify", "ok"}
    BY <1>2 DEF Busy, SetupPC, StartPC
  <2>2. \A t \in Sessions : Camera(t)' = Camera(t)
    BY <1>1 DEF Camera
  <2>3. UNCHANGED <<streams, orphans>>
    BY <1>1
  <2> QED
    BY <1>2, <1>4, <2>1, <2>2, <2>3 DEF PatientInv, StreamIsOwned
<1>11. StreamIsSelected'
  BY <1>3, <1>6 DEF StreamIsSelected, SetupPC, StartPC, RefreshPC
<1> QED
  BY <1>7, <1>8, <1>9, <1>10, <1>11 DEF PatientInv

\* The status has come: the session is made.
LEMMA PatientBegin ==
  ASSUME Patient, PatientInv, TypeOK, NEW s \in Sessions, Begin(s)
  PROVE  PatientInv'
<1> DEFINE v == viewOf[s]
<1>1. /\ pc[s] = "status"
      /\ pc' = [pc EXCEPT ![s] = "resolve"] /\ current' = [current EXCEPT ![v] = s]
      /\ got' = [got EXCEPT ![s] = quality[v]]
      /\ UNCHANGED <<page, quality, players, viewOf, victim, active, handlers, removing, streams, orphans>>
  BY DEF Begin
<1>2. Busy(s) /\ v \in Views
  BY <1>1 DEF Busy, SetupPC, TypeOK
<1>3. /\ page[v] = "open" /\ players[v] = {} /\ removing = {}
      /\ \A t \in Sessions \ {s} : ~Busy(t)
      /\ \A t \in Sessions : ~active[t]
  BY <1>1, <1>2 DEF PatientInv, BusyIsAlone, SetupPC
<1>4. /\ pc'[s] = "resolve" /\ current'[v] = s /\ got'[s] = quality[v]
      /\ \A t \in Sessions \ {s} : pc'[t] = pc[t] /\ ~Busy(t)'
  BY <1>1, <1>2, <1>3 DEF TypeOK, Busy
<1>5. \A t \in Sessions : pc[t] \notin {"verify", "ok", "stopping"}
  BY <1>1, <1>3 DEF Busy, SetupPC, StartPC
<1>6. \A m \in Cameras \ orphans : streams[m] = NoSource
  BY <1>3, <1>5, NothingRegistered DEF PatientInv
<1>7. \A w \in Views : players'[w] = {}
  BY <1>1, <1>3, <1>5, NothingShown DEF PatientInv
<1>8. OneTab'
  BY <1>1 DEF PatientInv, OneTab
<1> QED
  BY <1>1, <1>2, <1>3, <1>4, <1>6, <1>7, <1>8, PatientRun DEF TypeOK

\* start() has returned: the session becomes active, alone, for the page that is open.
LEMMA PatientMount ==
  ASSUME Patient, PatientInv, TypeOK, NEW s \in Sessions, Mount(s)
  PROVE  PatientInv'
<1> DEFINE v == viewOf[s]
<1>1. /\ pc[s] = "ok"
      /\ pc' = [pc EXCEPT ![s] = "live"] /\ active' = [active EXCEPT ![s] = TRUE]
      /\ players' = [players EXCEPT ![v] = @ \cup {s}] /\ handlers' = handlers \cup {s}
      /\ UNCHANGED <<page, quality, current, viewOf, victim, got, removing, streams, orphans>>
  BY DEF Mount
<1>2. Busy(s) /\ v \in Views
  BY <1>1 DEF Busy, SetupPC, StartPC, TypeOK
<1>3. /\ page[v] = "open" /\ players[v] = {} /\ removing = {} /\ current[v] = s
      /\ \A t \in Sessions \ {s} : ~Busy(t)
      /\ \A t \in Sessions : ~active[t]
  BY <1>1, <1>2 DEF PatientInv, BusyIsAlone, SetupPC, StartPC
<1>4. /\ pc'[s] = "live" /\ active'[s] /\ players'[v] = {s}
      /\ \A t \in Sessions \ {s} : pc'[t] = pc[t] /\ ~active'[t]
      /\ \A t \in Sessions : pc'[t] \notin SetupPC \cup RefreshPC
  BY <1>1, <1>2, <1>3 DEF TypeOK, Busy, SetupPC, StartPC, RefreshPC
<1>5. \A w \in Views \ {v} : players'[w] = {}
  <2>1. \A t \in Sessions : pc[t] # "stopping"
    BY <1>1, <1>3 DEF Busy, SetupPC
  <2>2. \A w \in Views : players[w] = {}
    BY <1>3, <2>1, NothingShown DEF PatientInv
  <2> QED
    BY <1>1, <2>2 DEF TypeOK
<1>6. OneTab' /\ BusyIsAlone' /\ RemovedAlone'
  BY <1>1, <1>3, <1>4 DEF PatientInv, OneTab, BusyIsAlone, Busy, RemovedAlone
<1>7. ActiveIsShown'
  BY <1>1, <1>3, <1>4 DEF ActiveIsShown
<1>8. ShownIsActive'
  BY <1>1, <1>2, <1>3, <1>4, <1>5 DEF ShownIsActive
<1>9. StreamIsOwned'
  <2>1. ASSUME NEW m \in Cameras \ orphans, streams[m] # NoSource
        PROVE  Camera(s) = m
    BY <1>1, <1>3, <2>1 DEF PatientInv, StreamIsOwned, Busy, SetupPC, StartPC
  <2> QED
    BY <1>1, <1>4, <2>1 DEF StreamIsOwned, Camera
<1>10. StreamIsSelected'
  <2>1. streams[Camera(s)] = quality[v]
    BY <1>1 DEF PatientInv, StreamIsSelected
  <2> QED
    BY <1>1, <1>4, <2>1 DEF StreamIsSelected, Camera, SetupPC, StartPC, RefreshPC
<1> QED
  BY <1>6, <1>7, <1>8, <1>9, <1>10 DEF PatientInv

\* A start() or a refresh() goes on without a request that changes go2rtc.
LEMMA PatientMove ==
  ASSUME PatientInv, TypeOK, NEW s \in Sessions, NEW x,
         pc' = [pc EXCEPT ![s] = x],
         \/ pc[s] \in {"resolve", "put", "verify", "fail"} /\ x \in {"fail", "none", "snapshot"}
         \/ pc[s] = "resolve" /\ x = "put"
         \/ pc[s] = "verify" /\ x = "ok"
         \/ pc[s] \in RefreshPC /\ x = "live"
         \/ pc[s] = "resolve2" /\ x = "put2",
         UNCHANGED <<page, quality, current, players, viewOf, victim, got, active, handlers,
                     removing, streams>>,
         orphans \subseteq orphans',
         pc[s] = "verify" => x = "ok" \/ streams[Camera(s)] = NoSource \/ Camera(s) \in orphans'
  PROVE  PatientInv'
<1>1. /\ pc'[s] = x
      /\ \A t \in Sessions \ {s} : pc'[t] = pc[t] /\ Busy(t)' = Busy(t)
      /\ \A t \in Sessions : Camera(t)' = Camera(t)
  BY DEF TypeOK, Busy, Camera
<1>2. /\ Busy(s)
      /\ pc[s] \in StartPC => x \in StartPC \cup {"none", "snapshot"}
      /\ pc[s] \in RefreshPC => x \in RefreshPC \cup {"live"}
      /\ pc[s] \in StartPC \cup RefreshPC
  BY DEF Busy, SetupPC, StartPC, RefreshPC
<1>3. \A t \in Sessions \ {s} : ~Busy(t)
  BY <1>2 DEF PatientInv, BusyIsAlone
<1>4. BusyIsAlone'
  <2>1. ASSUME Busy(s)'
        PROVE  /\ pc'[s] \in StartPC => pc[s] \in StartPC
               /\ pc'[s] \in RefreshPC => pc[s] \in RefreshPC
               /\ pc'[s] \in StartPC \cup RefreshPC
    BY <1>1, <1>2, <2>1 DEF Busy, SetupPC, StartPC, RefreshPC
  <2>2. removing = {} /\ page[viewOf[s]] = "open"
    BY <1>2 DEF PatientInv, BusyIsAlone, StartPC, RefreshPC
  <2> QED
    BY <1>1, <1>2, <1>3, <2>1, <2>2 DEF PatientInv, BusyIsAlone, SetupPC, StartPC, RefreshPC
<1>5. OneTab' /\ RemovedAlone'
  BY DEF PatientInv, OneTab, RemovedAlone
<1>6. ActiveIsShown'
  <2>1. active[s] => pc[s] \in RefreshPC
    BY <1>2 DEF PatientInv, BusyIsAlone, SetupPC
  <2> QED
    BY <1>1, <1>2, <2>1 DEF PatientInv, ActiveIsShown
<1>7. ShownIsActive'
  <2>1. \A t \in Sessions : pc'[t] = "stopping" <=> pc[t] = "stopping"
    BY <1>1 DEF StartPC, RefreshPC
  <2> QED
    BY <2>1 DEF PatientInv, ShownIsActive
<1>8. StreamIsOwned'
  <2>1. pc[s] \in {"verify", "ok"} =>
          pc'[s] = "ok" \/ streams[Camera(s)] = NoSource \/ Camera(s) \in orphans'
    BY <1>1 DEF RefreshPC
  <2>2. ASSUME NEW m \in Cameras \ orphans', streams[m] # NoSource
        PROVE  \E t \in Sessions : /\ Camera(t)' = m
                                   /\ active'[t] \/ t \in removing' \/ pc'[t] \in {"verify", "ok"}
    <3>1. PICK t \in Sessions : /\ Camera(t) = m
                                /\ active[t] \/ t \in removing \/ pc[t] \in {"verify", "ok"}
      BY <2>2 DEF PatientInv, StreamIsOwned
    <3>2. t = s => active[s] \/ s \in removing \/ pc'[s] = "ok"
      BY <2>1, <2>2, <3>1
    <3> QED
      BY <1>1, <3>1, <3>2
  <2> QED
    BY <2>2 DEF StreamIsOwned
<1>9. StreamIsSelected'
  <2>1. /\ pc'[s] \in {"verify", "ok"} => pc[s] = "verify"
        /\ pc'[s] \in {"resolve", "put", "resolve2", "put2"} => pc[s] \in {"resolve", "resolve2"}
    BY <1>1
  <2> QED
    BY <1>1, <2>1 DEF PatientInv, StreamIsSelected
<1> QED
  BY <1>4, <1>5, <1>6, <1>7, <1>8, <1>9 DEF PatientInv

\* go2rtc takes a PUT: it registers what was resolved for the selection, whether or not
\* add_stream gets to know.
LEMMA PatientRegister ==
  ASSUME PatientInv, TypeOK, NEW s \in Sessions, NEW x,
         \/ pc[s] = "put" /\ x \in {"verify", "fail", "none"}
         \/ pc[s] = "put2" /\ x \in {"verify2", "live"},
         pc' = [pc EXCEPT ![s] = x],
         streams' = [streams EXCEPT ![Camera(s)] = got[s]],
         orphans \subseteq orphans' \cup {Camera(s)},
         x \in {"fail", "none"} => Camera(s) \in orphans',
         UNCHANGED <<page, quality, current, players, viewOf, victim, got, active, handlers,
                     removing>>
  PROVE  PatientInv'
<1>1. /\ \/ pc[s] = "put" /\ x \in {"verify", "fail", "none"}
         \/ pc[s] = "put2" /\ x \in {"verify2", "live"}
      /\ streams' = [streams EXCEPT ![Camera(s)] = got[s]]
      /\ UNCHANGED <<page, quality, current, players, viewOf, victim, got, active, handlers,
                     removing>>
  OBVIOUS
<1>2. /\ \A t \in Sessions \ {s} : pc'[t] = pc[t] /\ Busy(t)' = Busy(t)
      /\ \A t \in Sessions : Camera(t)' = Camera(t)
      /\ pc'[s] = x /\ Busy(s)
      /\ x \in StartPC => pc[s] \in StartPC
      /\ x \in RefreshPC => pc[s] \in RefreshPC
      /\ x \in {"verify", "fail", "none", "verify2", "live"}
  BY <1>1 DEF TypeOK, Busy, Camera, SetupPC, StartPC, RefreshPC
<1>3. /\ \A t \in Sessions \ {s} : ~Busy(t)
      /\ removing = {}
      /\ pc[s] = "put2" => active[s]
      /\ pc[s] = "put" => \A t \in Sessions : ~active[t]
  BY <1>1, <1>2 DEF PatientInv, BusyIsAlone, SetupPC, StartPC, RefreshPC
<1>4. /\ got[s] = quality[viewOf[s]] /\ Camera(s) \in Cameras
      /\ streams'[Camera(s)] = quality[viewOf[s]]
      /\ \A m \in Cameras \ {Camera(s)} : streams'[m] = streams[m]
  BY <1>1 DEF PatientInv, StreamIsSelected, Camera, TypeOK
<1>5. BusyIsAlone'
  BY <1>1, <1>2, <1>3 DEF PatientInv, BusyIsAlone, SetupPC, StartPC, RefreshPC
<1>6. OneTab' /\ RemovedAlone'
  BY <1>1 DEF PatientInv, OneTab, RemovedAlone
<1>7. ActiveIsShown'
  BY <1>1, <1>2, <1>3 DEF PatientInv, ActiveIsShown, RefreshPC
<1>8. ShownIsActive'
  <2>1. \A t \in Sessions : pc'[t] = "stopping" <=> pc[t] = "stopping"
    BY <1>1, <1>2
  <2> QED
    BY <1>1, <2>1 DEF PatientInv, ShownIsActive
<1>9. StreamIsOwned'
  <2>1. active'[s] \/ pc'[s] = "verify" \/ Camera(s) \in orphans'
    BY <1>1, <1>2, <1>3
  <2>2. ASSUME NEW m \in Cameras \ orphans', m # Camera(s), streams'[m] # NoSource
        PROVE  \E t \in Sessions : /\ Camera(t)' = m
                                   /\ active'[t] \/ t \in removing' \/ pc'[t] \in {"verify", "ok"}
    <3>1. PICK t \in Sessions : /\ Camera(t) = m
                                /\ active[t] \/ t \in removing \/ pc[t] \in {"verify", "ok"}
      BY <1>4, <2>2 DEF PatientInv, StreamIsOwned
    <3>2. t # s
      BY <2>2, <3>1
    <3> QED
      BY <1>1, <1>2, <3>1, <3>2
  <2> QED
    BY <1>2, <2>1, <2>2 DEF StreamIsOwned
<1>10. StreamIsSelected'
  <2>2. pc'[s] \notin {"resolve", "put", "resolve2", "put2"}
    BY <1>2
  <2>1. \A t \in Sessions \ {s} : /\ ~active'[t]
                                  /\ pc'[t] \notin {"verify", "ok", "resolve", "put", "resolve2", "put2"}
    <3>1. ASSUME NEW t \in Sessions, active[t], t # s
          PROVE  FALSE
      <4>1. active[s] /\ pc[s] = "put2"
        BY <1>1, <1>3, <3>1
      <4> QED
        BY <3>1, <4>1 DEF PatientInv, ActiveIsShown, OneTab, TypeOK
    <3> QED
      BY <1>1, <1>2, <1>3, <3>1 DEF Busy, SetupPC, StartPC, RefreshPC
  <2> QED
    BY <1>1, <1>2, <1>4, <2>1, <2>2 DEF StreamIsSelected
<1> QED
  BY <1>5, <1>6, <1>7, <1>8, <1>9, <1>10 DEF PatientInv

\* The refresh of the active session begins.
LEMMA PatientRefresh ==
  ASSUME PatientInv, TypeOK, NEW s \in Sessions, Refresh(s)
  PROVE  PatientInv'
<1>1. /\ pc[s] = "live" /\ page[viewOf[s]] = "open" /\ active[s]
      /\ pc' = [pc EXCEPT ![s] = "resolve2"]
      /\ got' = [got EXCEPT ![s] = quality[viewOf[s]]]
      /\ UNCHANGED <<page, quality, current, players, viewOf, victim, active, handlers, removing,
                     streams, orphans>>
  BY DEF Refresh, pageVars
<1>2. /\ pc'[s] = "resolve2" /\ got'[s] = quality[viewOf[s]]
      /\ \A t \in Sessions \ {s} : pc'[t] = pc[t] /\ Busy(t)' = Busy(t) /\ got'[t] = got[t]
      /\ \A t \in Sessions : Camera(t)' = Camera(t)
  BY <1>1 DEF TypeOK, Busy, Camera
<1>3. \A t \in Sessions : active[t] => t = s
  BY <1>1 DEF PatientInv, ActiveIsShown, OneTab, TypeOK
<1>4. \A t \in Sessions : ~Busy(t)
  <2>1. ~Busy(s)
    BY <1>1 DEF Busy, SetupPC, StartPC, RefreshPC
  <2>2. \A t \in Sessions : Busy(t) => pc[t] \in SetupPC \/ pc[t] \in RefreshPC
    BY DEF Busy
  <2> QED
    BY <1>1, <1>3, <2>1, <2>2 DEF PatientInv, BusyIsAlone
<1>5. removing = {}
  BY <1>1 DEF PatientInv, RemovedAlone, TypeOK
<1>6. BusyIsAlone'
  BY <1>1, <1>2, <1>4, <1>5 DEF BusyIsAlone, SetupPC, StartPC, RefreshPC
<1>7. OneTab' /\ RemovedAlone'
  BY <1>1 DEF PatientInv, OneTab, RemovedAlone
<1>8. ActiveIsShown'
  BY <1>1, <1>2 DEF PatientInv, ActiveIsShown, RefreshPC
<1>9. ShownIsActive'
  <2>1. \A t \in Sessions : pc'[t] = "stopping" <=> pc[t] = "stopping"
    BY <1>1, <1>2
  <2> QED
    BY <1>1, <2>1 DEF PatientInv, ShownIsActive
<1>10. StreamIsOwned'
  <2>1. \A t \in Sessions : pc'[t] \in {"verify", "ok"} <=> pc[t] \in {"verify", "ok"}
    BY <1>1, <1>2
  <2>2. UNCHANGED <<streams, orphans, active, removing>>
    BY <1>1
  <2> QED
    BY <1>2, <2>1, <2>2 DEF PatientInv, StreamIsOwned
<1>11. StreamIsSelected'
  BY <1>1, <1>2 DEF PatientInv, StreamIsSelected
<1> QED
  BY <1>6, <1>7, <1>8, <1>9, <1>10, <1>11 DEF PatientInv

\* The DELETE: no session is active, and a run that is under way waits for this stop().
LEMMA PatientRemove ==
  ASSUME PatientInv, TypeOK, NEW s \in Sessions, Remove(s)
  PROVE  PatientInv'
<1>1. /\ s \in removing /\ removing' = removing \ {s}
      /\ streams' = [streams EXCEPT ![Camera(s)] = NoSource] /\ orphans' = orphans \ {Camera(s)}
      /\ UNCHANGED <<page, quality, current, players, pc, viewOf, victim, got, active, handlers>>
  BY DEF Remove, pageVars, sessionVars
<1>2. removing' = {} /\ \A t \in Sessions : ~active[t]
  BY <1>1 DEF PatientInv, RemovedAlone
<1>3. \A t \in Sessions : Busy(t) => pc[t] = "stopping"
  BY <1>1 DEF PatientInv, BusyIsAlone
<1>4. \A t \in Sessions : pc[t] \notin {"verify", "ok"}
  BY <1>3 DEF Busy, SetupPC, StartPC
<1>5. OneTab' /\ RemovedAlone' /\ ActiveIsShown' /\ ShownIsActive'
  BY <1>1, <1>2 DEF PatientInv, OneTab, RemovedAlone, ActiveIsShown, ShownIsActive
<1>6. BusyIsAlone'
  BY <1>1, <1>2 DEF PatientInv, BusyIsAlone, Busy
<1>7. StreamIsOwned'
  <2>1. ASSUME NEW m \in Cameras \ orphans', streams'[m] # NoSource
        PROVE  FALSE
    <3>1. m # Camera(s) /\ streams[m] # NoSource /\ m \notin orphans
      BY <1>1, <2>1 DEF TypeOK
    <3>2. PICK t \in Sessions : /\ Camera(t) = m
                                /\ active[t] \/ t \in removing \/ pc[t] \in {"verify", "ok"}
      BY <3>1 DEF PatientInv, StreamIsOwned
    <3>3. t = s
      BY <1>1, <1>2, <1>4, <3>2
    <3> QED
      BY <3>1, <3>2, <3>3
  <2> QED
    BY <2>1 DEF StreamIsOwned
<1>8. StreamIsSelected'
  BY <1>1, <1>2, <1>4 DEF PatientInv, StreamIsSelected
<1> QED
  BY <1>5, <1>6, <1>7, <1>8 DEF PatientInv

\* Every step of a patient user of one tab keeps the invariant.
LEMMA PatientNext ==
  ASSUME Patient, PatientInv, TypeOK, [Next]_vars
  PROVE  PatientInv'
<1>1. OneTab'
  BY OneTabStable DEF PatientInv
<1>2. ASSUME NEW v \in Views, NEW s \in Sessions, Open(v, s)
      PROVE  PatientInv'
  BY <1>1, <1>2, PatientOpen
<1>3. ASSUME NEW v \in Views, NEW q \in Qualities, NEW s \in Sessions, ChangeQuality(v, q, s)
      PROVE  PatientInv'
  BY <1>1, <1>3, PatientQuality
<1>4. ASSUME NEW v \in Views, Close(v)
      PROVE  PatientInv'
  BY <1>1, <1>4, PatientClose
<1>5. ASSUME NEW s \in Sessions, FirstRun(s) \/ Rebuild(s)
      PROVE  PatientInv'
  BY <1>1, <1>5, PatientSetUp
<1>6. ASSUME NEW s \in Sessions, NeverRun(s) \/ MountRaises(s)
      PROVE  FALSE
  <2>1. Busy(s) /\ page[viewOf[s]] # "open"
    BY <1>6 DEF NeverRun, MountRaises, Busy, SetupPC, StartPC
  <2> QED
    BY <2>1 DEF PatientInv, BusyIsAlone
<1>7. ASSUME NEW s \in Sessions, Begin(s) \/ Mount(s) \/ Refresh(s) \/ Remove(s)
      PROVE  PatientInv'
  BY <1>7, PatientBegin, PatientMount, PatientRefresh, PatientRemove
<1>8. ASSUME NEW s \in Sessions, FallBack(s) \/ Resolved(s) \/ Verify(s) \/ VerifyFails(s)
      PROVE  PatientInv'
  <2>1. UNCHANGED <<page, quality, current, players, viewOf, victim, got, active, handlers,
                    removing, streams>>
    BY <1>8 DEF FallBack, Resolved, Verify, VerifyFails, pageVars
  <2>2. CASE FallBack(s)
    BY <2>1, <2>2, PatientMove DEF FallBack
  <2>3. CASE Resolved(s)
    BY <2>1, <2>3, PatientMove DEF Resolved, RefreshPC
  <2>4. CASE Verify(s)
    BY <2>1, <2>4, PatientMove DEF Verify, RefreshPC
  <2>5. CASE VerifyFails(s)
    <3>1. PICK x \in {"fail", "none"} : pc' = [pc EXCEPT ![s] = x]
      BY <2>5 DEF VerifyFails
    <3>2. /\ pc[s] = "verify" /\ orphans \subseteq orphans'
          /\ streams[Camera(s)] = NoSource \/ Camera(s) \in orphans'
      BY <2>5 DEF VerifyFails
    <3> QED
      BY <2>1, <3>1, <3>2, PatientMove
  <2> QED
    BY <1>8, <2>2, <2>3, <2>4, <2>5
<1>12. ASSUME NEW s \in Sessions, Put(s) \/ PutFails(s)
       PROVE  PatientInv'
  <2>1. UNCHANGED <<page, quality, current, players, viewOf, victim, got, active, handlers,
                    removing>>
    BY <1>12 DEF Put, PutFails, pageVars
  <2>2. CASE Put(s)
    <3>1. \/ pc[s] = "put" /\ pc' = [pc EXCEPT ![s] = "verify"]
          \/ pc[s] = "put2" /\ pc' = [pc EXCEPT ![s] = "verify2"]
      BY <2>2 DEF Put
    <3> QED
      BY <2>1, <2>2, <3>1, PatientRegister DEF Put
  <2>3. CASE PutFails(s)
    <3>1. PICK x \in {"fail", "none", "live"} :
                 /\ pc' = [pc EXCEPT ![s] = x]
                 /\ \/ pc[s] = "put" /\ x \in {"fail", "none"}
                    \/ pc[s] = "put2" /\ x = "live"
      BY <2>3 DEF PutFails
    <3>2. CASE UNCHANGED <<streams, orphans>>
      BY <2>1, <3>1, <3>2, PatientMove DEF RefreshPC
    <3>3. CASE /\ streams' = [streams EXCEPT ![Camera(s)] = got[s]]
               /\ orphans' = IF pc[s] = "put" THEN orphans \cup {Camera(s)} ELSE orphans
      BY <2>1, <3>1, <3>3, PatientRegister
    <3> QED
      BY <2>3, <3>2, <3>3 DEF PutFails
  <2> QED
    BY <1>12, <2>2, <2>3
<1>9. ASSUME NEW s \in Sessions, RemoveFails(s) \/ RemoveRaises(s)
      PROVE  FALSE
  BY <1>9 DEF RemoveFails, RemoveRaises, Patient
<1>10. CASE UNCHANGED vars
  BY <1>10 DEF vars, pageVars, sessionVars, PatientInv, OneTab, BusyIsAlone, Busy, RemovedAlone,
     ActiveIsShown, ShownIsActive, StreamIsOwned, StreamIsSelected, Camera
<1>11. CASE Crash
  BY <1>11 DEF Crash, Patient
<1> QED
  BY <1>2, <1>3, <1>4, <1>5, <1>6, <1>7, <1>8, <1>9, <1>10, <1>11, <1>12
     DEF Next, User, SessionStep

\* The invariant of the patient user holds in every reachable state.
THEOREM PatientInvariance ==
  ASSUME Patient
  PROVE  Spec => []PatientInv
<1>1. Init => PatientInv
  BY PatientInit
<1>2. TypeOK /\ PatientInv /\ [Next]_vars => PatientInv'
  BY PatientNext
<1> QED
  BY <1>1, <1>2, TypeCorrectness, PTL DEF Spec

\* At rest, what a page shows is the player of an active session, and its only one.
LEMMA WatchedIsActive ==
  ASSUME TypeOK, PatientInv, Quiet, NEW v \in Watched
  PROVE  \E s \in Sessions : active[s] /\ viewOf[s] = v /\ players[v] = {s}
<1>1. PICK s \in players[v] : TRUE
  BY DEF Watched
<1>2. v \in Views /\ s \in Sessions
  BY DEF Watched, TypeOK
<1>3. \A t \in Sessions : pc[t] # "stopping"
  BY DEF Quiet, Resting
<1> QED
  BY <1>1, <1>2, <1>3, Zenon DEF PatientInv, ShownIsActive

\* A patient user of one tab who sees a player has the stream of its camera in go2rtc.
THEOREM StreamWhileWatched ==
  ASSUME Patient
  PROVE  Spec => []PlayerHasStream
<1>1. TypeOK /\ PatientInv => PlayerHasStream
  <2> SUFFICES ASSUME TypeOK, PatientInv, Quiet, NEW v \in Watched
               PROVE  streams[CameraOf[v]] # NoSource
    BY DEF PlayerHasStream
  <2>1. PICK s \in Sessions : active[s] /\ viewOf[s] = v
    BY WatchedIsActive
  <2>2. streams[CameraOf[v]] = quality[v] /\ quality[v] \in Qualities
    BY <2>1 DEF PatientInv, StreamIsSelected, Camera, TypeOK
  <2> QED
    BY <2>2
<1> QED
  BY <1>1, TypeCorrectness, PatientInvariance, PTL

\* Such a user gets the quality that is selected, after any number of changes.
THEOREM SelectionApplied ==
  ASSUME Patient
  PROVE  Spec => []QualityApplied
<1>1. TypeOK /\ PatientInv => QualityApplied
  <2> SUFFICES ASSUME TypeOK, PatientInv, Quiet, NEW v \in Watched
               PROVE  streams[CameraOf[v]] = quality[v]
    BY DEF QualityApplied
  <2>1. PICK s \in Sessions : active[s] /\ viewOf[s] = v
    BY WatchedIsActive
  <2> QED
    BY <2>1 DEF PatientInv, StreamIsSelected, Camera
<1> QED
  BY <1>1, TypeCorrectness, PatientInvariance, PTL

\* Rebuilding the live view leaves one player on the page.
THEOREM SinglePlayer ==
  ASSUME Patient
  PROVE  Spec => []OnePlayer
<1>1. TypeOK /\ PatientInv => OnePlayer
  <2> SUFFICES ASSUME TypeOK, PatientInv, Quiet, NEW v \in Watched
               PROVE  Cardinality(players[v]) <= 1
    BY DEF OnePlayer
  <2>1. PICK s \in Sessions : players[v] = {s}
    BY WatchedIsActive
  <2>2. Cardinality(players[v]) = 1
    BY <2>1, FS_Singleton
  <2> QED
    BY <2>2
<1> QED
  BY <1>1, TypeCorrectness, PatientInvariance, PTL

\* When the tab has closed and the removal is through, go2rtc has no stream of its camera but
\* one that a start() has left which reported a failure.
THEOREM FreedOnClose ==
  ASSUME Patient
  PROVE  Spec => []ClosedIsFreed
<1>1. TypeOK /\ PatientInv => ClosedIsFreed
  <2> SUFFICES ASSUME TypeOK, PatientInv, Quiet, NEW m \in Cameras \ orphans,
                      \A v \in Views : CameraOf[v] = m => page[v] # "open",
                      streams[m] # NoSource
               PROVE  FALSE
    BY DEF ClosedIsFreed, Abandoned
  <2>1. PICK s \in Sessions : /\ Camera(s) = m
                              /\ active[s] \/ s \in removing \/ pc[s] \in {"verify", "ok"}
    BY DEF PatientInv, StreamIsOwned
  <2>2. active[s]
    BY <2>1 DEF Quiet, Resting
  <2> QED
    BY <2>1, <2>2 DEF PatientInv, ActiveIsShown, Camera, TypeOK
<1> QED
  BY <1>1, TypeCorrectness, PatientInvariance, PTL
=============================================================================
