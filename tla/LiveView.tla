------------------------------ MODULE LiveView ------------------------------
(***************************************************************************)
(* The live stream of the camera page: the live section of                 *)
(* pages/camera_detail.py, the StreamSession of adapters/stream_session.py *)
(* and the streams that go2rtc holds for them.                             *)
(*                                                                         *)
(* Each visit of a camera page is a view.  _setup_live runs once when the  *)
(* page opens and again after each change of the quality; every run makes  *)
(* a StreamSession, so a run and its session have one identity.  Runs,     *)
(* refreshes and removals are coroutines of one event loop: a step is the  *)
(* code between two awaits, or what a request does to go2rtc.              *)
(***************************************************************************)
EXTENDS Naturals, FiniteSets

CONSTANTS
  Views,      \* the visits of a camera page
  Cameras,    \* the cameras, each with its stream name in go2rtc
  CameraOf,   \* the camera of a view
  Sessions,   \* the identities of StreamSession objects
  Qualities,  \* what the quality selection tells apart
  First,      \* the quality a page starts with
  Tabs,       \* how many pages are open at a time
  Overlap,    \* whether users act while something is in flight
  Faults,     \* whether go2rtc may lose its streams or a removal may go wrong
  NoSession, NoSource

ASSUME ViewAssumption ==
  /\ Views # {} /\ CameraOf \in [Views -> Cameras]
  /\ First \in Qualities
  /\ Tabs \in Nat /\ Overlap \in BOOLEAN /\ Faults \in BOOLEAN
  /\ NoSession \notin Sessions /\ NoSource \notin Qualities

VARIABLES
  page,      \* a view is new, open or closed
  quality,   \* quality_state: the selection
  loaded,    \* ldi_loaded
  current,   \* _active_stream_session
  players,   \* the sessions whose LivePlayer is in live_container
  pc,        \* where the run, the start() or the refresh() of a session is
  viewOf,    \* the view a session was made for
  victim,    \* the session whose stop() a run awaits before _setup_live
  got,       \* the quality of the URL that was resolved last
  active,    \* StreamSession._active
  handlers,  \* the sessions whose stop is an app.on_disconnect handler
  removing,  \* the sessions whose stop() awaits async_remove_stream
  streams,   \* in go2rtc: the source under the stream name of a camera
  orphans    \* history: the cameras whose stream was left by a start() that failed

pageVars    == <<page, quality, loaded, current, players>>
sessionVars == <<pc, viewOf, victim, got, active>>
vars == <<pageVars, sessionVars, handlers, removing, streams, orphans>>

\* _resolve_and_register: of start(), and of refresh().
StartPC   == {"resolve", "put", "verify", "ok", "fail"}
RefreshPC == {"resolve2", "put2", "verify2"}

\* A run that has not ended yet.
SetupPC == {"timer", "stopping", "status"} \cup StartPC

TypeOK ==
  /\ page     \in [Views -> {"new", "open", "closed"}]
  /\ quality  \in [Views -> Qualities]
  /\ loaded   \in [Views -> BOOLEAN]
  /\ current  \in [Views -> Sessions \cup {NoSession}]
  /\ players  \in [Views -> SUBSET Sessions]
  /\ pc       \in [Sessions -> {"none", "live", "snapshot"} \cup SetupPC \cup RefreshPC]
  /\ viewOf   \in [Sessions -> Views]
  /\ victim   \in [Sessions -> Sessions \cup {NoSession}]
  /\ got      \in [Sessions -> Qualities \cup {NoSource}]
  /\ active   \in [Sessions -> BOOLEAN]
  /\ handlers \subseteq Sessions
  /\ removing \subseteq Sessions
  /\ streams  \in [Cameras -> Qualities \cup {NoSource}]
  /\ orphans  \subseteq Cameras

Init ==
  /\ page     = [v \in Views |-> "new"]
  /\ quality  = [v \in Views |-> First]
  /\ loaded   = [v \in Views |-> FALSE]
  /\ current  = [v \in Views |-> NoSession]
  /\ players  = [v \in Views |-> {}]
  /\ pc       = [s \in Sessions |-> "none"]
  /\ viewOf   = [s \in Sessions |-> CHOOSE v \in Views : TRUE]
  /\ victim   = [s \in Sessions |-> NoSession]
  /\ got      = [s \in Sessions |-> NoSource]
  /\ active   = [s \in Sessions |-> FALSE]
  /\ handlers = {}
  /\ removing = {}
  /\ streams  = [m \in Cameras |-> NoSource]
  /\ orphans  = {}

-----------------------------------------------------------------------------
(* State formulae.                                                         *)

Camera(s) == CameraOf[viewOf[s]]

\* The coroutines of the session have nothing left to do for now.
Resting(s) == pc[s] \in {"none", "live", "snapshot"} /\ s \notin removing

Quiet == \A s \in Sessions : Resting(s)

\* The pages that show a player.
Watched == {v \in Views : page[v] = "open" /\ players[v] # {}}

\* The session can have no effect any more: it is stopped, so that its timer
\* and its handler do nothing.  Its identity can be taken again.
Free(s) ==
  /\ Resting(s) /\ ~active[s]
  /\ \A v \in Views :
       page[v] = "open" => current[v] # s /\ s \notin players[v]
  /\ \A t \in Sessions : victim[t] # s

\* Slip: stop() does not look at _active.
StopStarting(S) ==
  /\ active'   = [s \in Sessions |-> active[s] /\ s \notin S]
  /\ removing' = removing \cup S

\* The effect of stop() up to its await, on the sessions in a set.
StopAll(S) ==
  LET hit == {s \in S : active[s]} IN
  /\ active'   = [s \in Sessions |-> active[s] /\ s \notin hit]
  /\ removing' = removing \cup hit

-----------------------------------------------------------------------------
(* The page.                                                               *)

\* The session identity and the view of a new run of _setup_live.
NewRun(v, s) ==
  /\ Free(s)
  /\ Overlap \/ Quiet
  /\ viewOf'   = [viewOf EXCEPT ![s] = v]
  /\ handlers' = handlers \ {s}

\* Slip: the resolver holds the selection the page was built with.
SetUpFrozen(s, v, q) ==
  /\ players' = [players EXCEPT ![v] = {}]
  /\ loaded'  = [loaded EXCEPT ![v] = TRUE]
  /\ IF loaded[v]
       THEN /\ pc'      = [pc EXCEPT ![s] = "resolve"]
            /\ current' = [current EXCEPT ![v] = s]
            /\ got'     = [got EXCEPT ![s] = First]
       ELSE pc' = [pc EXCEPT ![s] = "status"] /\ UNCHANGED <<current, got>>

\* Slip: the container is not cleared.
SetUpKeeps(s, v, q) ==
  /\ UNCHANGED players
  /\ loaded'  = [loaded EXCEPT ![v] = TRUE]
  /\ IF loaded[v]
       THEN /\ pc'      = [pc EXCEPT ![s] = "resolve"]
            /\ current' = [current EXCEPT ![v] = s]
            /\ got'     = [got EXCEPT ![s] = q]
       ELSE pc' = [pc EXCEPT ![s] = "status"] /\ UNCHANGED <<current, got>>

\* _setup_live up to its first await, with the selection q: it clears the
\* container and awaits the status of the local data interface, once in a page's
\* life.  Where the status is known it goes on: the session is made and its
\* start() calls the resolver.  Without a go2rtc binary there is no session.
SetUp(s, v, q) ==
  /\ players' = [players EXCEPT ![v] = {}]
  /\ loaded'  = [loaded EXCEPT ![v] = TRUE]
  /\ IF loaded[v]
       THEN /\ pc'      = [pc EXCEPT ![s] = "resolve"]
            /\ current' = [current EXCEPT ![v] = s]
            /\ got'     = [got EXCEPT ![s] = q]
       ELSE pc' = [pc EXCEPT ![s] = "status"] /\ UNCHANGED <<current, got>>

\* The page opens and schedules the first run of _setup_live.
Open(v, s) ==
  /\ page[v] = "new"
  /\ Cardinality({w \in Views : page[w] = "open"}) < Tabs
  /\ NewRun(v, s)
  /\ page' = [page EXCEPT ![v] = "open"]
  /\ pc'   = [pc EXCEPT ![s] = "timer"]
  /\ UNCHANGED <<quality, loaded, current, players, victim, got, active, removing,
                 streams, orphans>>

FirstRun(s) ==
  /\ pc[s] = "timer" /\ page[viewOf[s]] = "open"
  /\ SetUp(s, viewOf[s], quality[viewOf[s]])
  /\ UNCHANGED <<page, quality, viewOf, victim, active, handlers, removing, streams, orphans>>

\* The page closes before the timer fires: there is no run.
NeverRun(s) ==
  /\ pc[s] = "timer" /\ page[viewOf[s]] = "closed"
  /\ pc' = [pc EXCEPT ![s] = "none"]
  /\ UNCHANGED <<pageVars, viewOf, victim, got, active, handlers, removing, streams, orphans>>

\* _on_quality_change stops the session of the page.  One that is not active,
\* or not there, needs no await: _setup_live begins at once.
ChangeQuality(v, q, s) ==
  /\ page[v] = "open" /\ q # quality[v]
  /\ NewRun(v, s)
  /\ quality' = [quality EXCEPT ![v] = q]
  /\ StopAll({current[v]} \cap Sessions)
  /\ IF current[v] \in Sessions /\ active[current[v]]
       THEN /\ pc'     = [pc EXCEPT ![s] = "stopping"]
            /\ victim' = [victim EXCEPT ![s] = current[v]]
            /\ UNCHANGED <<loaded, current, players, got>>
       ELSE SetUp(s, v, q) /\ UNCHANGED victim
  /\ UNCHANGED <<page, streams, orphans>>

\* Slip: stop() is scheduled and not awaited.
RebuildAtOnce(s) ==
  /\ pc[s] = "stopping"
  /\ victim' = [victim EXCEPT ![s] = NoSession]
  /\ SetUp(s, viewOf[s], quality[viewOf[s]])
  /\ UNCHANGED <<page, quality, viewOf, active, handlers, removing, streams, orphans>>

\* Slip: the run waits until go2rtc has let go of the stream.
RebuildWhenGone(s) ==
  /\ pc[s] = "stopping" /\ victim[s] \notin removing
  /\ streams[CameraOf[viewOf[s]]] = NoSource
  /\ victim' = [victim EXCEPT ![s] = NoSession]
  /\ SetUp(s, viewOf[s], quality[viewOf[s]])
  /\ UNCHANGED <<page, quality, viewOf, active, handlers, removing, streams, orphans>>

\* The stop() has returned: whatever session the page has by now is forgotten,
\* and _setup_live runs.
Rebuild(s) ==
  /\ pc[s] = "stopping" /\ victim[s] \notin removing
  /\ victim' = [victim EXCEPT ![s] = NoSession]
  /\ SetUp(s, viewOf[s], quality[viewOf[s]])
  /\ UNCHANGED <<page, quality, viewOf, active, handlers, removing, streams, orphans>>

\* The first run goes on after the status.
Begin(s) ==
  LET v == viewOf[s] IN
  /\ pc[s] = "status"
  /\ pc'      = [pc EXCEPT ![s] = "resolve"]
  /\ current' = [current EXCEPT ![v] = s]
  /\ got'     = [got EXCEPT ![s] = quality[v]]
  /\ UNCHANGED <<page, quality, loaded, players, viewOf, victim, active, handlers,
                 removing, streams, orphans>>

\* Slip: stop() is not registered.
MountUnregistered(s) ==
  LET v == viewOf[s] IN
  /\ pc[s] = "ok"
  /\ pc'       = [pc EXCEPT ![s] = "live"]
  /\ active'   = [active EXCEPT ![s] = TRUE]
  /\ players'  = [players EXCEPT ![v] = @ \cup {s}]
  /\ UNCHANGED handlers
  /\ UNCHANGED <<page, quality, loaded, current, viewOf, victim, got, removing, streams, orphans>>

\* start() returned True: the player is mounted, the refresh timer started and
\* stop() registered with app.on_disconnect.
Mount(s) ==
  LET v == viewOf[s] IN
  /\ pc[s] = "ok"
  /\ pc'       = [pc EXCEPT ![s] = "live"]
  /\ active'   = [active EXCEPT ![s] = TRUE]
  /\ players'  = [players EXCEPT ![v] = @ \cup {s}]
  /\ handlers' = handlers \cup {s}
  /\ UNCHANGED <<page, quality, loaded, current, viewOf, victim, got, removing, streams, orphans>>

\* The page is gone, and building the player raises.
MountRaises(s) ==
  /\ pc[s] = "ok" /\ page[viewOf[s]] = "closed"
  /\ pc'     = [pc EXCEPT ![s] = "live"]
  /\ active' = [active EXCEPT ![s] = TRUE]
  /\ UNCHANGED <<pageVars, viewOf, victim, got, handlers, removing, streams, orphans>>

\* start() returned False: the snapshot tier, or a message.
FallBack(s) ==
  /\ pc[s] = "fail"
  /\ pc' = [pc EXCEPT ![s] = "snapshot"]
  /\ UNCHANGED <<pageVars, viewOf, victim, got, active, handlers, removing, streams, orphans>>

\* The tab is closed.  NiceGUI calls the app.on_disconnect handlers for every
\* client that goes, and deletes the timers of this one.
Close(v) ==
  /\ page[v] = "open"
  /\ Overlap \/ Quiet
  /\ page'    = [page EXCEPT ![v] = "closed"]
  /\ players' = [players EXCEPT ![v] = {}]
  /\ StopAll(handlers)
  /\ UNCHANGED <<quality, loaded, current, pc, viewOf, victim, got, handlers, streams, orphans>>

-----------------------------------------------------------------------------
(* StreamSession: the requests of start() and refresh().                   *)

\* The resolver's answer: a URL, or None, or an exception.
Resolved(s) ==
  /\ \/ pc[s] = "resolve"  /\ pc' = [pc EXCEPT ![s] = "put"]
     \/ pc[s] = "resolve"  /\ pc' = [pc EXCEPT ![s] = "fail"]
     \/ pc[s] = "resolve2" /\ pc' = [pc EXCEPT ![s] = "put2"]
     \/ pc[s] = "resolve2" /\ pc' = [pc EXCEPT ![s] = "live"]
  /\ UNCHANGED <<pageVars, viewOf, victim, got, active, handlers, removing, streams, orphans>>

\* add_stream: the PUT replaces the source under the stream name, and go2rtc
\* says so.
Put(s) ==
  /\ \/ pc[s] = "put"  /\ pc' = [pc EXCEPT ![s] = "verify"]
     \/ pc[s] = "put2" /\ pc' = [pc EXCEPT ![s] = "verify2"]
  /\ streams' = [streams EXCEPT ![Camera(s)] = got[s]]
  /\ orphans' = orphans \ {Camera(s)}
  /\ UNCHANGED <<pageVars, viewOf, victim, got, active, handlers, removing>>

\* go2rtc cannot be started, refuses the PUT, or takes it and answers too late:
\* add_stream returns False, or raises and ends the run without a fallback.
PutFails(s) ==
  /\ \/ pc[s] = "put" /\ \E to \in {"fail", "none"} : pc' = [pc EXCEPT ![s] = to]
     \/ pc[s] = "put2" /\ pc' = [pc EXCEPT ![s] = "live"]
  /\ \/ UNCHANGED <<streams, orphans>>
     \/ /\ streams' = [streams EXCEPT ![Camera(s)] = got[s]]
        /\ orphans' = IF pc[s] = "put" THEN orphans \cup {Camera(s)} ELSE orphans
  /\ UNCHANGED <<pageVars, viewOf, victim, got, active, handlers, removing>>

\* add_stream ends with stream_exists.
Verify(s) ==
  /\ \/ pc[s] = "verify"  /\ streams[Camera(s)] # NoSource /\ pc' = [pc EXCEPT ![s] = "ok"]
     \/ pc[s] = "verify2" /\ pc' = [pc EXCEPT ![s] = "live"]
  /\ UNCHANGED <<pageVars, viewOf, victim, got, active, handlers, removing, streams, orphans>>

\* stream_exists answers False, or raises: the stream is gone, or the request
\* went wrong and go2rtc has the stream all the same.
VerifyFails(s) ==
  /\ pc[s] = "verify" /\ \E to \in {"fail", "none"} : pc' = [pc EXCEPT ![s] = to]
  /\ orphans' = IF streams[Camera(s)] # NoSource THEN orphans \cup {Camera(s)} ELSE orphans
  /\ UNCHANGED <<pageVars, viewOf, victim, got, active, handlers, removing, streams>>

\* The timer that _setup_live started (with the handler) calls refresh(), which
\* looks at _active and then awaits the resolver.  A closed page has no timers.
Refresh(s) ==
  /\ pc[s] = "live" /\ s \in handlers /\ page[viewOf[s]] = "open"
  /\ active[s]
  /\ pc'  = [pc EXCEPT ![s] = "resolve2"]
  /\ got' = [got EXCEPT ![s] = quality[viewOf[s]]]
  /\ UNCHANGED <<pageVars, viewOf, victim, active, handlers, removing, streams, orphans>>

\* stop(): the DELETE of async_remove_stream.
Remove(s) ==
  /\ s \in removing
  /\ removing' = removing \ {s}
  /\ streams'  = [streams EXCEPT ![Camera(s)] = NoSource]
  /\ orphans'  = orphans \ {Camera(s)}
  /\ UNCHANGED <<pageVars, sessionVars, handlers>>

\* go2rtc does not run, or refuses: remove_stream returns False, which stop()
\* ignores.
RemoveFails(s) ==
  /\ Faults /\ s \in removing
  /\ removing' = removing \ {s}
  /\ UNCHANGED <<pageVars, sessionVars, handlers, streams, orphans>>

\* The answer to the DELETE does not come and remove_stream raises, whether or
\* not the stream is gone; the run that waits for this stop() ends with it.
RemoveRaises(s) ==
  /\ Faults /\ s \in removing
  /\ removing' = removing \ {s}
  /\ pc' = [t \in Sessions |-> IF pc[t] = "stopping" /\ victim[t] = s THEN "none" ELSE pc[t]]
  /\ victim' = [t \in Sessions |-> IF victim[t] = s THEN NoSession ELSE victim[t]]
  /\ \/ UNCHANGED <<streams, orphans>>
     \/ /\ streams' = [streams EXCEPT ![Camera(s)] = NoSource]
        /\ orphans' = orphans \ {Camera(s)}
  /\ UNCHANGED <<pageVars, viewOf, got, active, handlers>>

\* go2rtc crashes: the process that replaces it knows no stream.
Crash ==
  /\ Faults
  /\ streams' = [m \in Cameras |-> NoSource]
  /\ orphans' = {}
  /\ UNCHANGED <<pageVars, sessionVars, handlers, removing>>

-----------------------------------------------------------------------------
User ==
  \/ \E v \in Views, s \in Sessions : Open(v, s)
  \/ \E v \in Views, q \in Qualities, s \in Sessions : ChangeQuality(v, q, s)
  \/ \E v \in Views : Close(v)

SessionStep(s) ==
  \/ FirstRun(s) \/ NeverRun(s) \/ Rebuild(s) \/ Begin(s) \/ Mount(s)
  \/ MountRaises(s) \/ FallBack(s) \/ Resolved(s) \/ Put(s) \/ PutFails(s) \/ Verify(s)
  \/ VerifyFails(s) \/ Remove(s) \/ RemoveFails(s) \/ RemoveRaises(s)

Next ==
  \/ User
  \/ \E s \in Sessions : SessionStep(s) \/ Refresh(s)
  \/ Crash

Spec == Init /\ [][Next]_vars

\* The event loop runs what is ready and every request has a timeout; the
\* refresh timer fires.  Users do what they like.
Fairness == \A s \in Sessions : WF_vars(SessionStep(s)) /\ WF_vars(Refresh(s))

FairSpec == Spec /\ Fairness

-----------------------------------------------------------------------------
(* Safety.                                                                 *)

\* A removal belongs to a session that was stopped after its start() had ended,
\* so that no start() ends while the stream it has registered is being removed
\* on behalf of the same session.
RemovingIsStopped ==
  \A s \in Sessions :
    /\ s \in removing => ~active[s]
    /\ pc[s] \in SetupPC => ~active[s] /\ s \notin removing

\* While the page shows a player, go2rtc has the stream of its camera, when
\* nothing is in flight: "keeps the source fresh ... while the view is open".
PlayerHasStream ==
  Quiet => \A v \in Watched : streams[CameraOf[v]] # NoSource

\* When nothing is in flight the stream has the quality that is selected: "re-
\* resolve the stream at the new quality".
QualityApplied ==
  Quiet => \A v \in Watched : streams[CameraOf[v]] \in {NoSource, quality[v]}

\* "Rebuild the live view in place": a page shows one player at most.
OnePlayer == Quiet => \A v \in Watched : Cardinality(players[v]) <= 1

\* "Free the Bosch session + go2rtc producer when the tab closes": a camera that
\* no open page shows has no stream, unless a start() that reported a failure
\* left it behind.
Abandoned(m) == \A v \in Views : CameraOf[v] = m => page[v] # "open"

ClosedIsFreed ==
  Quiet => \A m \in Cameras \ orphans : Abandoned(m) => streams[m] = NoSource

(* Liveness, under FairSpec.                                               *)

\* Every run of _setup_live and every refresh comes to its end, a removal that
\* go2rtc refuses and a crash in between notwithstanding.
SetupEnds ==
  \A s \in Sessions :
    pc[s] \notin {"none", "live", "snapshot"} ~> pc[s] \in {"none", "live", "snapshot"}
-----------------------------------------------------------------------------
(* The inductive invariant behind the safety properties.                   *)

IInv == TypeOK /\ RemovingIsStopped
=============================================================================
