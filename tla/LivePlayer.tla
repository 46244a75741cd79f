----------------------------- MODULE LivePlayer -----------------------------
(***************************************************************************)
(* The Go2rtcStream of components/live_player.py and the control bar that  *)
(* drives it, in one browser tab: WebRTC first, HLS when it fails, and a   *)
(* recovery that tears down a dead transport and starts again.             *)
(*                                                                         *)
(* start() is a chain of promises.  Nothing cancels it: a second start, a  *)
(* stop or a recovery may come while an earlier attempt still waits for an *)
(* answer, a frame or a script.  An attempt has a slot with the connection *)
(* and the hls.js instance it made; `stream` is the object they share.     *)
(***************************************************************************)
EXTENDS Naturals, FiniteSets

CONSTANTS Slots,          \* attempts that may be under way or have something open
          HLS_FATAL_RETRY_MAX

ASSUME PlayerAssumption == Slots \subseteq Nat \ {0} /\ HLS_FATAL_RETRY_MAX \in Nat

VARIABLES viewer,    \* "patient" or "hasty" (see May)
          stream,    \* the fields of the Go2rtcStream; pc, hls, listens name slots, 0 is null
          att,       \* att[n]: the attempt of slot n
          timers,    \* how many recovery timers run
          phase,     \* what the control bar shows
          started    \* what the control bar has asked for

playerVars == <<viewer, stream, att, timers, phase, started>>

NoAttempt == [chain |-> "none", promise |-> "none", pc |-> FALSE, hls |-> FALSE]

PlayerInit ==
    /\ viewer \in {"patient", "hasty"}
    /\ stream = [stopping |-> FALSE, live |-> FALSE, recovering |-> FALSE, sticky |-> FALSE,
                 checker |-> FALSE, pc |-> 0, hls |-> 0, listens |-> 0, net |-> 0, media |-> 0]
    /\ att = [n \in Slots |-> NoAttempt]
    /\ timers = 0 /\ phase = "idle" /\ started = FALSE

\* A chain whose connection is closed and whose promise is settled can do nothing any more.
Waiting(n) == \/ att[n].promise \in {"pending", "hls"}
              \/ att[n].pc /\ att[n].chain \in {"gathering", "fetching"}
Open(n) == att[n].pc \/ att[n].hls
\* The browser itself plays the HLS stream: there is no hls.js instance to close.
PlaysNatively(n) == att[n].promise = "native" /\ stream.listens = n
Free(n) == ~Waiting(n) /\ ~Open(n) /\ ~PlaysNatively(n)
AtRest == timers = 0 /\ \A n \in Slots : ~Waiting(n)

-----------------------------------------------------------------------------
\* Slip: the hls.js instance is let go and not destroyed.
KeepHLS(a) == a

\* _cleanupWebRTC and _cleanupHLS close what the stream names, whoever opened it.
CleanupWebRTC(a) == [n \in Slots |-> IF n = stream.pc THEN [a[n] EXCEPT !.pc = FALSE] ELSE a[n]]
CleanupHLS(a) == [n \in Slots |-> IF n = stream.hls THEN [a[n] EXCEPT !.hls = FALSE] ELSE a[n]]

\* Slip: the latched HLS is forgotten by the next start.
StartForgetting(s, a, n) ==
    /\ Free(n)
    /\ phase' = "connecting"
    /\ stream' = [s EXCEPT !.stopping = FALSE, !.pc = n]
    /\ att' = [a EXCEPT ![n] = [NoAttempt EXCEPT !.chain = "gathering", !.promise = "pending",
                                                 !.pc = TRUE]]

\* start: a new attempt in slot n, from stream s and attempts a.  It opens a connection, or goes
\* straight to HLS once that is latched; what was open before stays open.
Start(s, a, n) ==
    /\ Free(n)
    /\ phase' = "connecting"
    /\ IF s.sticky
       THEN /\ stream' = [s EXCEPT !.stopping = FALSE, !.net = 0, !.media = 0]
            /\ att' = [a EXCEPT ![n] = [NoAttempt EXCEPT !.promise = "hls"]]
       ELSE /\ stream' = [s EXCEPT !.stopping = FALSE, !.pc = n]
            /\ att' = [a EXCEPT ![n] = [NoAttempt EXCEPT !.chain = "gathering",
                                                         !.promise = "pending", !.pc = TRUE]]

\* _detachVideoListeners, which ends the stall checker, and both cleanups
Detached(s) == [s EXCEPT !.live = FALSE, !.checker = FALSE, !.listens = 0, !.pc = 0, !.hls = 0]

\* stop
Stopped == [Detached(stream) EXCEPT !.stopping = TRUE]

-----------------------------------------------------------------------------
(* The control bar *)

\* The code lets a viewer do anything at any time.  This is an assumption on the patient one:
\* he clicks, and comes back to the tab, only once an attempt has ended.
May == viewer = "patient" => AtRest

ClickStart == /\ May /\ (viewer = "patient" => phase # "connecting") /\ ~(started /\ phase = "live")
              /\ \E n \in Slots : Start(stream, att, n)
              /\ started' = TRUE
              /\ UNCHANGED <<viewer, timers>>

ClickStop == /\ May /\ started /\ phase = "live"
             /\ stream' = Stopped
             /\ att' = CleanupHLS(CleanupWebRTC(att))
             /\ phase' = "idle" /\ started' = FALSE
             /\ UNCHANGED <<viewer, timers>>

\* recover(): the tab is shown again and its video is paused, as it is while connecting, so stop
\* and start.
ShownAgain == /\ May /\ started
              /\ \E n \in Slots : Start(Stopped, CleanupHLS(CleanupWebRTC(att)), n)
              /\ UNCHANGED <<viewer, timers, started>>

-----------------------------------------------------------------------------
(* One WebRTC attempt: the promise with its timer, and the chain of awaits  *)
(* beside it.                                                               *)

\* The promise is rejected: unless the stream is being stopped, the connection the stream has
\* now is closed and HLS follows.
Reject(n, chain) ==
    IF att[n].promise # "pending" \/ stream.stopping
    THEN /\ att' = [att EXCEPT ![n].chain = chain,
                               ![n].promise = IF @ = "pending" THEN "settled" ELSE @]
         /\ UNCHANGED stream
    ELSE /\ att' = [CleanupWebRTC(att) EXCEPT ![n].chain = chain, ![n].promise = "hls"]
         /\ stream' = [stream EXCEPT !.pc = 0, !.net = 0, !.media = 0]

Gathered(n) == /\ att[n].chain = "gathering"
               /\ IF stream.stopping THEN Reject(n, "over")
                  ELSE att' = [att EXCEPT ![n].chain = "fetching"] /\ UNCHANGED stream
               /\ UNCHANGED <<viewer, timers, phase, started>>

\* _attachVideoListeners, which starts the stall checker: the video's events go to this attempt.
Attached(n) == [stream EXCEPT !.listens = n, !.checker = TRUE]

\* The answer is applied, if the connection is still open.
WebRTCAnswered(n) == /\ att[n].chain = "fetching" /\ att[n].pc
                     /\ att' = [att EXCEPT ![n].chain = "answered"]
                     /\ stream' = Attached(n)
                     /\ UNCHANGED <<viewer, timers, phase, started>>

\* An HTTP error, a closed connection, ICE failed
ChainFails(n) == /\ att[n].chain \in {"gathering", "fetching"}
                 /\ Reject(n, "over")
                 /\ UNCHANGED <<viewer, timers, phase, started>>

\* The timer runs until the first frame, not only until the answer.
WebRTCTimeout(n) == /\ att[n].promise = "pending"
                    /\ Reject(n, att[n].chain)
                    /\ UNCHANGED <<viewer, timers, phase, started>>

-----------------------------------------------------------------------------
(* HLS *)

\* hls.js is there: its await does not look whether the stream has been stopped meanwhile.
HlsReady(n) == /\ att[n].promise = "hls"
               /\ att' = [att EXCEPT ![n].promise = "settled", ![n].hls = TRUE]
               /\ stream' = [Attached(n) EXCEPT !.hls = n]
               /\ UNCHANGED <<viewer, timers, phase, started>>

\* No hls.js, but the browser plays HLS: the video's src is the playlist.
HlsNative(n) == /\ att[n].promise = "hls"
                /\ att' = [att EXCEPT ![n].promise = "native"]
                /\ stream' = Attached(n)
                /\ UNCHANGED <<viewer, timers, phase, started>>

HlsUnsupported(n) == /\ att[n].promise = "hls"
                     /\ att' = [att EXCEPT ![n].promise = "settled"]
                     /\ phase' = IF stream.stopping THEN phase ELSE "error"
                     /\ UNCHANGED <<viewer, stream, timers, started>>

\* Slip: the cap is compared before it is counted.
HlsRetryLate(n, kind) ==
    /\ att[n].hls /\ ~stream.stopping
    /\ stream[kind] <= HLS_FATAL_RETRY_MAX + 1
    /\ stream' = [stream EXCEPT ![kind] = @ + 1]
    /\ UNCHANGED <<viewer, att, timers, phase, started>>

\* A fatal network or media error is counted, and retried in place up to the cap of each.
HlsRetry(n, kind) ==
    /\ att[n].hls /\ ~stream.stopping
    /\ stream[kind] < HLS_FATAL_RETRY_MAX
    /\ stream' = [stream EXCEPT ![kind] = @ + 1]
    /\ UNCHANGED <<viewer, att, timers, phase, started>>

\* "playing", to the attempt whose listeners are attached
Playing(n) == /\ stream.listens = n /\ ~stream.stopping
              /\ (att[n].chain = "answered" /\ att[n].pc) \/ att[n].hls \/ PlaysNatively(n)
              /\ stream' = [stream EXCEPT !.live = TRUE]
              /\ att' = [att EXCEPT ![n].promise = IF @ = "pending" THEN "settled" ELSE @]
              /\ phase' = "live"
              /\ UNCHANGED <<viewer, timers, started>>

-----------------------------------------------------------------------------
(* Recovery *)

\* Slip: a recovery may begin while another one waits.
CanRecoverAgain == ~stream.stopping /\ stream.live

CanRecover == ~stream.stopping /\ ~stream.recovering /\ stream.live

\* _recover, from stream s: tear down and wait two seconds.  dead: a track of an open connection
\* shows no more frames, which latches HLS for the rest of the session.
Recover(s, dead) ==
    /\ CanRecover
    /\ stream' = [Detached(s) EXCEPT !.sticky = @ \/ dead, !.recovering = TRUE]
    /\ att' = CleanupHLS(CleanupWebRTC(att))
    /\ timers' = timers + 1
    /\ UNCHANGED <<viewer, phase, started>>

Receiving(n) == att[n].pc /\ att[n].chain = "answered"

\* The track is muted for six seconds (an event of the track), or no frame is presented for ten:
\* seen by the stall checker, and by its worker when the tab is hidden.
TrackDies == (\E n \in Slots : Receiving(n)) /\ Recover(stream, TRUE)

\* The connection of the stream fails.
ConnectionFails == (\E n \in Slots : Receiving(n) /\ stream.pc = n) /\ Recover(stream, FALSE)

\* The video is paused or stands still, as the stall checker sees.
Stalls == stream.checker /\ Recover(stream, FALSE)

\* A tick of the checker while the stream is not live ends it, for good: only the next attempt
\* that attaches its listeners starts it again.
CheckerTick == /\ stream.checker /\ (stream.stopping \/ ~stream.live)
               /\ stream' = [stream EXCEPT !.checker = FALSE]
               /\ UNCHANGED <<viewer, att, timers, phase, started>>

\* hls.js has used up its retries: the count passes the cap and the stream recovers, if it can.
\* Counting further makes no difference.
HlsGivesUp(n, kind) ==
    /\ att[n].hls /\ ~stream.stopping /\ stream[kind] >= HLS_FATAL_RETRY_MAX
    /\ LET s == [stream EXCEPT ![kind] = HLS_FATAL_RETRY_MAX + 1] IN
       \/ Recover(s, FALSE)
       \/ ~CanRecover /\ stream' = s /\ UNCHANGED <<viewer, att, timers, phase, started>>

\* Slip: the timer starts only what is still live.
TimerFiresLive ==
    /\ timers > 0 /\ timers' = timers - 1
    /\ LET s == [stream EXCEPT !.recovering = FALSE] IN
       IF s.stopping \/ ~s.live THEN stream' = s /\ UNCHANGED <<att, phase>>
       ELSE \E n \in Slots : Start(s, att, n)
    /\ UNCHANGED <<viewer, started>>

\* The timer of a recovery: start again, unless the stream has been stopped.
TimerFires ==
    /\ timers > 0 /\ timers' = timers - 1
    /\ LET s == [stream EXCEPT !.recovering = FALSE] IN
       IF s.stopping THEN stream' = s /\ UNCHANGED <<att, phase>>
       ELSE \E n \in Slots : Start(s, att, n)
    /\ UNCHANGED <<viewer, started>>

Attempt(n) == \/ Gathered(n) \/ WebRTCAnswered(n) \/ ChainFails(n) \/ WebRTCTimeout(n)
              \/ HlsReady(n) \/ HlsNative(n) \/ HlsUnsupported(n) \/ Playing(n)
              \/ \E kind \in {"net", "media"} : HlsRetry(n, kind) \/ HlsGivesUp(n, kind)

PlayerNext == \/ ClickStart \/ ClickStop \/ ShownAgain
              \/ \E n \in Slots : Attempt(n)
              \/ TrackDies \/ ConnectionFails \/ Stalls \/ CheckerTick \/ TimerFires

\* Timers fire and a script loads or fails; nothing is asked of the network, the camera or the
\* viewer.
PlayerFairness == /\ \A n \in Slots : /\ WF_playerVars(WebRTCTimeout(n))
                                      /\ WF_playerVars(HlsReady(n) \/ HlsNative(n) \/ HlsUnsupported(n))
                  /\ WF_playerVars(TimerFires)

PlayerSpec == PlayerInit /\ [][PlayerNext]_playerVars /\ PlayerFairness

-----------------------------------------------------------------------------
(* Properties *)

\* Every variable has its type; the error counters pass their cap by one at most.
PlayerTypeOK ==
    /\ viewer \in {"patient", "hasty"}
    /\ stream \in [stopping : BOOLEAN, live : BOOLEAN, recovering : BOOLEAN, sticky : BOOLEAN,
                   checker : BOOLEAN,
                   pc : Slots \cup {0}, hls : Slots \cup {0}, listens : Slots \cup {0},
                   net : 0..HLS_FATAL_RETRY_MAX + 1, media : 0..HLS_FATAL_RETRY_MAX + 1]
    /\ att \in [Slots -> [chain : {"none", "gathering", "fetching", "answered", "over"},
                          promise : {"none", "pending", "hls", "native", "settled"},
                          pc : BOOLEAN, hls : BOOLEAN]]
    /\ timers \in Nat /\ started \in BOOLEAN
    /\ phase \in {"idle", "connecting", "live", "error"}

\* Nothing leaks, for a viewer who lets an attempt end before the next click and before leaving
\* the tab: what is open is what the stream names, and only one of the two transports; once
\* stopped, nothing is.  The next stop or recovery can therefore close it.
NothingLeaks ==
    viewer = "patient" =>
        /\ \A n \in Slots : (att[n].pc => stream.pc = n) /\ (att[n].hls => stream.hls = n)
        /\ \A m, n \in Slots : ~(att[m].pc /\ att[n].hls)
        /\ ~started => \A n \in Slots : ~Open(n)

\* A dead WebRTC track latches HLS: no connection of a patient viewer is open any more, through
\* every later recovery and every restart of the same page, so that the player does not flip
\* between the two.
StickyIsHls == viewer = "patient" /\ stream.sticky => \A n \in Slots : ~att[n].pc

\* However stops, restarts and errors fall, there is one recovery timer at most, and one exactly
\* while the stream is recovering.
OneRecovery == timers = IF stream.recovering THEN 1 ELSE 0

\* The control bar does not claim a stream that a recovery has torn down for ever: the recovery
\* starts it again or the viewer has stopped.
LiveIsLive == (viewer = "patient" /\ phase = "live" /\ ~stream.live)
                  ~> (stream.live \/ phase # "live")

=============================================================================
