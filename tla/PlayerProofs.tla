---------------------------- MODULE PlayerProofs ----------------------------
(***************************************************************************)
(* Proofs about the two players of the camera page: LivePlayer, for any    *)
(* number of attempts and any cap of the retries, and SnapshotPlayer, for  *)
(* any number of starts whose one-shot timers have not fired.              *)
(***************************************************************************)
EXTENDS LivePlayer, SnapshotPlayer, TLAPS

-----------------------------------------------------------------------------
(* The live player *)

NothingOpen == \A n \in Slots : ~Open(n) /\ ~PlaysNatively(n)

\* An open connection is the stream's, and its attempt can still make use of it; an open hls.js
\* instance is the stream's; the two are never open together.
OpenIsNamed ==
    /\ \A n \in Slots :
          /\ att[n].pc => /\ stream.pc = n
                          /\ att[n].chain \in {"gathering", "fetching", "answered"}
                          /\ att[n].chain # "answered" => att[n].promise = "pending"
          /\ att[n].hls => stream.hls = n
    /\ \A m, n \in Slots : ~(att[m].pc /\ att[n].hls)

\* One attempt is under way at most.  Only its own connection is open, nothing is once it has gone
\* over to HLS, and the stream is neither live nor stopped nor recovering.
OneAttempt ==
    \A m \in Slots : Waiting(m) =>
        /\ \A n \in Slots : (Waiting(n) \/ Open(n) => m = n) /\ ~PlaysNatively(n)
        /\ ~att[m].hls
        /\ att[m].promise = "hls" => ~att[m].pc
        /\ ~stream.live /\ ~stream.stopping /\ timers = 0 /\ phase = "connecting"

\* What the control bar shows, and what there is.
BarIsTrue ==
    /\ phase \in {"idle", "error"} \/ timers > 0 => ~stream.live /\ NothingOpen
    /\ phase \in {"idle", "error"} => timers = 0
    /\ (phase = "idle") <=> ~started
    /\ stream.stopping => ~started

PatientInv == viewer = "patient" =>
                  OpenIsNamed /\ OneAttempt /\ BarIsTrue /\ StickyIsHls

\* The inductive invariant.
PlayerInv == PlayerTypeOK /\ OneRecovery /\ PatientInv

-----------------------------------------------------------------------------
(* Types, and the recovery timer *)

Streams == [stopping : BOOLEAN, live : BOOLEAN, recovering : BOOLEAN, sticky : BOOLEAN,
            checker : BOOLEAN,
            pc : Slots \cup {0}, hls : Slots \cup {0}, listens : Slots \cup {0},
            net : 0..HLS_FATAL_RETRY_MAX + 1, media : 0..HLS_FATAL_RETRY_MAX + 1]
Attempts == [chain : {"none", "gathering", "fetching", "answered", "over"},
             promise : {"none", "pending", "hls", "native", "settled"}, pc : BOOLEAN, hls : BOOLEAN]

\* Closing connections and instances keeps the types.
LEMMA CleanupTyping ==
  ASSUME PlayerTypeOK, NEW a \in [Slots -> Attempts]
  PROVE  CleanupWebRTC(a) \in [Slots -> Attempts] /\ CleanupHLS(a) \in [Slots -> Attempts]
<1>1. \A n \in Slots : /\ [a[n] EXCEPT !.pc = FALSE] \in Attempts
                       /\ [a[n] EXCEPT !.hls = FALSE] \in Attempts
  BY DEF Attempts
<1>2. CleanupWebRTC(a) \in [Slots -> Attempts]
  BY <1>1 DEF CleanupWebRTC
<1>3. CleanupHLS(a) \in [Slots -> Attempts]
  BY <1>1 DEF CleanupHLS
<1> QED
  BY <1>2, <1>3

\* A start keeps the types and the recovery timer.
LEMMA StartTyping ==
  ASSUME NEW s \in Streams, NEW a \in [Slots -> Attempts], NEW n \in Slots, Start(s, a, n)
  PROVE  /\ stream' \in Streams /\ att' \in [Slots -> Attempts]
         /\ phase' = "connecting"
         /\ stream'.recovering = s.recovering
<1>0. 0 \in 0..HLS_FATAL_RETRY_MAX + 1
  BY PlayerAssumption
<1>1. phase' = "connecting"
  BY DEF Start
<1>2. CASE s.sticky
  <2>1. /\ stream' = [s EXCEPT !.stopping = FALSE, !.net = 0, !.media = 0]
        /\ att' = [a EXCEPT ![n] = [NoAttempt EXCEPT !.promise = "hls"]]
    BY <1>2 DEF Start
  <2>2. stream' \in Streams /\ stream'.recovering = s.recovering
    BY <1>0, <2>1 DEF Streams
  <2>3. att' \in [Slots -> Attempts]
    BY <2>1 DEF NoAttempt, Attempts
  <2> QED
    BY <1>1, <2>2, <2>3
<1>3. CASE ~s.sticky
  <2>1. /\ stream' = [s EXCEPT !.stopping = FALSE, !.pc = n]
        /\ att' = [a EXCEPT ![n] = [NoAttempt EXCEPT !.chain = "gathering",
                                                     !.promise = "pending", !.pc = TRUE]]
    BY <1>3 DEF Start
  <2>2. stream' \in Streams /\ stream'.recovering = s.recovering
    BY <2>1 DEF Streams
  <2>3. att' \in [Slots -> Attempts]
    BY <2>1 DEF NoAttempt, Attempts
  <2> QED
    BY <1>1, <2>2, <2>3
<1> QED
  BY <1>2, <1>3

\* A stop keeps the types and the recovery timer.
LEMMA StoppedTyping ==
  ASSUME PlayerTypeOK
  PROVE  Stopped \in Streams /\ Stopped.recovering = stream.recovering
BY DEF PlayerTypeOK, Stopped, Detached, Streams

\* Attaching the listeners keeps them too.
LEMMA AttachedTyping ==
  ASSUME PlayerTypeOK, NEW n \in Slots
  PROVE  /\ Attached(n) \in Streams /\ Attached(n).recovering = stream.recovering
         /\ Attached(n).pc = stream.pc /\ Attached(n).hls = stream.hls
         /\ Attached(n).live = stream.live /\ Attached(n).stopping = stream.stopping
         /\ Attached(n).sticky = stream.sticky /\ Attached(n).listens = n
BY DEF PlayerTypeOK, Attached, Streams

\* The rejection of an attempt keeps the types and the recovery timer.
LEMMA RejectTyping ==
  ASSUME PlayerTypeOK, NEW n \in Slots,
         NEW chain \in {"none", "gathering", "fetching", "answered", "over"}, Reject(n, chain)
  PROVE  /\ stream' \in Streams /\ att' \in [Slots -> Attempts]
         /\ stream'.recovering = stream.recovering
<1>0. /\ stream \in Streams /\ att \in [Slots -> Attempts]
      /\ 0 \in 0..HLS_FATAL_RETRY_MAX + 1
  BY PlayerAssumption DEF PlayerTypeOK, Streams, Attempts
<1>1. CASE att[n].promise # "pending" \/ stream.stopping
  <2>1. /\ att' = [att EXCEPT ![n].chain = chain,
                              ![n].promise = IF @ = "pending" THEN "settled" ELSE @]
        /\ UNCHANGED stream
    BY <1>1 DEF Reject
  <2>2. att' \in [Slots -> Attempts]
    BY <1>0, <2>1 DEF Attempts
  <2> QED
    BY <1>0, <2>1, <2>2
<1>2. CASE ~(att[n].promise # "pending" \/ stream.stopping)
  <2>1. /\ att' = [CleanupWebRTC(att) EXCEPT ![n].chain = chain, ![n].promise = "hls"]
        /\ stream' = [stream EXCEPT !.pc = 0, !.net = 0, !.media = 0]
    BY <1>2 DEF Reject
  <2>2. CleanupWebRTC(att) \in [Slots -> Attempts]
    BY <1>0, CleanupTyping
  <2>3. att' \in [Slots -> Attempts]
    BY <2>1, <2>2 DEF Attempts
  <2>4. stream' \in Streams /\ stream'.recovering = stream.recovering
    BY <1>0, <2>1 DEF Streams
  <2> QED
    BY <2>3, <2>4
<1> QED
  BY <1>1, <1>2

\* A recovery starts only when none is under way.
LEMMA RecoverTyping ==
  ASSUME PlayerTypeOK, NEW s \in Streams, NEW dead \in BOOLEAN, Recover(s, dead)
  PROVE  /\ stream' \in Streams /\ att' \in [Slots -> Attempts]
         /\ ~stream.recovering /\ stream'.recovering
<1>0. stream \in Streams /\ att \in [Slots -> Attempts]
  BY DEF PlayerTypeOK, Streams, Attempts
<1>1. att' \in [Slots -> Attempts]
  BY <1>0, CleanupTyping DEF Recover
<1>2. ~stream.recovering
  BY DEF Recover, CanRecover
<1>3. stream' = [Detached(s) EXCEPT !.sticky = @ \/ dead, !.recovering = TRUE]
  BY DEF Recover
<1>4. Detached(s) \in Streams /\ (Detached(s).sticky \/ dead) \in BOOLEAN
  BY DEF Detached, Streams
<1>5. stream' \in Streams /\ stream'.recovering
  BY <1>0, <1>3, <1>4 DEF Streams
<1> QED
  BY <1>1, <1>2, <1>5

\* What every step does to the types and to the recovery timer.
StepKeeps == /\ stream' \in Streams /\ att' \in [Slots -> Attempts]
             /\ viewer' \in {"patient", "hasty"} /\ started' \in BOOLEAN
             /\ phase' \in {"idle", "connecting", "live", "error"}
             /\ \/ stream'.recovering = stream.recovering /\ timers' = timers
                \/ ~stream.recovering /\ stream'.recovering /\ timers' = timers + 1
                \/ timers > 0 /\ ~stream'.recovering /\ timers' = timers - 1

\* Every step keeps the types and one recovery timer.
LEMMA EveryStep ==
  ASSUME PlayerTypeOK, PlayerNext
  PROVE  StepKeeps
<1>0. /\ stream \in Streams /\ att \in [Slots -> Attempts]
      /\ viewer \in {"patient", "hasty"} /\ started \in BOOLEAN /\ timers \in Nat
      /\ phase \in {"idle", "connecting", "live", "error"}
  BY DEF PlayerTypeOK, Streams, Attempts
<1>1. CASE ClickStart
  <2>1. PICK n \in Slots : Start(stream, att, n)
    BY <1>1 DEF ClickStart
  <2>2. stream' \in Streams /\ att' \in [Slots -> Attempts] /\ phase' = "connecting"
        /\ stream'.recovering = stream.recovering
    BY <1>0, <2>1, StartTyping
  <2> QED
    BY <1>0, <1>1, <2>2 DEF ClickStart, StepKeeps
<1>2. CASE ClickStop
  <2>1. CleanupHLS(CleanupWebRTC(att)) \in [Slots -> Attempts]
    BY <1>0, CleanupTyping
  <2>2. stream' = Stopped /\ att' = CleanupHLS(CleanupWebRTC(att))
        /\ phase' = "idle" /\ started' = FALSE /\ UNCHANGED <<viewer, timers>>
    BY <1>2 DEF ClickStop
  <2> QED
    BY <1>0, <2>1, <2>2, StoppedTyping DEF StepKeeps
<1>3. CASE ShownAgain
  <2>1. PICK n \in Slots : Start(Stopped, CleanupHLS(CleanupWebRTC(att)), n)
    BY <1>3 DEF ShownAgain
  <2>2. CleanupHLS(CleanupWebRTC(att)) \in [Slots -> Attempts]
    BY <1>0, CleanupTyping
  <2>3. stream' \in Streams /\ att' \in [Slots -> Attempts] /\ phase' = "connecting"
        /\ stream'.recovering = stream.recovering
    BY <2>1, <2>2, StartTyping, StoppedTyping
  <2> QED
    BY <1>0, <1>3, <2>3 DEF ShownAgain, StepKeeps
<1>4. ASSUME NEW n \in Slots, Attempt(n)
      PROVE  StepKeeps
  <2>1. CASE Gathered(n)
    <3>1. CASE stream.stopping
      BY <1>0, <2>1, <3>1, RejectTyping DEF Gathered, StepKeeps
    <3>2. CASE ~stream.stopping
      <4>1. att' = [att EXCEPT ![n].chain = "fetching"]
        BY <2>1, <3>2 DEF Gathered
      <4>2. att' \in [Slots -> Attempts]
        BY <1>0, <4>1 DEF Attempts
      <4> QED
        BY <1>0, <2>1, <3>2, <4>2 DEF Gathered, StepKeeps
    <3> QED
      BY <3>1, <3>2
  <2>2. CASE WebRTCAnswered(n)
    <3>1. stream' = Attached(n) /\ att' = [att EXCEPT ![n].chain = "answered"]
      BY <2>2 DEF WebRTCAnswered
    <3>2. stream' \in Streams /\ stream'.recovering = stream.recovering
      BY <3>1, AttachedTyping
    <3>3. att' \in [Slots -> Attempts]
      BY <1>0, <3>1 DEF Attempts
    <3> QED
      BY <1>0, <2>2, <3>2, <3>3 DEF WebRTCAnswered, StepKeeps
  <2>3. CASE ChainFails(n) \/ WebRTCTimeout(n)
    <3>1. PICK chain \in {"none", "gathering", "fetching", "answered", "over"} : Reject(n, chain)
      <4>1. att[n].chain \in {"none", "gathering", "fetching", "answered", "over"}
        BY <1>0 DEF Attempts
      <4> QED
        BY <2>3, <4>1 DEF ChainFails, WebRTCTimeout
    <3>2. UNCHANGED <<viewer, timers, phase, started>>
      BY <2>3 DEF ChainFails, WebRTCTimeout
    <3> QED
      BY <1>0, <3>1, <3>2, RejectTyping DEF StepKeeps
  <2>4. CASE HlsReady(n)
    <3>1. /\ att' = [att EXCEPT ![n].promise = "settled", ![n].hls = TRUE]
          /\ stream' = [Attached(n) EXCEPT !.hls = n]
      BY <2>4 DEF HlsReady
    <3>2. stream' \in Streams /\ stream'.recovering = stream.recovering
      BY <3>1, AttachedTyping DEF Streams
    <3>3. att' \in [Slots -> Attempts]
      BY <1>0, <3>1 DEF Attempts
    <3> QED
      BY <1>0, <2>4, <3>2, <3>3 DEF HlsReady, StepKeeps
  <2>5. CASE HlsUnsupported(n)
    <3>1. att' = [att EXCEPT ![n].promise = "settled"]
      BY <2>5 DEF HlsUnsupported
    <3>2. att' \in [Slots -> Attempts]
      BY <1>0, <3>1 DEF Attempts
    <3> QED
      BY <1>0, <2>5, <3>2 DEF HlsUnsupported, StepKeeps
  <2>6. CASE Playing(n)
    <3>1. /\ stream' = [stream EXCEPT !.live = TRUE]
          /\ att' = [att EXCEPT ![n].promise = IF @ = "pending" THEN "settled" ELSE @]
      BY <2>6 DEF Playing
    <3>2. stream' \in Streams /\ stream'.recovering = stream.recovering
      BY <1>0, <3>1 DEF Streams
    <3>3. att' \in [Slots -> Attempts]
      BY <1>0, <3>1 DEF Attempts
    <3> QED
      BY <1>0, <2>6, <3>2, <3>3 DEF Playing, StepKeeps
  <2>7. ASSUME NEW kind \in {"net", "media"}, HlsRetry(n, kind)
        PROVE  StepKeeps
    <3>1. stream[kind] < HLS_FATAL_RETRY_MAX /\ stream' = [stream EXCEPT ![kind] = @ + 1]
      BY <2>7 DEF HlsRetry
    <3>2. stream[kind] + 1 \in 0..HLS_FATAL_RETRY_MAX + 1
      BY <1>0, <3>1, PlayerAssumption DEF Streams
    <3>3. CASE kind = "net"
      BY <1>0, <2>7, <3>1, <3>2, <3>3 DEF HlsRetry, StepKeeps, Streams
    <3>4. CASE kind = "media"
      BY <1>0, <2>7, <3>1, <3>2, <3>4 DEF HlsRetry, StepKeeps, Streams
    <3> QED
      BY <3>3, <3>4
  <2>8. ASSUME NEW kind \in {"net", "media"}, HlsGivesUp(n, kind)
        PROVE  StepKeeps
    <3> DEFINE s == [stream EXCEPT ![kind] = HLS_FATAL_RETRY_MAX + 1]
    <3>1. s \in Streams /\ s.recovering = stream.recovering
      BY <1>0, PlayerAssumption DEF Streams
    <3>2. \/ Recover(s, FALSE)
          \/ stream' = s /\ UNCHANGED <<viewer, att, timers, phase, started>>
      BY <2>8 DEF HlsGivesUp
    <3> HIDE DEF s
    <3>3. CASE Recover(s, FALSE)
      BY <1>0, <3>1, <3>3, RecoverTyping DEF Recover, StepKeeps
    <3>4. CASE stream' = s /\ UNCHANGED <<viewer, att, timers, phase, started>>
      BY <1>0, <3>1, <3>4 DEF StepKeeps
    <3> QED
      BY <3>2, <3>3, <3>4
  <2>9. CASE HlsNative(n)
    <3>1. att' = [att EXCEPT ![n].promise = "native"] /\ stream' = Attached(n)
      BY <2>9 DEF HlsNative
    <3>2. att' \in [Slots -> Attempts]
      BY <1>0, <3>1 DEF Attempts
    <3> QED
      BY <1>0, <2>9, <3>1, <3>2, AttachedTyping DEF HlsNative, StepKeeps
  <2> QED
    BY <1>4, <2>1, <2>2, <2>3, <2>4, <2>5, <2>6, <2>7, <2>8, <2>9 DEF Attempt
<1>5. CASE TrackDies \/ ConnectionFails \/ Stalls
  <2>1. PICK dead \in BOOLEAN : Recover(stream, dead)
    BY <1>5 DEF TrackDies, ConnectionFails, Stalls
  <2> QED
    BY <1>0, <2>1, RecoverTyping DEF Recover, StepKeeps
<1>6. CASE TimerFires
  <2> DEFINE s == [stream EXCEPT !.recovering = FALSE]
  <2>1. s \in Streams /\ ~s.recovering
    BY <1>0 DEF Streams
  <2>2. timers > 0 /\ timers' = timers - 1 /\ UNCHANGED <<viewer, started>>
    BY <1>6 DEF TimerFires
  <2>3. CASE s.stopping
    <3>1. stream' = s /\ UNCHANGED <<att, phase>>
      BY <1>6, <2>3 DEF TimerFires
    <3> QED
      BY <1>0, <2>1, <2>2, <3>1 DEF StepKeeps
  <2>4. CASE ~s.stopping
    <3>1. PICK n \in Slots : Start(s, att, n)
      BY <1>6, <2>4 DEF TimerFires
    <3>2. /\ stream' \in Streams /\ att' \in [Slots -> Attempts] /\ phase' = "connecting"
          /\ stream'.recovering = s.recovering
      BY <1>0, <2>1, <3>1, StartTyping
    <3> QED
      BY <1>0, <2>1, <2>2, <3>2 DEF StepKeeps
  <2> QED
    BY <2>3, <2>4
<1>7. CASE CheckerTick
  BY <1>0, <1>7 DEF CheckerTick, StepKeeps, Streams
<1> QED
  BY <1>1, <1>2, <1>3, <1>4, <1>5, <1>6, <1>7 DEF PlayerNext

\* So does the next-state relation.
LEMMA TypesAndTimer ==
  PlayerTypeOK /\ OneRecovery /\ [PlayerNext]_playerVars => PlayerTypeOK' /\ OneRecovery'
<1> SUFFICES ASSUME PlayerTypeOK, OneRecovery, [PlayerNext]_playerVars
             PROVE  PlayerTypeOK' /\ OneRecovery'
  OBVIOUS
<1>1. CASE PlayerNext
  <2>1. StepKeeps
    BY <1>1, EveryStep
  <2>2. timers \in Nat /\ timers' \in Nat
    BY <2>1 DEF PlayerTypeOK, StepKeeps
  <2>3. PlayerTypeOK'
    BY <2>1, <2>2 DEF StepKeeps, PlayerTypeOK, Streams, Attempts
  <2>4. CASE stream'.recovering = stream.recovering /\ timers' = timers
    BY <2>3, <2>4, Zenon DEF OneRecovery
  <2>5. CASE ~stream.recovering /\ stream'.recovering /\ timers' = timers + 1
    <3>1. timers = 0
      BY <2>5, Zenon DEF OneRecovery
    <3>2. timers' = 1
      BY <2>5, <3>1
    <3> QED
      BY <2>3, <2>5, <3>2, Zenon DEF OneRecovery
  <2>6. CASE timers > 0 /\ ~stream'.recovering /\ timers' = timers - 1
    <3>1. timers = 1
      BY <2>6 DEF OneRecovery
    <3>2. timers' = 0
      BY <2>6, <3>1
    <3> QED
      BY <2>3, <2>6, <3>2, Zenon DEF OneRecovery
  <2> QED
    BY <2>1, <2>3, <2>4, <2>5, <2>6 DEF StepKeeps
<1>2. CASE UNCHANGED playerVars
  BY <1>2 DEF playerVars, PlayerTypeOK, OneRecovery
<1> QED
  BY <1>1, <1>2

-----------------------------------------------------------------------------
(* What is open, for a patient viewer *)

Idle(a, n) == ~a[n].pc /\ ~a[n].hls /\ a[n].promise \notin {"pending", "hls"}
BarTypes == started \in BOOLEAN /\ phase \in {"idle", "connecting", "live", "error"}

\* stop() and a recovery close everything, because all that is open is named.
LEMMA CleanupCloses ==
  ASSUME PlayerTypeOK, OpenIsNamed, NEW n \in Slots
  PROVE  LET a == CleanupHLS(CleanupWebRTC(att)) IN
         /\ ~a[n].pc /\ ~a[n].hls
         /\ a[n].promise = att[n].promise /\ a[n].chain = att[n].chain
<1>0. att \in [Slots -> Attempts]
  BY DEF PlayerTypeOK, Attempts
<1> DEFINE b == CleanupWebRTC(att)
<1>1. b[n] = IF n = stream.pc THEN [att[n] EXCEPT !.pc = FALSE] ELSE att[n]
  BY DEF CleanupWebRTC
<1>2. b[n] \in Attempts /\ ~b[n].pc /\ b[n].hls = att[n].hls
      /\ b[n].promise = att[n].promise /\ b[n].chain = att[n].chain
  BY <1>0, <1>1 DEF OpenIsNamed, Attempts
<1> HIDE DEF b
<1>3. CleanupHLS(b)[n] = IF n = stream.hls THEN [b[n] EXCEPT !.hls = FALSE] ELSE b[n]
  BY DEF CleanupHLS
<1>4. /\ ~CleanupHLS(b)[n].pc /\ ~CleanupHLS(b)[n].hls
      /\ CleanupHLS(b)[n].promise = att[n].promise /\ CleanupHLS(b)[n].chain = att[n].chain
  BY <1>0, <1>2, <1>3 DEF OpenIsNamed, Attempts
<1> QED
  BY <1>4 DEF b

\* With nothing open and nothing under way, only the control bar is left to look at.
LEMMA IdleInv ==
  ASSUME \A n \in Slots : Idle(att', n), BarIsTrue'
  PROVE  PatientInv'
BY DEF Idle, PatientInv, OpenIsNamed, OneAttempt, StickyIsHls, Waiting, Open

\* An attempt that starts when nothing is open or under way.
LEMMA StartInv ==
  ASSUME NEW s \in Streams, NEW a \in [Slots -> Attempts], NEW n \in Slots, Start(s, a, n),
         \A k \in Slots : Idle(a, k) /\ ~(a[k].promise = "native" /\ s.listens = k),
         ~s.live, timers' = 0, started' = TRUE
  PROVE  PatientInv'
<1>1. CASE s.sticky
  <2>1. /\ stream' = [s EXCEPT !.stopping = FALSE, !.net = 0, !.media = 0]
        /\ att' = [a EXCEPT ![n] = [NoAttempt EXCEPT !.promise = "hls"]]
        /\ phase' = "connecting"
    BY <1>1 DEF Start
  <2>2. ~stream'.stopping /\ ~stream'.live /\ stream'.listens = s.listens
    BY <2>1 DEF Streams
  <2>3. /\ \A k \in Slots : ~att'[k].pc /\ ~att'[k].hls
        /\ \A k \in Slots : k # n => Idle(att', k) /\ att'[k] = a[k]
        /\ att'[n].promise = "hls"
    BY <2>1 DEF Idle, NoAttempt, Attempts
  <2>4. \A k \in Slots : ~Open(k)' /\ (Waiting(k)' => k = n) /\ ~PlaysNatively(k)'
    BY <2>2, <2>3 DEF Open, Waiting, Idle, PlaysNatively
  <2>5. BarIsTrue'
    BY <2>1, <2>2, <2>4 DEF BarIsTrue, NothingOpen
  <2>6. OpenIsNamed' /\ StickyIsHls'
    BY <2>3 DEF OpenIsNamed, StickyIsHls
  <2>7. OneAttempt'
    BY <2>1, <2>2, <2>3, <2>4 DEF OneAttempt
  <2> QED
    BY <2>5, <2>6, <2>7 DEF PatientInv
<1>2. CASE ~s.sticky
  <2>1. /\ stream' = [s EXCEPT !.stopping = FALSE, !.pc = n]
        /\ att' = [a EXCEPT ![n] = [NoAttempt EXCEPT !.chain = "gathering",
                                                     !.promise = "pending", !.pc = TRUE]]
        /\ phase' = "connecting"
    BY <1>2 DEF Start
  <2>2. ~stream'.stopping /\ ~stream'.live /\ ~stream'.sticky /\ stream'.pc = n
        /\ stream'.listens = s.listens
    BY <1>2, <2>1 DEF Streams
  <2>3. /\ att'[n].chain = "gathering" /\ att'[n].promise = "pending" /\ ~att'[n].hls
        /\ \A k \in Slots : k # n => Idle(att', k) /\ att'[k] = a[k]
    BY <2>1 DEF Idle, NoAttempt, Attempts
  <2>4. \A k \in Slots : /\ (Open(k)' => k = n) /\ (Waiting(k)' => k = n) /\ ~att'[k].hls
                         /\ ~PlaysNatively(k)'
    BY <2>2, <2>3 DEF Open, Waiting, Idle, PlaysNatively
  <2>5. BarIsTrue'
    BY <2>1, <2>2 DEF BarIsTrue
  <2>6. OpenIsNamed' /\ StickyIsHls'
    BY <2>2, <2>3, <2>4 DEF OpenIsNamed, StickyIsHls, Idle
  <2>7. OneAttempt'
    BY <2>1, <2>2, <2>3, <2>4 DEF OneAttempt
  <2> QED
    BY <2>5, <2>6, <2>7 DEF PatientInv
<1> QED
  BY <1>1, <1>2

\* A promise that is rejected hands its attempt over to HLS, with its connection closed.
LEMMA RejectInv ==
  ASSUME PlayerTypeOK, OpenIsNamed, OneAttempt, BarIsTrue, StickyIsHls, viewer = "patient",
         NEW n \in Slots, NEW chain \in {"none", "gathering", "fetching", "answered", "over"},
         Reject(n, chain), UNCHANGED <<viewer, timers, phase, started>>,
         att[n].chain \in {"gathering", "fetching"} \/ att[n].promise = "pending",
         att[n].promise = "pending" \/ chain = "over"
  PROVE  PatientInv'
<1>0. stream \in Streams /\ att \in [Slots -> Attempts]
  BY DEF PlayerTypeOK, Streams, Attempts
<1>1. CASE att[n].promise = "pending"
  <2>1. Waiting(n)
    BY <1>1 DEF Waiting
  <2>2. ~stream.stopping /\ ~stream.live /\ timers = 0 /\ phase = "connecting"
        /\ \A k \in Slots : (Waiting(k) \/ Open(k) => n = k) /\ ~PlaysNatively(k)
    BY <2>1 DEF OneAttempt
  <2>3. /\ att' = [CleanupWebRTC(att) EXCEPT ![n].chain = chain, ![n].promise = "hls"]
        /\ stream' = [stream EXCEPT !.pc = 0, !.net = 0, !.media = 0]
    BY <1>1, <2>2 DEF Reject
  <2> DEFINE b == CleanupWebRTC(att)
  <2>4. b \in [Slots -> Attempts]
    BY <1>0, CleanupTyping
  <2>5. \A k \in Slots : /\ ~b[k].pc /\ b[k].hls = att[k].hls /\ b[k].promise = att[k].promise
    BY <1>0 DEF CleanupWebRTC, OpenIsNamed, Attempts
  <2>6. att' = [b EXCEPT ![n].chain = chain, ![n].promise = "hls"]
    BY <2>3
  <2> HIDE DEF b
  <2>7. \A k \in Slots : ~att'[k].pc /\ att'[k].hls = att[k].hls
    BY <2>4, <2>5, <2>6 DEF Attempts
  <2>8. /\ \A k \in Slots : k # n => att'[k].promise = att[k].promise
        /\ att'[n].promise = "hls" /\ stream'.listens = stream.listens
    BY <1>0, <2>3, <2>4, <2>5, <2>6 DEF Streams, Attempts
  <2>9. \A k \in Slots : ~att[k].hls
    BY <2>1, <2>2 DEF OneAttempt, Open
  <2>10. \A k \in Slots : ~Open(k)' /\ (Waiting(k)' => k = n) /\ ~PlaysNatively(k)'
    BY <2>2, <2>7, <2>8, <2>9 DEF Open, Waiting, PlaysNatively
  <2>11. ~stream'.stopping /\ ~stream'.live
    BY <1>0, <2>2, <2>3 DEF Streams
  <2>12. BarIsTrue'
    BY <2>2, <2>10, <2>11 DEF BarIsTrue, NothingOpen
  <2>13. OneAttempt'
    BY <2>2, <2>7, <2>9, <2>10, <2>11 DEF OneAttempt
  <2>14. OpenIsNamed' /\ StickyIsHls'
    BY <2>7, <2>9 DEF OpenIsNamed, StickyIsHls
  <2> QED
    BY <2>12, <2>13, <2>14 DEF PatientInv
<1>2. CASE att[n].promise # "pending"
  \* The chain of an attempt whose promise is settled can only end.
  <2>1. att' = [att EXCEPT ![n].chain = "over", ![n].promise = IF @ = "pending" THEN "settled" ELSE @]
        /\ UNCHANGED stream
    BY <1>2 DEF Reject
  <2>2. ~att[n].pc
    BY <1>2 DEF OpenIsNamed
  <2>3. /\ \A k \in Slots : /\ att'[k].pc = att[k].pc /\ att'[k].hls = att[k].hls
                            /\ att'[k].promise = att[k].promise
        /\ \A k \in Slots : k # n => att'[k].chain = att[k].chain
    BY <1>0, <1>2, <2>1 DEF Attempts
  <2>4. \A k \in Slots : /\ Open(k)' = Open(k) /\ (Waiting(k)' <=> Waiting(k))
                         /\ PlaysNatively(k)' <=> PlaysNatively(k)
    BY <2>1, <2>2, <2>3 DEF Open, Waiting, PlaysNatively
  <2>5. OpenIsNamed' /\ StickyIsHls'
    <3>1. StickyIsHls'
      BY <2>1, <2>3 DEF StickyIsHls
    <3>2. ASSUME NEW k \in Slots
          PROVE  /\ att'[k].pc => /\ stream'.pc = k
                                  /\ att'[k].chain \in {"gathering", "fetching", "answered"}
                                  /\ att'[k].chain # "answered" => att'[k].promise = "pending"
                 /\ att'[k].hls => stream'.hls = k
      <4>1. CASE k = n
        BY <2>1, <2>2, <2>3, <4>1 DEF OpenIsNamed
      <4>2. CASE k # n
        <5>1. att'[k] = att[k]
          BY <1>0, <2>1, <4>2
        <5> QED
          BY <2>1, <5>1 DEF OpenIsNamed
      <4> QED
        BY <4>1, <4>2
    <3>3. \A k, m \in Slots : ~(att'[k].pc /\ att'[m].hls)
      BY <2>3 DEF OpenIsNamed
    <3> QED
      BY <3>1, <3>2, <3>3 DEF OpenIsNamed
  <2>6. OneAttempt'
    BY <2>1, <2>3, <2>4 DEF OneAttempt
  <2>7. BarIsTrue'
    BY <2>1, <2>4 DEF BarIsTrue, NothingOpen
  <2> QED
    BY <2>5, <2>6, <2>7 DEF PatientInv
<1> QED
  BY <1>1, <1>2

\* For a patient viewer a recovery leaves nothing open.
LEMMA RecoverInv ==
  ASSUME PlayerTypeOK, OneRecovery, OpenIsNamed, OneAttempt, BarIsTrue, StickyIsHls,
         viewer = "patient", NEW s \in Streams, s.stopping = stream.stopping,
         NEW dead \in BOOLEAN, Recover(s, dead)
  PROVE  PatientInv'
<1>0. stream \in Streams /\ att \in [Slots -> Attempts]
  BY DEF PlayerTypeOK, Streams, Attempts
<1>1. stream.live /\ ~stream.stopping /\ UNCHANGED <<viewer, phase, started>>
      /\ att' = CleanupHLS(CleanupWebRTC(att))
      /\ stream' = [Detached(s) EXCEPT !.sticky = @ \/ dead, !.recovering = TRUE]
  BY DEF Recover, CanRecover
<1>2. \A n \in Slots : ~Waiting(n)
  BY <1>1 DEF OneAttempt
<1>3. \A n \in Slots : Idle(att', n)
  BY <1>1, <1>2, CleanupCloses DEF Idle, Waiting
<1>4. phase \notin {"idle", "error"}
  BY <1>1 DEF BarIsTrue
<1>5. ~stream'.live /\ ~stream'.stopping /\ stream'.listens = 0
  BY <1>0, <1>1 DEF Detached, Streams
<1>6. NothingOpen'
  BY <1>3, <1>5, PlayerAssumption DEF NothingOpen, Open, Idle, PlaysNatively
<1>7. BarIsTrue'
  BY <1>1, <1>4, <1>5, <1>6 DEF BarIsTrue
<1> QED
  BY <1>3, <1>7, IdleInv

\* The error counters and the stall checker do not matter to what is open.
SameStream == /\ stream'.pc = stream.pc /\ stream'.hls = stream.hls
              /\ stream'.live = stream.live /\ stream'.stopping = stream.stopping
              /\ stream'.sticky = stream.sticky /\ stream'.listens = stream.listens

\* A step that changes nothing but a counter or the checker keeps what is open.
LEMMA SameInv ==
  ASSUME OpenIsNamed, OneAttempt, BarIsTrue, StickyIsHls, SameStream,
         UNCHANGED <<viewer, att, timers, phase, started>>
  PROVE  PatientInv'
<1>1. OpenIsNamed' /\ StickyIsHls'
  BY DEF OpenIsNamed, StickyIsHls, SameStream
<1>2. OneAttempt'
  BY DEF OneAttempt, SameStream, Waiting, Open, PlaysNatively
<1>3. BarIsTrue'
  BY DEF BarIsTrue, SameStream, NothingOpen, Open, PlaysNatively
<1> QED
  BY <1>1, <1>2, <1>3 DEF PatientInv

\* Every step of a patient viewer keeps what is open named.
LEMMA PatientStep ==
  ASSUME PlayerTypeOK, OneRecovery, PatientInv, PlayerNext, viewer = "patient"
  PROVE  PatientInv'
<1>0. /\ stream \in Streams /\ att \in [Slots -> Attempts] /\ timers \in Nat
      /\ phase \in {"idle", "connecting", "live", "error"}
      /\ OpenIsNamed /\ OneAttempt /\ BarIsTrue /\ StickyIsHls
  BY DEF PlayerTypeOK, Streams, Attempts, PatientInv
<1>1. CASE ClickStart
  <2>1. PICK n \in Slots : Start(stream, att, n)
    BY <1>1 DEF ClickStart
  <2>2. /\ timers = 0 /\ \A k \in Slots : ~Waiting(k)
        /\ phase # "connecting" /\ ~(started /\ phase = "live")
        /\ started' = TRUE /\ timers' = timers
    BY <1>1 DEF ClickStart, May, AtRest
  <2>3. phase \in {"idle", "error"}
    BY <1>0, <2>2 DEF BarIsTrue
  <2>4. /\ ~stream.live
        /\ \A k \in Slots : Idle(att, k) /\ ~(att[k].promise = "native" /\ stream.listens = k)
    BY <1>0, <2>2, <2>3 DEF BarIsTrue, NothingOpen, Open, Waiting, Idle, PlaysNatively
  <2> QED
    BY <1>0, <2>1, <2>2, <2>4, StartInv
<1>2. CASE ClickStop
  <2>1. /\ timers = 0 /\ \A k \in Slots : ~Waiting(k)
        /\ stream' = Stopped /\ att' = CleanupHLS(CleanupWebRTC(att))
        /\ phase' = "idle" /\ started' = FALSE /\ timers' = timers
    BY <1>2 DEF ClickStop, May, AtRest
  <2>2. \A n \in Slots : Idle(att', n)
    BY <1>0, <2>1, CleanupCloses DEF Idle, Waiting
  <2>4. ~stream'.live /\ stream'.listens = 0
    BY <1>0, <2>1 DEF Stopped, Detached, Streams
  <2>3. NothingOpen'
    BY <2>2, <2>4, PlayerAssumption DEF NothingOpen, Open, Idle, PlaysNatively
  <2>5. BarIsTrue'
    BY <2>1, <2>3, <2>4 DEF BarIsTrue
  <2> QED
    BY <2>2, <2>5, IdleInv
<1>3. CASE ShownAgain
  <2> DEFINE a == CleanupHLS(CleanupWebRTC(att))
  <2>1. PICK n \in Slots : Start(Stopped, a, n)
    BY <1>3 DEF ShownAgain
  <2>2. /\ timers = 0 /\ \A k \in Slots : ~Waiting(k)
        /\ started /\ UNCHANGED <<timers, started>>
    BY <1>3 DEF ShownAgain, May, AtRest
  <2>3. \A k \in Slots : Idle(a, k)
    BY <1>0, <2>2, CleanupCloses DEF Idle, Waiting
  <2>4. a \in [Slots -> Attempts]
    BY <1>0, CleanupTyping
  <2>5. Stopped \in Streams /\ ~Stopped.live /\ Stopped.listens = 0
    BY <1>0, StoppedTyping DEF Stopped, Detached, Streams
  <2>6. started' = TRUE /\ timers' = 0
    BY <2>2, Zenon DEF PlayerTypeOK
  <2> HIDE DEF a
  <2>7. \A k \in Slots : Idle(a, k) /\ ~(a[k].promise = "native" /\ Stopped.listens = k)
    BY <2>3, <2>5, PlayerAssumption
  <2> QED
    BY <2>1, <2>4, <2>5, <2>6, <2>7, StartInv
<1>4. ASSUME NEW n \in Slots, Attempt(n)
      PROVE  PatientInv'
  <2>1. CASE Gathered(n)
    <3>1. CASE stream.stopping
      BY <1>0, <2>1, <3>1, RejectInv DEF Gathered, OneAttempt, Waiting
    <3>2. CASE ~stream.stopping
      <4>1. /\ att' = [att EXCEPT ![n].chain = "fetching"] /\ att[n].chain = "gathering"
            /\ UNCHANGED <<stream, viewer, timers, phase, started>>
        BY <2>1, <3>2 DEF Gathered
      <4>2. /\ \A k \in Slots : att'[k].pc = att[k].pc /\ att'[k].hls = att[k].hls
                                /\ att'[k].promise = att[k].promise
            /\ \A k \in Slots : k # n => att'[k] = att[k]
            /\ att'[n].chain = "fetching"
        BY <1>0, <4>1 DEF Attempts
      <4>3. \A k \in Slots : /\ Open(k)' = Open(k) /\ (Waiting(k)' <=> Waiting(k))
                             /\ PlaysNatively(k)' <=> PlaysNatively(k)
        BY <4>1, <4>2 DEF Open, Waiting, PlaysNatively
      <4>4. OpenIsNamed'
        BY <1>0, <4>1, <4>2 DEF OpenIsNamed
      <4>5. OneAttempt'
        BY <1>0, <4>1, <4>2, <4>3 DEF OneAttempt
      <4>6. BarIsTrue' /\ StickyIsHls'
        BY <1>0, <4>1, <4>2, <4>3 DEF BarIsTrue, NothingOpen, StickyIsHls
      <4> QED
        BY <4>4, <4>5, <4>6 DEF PatientInv
    <3> QED
      BY <3>1, <3>2
  <2>2. CASE WebRTCAnswered(n)
    <3>1. /\ stream' = Attached(n) /\ att' = [att EXCEPT ![n].chain = "answered"]
          /\ att[n].chain = "fetching" /\ att[n].pc /\ UNCHANGED <<viewer, timers, phase, started>>
      BY <2>2 DEF WebRTCAnswered
    <3>2. /\ \A k \in Slots : att'[k].pc = att[k].pc /\ att'[k].hls = att[k].hls
                              /\ att'[k].promise = att[k].promise
          /\ \A k \in Slots : k # n => att'[k] = att[k]
          /\ att'[n].chain = "answered"
      BY <1>0, <3>1 DEF Attempts
    <3>4. /\ stream'.pc = stream.pc /\ stream'.hls = stream.hls /\ stream'.live = stream.live
          /\ stream'.stopping = stream.stopping /\ stream'.sticky = stream.sticky
          /\ stream'.listens = n
      BY <3>1, AttachedTyping
    <3>3. \A k \in Slots : /\ Open(k)' = Open(k) /\ (Waiting(k)' => Waiting(k))
                           /\ ~PlaysNatively(k)'
      BY <1>0, <3>1, <3>2, <3>4 DEF Open, Waiting, PlaysNatively, OpenIsNamed
    <3>5. OpenIsNamed'
      BY <1>0, <3>1, <3>2, <3>4 DEF OpenIsNamed
    <3>6. OneAttempt'
      BY <1>0, <3>1, <3>2, <3>3, <3>4 DEF OneAttempt
    <3>7. BarIsTrue' /\ StickyIsHls'
      BY <1>0, <3>1, <3>2, <3>3, <3>4 DEF BarIsTrue, NothingOpen, StickyIsHls
    <3> QED
      BY <3>5, <3>6, <3>7 DEF PatientInv
  <2>3. CASE ChainFails(n)
    BY <1>0, <2>3, RejectInv DEF ChainFails
  <2>4. CASE WebRTCTimeout(n)
    <3>1. att[n].chain \in {"none", "gathering", "fetching", "answered", "over"}
      BY <1>0 DEF Attempts
    <3> QED
      BY <1>0, <2>4, <3>1, RejectInv DEF WebRTCTimeout
  <2>5. CASE HlsReady(n) \/ HlsNative(n) \/ HlsUnsupported(n)
    <3>1. att[n].promise = "hls" /\ UNCHANGED <<viewer, timers, started>>
      BY <2>5 DEF HlsReady, HlsNative, HlsUnsupported
    <3>2. /\ Waiting(n) /\ ~stream.stopping /\ ~stream.live /\ timers = 0 /\ phase = "connecting"
          /\ \A k \in Slots : (Waiting(k) => k = n) /\ ~PlaysNatively(k)
      BY <1>0, <3>1 DEF OneAttempt, Waiting
    <3>3. \A k \in Slots : ~att[k].pc /\ ~att[k].hls
      BY <1>0, <3>1, <3>2 DEF OneAttempt, Open
    <3>4. CASE HlsUnsupported(n)
      <4>1. att' = [att EXCEPT ![n].promise = "settled"] /\ phase' = "error" /\ stream' = stream
        BY <3>2, <3>4 DEF HlsUnsupported
      <4>2. \A k \in Slots : Idle(att', k) /\ ~PlaysNatively(k)'
        BY <1>0, <3>2, <3>3, <4>1 DEF Idle, Waiting, Attempts, PlaysNatively
      <4>3. BarIsTrue'
        BY <1>0, <3>1, <3>2, <4>1, <4>2 DEF BarIsTrue, NothingOpen, Open, Idle
      <4> QED
        BY <4>2, <4>3, IdleInv
    <3>5. CASE HlsReady(n)
      <4>1. /\ att' = [att EXCEPT ![n].promise = "settled", ![n].hls = TRUE]
            /\ stream' = [Attached(n) EXCEPT !.hls = n] /\ phase' = phase
        BY <3>5 DEF HlsReady
      <4>2. \A k \in Slots : /\ ~att'[k].pc /\ (att'[k].hls => k = n)
                             /\ att'[k].promise \notin {"pending", "hls"}
        BY <1>0, <3>2, <3>3, <4>1 DEF Waiting, Attempts
      <4>3. stream'.hls = n /\ stream'.live = stream.live /\ stream'.stopping = stream.stopping
        BY <4>1, AttachedTyping DEF Streams
      <4>4. OpenIsNamed' /\ StickyIsHls'
        BY <4>2, <4>3 DEF OpenIsNamed, StickyIsHls
      <4>5. OneAttempt'
        BY <4>2 DEF OneAttempt, Waiting
      <4>6. BarIsTrue'
        BY <1>0, <3>1, <3>2, <4>1, <4>3 DEF BarIsTrue
      <4> QED
        BY <4>4, <4>5, <4>6 DEF PatientInv
    <3>6. CASE HlsNative(n)
      <4>1. /\ att' = [att EXCEPT ![n].promise = "native"]
            /\ stream' = Attached(n) /\ phase' = phase
        BY <3>6 DEF HlsNative
      <4>2. \A k \in Slots : Idle(att', k)
        BY <1>0, <3>2, <3>3, <4>1 DEF Idle, Waiting, Attempts
      <4>3. stream'.live = stream.live /\ stream'.stopping = stream.stopping
        BY <4>1, AttachedTyping
      <4>4. BarIsTrue'
        BY <1>0, <3>1, <3>2, <4>1, <4>3 DEF BarIsTrue
      <4> QED
        BY <4>2, <4>4, IdleInv
    <3> QED
      BY <2>5, <3>4, <3>5, <3>6
  <2>6. CASE Playing(n)
    <3>1. /\ stream' = [stream EXCEPT !.live = TRUE]
          /\ att' = [att EXCEPT ![n].promise = IF @ = "pending" THEN "settled" ELSE @]
          /\ phase' = "live" /\ UNCHANGED <<viewer, timers, started>>
          /\ (att[n].chain = "answered" /\ att[n].pc) \/ att[n].hls \/ PlaysNatively(n)
      BY <2>6 DEF Playing
    <3>2. (Open(n) \/ PlaysNatively(n)) /\ ~stream.stopping
      BY <2>6, <3>1 DEF Open, Playing
    <3>3. phase \notin {"idle", "error"} /\ ~(timers > 0)
      BY <1>0, <3>2 DEF BarIsTrue, NothingOpen
    <3>4. /\ \A k \in Slots : att'[k].pc = att[k].pc /\ att'[k].hls = att[k].hls
                              /\ att'[k].chain = att[k].chain
          /\ \A k \in Slots : k # n => att'[k] = att[k]
          /\ att'[n].promise # "pending"
          /\ att[n].promise # "pending" => att'[n] = att[n]
          /\ \A k \in Slots : att'[k].promise = "native" => att[k].promise = "native"
      BY <1>0, <3>1 DEF Attempts
    <3>5. \A k \in Slots : Waiting(k) => k = n
      BY <1>0, <3>2 DEF OneAttempt
    <3>6. \A k \in Slots : ~Waiting(k)'
      <4>1. \A k \in Slots : k # n => ~Waiting(k)'
        BY <3>4, <3>5 DEF Waiting
      <4>2. CASE att[n].hls
        <5>1. ~Waiting(n)
          BY <1>0, <4>2 DEF OneAttempt
        <5>2. ~Waiting(n)'
          BY <3>4, <5>1 DEF Waiting
        <5> QED
          BY <4>1, <5>2
      <4>3. CASE att[n].chain = "answered" /\ att[n].pc
        <5>1. att[n].promise # "hls"
          BY <1>0, <4>3 DEF OneAttempt, Waiting
        <5>2. ~Waiting(n)'
          BY <1>0, <3>1, <3>4, <4>3, <5>1 DEF Waiting, Attempts
        <5> QED
          BY <4>1, <5>2
      <4>4. CASE PlaysNatively(n)
        <5>1. ~Waiting(n)
          BY <1>0, <4>4 DEF OneAttempt
        <5>2. ~Waiting(n)'
          BY <3>4, <4>4, <5>1 DEF Waiting, PlaysNatively
        <5> QED
          BY <4>1, <5>2
      <4> QED
        BY <3>1, <4>2, <4>3, <4>4
    <3>7. /\ stream'.pc = stream.pc /\ stream'.hls = stream.hls
          /\ stream'.stopping = stream.stopping /\ stream'.sticky = stream.sticky
      BY <1>0, <3>1 DEF Streams
    <3>8. OneAttempt'
      BY <3>6 DEF OneAttempt
    <3>9. BarIsTrue'
      BY <1>0, <3>1, <3>3, <3>7 DEF BarIsTrue
    <3>10. StickyIsHls'
      BY <1>0, <3>1, <3>4, <3>7 DEF StickyIsHls
    <3>11. OpenIsNamed'
      <4>1. ASSUME NEW k \in Slots, att'[k].pc, att'[k].chain # "answered"
            PROVE  att'[k].promise = "pending"
        <5>1. CASE k = n
          BY <1>0, <3>1, <3>4, <4>1, <5>1 DEF OpenIsNamed, PlaysNatively
        <5>2. CASE k # n
          BY <1>0, <3>4, <4>1, <5>2 DEF OpenIsNamed
        <5> QED
          BY <5>1, <5>2
      <4> QED
        BY <1>0, <3>4, <3>7, <4>1 DEF OpenIsNamed
    <3> QED
      BY <3>8, <3>9, <3>10, <3>11 DEF PatientInv
  <2>7. ASSUME NEW kind \in {"net", "media"}, HlsRetry(n, kind)
        PROVE  PatientInv'
    <3>1. /\ stream' = [stream EXCEPT ![kind] = @ + 1]
          /\ UNCHANGED <<viewer, att, timers, phase, started>>
      BY <2>7 DEF HlsRetry
    <3>2. SameStream
      BY <1>0, <3>1 DEF Streams, SameStream
    <3> QED
      BY <1>0, <3>1, <3>2, SameInv
  <2>8. ASSUME NEW kind \in {"net", "media"}, HlsGivesUp(n, kind)
        PROVE  PatientInv'
    <3> DEFINE s == [stream EXCEPT ![kind] = HLS_FATAL_RETRY_MAX + 1]
    <3>1. /\ s \in Streams /\ s.stopping = stream.stopping /\ s.live = stream.live
          /\ s.sticky = stream.sticky /\ s.pc = stream.pc /\ s.hls = stream.hls
          /\ s.listens = stream.listens
      BY <1>0, PlayerAssumption DEF Streams
    <3>2. \/ Recover(s, FALSE)
          \/ stream' = s /\ UNCHANGED <<viewer, att, timers, phase, started>>
      BY <2>8 DEF HlsGivesUp
    <3> HIDE DEF s
    <3>3. CASE Recover(s, FALSE)
      BY <1>0, <3>1, <3>3, RecoverInv
    <3>4. CASE stream' = s /\ UNCHANGED <<viewer, att, timers, phase, started>>
      BY <1>0, <3>1, <3>4, SameInv DEF SameStream
    <3> QED
      BY <3>2, <3>3, <3>4
  <2> QED
    BY <1>4, <2>1, <2>2, <2>3, <2>4, <2>5, <2>6, <2>7, <2>8 DEF Attempt
<1>5. CASE TrackDies \/ ConnectionFails \/ Stalls
  <2>1. PICK dead \in BOOLEAN : Recover(stream, dead)
    BY <1>5 DEF TrackDies, ConnectionFails, Stalls
  <2> QED
    BY <1>0, <2>1, RecoverInv
<1>6. CASE TimerFires
  <2> DEFINE s == [stream EXCEPT !.recovering = FALSE]
  <2>1. /\ s \in Streams /\ s.live = stream.live /\ s.stopping = stream.stopping
        /\ s.listens = stream.listens
        /\ timers > 0 /\ timers' = timers - 1 /\ UNCHANGED <<viewer, started>>
    BY <1>0, <1>6 DEF Streams, TimerFires
  <2>2. phase \notin {"idle", "error"} /\ ~stream.live /\ NothingOpen
    BY <1>0, <2>1 DEF BarIsTrue
  <2>3. started /\ ~stream.stopping
    BY <1>0, <2>2 DEF BarIsTrue
  <2>4. PICK n \in Slots : Start(s, att, n)
    BY <1>6, <2>1, <2>3 DEF TimerFires
  <2>5. \A k \in Slots : ~Waiting(k)
    BY <1>0, <2>1 DEF OneAttempt
  <2>6. \A k \in Slots : Idle(att, k) /\ ~(att[k].promise = "native" /\ s.listens = k)
    BY <2>1, <2>2, <2>5 DEF NothingOpen, Open, Waiting, Idle, PlaysNatively
  <2>7. timers' = 0
    BY <2>1 DEF OneRecovery
  <2>8. started' = TRUE
    BY <2>1, <2>3, Zenon DEF PlayerTypeOK
  <2> HIDE DEF s
  <2> QED
    BY <1>0, <2>1, <2>2, <2>4, <2>6, <2>7, <2>8, StartInv
<1>7. CASE CheckerTick
  BY <1>0, <1>7, SameInv DEF CheckerTick, SameStream, Streams
<1> QED
  BY <1>1, <1>2, <1>3, <1>4, <1>5, <1>6, <1>7 DEF PlayerNext

-----------------------------------------------------------------------------
\* A player that has not been started satisfies the invariant.
LEMMA PlayerInitInv == PlayerInit => PlayerInv
<1> SUFFICES ASSUME PlayerInit
             PROVE  PlayerInv
  OBVIOUS
<1>1. 0 \in 0..HLS_FATAL_RETRY_MAX + 1
  BY PlayerAssumption
<1>2. stream \in Streams /\ ~stream.recovering /\ ~stream.live /\ ~stream.stopping
  BY <1>1 DEF PlayerInit, Streams
<1>3. att \in [Slots -> Attempts] /\ \A n \in Slots : Idle(att, n)
  BY DEF PlayerInit, NoAttempt, Attempts, Idle
<1>4. viewer \in {"patient", "hasty"} /\ timers = 0 /\ phase = "idle" /\ started = FALSE
  BY DEF PlayerInit
<1>5. PlayerTypeOK
  BY <1>2, <1>3, <1>4 DEF PlayerTypeOK, Streams, Attempts
<1>6. OneRecovery
  BY <1>2, <1>4, Zenon DEF OneRecovery
<1>7. NothingOpen /\ \A n \in Slots : ~Waiting(n)
  BY <1>3, <1>4, PlayerAssumption DEF PlayerInit, NothingOpen, Open, Idle, Waiting, PlaysNatively
<1>8. BarIsTrue
  BY <1>2, <1>4, <1>7 DEF BarIsTrue
<1>9. PatientInv
  BY <1>3, <1>7, <1>8 DEF PatientInv, OpenIsNamed, OneAttempt, StickyIsHls, Idle
<1> QED
  BY <1>5, <1>6, <1>9 DEF PlayerInv

\* Every step keeps the invariant.
LEMMA PlayerStep == PlayerInv /\ [PlayerNext]_playerVars => PlayerInv'
<1> SUFFICES ASSUME PlayerInv, [PlayerNext]_playerVars
             PROVE  PlayerInv'
  OBVIOUS
<1>1. PlayerTypeOK' /\ OneRecovery'
  BY TypesAndTimer DEF PlayerInv
<1>2. CASE PlayerNext
  <2>1. viewer' = viewer
    BY <1>2 DEF PlayerNext, ClickStart, ClickStop, ShownAgain, Attempt, Gathered,
                WebRTCAnswered, ChainFails, WebRTCTimeout, HlsReady, HlsNative, HlsUnsupported,
                Playing, HlsRetry, HlsGivesUp, Recover, TrackDies, ConnectionFails, Stalls,
                CheckerTick, TimerFires
  <2>2. CASE viewer = "patient"
    BY <1>1, <1>2, <2>2, PatientStep DEF PlayerInv
  <2>3. CASE viewer # "patient"
    BY <1>1, <2>1, <2>3 DEF PlayerInv, PatientInv
  <2> QED
    BY <2>2, <2>3
<1>3. CASE UNCHANGED playerVars
  BY <1>1, <1>3 DEF playerVars, PlayerInv, PatientInv, OpenIsNamed, OneAttempt, BarIsTrue,
                    StickyIsHls, Waiting, Open, NothingOpen, PlaysNatively
<1> QED
  BY <1>2, <1>3

\* The invariant of the live player holds in every reachable state.
LEMMA PlayerInvariance == PlayerSpec => []PlayerInv
BY PlayerInitInv, PlayerStep, PTL DEF PlayerSpec

\* Every variable stays in its type; the error counters of HLS pass their cap by one at most.
THEOREM PlayerTypeCorrectness == PlayerSpec => []PlayerTypeOK
<1>1. PlayerInv => PlayerTypeOK
  BY DEF PlayerInv
<1> QED
  BY <1>1, PlayerInvariance, PTL

\* One recovery timer runs exactly while the stream is recovering, even for a hasty viewer whose
\* stops and starts fall between its two seconds.
THEOREM SingleRecovery == PlayerSpec => []OneRecovery
<1>1. PlayerInv => OneRecovery
  BY DEF PlayerInv
<1> QED
  BY <1>1, PlayerInvariance, PTL

\* No connection and no hls.js instance is lost or kept open beside another transport, and none is
\* open once the viewer has stopped, for any number of attempts, timeouts and recoveries of a
\* viewer who lets each attempt end.
THEOREM NoLeak == PlayerSpec => []NothingLeaks
<1>1. PlayerInv => NothingLeaks
  BY DEF PlayerInv, PatientInv, OpenIsNamed, BarIsTrue, NothingLeaks, NothingOpen
<1> QED
  BY <1>1, PlayerInvariance, PTL

\* Once a dead track has latched HLS no WebRTC connection is ever open again, for a viewer who
\* lets each attempt end.
THEOREM NoFlip == PlayerSpec => []StickyIsHls
<1>1. PlayerInv => StickyIsHls
  BY DEF PlayerInv, PatientInv, StickyIsHls
<1> QED
  BY <1>1, PlayerInvariance, PTL

-----------------------------------------------------------------------------
(* The snapshot player *)

SnapInv == SnapTypeOK /\ OneFetch /\ HiddenIsQuiet

\* A snapshot player that has just been made satisfies the invariant.
LEMMA SnapInitInv == SnapInit => SnapInv
<1> SUFFICES ASSUME SnapInit
             PROVE  SnapInv
  OBVIOUS
<1>1. 0 \in 0..MaxShots /\ 0 \in Nat
  BY SnapshotAssumption
<1>2. SnapTypeOK
  BY <1>1, Zenon DEF SnapInit, SnapTypeOK
<1>3. OneFetch /\ HiddenIsQuiet
  BY Zenon DEF SnapInit, OneFetch, HiddenIsQuiet
<1> QED
  BY <1>2, <1>3 DEF SnapInv

\* A tick fetches when it finds no fetch under way, and then there is one.
LEMMA TickFetchesOnce ==
  ASSUME SnapInv, Tick
  PROVE  inFlight' \in BOOLEAN /\ fetches' \in Nat /\ OneFetch'
<1>1. CASE ~playing \/ inFlight
  BY <1>1 DEF Tick, SnapInv, SnapTypeOK, OneFetch
<1>2. CASE playing /\ ~inFlight
  <2>1. fetches = 0
    BY <1>2, Zenon DEF SnapInv, OneFetch
  <2>2. inFlight' = TRUE /\ fetches' = fetches + 1
    BY <1>2 DEF Tick
  <2>3. fetches' = 1
    BY <2>1, <2>2
  <2>4. fetches' \in Nat
    BY <2>3
  <2> QED
    BY <2>2, <2>3, <2>4, Zenon DEF OneFetch
<1> QED
  BY <1>1, <1>2

\* Every step of it keeps the invariant.
LEMMA SnapStep == SnapInv /\ [SnapNext]_snapVars => SnapInv'
<1> SUFFICES ASSUME SnapInv, [SnapNext]_snapVars
             PROVE  SnapInv'
  OBVIOUS
<1> USE SnapshotAssumption DEF SnapInv, SnapTypeOK
<1>1. CASE Play
  BY <1>1 DEF Play, OneFetch, HiddenIsQuiet
<1>2. CASE Pause
  BY <1>2 DEF Pause, OneFetch, HiddenIsQuiet
<1>3. CASE Report
  BY <1>3 DEF Report, OneFetch, HiddenIsQuiet
<1>4. CASE LoopTick
  <2>1. inFlight' \in BOOLEAN /\ fetches' \in Nat /\ OneFetch'
    BY <1>4, TickFetchesOnce DEF LoopTick
  <2> QED
    BY <1>4, <2>1 DEF LoopTick, HiddenIsQuiet
<1>5. CASE ShotTick
  <2>1. inFlight' \in BOOLEAN /\ fetches' \in Nat /\ OneFetch'
    BY <1>5, TickFetchesOnce DEF ShotTick
  <2>2. shots' \in 0..MaxShots
    BY <1>5 DEF ShotTick
  <2> QED
    BY <1>5, <2>1, <2>2 DEF ShotTick, HiddenIsQuiet
<1>6. CASE Fetched
  \* A fetch that ends is the only one.
  <2>1. inFlight = TRUE
    BY <1>6 DEF Fetched, OneFetch
  <2>2. fetches = 1
    BY <2>1, Zenon DEF OneFetch
  <2>3. fetches' = 0 /\ fetches' \in Nat
    BY <1>6, <2>2 DEF Fetched
  <2>4. inFlight' = FALSE
    BY <1>6 DEF Fetched
  <2>5. OneFetch' /\ inFlight' \in BOOLEAN
    BY <2>3, <2>4, Zenon DEF OneFetch
  <2>6. frame' \in {0, 1}
    BY <1>6 DEF Fetched
  <2> QED
    BY <1>6, <2>3, <2>5, <2>6 DEF Fetched, HiddenIsQuiet
<1>7. CASE UNCHANGED snapVars
  BY <1>7 DEF snapVars, OneFetch, HiddenIsQuiet
<1> QED
  BY <1>1, <1>2, <1>3, <1>4, <1>5, <1>6, <1>7 DEF SnapNext

\* One fetch at a time, and the flag is up exactly while there is one, however many one-shot
\* timers of fast restarts tick beside the loop.
THEOREM SingleFetch == SnapSpec => []OneFetch
<1>1. SnapInv => OneFetch
  BY DEF SnapInv
<1> QED
  BY <1>1, SnapInitInv, SnapStep, PTL DEF SnapSpec

\* The loop never runs while the tab is hidden or the user has stopped: a report of the tab's
\* visibility after a stop does not wake it.
THEOREM Quiet == SnapSpec => []HiddenIsQuiet
<1>1. SnapInv => HiddenIsQuiet
  BY DEF SnapInv
<1> QED
  BY <1>1, SnapInitInv, SnapStep, PTL DEF SnapSpec

=============================================================================
