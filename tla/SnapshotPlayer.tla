--------------------------- MODULE SnapshotPlayer ---------------------------
(***************************************************************************)
(* components/live_snapshot_player.py: a loop that fetches a snapshot at   *)
(* every tick of a timer while the user plays and the tab is visible.      *)
(* Ticks come from the loop's timer and, once for every start, from a      *)
(* short one-shot timer; a tick awaits its fetch, so start, stop and the   *)
(* visibility of the tab may all change before it goes on.                 *)
(***************************************************************************)
EXTENDS Naturals

CONSTANTS MaxShots    \* a bound on one-shot timers that have not fired

ASSUME SnapshotAssumption == MaxShots \in Nat

VARIABLES playing,    \* _playing
          loop,       \* _timer: "none", "active" or "inactive"
          shots,      \* one-shot timers of start() that have not fired
          inFlight,   \* _in_flight
          fetches,    \* how many fetches there are
          frame,      \* the image: it alternates with every frame that is shown
          visible     \* the tab, as last reported

snapVars == <<playing, loop, shots, inFlight, fetches, frame, visible>>

SnapInit == /\ playing = FALSE /\ loop = "none" /\ shots = 0
            /\ inFlight = FALSE /\ fetches = 0 /\ frame = 0 /\ visible = TRUE

Play == /\ ~playing /\ visible /\ shots < MaxShots
        /\ playing' = TRUE
        /\ loop' = "active"
        /\ shots' = shots + 1
        /\ UNCHANGED <<inFlight, fetches, frame, visible>>

Pause == /\ playing /\ visible
         /\ playing' = FALSE
         /\ loop' = "inactive"
         /\ UNCHANGED <<shots, inFlight, fetches, frame, visible>>

\* Slip: a tab that is shown again is reported like one that is hidden.
ReportHidden == /\ visible' = ~visible
                /\ loop' = IF playing THEN "inactive" ELSE loop
                /\ UNCHANGED <<playing, shots, inFlight, fetches, frame>>

\* _on_visibility
Report == /\ visible' = ~visible
          /\ loop' = IF playing THEN (IF visible' THEN "active" ELSE "inactive") ELSE loop
          /\ UNCHANGED <<playing, shots, inFlight, fetches, frame>>

\* Slip: the flag is not looked at.
TickOver == IF ~playing THEN UNCHANGED <<inFlight, fetches>>
            ELSE inFlight' = TRUE /\ fetches' = fetches + 1

\* _tick up to its await
Tick == IF ~playing \/ inFlight THEN UNCHANGED <<inFlight, fetches>>
        ELSE inFlight' = TRUE /\ fetches' = fetches + 1

LoopTick == loop = "active" /\ Tick /\ UNCHANGED <<playing, loop, shots, frame, visible>>

ShotTick == /\ shots > 0 /\ shots' = shots - 1
            /\ Tick /\ UNCHANGED <<playing, loop, frame, visible>>

\* The fetch returns a frame or none, or raises; "finally" clears the flag in every case.
Fetched == /\ fetches > 0 /\ fetches' = fetches - 1 /\ inFlight' = FALSE
           /\ frame' \in {frame} \cup (IF playing THEN {1 - frame} ELSE {})
           /\ UNCHANGED <<playing, loop, shots, visible>>

SnapNext == Play \/ Pause \/ Report \/ LoopTick \/ ShotTick \/ Fetched

\* Timers fire; a fetch ends, its requests have timeouts.
SnapFairness == WF_snapVars(LoopTick) /\ WF_snapVars(ShotTick) /\ WF_snapVars(Fetched)

SnapSpec == SnapInit /\ [][SnapNext]_snapVars /\ SnapFairness

-----------------------------------------------------------------------------
(* Properties *)

\* Every variable has its type.
SnapTypeOK ==
    /\ playing \in BOOLEAN /\ inFlight \in BOOLEAN /\ visible \in BOOLEAN
    /\ loop \in {"none", "active", "inactive"}
    /\ shots \in 0..MaxShots /\ fetches \in Nat /\ frame \in {0, 1}

\* However fast the user starts and stops, there is one fetch at a time, and the flag is up
\* exactly while there is one: the camera's session budget is not spent twice.
OneFetch == fetches = IF inFlight THEN 1 ELSE 0

\* The loop rests while the tab is hidden and while the user has stopped.
HiddenIsQuiet == loop = "active" => playing /\ visible

\* As long as the user plays and watches, snapshots keep coming in, through stops, restarts,
\* failed fetches and a hidden tab before.
KeepsFetching == <>[](playing /\ visible) => []<>(fetches > 0)

=============================================================================
