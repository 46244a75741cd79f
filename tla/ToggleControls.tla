--------------------------- MODULE ToggleControls ---------------------------
(***************************************************************************)
(* The switches of pages/camera_detail.py and the privacy switch of        *)
(* components/camera_card.py: one of them (`switch`), the state it stands  *)
(* for on the other side, and the handlers between the two.                *)
(*                                                                         *)
(* NiceGUI calls the change handler for every assignment that changes the  *)
(* value, a user's click and the page's own set_value alike.  The handlers *)
(* are coroutines: the call only queues a task, and its body runs when the *)
(* event loop comes to it.  Some switches are guarded by a flag that makes *)
(* the next handler return at once.                                        *)
(***************************************************************************)
EXTENDS Naturals, Sequences, SequencesExt

CONSTANTS MaxClicks    \* a bound on the user's clicks

ASSUME ToggleAssumption == MaxClicks \in Nat

VARIABLES switch,     \* which switch
          user,       \* "patient": clicks only while nothing is under way; or "hasty"
          server,     \* the state the switch stands for
          shown,      \* the switch's value
          guard,      \* _recording_suppress_next, _nvr_suppress_next, suppress[0]
          ready,      \* handlers queued on the event loop: value, and who assigned it
          loading,    \* the initial load: "waiting", "asked", "answered", "done", "failed"
          answer,     \* what it was answered
          writes,     \* the write requests under way
          label,      \* the state the label claims, or "none"
          online,     \* the card's ping: "unknown", "online", "offline"
          clicks,     \* how often the user has clicked
          unsure,     \* some request raised: its handler is gone, its effect unknown
          swallowed   \* some click was taken for the page's own assignment

toggleVars == <<switch, user, server, shown, guard, ready, loading, answer, writes, label, online,
                clicks, unsure, swallowed>>

On == "on"
Off == "off"
States == {On, Off}
Opposite(v) == IF v = On THEN Off ELSE On

-----------------------------------------------------------------------------
(* The switches.  guarded: the load and a failed write raise a flag for the *)
(* next handler; loads: the page asks for the state once it is open.        *)

PrivacySwitch   == [guarded |-> FALSE, loads |-> TRUE]
LightSwitch     == [guarded |-> FALSE, loads |-> TRUE]
RecordingSwitch == [guarded |-> TRUE,  loads |-> TRUE]
NvrSwitch       == [guarded |-> TRUE,  loads |-> TRUE]
ShareSwitch     == [guarded |-> TRUE,  loads |-> FALSE]
\* The card raises its flag only around set_value, so it is down again when the handler runs.
CardSwitch      == [guarded |-> FALSE, loads |-> TRUE]

Switches == [privacy |-> PrivacySwitch, light |-> LightSwitch, recording |-> RecordingSwitch,
             nvr |-> NvrSwitch, share |-> ShareSwitch, card |-> CardSwitch]

Guarded == Switches[switch].guarded

Settled == /\ loading \in {"done", "failed"}
           /\ ready = <<>>
           /\ writes = <<>>

-----------------------------------------------------------------------------
\* A friend's row is built with the state of the list it came from.
ToggleInit ==
    /\ switch \in DOMAIN Switches
    /\ user \in {"patient", "hasty"}
    /\ server \in States
    /\ shown = IF Switches[switch].loads THEN Off ELSE server
    /\ loading = IF Switches[switch].loads THEN "waiting" ELSE "done"
    /\ guard = FALSE /\ ready = <<>> /\ answer = "none" /\ writes = <<>> /\ label = "none"
    /\ online = "unknown" /\ clicks = 0 /\ unsure = FALSE /\ swallowed = FALSE

\* ValueElement: assigning v, with `queue` the handlers queued so far.
Assign(queue, v, who) ==
    /\ shown' = v
    /\ ready' = IF v = shown THEN queue ELSE Append(queue, [value |-> v, by |-> who])

Click ==
    /\ clicks < MaxClicks
    /\ user = "patient" => Settled
    /\ switch = "card" => online # "offline"
    /\ clicks' = clicks + 1
    /\ Assign(ready, Opposite(shown), "user")
    /\ UNCHANGED <<switch, user, server, guard, loading, answer, writes, label, online, unsure,
                   swallowed>>

-----------------------------------------------------------------------------
(* The load: _load_privacy, _load_light, _load_recording; _update_status of *)
(* the card after its ping; _load_nvr_state asks the manager in one step.   *)

\* A ping that raises ends the update with the badge at "error": the state is never asked for.
Ping ==
    /\ switch = "card" /\ online = "unknown" /\ loading = "waiting"
    /\ \/ online' \in {"online", "offline"} /\ UNCHANGED loading
       \/ loading' = "failed" /\ UNCHANGED online
    /\ UNCHANGED <<switch, user, server, shown, guard, ready, answer, writes, label, clicks,
                   unsure, swallowed>>

AskState ==
    /\ loading = "waiting"
    /\ switch = "card" => online # "unknown"
    /\ IF switch = "nvr" THEN loading' = "answered" /\ answer' = server
       ELSE loading' = "asked" /\ UNCHANGED answer
    /\ UNCHANGED <<switch, user, server, shown, guard, ready, writes, label, online, clicks,
                   unsure, swallowed>>

StateRead ==
    /\ loading = "asked"
    /\ loading' = "answered"
    /\ answer' \in {server, "none"}
    /\ UNCHANGED <<switch, user, server, shown, guard, ready, writes, label, online, clicks,
                   unsure, swallowed>>

\* Slip: the load assigns without the guard.
ShowStateUnguarded ==
    /\ loading = "answered" /\ answer # "none"
    /\ loading' = "done" /\ label' = answer
    /\ Assign(ready, answer, "page")
    /\ UNCHANGED <<switch, user, server, guard, answer, writes, online, clicks, unsure, swallowed>>

ShowState ==
    /\ loading = "answered" /\ answer # "none"
    /\ loading' = "done"
    /\ guard' = Guarded
    /\ Assign(ready, answer, "page")
    /\ label' = IF switch \in {"recording", "card"} THEN label ELSE answer
    /\ UNCHANGED <<switch, user, server, answer, writes, online, clicks, unsure, swallowed>>

StateUnavailable ==
    /\ loading = "answered" /\ answer = "none"
    /\ loading' = "failed"
    /\ UNCHANGED <<switch, user, server, shown, guard, ready, answer, writes, label, online,
                   clicks, unsure, swallowed>>

-----------------------------------------------------------------------------
(* The change handler: _toggle_privacy, _toggle_light, _toggle_recording,   *)
(* _toggle_nvr, _toggle_share, _handle_privacy_toggle                       *)

\* The flag is up: this change counts as the page's own.
Suppress ==
    /\ ready # <<>> /\ guard
    /\ guard' = FALSE
    /\ ready' = Tail(ready)
    /\ swallowed' = (swallowed \/ Head(ready).by = "user")
    /\ UNCHANGED <<switch, user, server, shown, loading, answer, writes, label, online, clicks,
                   unsure>>

\* The card does not write while its camera is not known to be online: it reverts.
RevertOffline ==
    /\ ready # <<>> /\ switch = "card" /\ online # "online"
    /\ Assign(Tail(ready), Opposite(Head(ready).value), "page")
    /\ UNCHANGED <<switch, user, server, guard, loading, answer, writes, label, online, clicks,
                   unsure, swallowed>>

Write ==
    /\ ready # <<>> /\ ~guard
    /\ switch = "card" => online = "online"
    /\ writes' = Append(writes, [value |-> Head(ready).value, by |-> Head(ready).by, at |-> "sent"])
    /\ ready' = Tail(ready)
    /\ UNCHANGED <<switch, user, server, shown, guard, loading, answer, label, online, clicks,
                   unsure, swallowed>>

\* The other side takes the request or not.  Stopping a recording does not fail.
Serve(i) ==
    /\ writes[i].at = "sent"
    /\ \E result \in {"ok", "refused", "raised"} :
          /\ switch = "nvr" => result = "ok" \/ (result = "refused" /\ writes[i].value = On)
          /\ writes' = [writes EXCEPT ![i].at = result]
          /\ \/ result \in {"ok", "raised"} /\ server' = writes[i].value
             \/ result \in {"refused", "raised"} /\ server' = server
    /\ UNCHANGED <<switch, user, shown, guard, ready, loading, answer, label, online, clicks,
                   unsure, swallowed>>

Taken(i) ==
    /\ writes[i].at = "ok"
    /\ writes' = RemoveAt(writes, i)
    /\ label' = IF switch \in {"share", "card"} THEN label ELSE writes[i].value
    /\ UNCHANGED <<switch, user, server, shown, guard, ready, loading, answer, online, clicks,
                   unsure, swallowed>>

\* Slip: a failed write is sent again.
Retried(i) ==
    /\ writes[i].at = "refused"
    /\ writes' = [writes EXCEPT ![i].at = "sent"]
    /\ UNCHANGED <<switch, user, server, shown, guard, ready, loading, answer, label, online,
                   clicks, unsure, swallowed>>

\* Slip: a failed write leaves the switch as the user set it.
RefusedSilently(i) ==
    /\ writes[i].at = "refused"
    /\ writes' = RemoveAt(writes, i)
    /\ UNCHANGED <<switch, user, server, shown, guard, ready, loading, answer, label, online,
                   clicks, unsure, swallowed>>

\* A failed write reverts the switch; only _toggle_nvr does it without its guard.
Refused(i) ==
    /\ writes[i].at = "refused"
    /\ writes' = RemoveAt(writes, i)
    /\ guard' = (guard \/ (Guarded /\ switch # "nvr"))
    /\ Assign(ready, Opposite(writes[i].value), "page")
    /\ label' = IF switch = "nvr" THEN "none" ELSE label
    /\ UNCHANGED <<switch, user, server, loading, answer, online, clicks, unsure, swallowed>>

\* An exception ends the handler where it is; the card's catches it and reverts.
Raised(i) ==
    /\ writes[i].at = "raised"
    /\ writes' = RemoveAt(writes, i)
    /\ unsure' = TRUE
    /\ IF switch = "card" THEN Assign(ready, Opposite(writes[i].value), "page")
       ELSE UNCHANGED <<shown, ready>>
    /\ UNCHANGED <<switch, user, server, guard, loading, answer, label, online, clicks, swallowed>>

Finish(i) == Taken(i) \/ Refused(i) \/ Raised(i)

Load == Ping \/ AskState \/ StateRead \/ ShowState \/ StateUnavailable
Handle == Suppress \/ RevertOffline \/ Write

ToggleNext == Click \/ Load \/ Handle \/ \E i \in DOMAIN writes : Serve(i) \/ Finish(i)

\* The event loop runs what is ready and every request ends (each has a timeout); a user may
\* click no more.
ToggleFairness == /\ WF_toggleVars(Load)
                  /\ WF_toggleVars(Handle)
                  /\ WF_toggleVars(\E i \in DOMAIN writes : Serve(i) \/ Finish(i))

ToggleSpec == ToggleInit /\ [][ToggleNext]_toggleVars /\ ToggleFairness

-----------------------------------------------------------------------------
(* Properties *)

\* Every variable has its type.
ToggleTypeOK ==
    /\ switch \in DOMAIN Switches /\ user \in {"patient", "hasty"}
    /\ server \in States /\ shown \in States
    /\ guard \in BOOLEAN /\ unsure \in BOOLEAN /\ swallowed \in BOOLEAN
    /\ loading \in {"waiting", "asked", "answered", "done", "failed"}
    /\ answer \in States \cup {"none"} /\ label \in States \cup {"none"}
    /\ online \in {"unknown", "online", "offline"}
    /\ clicks \in 0..MaxClicks
    /\ ready \in Seq([value : States, by : {"user", "page"}])
    /\ writes \in Seq([value : States, by : {"user", "page"},
                       at : {"sent", "ok", "refused", "raised"}])

\* Once everything has ended, a switch shows the state it stands for and its label does not
\* claim another one, whatever failed on the way: a load, a write, a revert that wrote again.
\* For a user who waits, requests that get an answer, and no click taken for the page's own.
SettledIsTruthful ==
    user = "patient" /\ Settled /\ loading = "done" /\ ~unsure /\ ~swallowed
        => shown = server /\ label \in {server, "none"}

\* Neither the load nor the revert of a failed write makes the page write to the cloud: the
\* guarded switches of the cloud send only what a user who waits has clicked.
OnlyClicksAreWritten ==
    [][(switch \in {"recording", "share"} /\ user = "patient" /\ Len(writes') > Len(writes))
          => Last(writes').by = "user"]_toggleVars

\* A failed write is not repeated for ever: with every request refused, the handlers of a
\* guarded switch still come to an end, and the loop is free.
HandlersEnd == Guarded => <>[]Settled

=============================================================================
