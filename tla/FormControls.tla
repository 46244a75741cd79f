---------------------------- MODULE FormControls ----------------------------
(***************************************************************************)
(* The sections of pages/camera_detail.py that are filled in and applied:  *)
(* pan, motion, intrusion and sound detection, the lighting schedule, the  *)
(* siren's duration.  Each has widgets (here one, `field`), a state label, *)
(* a load that runs once the page is open and again after a refused        *)
(* write, and a button whose handler writes what the widgets hold.         *)
(*                                                                         *)
(* Handlers await their requests, so several may be under way at once and  *)
(* the user may edit meanwhile.                                            *)
(*                                                                         *)
(* What a section's widgets hold is not always what is sent, and what the  *)
(* camera has is not always what they show.  Blank stands for both: in a   *)
(* widget, a field that was cleared or a number with a fraction; in the    *)
(* camera, a time that is not set or has seconds, or a mode that the       *)
(* widget does not list.                                                   *)
(***************************************************************************)
EXTENDS Naturals, Sequences, SequencesExt

CONSTANTS Settings,     \* what the widgets hold and the camera has
          Blank,        \* what only one of them can
          Default,      \* the setting a cleared number, or one with a fraction, is sent as
          MaxActs       \* a bound on edits and clicks

ASSUME FormAssumption ==
    /\ MaxActs \in Nat /\ Default \in Settings
    /\ Blank \notin Settings \cup {"none"}

VARIABLES form,     \* which section
          manner,   \* the user: "patient", "editing" while a handler runs, or "hasty"
          held,     \* the setting of the camera
          field,    \* what the widgets hold
          claim,    \* the setting the label claims, or "none"
          tasks,    \* the handlers under way, each with its request
          acts,     \* how often the user has acted
          edited,   \* the user has changed a widget since the last load or click
          lost      \* some request raised or a load was not answered

formVars == <<form, manner, held, field, claim, tasks, acts, edited, lost>>

-----------------------------------------------------------------------------
(* The sections.  claims: what the label names after a successful write:    *)
(* the setting it sent, what the widgets hold by then, or none; reloads: a  *)
(* refused write is followed by a load; cleared: whether a widget can be    *)
(* cleared, and whether a default is sent then or the setting is left out;  *)
(* unlisted: the camera may have what a widget has no option for.           *)

PanForm       == [claims |-> "sent",    reloads |-> TRUE,  cleared |-> "never",   unlisted |-> FALSE]
MotionForm    == [claims |-> "widgets", reloads |-> TRUE,  cleared |-> "never",   unlisted |-> TRUE]
IntrusionForm == [claims |-> "widgets", reloads |-> TRUE,  cleared |-> "default", unlisted |-> TRUE]
SoundForm     == [claims |-> "none",    reloads |-> TRUE,  cleared |-> "never",   unlisted |-> FALSE]
LightingForm  == [claims |-> "none",    reloads |-> TRUE,  cleared |-> "omitted", unlisted |-> FALSE]
\* The duration is never loaded: the field begins at 30 whatever the camera has.
SirenForm     == [claims |-> "sent",    reloads |-> FALSE, cleared |-> "default", unlisted |-> FALSE]

Forms == [pan |-> PanForm, motion |-> MotionForm, intrusion |-> IntrusionForm,
          sound |-> SoundForm, lighting |-> LightingForm, siren |-> SirenForm]
Form == Forms[form]

\* What the widgets may hold, and the camera.
Inputs == IF Form.cleared = "never" THEN Settings ELSE Settings \cup {Blank}
Stored == IF Form.unlisted \/ Form.cleared = "omitted" THEN Settings \cup {Blank} ELSE Settings

\* What is sent for what the widgets hold: `_int_or(value, default)` and `value or 30` put a
\* number in the place of a cleared one, `value or None` leaves the time out of the request.
Sent(v) == IF v = Blank /\ Form.cleared = "default" THEN Default ELSE v

\* What the camera may have after it has taken a write: a time that was left out is taken from
\* the schedule that was read before, or is gone if that read failed.
Written(v) == IF v = Blank THEN {held, Blank} ELSE {v}

\* What the widgets may show once they are told what the camera has: a widget that has no option
\* for it stays as it was; a time is shown without its seconds.
Shown(v) == CASE v # Blank -> {v}
              [] v = Blank /\ Form.unlisted -> {field}
              [] OTHER -> Inputs

LoadTask == [does |-> "load", at |-> "sent", carries |-> "none"]
ApplyTask(v) == [does |-> "apply", at |-> "sent", carries |-> v]

-----------------------------------------------------------------------------
FormInit ==
    /\ form \in DOMAIN Forms
    /\ manner \in {"patient", "editing", "hasty"}
    /\ held \in Stored /\ field \in Settings
    /\ claim = "none"
    /\ tasks = IF Form.reloads THEN <<LoadTask>> ELSE <<>>
    /\ acts = 0 /\ edited = FALSE /\ lost = FALSE

Edit == /\ acts < MaxActs /\ acts' = acts + 1
        /\ manner = "patient" => tasks = <<>>
        /\ field' \in Inputs \ {field}
        /\ edited' = TRUE
        /\ UNCHANGED <<form, manner, held, claim, tasks, lost>>

\* _apply_*: the request carries what the widgets hold when the handler starts.
Apply == /\ acts < MaxActs /\ acts' = acts + 1
         /\ manner # "hasty" => tasks = <<>>
         /\ tasks' = Append(tasks, ApplyTask(Sent(field)))
         /\ edited' = FALSE
         /\ UNCHANGED <<form, manner, held, field, claim, lost>>

\* The cloud's side of a request: a read that is answered or not, a write that is taken, refused
\* or times out with or without effect.
Served(i) ==
    /\ tasks[i].at = "sent"
    /\ \/ /\ tasks[i].does = "load"
          /\ tasks' \in {[tasks EXCEPT ![i].at = "ok", ![i].carries = held],
                         [tasks EXCEPT ![i].at = "refused"]}
          /\ UNCHANGED held
       \/ /\ tasks[i].does = "apply"
          /\ \E result \in {"ok", "refused", "raised"} :
                /\ tasks' = [tasks EXCEPT ![i].at = result]
                /\ \/ result # "refused" /\ held' \in Written(tasks[i].carries)
                   \/ result # "ok" /\ held' = held
    /\ UNCHANGED <<form, manner, field, claim, acts, edited, lost>>

\* _load_*: the widgets and the label take what the camera has.
Loaded(i) ==
    /\ tasks[i].does = "load" /\ tasks[i].at = "ok"
    /\ field' \in Shown(tasks[i].carries)
    /\ edited' = FALSE
    /\ claim' = IF Form.claims = "none" THEN "none" ELSE tasks[i].carries
    /\ tasks' = RemoveAt(tasks, i)
    /\ UNCHANGED <<form, manner, held, acts, lost>>

NotLoaded(i) ==
    /\ tasks[i].does = "load" /\ tasks[i].at = "refused"
    /\ claim' = "none" /\ lost' = TRUE
    /\ tasks' = RemoveAt(tasks, i)
    /\ UNCHANGED <<form, manner, held, field, acts, edited>>

\* The write was taken.  _apply_motion and _apply_intrusion read their widgets again for the label.
Applied(i) ==
    /\ tasks[i].does = "apply" /\ tasks[i].at = "ok"
    /\ claim' = CASE Form.claims = "sent" -> tasks[i].carries
                  [] Form.claims = "widgets" -> Sent(field)
                  [] OTHER -> "none"
    /\ tasks' = RemoveAt(tasks, i)
    /\ UNCHANGED <<form, manner, held, field, acts, edited, lost>>

\* Slip: a refused write is reported and the section left as it is.
NotAppliedQuietly(i) ==
    /\ tasks[i].does = "apply" /\ tasks[i].at = "refused"
    /\ tasks' = RemoveAt(tasks, i)
    /\ UNCHANGED <<form, manner, held, field, claim, acts, edited, lost>>

\* The write was refused: the same handler goes on to load.
NotApplied(i) ==
    /\ tasks[i].does = "apply" /\ tasks[i].at = "refused"
    /\ tasks' = IF Form.reloads THEN [tasks EXCEPT ![i] = LoadTask] ELSE RemoveAt(tasks, i)
    /\ UNCHANGED <<form, manner, held, field, claim, acts, edited, lost>>

ApplyRaised(i) ==
    /\ tasks[i].at = "raised"
    /\ lost' = TRUE
    /\ tasks' = RemoveAt(tasks, i)
    /\ UNCHANGED <<form, manner, held, field, claim, acts, edited>>

Answered(i) == Loaded(i) \/ NotLoaded(i) \/ Applied(i) \/ NotApplied(i) \/ ApplyRaised(i)

FormNext == Edit \/ Apply \/ \E i \in DOMAIN tasks : Served(i) \/ Answered(i)

FormSpec == FormInit /\ [][FormNext]_formVars

-----------------------------------------------------------------------------
(* Properties *)

\* Every variable has its type.
FormTypeOK ==
    /\ form \in DOMAIN Forms /\ manner \in {"patient", "editing", "hasty"}
    /\ held \in Stored /\ field \in Inputs /\ claim \in Settings \cup {Blank, "none"}
    /\ tasks \in Seq([does : {"load", "apply"}, at : {"sent", "ok", "refused", "raised"},
                      carries : Settings \cup {Blank, "none"}])
    /\ acts \in 0..MaxActs /\ edited \in BOOLEAN /\ lost \in BOOLEAN

\* With no handler under way the label claims no setting the camera does not have, and the widgets
\* show the camera's setting unless the user has edited them since: a refused write is followed
\* by a load that takes the refused setting back.  A user who waits for the answer gets this from
\* every section; the label of the pan section is also right for one who moves the slider
\* meanwhile, because its handler keeps the target it sent.  Not promised is what a section cannot
\* show: a field that was cleared stays so although the camera has a setting, a mode that is not
\* listed leaves the widget as it was, and a time is shown without its seconds.
FormIsTruthful ==
    tasks = <<>> /\ ~lost =>
        /\ manner = "patient" \/ (manner = "editing" /\ form = "pan") => claim \in {held, "none"}
        /\ manner = "patient" /\ Form.reloads /\ ~edited /\ Blank \notin {field, held}
              => field = held

=============================================================================
