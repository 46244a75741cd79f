------------------------------- MODULE MCPage -------------------------------
(* One run for what a camera page shows: one of its switches, forms or      *)
(* lists, or one of the two players of its live view.                       *)
EXTENDS ToggleControls, FormControls, RowLists, LivePlayer, SnapshotPlayer, TLC

VARIABLE part    \* which of them the behaviour is about

\* The others stand still in one state, in which nothing is under way.
MCInit ==
    /\ ToggleInit /\ FormInit /\ ListInit /\ PlayerInit /\ SnapInit
    /\ part \in {"switch", "form", "list", "live", "snapshot"}
    /\ part # "switch" => switch = "share" /\ user = "patient" /\ server = On
    /\ part # "form" => form = "pan" /\ manner = "patient" /\ held = field
                        /\ held = CHOOSE s \in Settings : TRUE
    /\ part # "list" => list = "rules" /\ visitor = "patient" /\ items = {}
    /\ part # "live" => viewer = "patient"

MCNext ==
    /\ UNCHANGED part
    /\ \/ part = "switch" /\ ToggleNext /\ UNCHANGED <<formVars, listVars, playerVars, snapVars>>
       \/ part = "form" /\ FormNext /\ UNCHANGED <<toggleVars, listVars, playerVars, snapVars>>
       \/ part = "list" /\ ListNext /\ UNCHANGED <<toggleVars, formVars, playerVars, snapVars>>
       \/ part = "live" /\ PlayerNext /\ UNCHANGED <<toggleVars, formVars, listVars, snapVars>>
       \/ part = "snapshot" /\ SnapNext /\ UNCHANGED <<toggleVars, formVars, listVars, playerVars>>

MCSpec == /\ MCInit /\ [][MCNext]_<<toggleVars, formVars, listVars, playerVars, snapVars, part>>
          /\ ToggleFairness /\ PlayerFairness /\ SnapFairness

\* Every variable of the five has its type.
TypesOK == ToggleTypeOK /\ FormTypeOK /\ ListTypeOK /\ PlayerTypeOK /\ SnapTypeOK
=============================================================================
