------------------------------ MODULE Firmware ------------------------------
(***************************************************************************)
(* Installing a camera update: install_firmware of adapters/cli_bridge.py  *)
(* and the firmware section of pages/camera_detail.py, on several pages    *)
(* that are open at once.  The vendor offers and withdraws updates at any  *)
(* time; a page knows what was offered when it was loaded.                 *)
(***************************************************************************)
EXTENDS Naturals

CONSTANTS Pages,      \* open camera pages
          Targets,    \* updates the vendor may offer
          NoTarget

ASSUME FirmwareAssumption == NoTarget \notin Targets

VARIABLES offer,      \* "update" of the firmware document: a target or NoTarget
          updating,   \* "updating" of the firmware document
          waits,      \* the users of all pages wait for each other
          panel,      \* panel[p]: the page's label, install button and announced target
          step,       \* step[p]: where the page's handler is
          status,     \* status[p]: the firmware document it has read
          fresh       \* fresh[p]: what has been offered since its install began

fwVars == <<offer, updating, waits, panel, step, status, fresh>>

Unread == [offer |-> NoTarget, updating |-> FALSE, known |-> FALSE]
Document == [offer |-> offer, updating |-> updating, known |-> TRUE]

FwInit == /\ offer \in Targets \cup {NoTarget}
          /\ updating = FALSE
          /\ waits \in BOOLEAN
          /\ panel = [p \in Pages |-> [label |-> "loading", button |-> FALSE, target |-> NoTarget]]
          /\ step = [p \in Pages |-> "ask"]
          /\ status = [p \in Pages |-> Unread]
          /\ fresh = [p \in Pages |-> {}]

(* The vendor and the camera *)

Offer == /\ ~updating
         /\ offer' \in (Targets \cup {NoTarget}) \ {offer}
         /\ fresh' = [p \in Pages |-> fresh[p] \cup {offer'}]
         /\ UNCHANGED <<updating, waits, panel, step, status>>

Reboot == /\ updating
          /\ updating' = FALSE /\ offer' = NoTarget
          /\ UNCHANGED <<waits, panel, step, status, fresh>>

(* _load_firmware, after the page has opened and after a failed install *)

LoadFw(p) == /\ step[p] = "ask"
             /\ step' = [step EXCEPT ![p] = "show"]
             /\ status' \in {[status EXCEPT ![p] = d] : d \in {Document, Unread}}
             /\ UNCHANGED <<offer, updating, waits, panel, fresh>>

ShowFw(p) ==
    /\ step[p] = "show"
    /\ step' = [step EXCEPT ![p] = "idle"]
    /\ panel' = [panel EXCEPT ![p] =
           CASE ~status[p].known -> [@ EXCEPT !.label = "unavailable", !.button = FALSE]
             [] status[p].known /\ status[p].updating ->
                    [@ EXCEPT !.label = "installing", !.button = FALSE]
             [] status[p].known /\ ~status[p].updating /\ status[p].offer = NoTarget ->
                    [@ EXCEPT !.label = "up to date", !.button = FALSE]
             [] OTHER -> [label |-> "available", button |-> TRUE, target |-> status[p].offer]]
    /\ UNCHANGED <<offer, updating, waits, status, fresh>>

\* A read of the document that raises ends the handler: the panel shows what it did before.
FwRaises(p) == /\ step[p] \in {"ask", "check"}
                 /\ step' = [step EXCEPT ![p] = "idle"]
                 /\ UNCHANGED <<offer, updating, waits, panel, status, fresh>>

(* install_firmware, once the user has confirmed *)

Confirm(p) == /\ step[p] = "idle" /\ panel[p].button
              /\ waits => \A q \in Pages : step[q] \in {"ask", "show", "idle"}
              /\ step' = [step EXCEPT ![p] = "check"]
              /\ fresh' = [fresh EXCEPT ![p] = {offer}]
              /\ UNCHANGED <<offer, updating, waits, panel, status>>

\* Slip: the target is the one the page has announced.
CheckAnnounced(p) ==
    /\ step[p] = "check"
    /\ status' = [status EXCEPT ![p] = [Document EXCEPT !.offer = panel[p].target]]
    /\ step' = [step EXCEPT ![p] = IF updating THEN "ask" ELSE "put"]
    /\ UNCHANGED <<offer, updating, waits, panel, fresh>>

\* Slip: an update that is being installed is not noticed.
CheckOffer(p) ==
    /\ step[p] = "check"
    /\ status' = [status EXCEPT ![p] = Document]
    /\ step' = [step EXCEPT ![p] = IF offer = NoTarget THEN "ask" ELSE "put"]
    /\ UNCHANGED <<offer, updating, waits, panel, fresh>>

\* The document is read again; without an update that can be installed the call is refused, and
\* the page loads.
Check(p) ==
    /\ step[p] = "check"
    /\ \E d \in {Document, Unread} :
          /\ status' = [status EXCEPT ![p] = d]
          /\ step' = [step EXCEPT ![p] =
                         IF d.known /\ ~d.updating /\ d.offer # NoTarget THEN "put" ELSE "ask"]
    /\ UNCHANGED <<offer, updating, waits, panel, fresh>>

Install(p) == /\ step[p] = "put"
              /\ updating' = TRUE
              /\ \/ /\ step' = [step EXCEPT ![p] = "idle"]
                    /\ panel' = [panel EXCEPT ![p].label = "installing", ![p].button = FALSE]
                 \/ step' = [step EXCEPT ![p] = "idle"] /\ UNCHANGED panel     \* no answer
              /\ UNCHANGED <<offer, waits, status, fresh>>

InstallRefused(p) == /\ step[p] = "put"
                     /\ step' \in {[step EXCEPT ![p] = "ask"], [step EXCEPT ![p] = "idle"]}
                     /\ UNCHANGED <<offer, updating, waits, panel, status, fresh>>

FwNext == \/ Offer \/ Reboot
          \/ \E p \in Pages : \/ LoadFw(p) \/ ShowFw(p) \/ FwRaises(p) \/ Confirm(p)
                              \/ Check(p) \/ Install(p) \/ InstallRefused(p)

FwSpec == FwInit /\ [][FwNext]_fwVars

-----------------------------------------------------------------------------
(* Properties *)

\* Every variable has its type.
FwTypeOK ==
    /\ offer \in Targets \cup {NoTarget} /\ updating \in BOOLEAN /\ waits \in BOOLEAN
    /\ panel \in [Pages -> [label : {"loading", "unavailable", "installing", "up to date",
                                     "available"},
                            button : BOOLEAN, target : Targets \cup {NoTarget}]]
    /\ step \in [Pages -> {"ask", "show", "idle", "check", "put"}]
    /\ status \in [Pages -> [offer : Targets \cup {NoTarget}, updating : BOOLEAN,
                             known : BOOLEAN]]
    /\ fresh \in [Pages -> SUBSET (Targets \cup {NoTarget})]

\* A target from an earlier page load is never replayed: whatever a page has announced, the
\* update it asks for was on offer at some moment after the user confirmed.
InstallsAFreshOffer ==
    \A p \in Pages : step[p] = "put" => status[p].offer \in fresh[p] \ {NoTarget}

\* As long as users wait for each other, no page starts an install while one is running, not even
\* a page that was loaded before it began and still shows its button.
InstallsOnce == \A p \in Pages : waits /\ step[p] = "put" => ~updating

=============================================================================
