------------------------------ MODULE RowLists ------------------------------
(***************************************************************************)
(* The lists of pages/camera_detail.py: automation rules, friends, local   *)
(* recordings, recent events.  A load clears the container, awaits the     *)
(* items and adds a row for each; deleting or adding an item awaits its    *)
(* request and then loads.  Loads may overlap: nothing keeps a click from  *)
(* starting one while another waits.                                       *)
(***************************************************************************)
EXTENDS Naturals, Sequences, SequencesExt

CONSTANTS Items,       \* rules, friends, segments or events
          MaxMoves     \* a bound on clicks and arrivals

ASSUME ListAssumption == MaxMoves \in Nat

VARIABLES list,       \* which list
          visitor,    \* "patient": clicks only while no handler is under way; or "hasty"
          items,      \* what there is on the other side
          rows,       \* rows[i]: how many rows show i
          jobs,       \* the handlers under way, each with its request
          missed,     \* items that came from elsewhere since the last load started
          moves,      \* how many clicks and arrivals there have been
          broken      \* some request raised or was not answered

listVars == <<list, visitor, items, rows, jobs, missed, moves, broken>>

(* adds: the section can add an item; deletes: its rows have a delete button; *)
(* grows: items appear by themselves.                                         *)
RulesList      == [adds |-> TRUE,  deletes |-> TRUE,  grows |-> FALSE]
FriendsList    == [adds |-> TRUE,  deletes |-> TRUE,  grows |-> FALSE]
RecordingsList == [adds |-> FALSE, deletes |-> TRUE,  grows |-> TRUE]
EventsList     == [adds |-> FALSE, deletes |-> FALSE, grows |-> TRUE]

Lists == [rules |-> RulesList, friends |-> FriendsList, recordings |-> RecordingsList,
          events |-> EventsList]

NoRows == [i \in Items |-> 0]
Job(does, on) == [does |-> does, at |-> "sent", on |-> on]

ListInit == /\ list \in DOMAIN Lists
            /\ visitor \in {"patient", "hasty"}
            /\ items \in SUBSET Items
            /\ rows = NoRows /\ jobs = <<Job("load", {})>>
            /\ missed = {} /\ moves = 0 /\ broken = FALSE

Press(job) == /\ moves < MaxMoves /\ moves' = moves + 1
              /\ visitor = "patient" => jobs = <<>>
              /\ jobs' = Append(jobs, job)

\* The container is cleared before the request is awaited.
ClearRows == rows' = NoRows

\* The refresh button; rules and friends have none and load only after a change.
Reload == /\ ~Lists[list].adds
          /\ Press(Job("load", {}))
          /\ ClearRows /\ missed' = {}
          /\ UNCHANGED <<list, visitor, items, broken>>

Delete(i) == /\ Lists[list].deletes /\ rows[i] > 0
             /\ Press(Job("delete", {i}))
             /\ UNCHANGED <<list, visitor, items, rows, missed, broken>>

Add(i) == /\ Lists[list].adds /\ i \notin items
          /\ Press(Job("add", {i}))
          /\ UNCHANGED <<list, visitor, items, rows, missed, broken>>

\* The recorder closes a segment, the camera reports an event.
Arrive(i) == /\ Lists[list].grows /\ i \notin items
             /\ moves < MaxMoves /\ moves' = moves + 1
             /\ items' = items \cup {i} /\ missed' = missed \cup {i}
             /\ UNCHANGED <<list, visitor, rows, jobs, broken>>

\* list_segments, async_list_rules and the like read what there is, or fail.
ListRead(k) == /\ jobs[k].does = "load" /\ jobs[k].at = "sent"
               /\ jobs' \in {[jobs EXCEPT ![k].at = "ok", ![k].on = items],
                             [jobs EXCEPT ![k].at = "refused"]}
               /\ UNCHANGED <<list, visitor, items, rows, missed, moves, broken>>

\* delete_segment, async_delete_rule, async_remove_friend; what is gone already is refused.
ItemDeleted(k) == /\ jobs[k].does = "delete" /\ jobs[k].at = "sent"
                  /\ \/ /\ jobs[k].on \subseteq items
                        /\ items' = items \ jobs[k].on
                        /\ jobs' \in {[jobs EXCEPT ![k].at = "ok"], [jobs EXCEPT ![k].at = "raised"]}
                     \/ /\ jobs' \in {[jobs EXCEPT ![k].at = "refused"],
                                      [jobs EXCEPT ![k].at = "raised"]}
                        /\ UNCHANGED items
                  /\ UNCHANGED <<list, visitor, rows, missed, moves, broken>>

ItemAdded(k) == /\ jobs[k].does = "add" /\ jobs[k].at = "sent"
                /\ \/ /\ items' = items \cup jobs[k].on
                      /\ jobs' \in {[jobs EXCEPT ![k].at = "ok"], [jobs EXCEPT ![k].at = "raised"]}
                   \/ /\ jobs' \in {[jobs EXCEPT ![k].at = "refused"],
                                    [jobs EXCEPT ![k].at = "raised"]}
                      /\ UNCHANGED items
                /\ UNCHANGED <<list, visitor, rows, missed, moves, broken>>

\* Slip: the rows replace those that are there when they arrive.
ShowRowsInstead(k) ==
    /\ jobs[k].does = "load" /\ jobs[k].at = "ok"
    /\ rows' = [i \in Items |-> IF i \in jobs[k].on THEN 1 ELSE 0]
    /\ jobs' = RemoveAt(jobs, k)
    /\ UNCHANGED <<list, visitor, items, missed, moves, broken>>

\* The load goes on: one more row for every item it was answered.
ShowRows(k) ==
    /\ jobs[k].does = "load" /\ jobs[k].at = "ok"
    /\ rows' = [i \in Items |-> rows[i] + IF i \in jobs[k].on THEN 1 ELSE 0]
    /\ jobs' = RemoveAt(jobs, k)
    /\ UNCHANGED <<list, visitor, items, missed, moves, broken>>

\* A change that was made is followed by a load, in the same handler.
LoadAgain(k) ==
    /\ jobs[k].does # "load" /\ jobs[k].at = "ok"
    /\ jobs' = [jobs EXCEPT ![k] = Job("load", {})]
    /\ ClearRows /\ missed' = {}
    /\ UNCHANGED <<list, visitor, items, moves, broken>>

\* A change that was refused leaves the rows; a load that failed leaves the container empty.
GiveUp(k) ==
    /\ jobs[k].at \in {"refused", "raised"}
    /\ jobs' = RemoveAt(jobs, k)
    /\ broken' = (broken \/ jobs[k].at = "raised" \/ jobs[k].does = "load")
    /\ UNCHANGED <<list, visitor, items, rows, missed, moves>>

ListNext == \/ Reload
            \/ \E i \in Items : Delete(i) \/ Add(i) \/ Arrive(i)
            \/ \E k \in DOMAIN jobs : \/ ListRead(k) \/ ItemDeleted(k) \/ ItemAdded(k)
                                      \/ ShowRows(k) \/ LoadAgain(k) \/ GiveUp(k)

ListSpec == ListInit /\ [][ListNext]_listVars

-----------------------------------------------------------------------------
(* Properties *)

\* Every variable has its type.
ListTypeOK ==
    /\ list \in DOMAIN Lists /\ visitor \in {"patient", "hasty"}
    /\ items \subseteq Items /\ missed \subseteq Items
    /\ rows \in [Items -> Nat]
    /\ jobs \in Seq([does : {"load", "delete", "add"}, at : {"sent", "ok", "refused", "raised"},
                     on : SUBSET Items])
    /\ moves \in 0..MaxMoves /\ broken \in BOOLEAN

\* However the loads of an impatient user overlap, no item is missing once they are through: the
\* load that started last began with empty rows and read everything there was.  Overlapping
\* loads may show an item twice, or one that has just been deleted; for a user who waits there is
\* exactly one row for every item that was there when the load began, and none for another.
ListIsTruthful ==
    jobs = <<>> /\ ~broken =>
        /\ \A i \in items \ missed : rows[i] > 0
        /\ visitor = "patient" => \A i \in Items : rows[i] <= IF i \in items THEN 1 ELSE 0

=============================================================================
