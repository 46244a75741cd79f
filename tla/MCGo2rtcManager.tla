--------------------------- MODULE MCGo2rtcManager ---------------------------
(* Small instances of Go2rtcManager.                                       *)
EXTENDS Go2rtcManager, TLC

\* Children and callers are interchangeable; used by the runs that check no
\* liveness.
Symmetry == Permutations(Kids) \cup Permutations(Callers)
=============================================================================
