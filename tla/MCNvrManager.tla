---------------------------- MODULE MCNvrManager ----------------------------
(* Small instances of NvrManager.                                          *)
EXTENDS NvrManager, TLC

\* Objects, processes and callers are interchangeable; used by the runs that
\* check no liveness.
Symmetry ==
  Permutations(Recs) \cup Permutations(Watchers) \cup
  Permutations(Procs) \cup Permutations(Callers)
=============================================================================
