SPECIFICATION Spec
CONSTANTS
  Names = {front, back}
  Recs = {r1, r2}
  Watchers = {w1, w2, w3}
  Procs = {p1, p2}
  Callers = {c1, c2}
  NoRec = NoRec
  NoWatcher = NoWatcher
  NoProc = NoProc
  FloatExpLimit = 2
  SlowResolver = TRUE
SYMMETRY Symmetry
INVARIANTS NoLeakedFfmpeg OneWatcherPerTracked
PROPERTIES StopHitsOnlyForgotten TrackedWatcherSurvives
