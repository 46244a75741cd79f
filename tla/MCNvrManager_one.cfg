SPECIFICATION Spec
CONSTANTS
  Names = {front, back}
  Recs = {r1, r2}
  Watchers = {w1, w2}
  Procs = {p1, p2}
  Callers = {c1}
  NoRec = NoRec
  NoWatcher = NoWatcher
  NoProc = NoProc
  FloatExpLimit = 2
  SlowResolver = FALSE
SYMMETRY Symmetry
INVARIANTS ForgottenIsStopped ReapedOnShutdown
