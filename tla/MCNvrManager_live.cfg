SPECIFICATION FairSpec
CONSTANTS
  Names = {front}
  Recs = {r1}
  Watchers = {w1, w2}
  Procs = {p1, p2}
  Callers = {c1, c2}
  NoRec = NoRec
  NoWatcher = NoWatcher
  NoProc = NoProc
  FloatExpLimit = 2
  SlowResolver = TRUE

PROPERTIES StopEndsRecording CallsReturn
