SPECIFICATION MCSpec
CONSTANTS
    Threads = {t1, t2}
    Values = {v1, v2}
    Fixed = v1
    Pages = {p1, p2}
    Targets = {u1, u2}
    NoTarget = NoTarget
    Ids = {c1}
    Names = {front, back}
    Locals = {none, set}
    NoLocal = none
    Tabs = {b1, b2}
    MaxTokens = 1
    MaxObjects = 4
    Views = {w1, w2}
    Versions <- MCVersions
    MinFirmware <- MCMinFirmware
SYMMETRY MCSymmetry
INVARIANTS
    TypesOK
    InstallsAFreshOffer
    InstallsOnce
    SavedIsKept
PROPERTIES
    Implements
    FailsClosed
    UpdatesKeepTheInterface
CHECK_DEADLOCK FALSE
