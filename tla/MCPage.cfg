SPECIFICATION MCSpec
CONSTANTS
    MaxClicks = 2
    Settings = {"s1", "s2"}
    Blank = "blank"
    Default = "s1"
    MaxActs = 4
    Items = {i1, i2}
    MaxMoves = 3
    Slots = {1, 2}
    HLS_FATAL_RETRY_MAX = 1
    MaxShots = 2
INVARIANTS
    TypesOK
    SettledIsTruthful
    FormIsTruthful
    ListIsTruthful
    NothingLeaks
    StickyIsHls
    OneRecovery
    OneFetch
PROPERTIES
    OnlyClicksAreWritten
    HandlersEnd
    LiveIsLive
    KeepsFetching
CHECK_DEADLOCK FALSE
