SPECIFICATION Spec
CONSTANTS
    None = None
    Tenants <- MCTenant
    StartAfter <- MCStartAfter
    StopAfter <- MCStopAfter
    WithRules = {"a"}
    Selections = {{"a"}}
    DiskFails = TRUE
    MaxClock = 3
    MaxLifetimes = 2
    MaxTickerSaves = 1
INVARIANTS
    SegmentsWithinPlan
    OneSegmentPerLifetime
PROPERTIES
    EarlierLivesKept
    ShutdownCompletes
CHECK_DEADLOCK FALSE
