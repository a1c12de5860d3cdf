\* Two threads race for two admissions within a window of two ticks.
SPECIFICATION LimiterSpec
CONSTANTS
    Threads = {t1, t2}
    Limit = 2
    Window = 2
    MaxReading = 4
    MaxAdmits = 7
SYMMETRY Symmetry
INVARIANTS
    BurstBound
    MemoryBound
PROPERTIES
    RejectedOnlyAtLimit
CHECK_DEADLOCK FALSE
