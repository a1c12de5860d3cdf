\* Two reads, while other handlers append an event and the broker stops once.
SPECIFICATION FairSpec
CONSTANTS
    Reads = {r1, r2}
    e1 = e1
    Others = {e1}
    Topics = {version, clients}
    Version = version
    Filters <- SomeFilters
    Limit = 1
    MaxOutages = 1
INVARIANTS
    OverviewIsCoherent
    ExportIsCompletePrefix
    ShownEventsAreVerified
PROPERTIES
    EveryReadEnds
CHECK_DEADLOCK FALSE
