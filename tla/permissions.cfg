\* Three queries while the broker is changed up to three times.
SPECIFICATION Spec
CONSTANTS
    SystemWords = {"$SYS"}
    RoleNames = {1, 2}
    GroupNames = {1}
    RoleContents <- SomeAcls
    ClientObjects <- SomeClients
    GroupObjects <- SomeGroups
    FirstState <- EmptyBroker
    Queries <- SomeQueries
    Topics <- AllTopics
    Filters <- AllFilters
    MaxChanges = 3
    None = None
    LegacyFiles <- SomeFiles
    LegacyQueries <- MigratedQueries
INVARIANTS
    MatchingIsMqtt
    PrecedenceDecides
    OneKindOfChangeIsAtomic
    MigrationKeepsDecisions
CHECK_DEADLOCK FALSE
