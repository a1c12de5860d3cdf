\* Two concurrent calls, or one call whose connection breaks up to twice.
SPECIFICATION FairSpec
CONSTANTS
    Calls = {c1, c2}
    c1 = c1
    c2 = c2
    MaxConnects = 3
    Budgets <- TwoCallsOrThreeConnections
    Payloads = {"readable", "unreadable"}
INVARIANTS
    RefusalMeansUntouched
    AnswerReachesCaller
    ExecutionsBounded
PROPERTIES
    ImplementsControlCall
    CallTerminates
CHECK_DEADLOCK FALSE
