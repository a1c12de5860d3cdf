\* Two concurrent requests; the database fails, the process dies.
SPECIFICATION FairSpec
CONSTANTS
    Requests = {r1, r2}
    Handlers <- OneOfEachShape
    MaxExecutions = 2
    Unstorable = {}
    Faults = TRUE
INVARIANTS
    SuccessWasApplied
    OkIsAudited
    AnsweredIsAccountedFor
    TurnedAwayNeverExecutes
    OneVerdict
    BeforeSeesFinishedChanges
PROPERTIES
    EveryRequestAnswered
CHECK_DEADLOCK FALSE
