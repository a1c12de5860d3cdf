\* A login and three requests of its session, or two logins, a clock that passes the expiry, faults and restarts.
SPECIFICATION Spec
CONSTANTS
    Requests = {r1, r2, r3, r4}
    r1 = r1
    r2 = r2
    r3 = r3
    r4 = r4
    Scenarios <- OneSessionOrTwoLogins
    Edits <- RowsWritten
    TTL = 1
    MaxTime = 1
    Faults = TRUE
    None = None
INVARIANTS
    OverIsFinal
    AuthorityIsCurrent
    AnsweredLoginIsAudited
    RefusedLoginLeavesNoSession
CHECK_DEADLOCK FALSE
