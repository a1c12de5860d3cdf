\* Three handlers appending four events, one of them oversize, on PostgreSQL and on SQLite.
SPECIFICATION FairSpec
CONSTANTS
    Workers = {w1, w2, w3}
    Entries = {e1, e2, e3, e4}
    Oversize = {e4}
    Dialects = {"postgresql", "sqlite"}
    None = None
INVARIANTS
    LockPreventsConflict
    ChainVerifies
PROPERTIES
    ImplementsAuditLog
    AppendTerminates
CHECK_DEADLOCK FALSE
