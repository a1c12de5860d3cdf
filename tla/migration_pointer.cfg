\* A migration with a checkpoint directory of its own.
SPECIFICATION Spec
CONSTANTS
    Edits = {}
    MaxRuns = 3
    MaxFaults = 0
    MayKill = FALSE
    MayCorrupt = FALSE
    Roots = {"backups", "other"}
    Torn = Torn
    None = None
INVARIANTS
    DefaultRollbackUsesLast
CHECK_DEADLOCK FALSE
