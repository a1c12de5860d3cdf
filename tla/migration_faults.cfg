\* Three runs: commands fail, scripts are killed, checkpoints damaged, edits come.
SPECIFICATION Spec
CONSTANTS
    Edits = {e1}
    MaxRuns = 3
    MaxFaults = 2
    MayKill = TRUE
    MayCorrupt = TRUE
    Roots = {"backups", "other"}
    Torn = Torn
    None = None
INVARIANTS
    CompletedRunsCandidate
    OneFaultIsHarmless
    LiveFileIsWhole
    NoChangeWithoutCheckpoint
    RolledBackIsExact
CHECK_DEADLOCK FALSE
