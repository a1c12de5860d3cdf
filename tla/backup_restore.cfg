\* Backups and restores of a stack that may have been backed up before, with an
\* edit between or during them.
SPECIFICATION Spec
CONSTANTS
    MaxScripts = 2
    MaxEdits = 1
    None = None
    Torn = Torn
INVARIANTS
    MarkedArchiveIsWhole
    SafetyArchiveHoldsWhatWas
PROPERTIES
    CompleteRestoreIsExact
    RestoreKeepsServing
CHECK_DEADLOCK FALSE
