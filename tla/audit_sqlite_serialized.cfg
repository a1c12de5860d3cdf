\* SQLite: the claim that its own serialization of writes is sufficient.
SPECIFICATION Spec
CONSTANTS
    Workers = {w1, w2, w3}
    Entries = {e1, e2, e3, e4}
    Oversize = {}
    Dialects = {"sqlite"}
    None = None
INVARIANTS
    NoWriterRejected
CHECK_DEADLOCK FALSE
