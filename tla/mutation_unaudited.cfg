\* No fault at all, a target longer than its column.
SPECIFICATION Spec
CONSTANTS
    Requests = {r1}
    Handlers <- AclOnly
    MaxExecutions = 2
    Unstorable = {r1}
    Faults = FALSE
INVARIANTS
    EveryEffectIsAudited
CHECK_DEADLOCK FALSE
