SPECIFICATION Spec
CONSTANTS
    Callers = {p}
    MaxRetries = 1
    MaxId = 4
    MaxCalls = 0
    MaxCommands = 0
INVARIANTS
    RetryHasOwner
CHECK_DEADLOCK FALSE
