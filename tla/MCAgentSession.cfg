SPECIFICATION Spec
CONSTANTS
    Callers = {p, q}
    MaxRetries = 1
    MaxId = 4
    MaxCalls = 1
    MaxCommands = 1
SYMMETRY CallerSymmetry
INVARIANTS
    TypeOK
    
    
    QueueShown
    
PROPERTIES
    ComesToRest
CHECK_DEADLOCK FALSE
