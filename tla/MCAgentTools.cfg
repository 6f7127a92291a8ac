SPECIFICATION FairSpec
CONSTANTS
    Caps = {0, 2}
    MaxInputs = 2
    MaxReplies = 2
    MaxCalls = 2
INVARIANTS
    CallsAnswered
    
PROPERTIES
    
    ImplementsAgentRun
