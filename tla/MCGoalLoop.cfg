SPECIFICATION FairSpec
CONSTANTS
    Drivers = {d1, d2}
    Starter = d1
    NoPid = NoPid
    IterCaps = {2}
    UsdCaps = {1, 2}
    MaxIdle = 1
    Costs = {0, 2}
    MaxCost = 2
    MaxCrashes = 1
INVARIANTS
    OneDriver
    RecordsOrdered
    

    
CONSTRAINT
    Intact
CHECK_DEADLOCK FALSE
