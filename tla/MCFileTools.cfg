SPECIFICATION Spec
CONSTANTS
    c1 = c1
    c2 = c2
    c3 = c3
    r1 = r1
    r2 = r2
    real = real
    link = link
    NoCall = NoCall
    Calls = {c1, c2, c3}
    Keys = {real, link}
    Runs = {r1, r2}
    RunOf <- MCRunOf
    Target <- MCTarget
INVARIANTS
    OneAtATimeOr
    ChangesKept
PROPERTIES
    CallsAnswered
    
CHECK_DEADLOCK FALSE
