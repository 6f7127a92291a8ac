\* Two processes share one expired token and store other credentials.
SPECIFICATION Spec
CONSTANTS
    p1 = p1
    p2 = p2
    c1 = c1
    c2 = c2
    q1 = q1
    q2 = q2
    Processes = {p1, p2}
    Calls = {c1, c2}
    By <- Callers
    Providers = {q1, q2}
    OAuth = {q1}
    MaxIds = 3
INVARIANTS
    OneRefresherOr
    NoChangeLost
    TokensFresh
    LockOwned
SYMMETRY Names
