SPECIFICATION Spec
CONSTANTS
    Calls = {c1, c2, c3}
    Nobody = nobody
SYMMETRY Symmetry
INVARIANTS
    Reaped
    InitializedFirst
    AnswersOwn
    NoneForgotten
CHECK_DEADLOCK FALSE
