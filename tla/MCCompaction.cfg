SPECIFICATION CompactionSpec
CONSTANTS
    KeepRecent = 2
    ResultSizes = {1, 3}
    Kinds = {"user", "assistant", "custom", "setting"}
    Compactors = {c1, c2}
    MaxEntries = 5
    MaxMoves = 1
INVARIANTS
    CallsKept
    NoneUnsummarized
    CutIsEarliest

    
SYMMETRY CompactorSymmetry
CHECK_DEADLOCK FALSE
