SPECIFICATION Spec
CONSTANTS
    Files = {f1, f2}
    NoFile = NoFile
    MaxId = 4
INVARIANT
    BranchKeepsPath
