SPECIFICATION VmSpec
CONSTANTS
    s1 = s1
    s2 = s2
    f1 = f1
    f2 = f2
    VmSpaces = {s1, s2}
    VmFrames = {f1, f2}
    UserVaLimit = 5
    Span = 4
    Prots <- MCProts
    BrkPage = 2
    BrkArgs = {3, 4, 5}
    MaxLen = 2
    MaxLost = 1
    MaxCalls = 3
    NoPage = NoPage
SYMMETRY MCSymmetry
INVARIANTS SharedNotWritable
CHECK_DEADLOCK FALSE
