SPECIFICATION Spec
CONSTANTS
    c1 = c1
    t1 = t1
    t2 = t2
    t3 = t3
    r = r
    b2 = b2
    None = None
    Cpus = {c1}
    Tasks = {r, t1, t2, t3}
    Root = r
    RootCpu = c1
    Boot2 = b2
    BootTask <- MCBootTask
    InitTasks = {None}
    kWordBits = 2
    kBitmapWords = 3
SYMMETRY FreeSymmetry
INVARIANTS WaitSleeps
CHECK_DEADLOCK FALSE
