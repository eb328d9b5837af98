SPECIFICATION FairSpec
CONSTANTS
    c1 = c1
    k1 = k1
    k2 = k2
    q1 = q1
    None = None
    Cpus = {c1}
    Tasks = {k1, k2}
    UserTasks = {}
    InitTask = None
    WaitQueues = {q1}
    kNumPriorities = 2
    kMaxTimeslice = 2
PROPERTIES WokenFromIdle
CHECK_DEADLOCK FALSE
