SPECIFICATION Spec
CONSTANTS
    c1 = c1
    k1 = k1
    k2 = k2
    u1 = u1
    u2 = u2
    q1 = q1
    None = None
    Cpus = {c1}
    Tasks = {k1, k2, u1, u2}
    UserTasks = {u1, u2}
    InitTask = u1
    WaitQueues = {q1}
    kNumPriorities = 2
    kMaxTimeslice = 2
INVARIANTS UserretIntrOff
CHECK_DEADLOCK FALSE
