SPECIFICATION Spec
CONSTANTS
    c1 = c1
    c2 = c2
    k1 = k1
    k2 = k2
    k3 = k3
    q1 = q1
    None = None
    Cpus = {c1, c2}
    Tasks = {k1, k2, k3}
    UserTasks = {}
    InitTask = None
    WaitQueues = {q1}
    kNumPriorities = 2
    kMaxTimeslice = 2
SYMMETRY TaskSymmetry
INVARIANTS QueuesExact NoLostWakeup
PROPERTIES MostUrgentFirst
CHECK_DEADLOCK FALSE
