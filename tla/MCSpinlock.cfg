SPECIFICATION FairSpec
CONSTANTS
    c1 = c1
    c2 = c2
    Cpus = {c1, c2}
    Locks <- MCLocks
    kInvalidCpuId = kInvalidCpuId
INVARIANTS SpinlockInv MutualExclusion NoPanic
PROPERTIES IntrRestored ImplementsService SpinnersProgress
