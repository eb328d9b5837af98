SPECIFICATION MCSpec
CONSTANTS
    cpu1 = cpu1
    cpu2 = cpu2
    task1 = task1
    task2 = task2
    task3 = task3
    task0 = task0
    boot2 = boot2
    None = None
    Cpus = {cpu1, cpu2}
    Tasks = {task0, boot2, task1, task2, task3}
    Root = task0
    RootCpu = cpu1
    Boot2 = boot2
    BootTask <- MCBootTask
    InitTasks = {None, task0}
    kWordBits = 2
    kBitmapWords = 2
    kcpu1 = kcpu1
    kcpu2 = kcpu2
    KlogCpus = {kcpu1, kcpu2}
    KLOG_BUF_SIZE = 8
    KlogHdr = 2
    KlogLens = {1, 3}
    klogWidth = 32
    MaxMessages = 3
    RlInterval = 3
    RlBurst = 2
    RlHorizon = 9
    icpu1 = icpu1
    icpu2 = icpu2
    driver1 = driver1
    driver2 = driver2
    IrqCpus = {icpu1, icpu2}
    Sources = {1}
    Drivers = {driver1, driver2}
    NoDriver = NoDriver
    NoIrq = NoIrq
    kKernelVABase = 3
    UaTop = 5
    ExitCodes = {0, 1, 128, 255, 256, 265, 511}
    NoAddr = NoAddr
    RbKeys = 9
    SpareKey = 4
    RbVal <- MCRbVal
    CharBits = 3
    ShortBits = 4
    IntBits = 5
    LongBits = 8
    PRINTF_NTOA_BUFFER_SIZE = 7
    KprintfBuf = 6
    FmtCalls <- MCFmtCalls
    FmtCounts = {0, 1, 3, 9}
    NumBuf = 7
    NumChars = {" ", "+", "0", "2", "5", "9", "f", "X"}
    MaxNumText = 5
SYMMETRY MCSymmetry
INVARIANTS
    TasksExact
    LogFaithful
    IrqsServed
    CopiesContained
    StatusTellsHowItEnded
    TreeSound
    TextStandard
PROPERTIES
    ReapedAndHeard
CHECK_DEADLOCK FALSE
