SPECIFICATION MCSpec
CONSTANTS
    proc1 = proc1
    proc2 = proc2
    proc3 = proc3
    FpProcs = {proc1, proc2, proc3}
    initproc = proc1
    N_PRIO = 2
    NoProc = NoProc
    bproc1 = bproc1
    bproc2 = bproc2
    BcProcs = {bproc1, bproc2}
    NBUF = 2
    Blocks = {0, 1, 2}
    NUM_DESCS = 6
    MaxWrites = 1
    NoBlock = NoBlock
    fproc1 = fproc1
    fproc2 = fproc2
    pipe1 = pipe1
    FlProcs = {fproc1, fproc2}
    FirstUser = fproc1
    NOFILE = 2
    NFILE = 3
    Pipes = {pipe1}
    PipeSize = 2
    MaxBytes = 3
    NoFile = NoFile
    total_pages = 8
    FirstFree = 2
    DtbPages = {3}
    MAX_ORDER = 3
    ObjPages <- MCObjPages
    NilPage = NilPage
    vproc1 = vproc1
    vproc2 = vproc2
    FvProcs = {vproc1, vproc2}
    FvInit1 = vproc1
    MemorySizes = {16, 17}
    UserPages = {1, 2, 3, 4, 5, 6, 7, 8, 9}
    MaxSz = 4
    ImageSizes = {1}
    StackPages = 1
    Grows = {1, 2}
    Shrinks = {2}
    MaxLost1 = 2
    NoLeaf = NoLeaf
    sproc1 = sproc1
    sproc2 = sproc2
    name1 = name1
    name2 = name2
    FsProcs = {sproc1, sproc2}
    Names = {name1, name2}
    MaxCluster = 5
    ClusSz = 2
    SlotsPerClus = 1
    WriteSizes = {3}
    MaxSize = 3
    MaxPartial = 1
    NoName = NoName
    NoInode = NoInode
    reader1 = reader1
    reader2 = reader2
    Readers = {reader1, reader2}
    ReadLens = {1, 3}
    UART_RX_BUF_SIZE = 2
    ConsBuf = 2
    MaxTyped = 3
    Nobody = Nobody
    BUFSIZ = 2
    MaxFile = 3
    Chunks = {1, 3}
    Texts <- MCTexts
    MaxBad = 2
    StModes <- MCStModes
    ALIGNMENT = 2
    MoreCore = 8
    HeapLimit = 28
    SizeMod = 128
    IntMod = 64
    MallocSizes = {0, 1, 3, 6, 9, 40, 64, 127}
    HeapNull = HeapNull
    MAX_ARGS = 3
    LineChars = {"a", " ", "|", ";", "&", ">"}
    MaxLine = 6
    ShLines <- MCShLines
    MaxLines = 2
    ShProcs = 6
    ShPipes = 2
    ShFds = 4
INVARIANTS
    ProcessesQueued
    CacheCoherent
    FilesShared
    MemoryPartitioned
    SpacesPrivate
    FilesystemSound
    LinesDelivered
    StreamsTransparent
    HeapTidy
    
SYMMETRY MCSymmetry
CHECK_DEADLOCK FALSE
