SPECIFICATION MCSpec
CONSTANTS
    c1 = c1
    c2 = c2
    None = None
    Cpus = {c1, c2}
    g_num_pages = 7
    kMaxOrder = 3
    FreeRegions <- MCFreeRegions
    g_pcp_batch_size = 2
    g_pcp_high_watermark = 4
    MaxUsers = 2
    NoSlab = NoSlab
    SlabPages = 3
    kSizeClasses <- MCSizeClasses
    kPageSize = 6
    MaxRequest = 8
    MbPage = 4
    MbFanout = 8
    MbDescSize = 1
    kMemblockMaxRegions = 11
    MbLayouts <- MCMbLayouts
    MbDevices = {40, 41, 60}
    MbNone = MbNone
    NodeNames = {"memory@2", "soc", "chosen@1"}
    MemoryNames = {"memory@2"}
    FdtProps <- MCFdtProps
    FdtDepth = 3
    MaxTokens = 10
    MAX_VIRTIO = 2
    MAX_MMIO = 1
    MmioLimit = 100
    DefaultSize <- MCDefaultSize
    ChosenNames = {"chosen@1"}
    SeedNames = {"kaslr-seed", "kaslr-seed2"}
    CompatParts <- MCCompatParts
    WordBase = 16
    NoReg = NoReg
    LzRun = 1
    LzMin = 2
    MaxLz = 7
    BootPage = 4
    BootWord = 2
    BootLayouts <- MCBootLayouts
    GapTries = 64
    kMaxSlots = 64
    VmemmapSlot = 64
    HalfSlots = 256
    RamBase = 2
    RamSizes = {1, 8, 62, 63, 100}
SYMMETRY MCSymmetry
INVARIANTS
    PagesExact
    CachesExact
    EarlyMemoryExact
    DeviceTreeRead
    UnpackedAsPacked
    ImagePlaced
PROPERTIES
    ImplementsPageService
CHECK_DEADLOCK FALSE
