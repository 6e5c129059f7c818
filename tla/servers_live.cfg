SPECIFICATION FairSpec
CONSTANTS
    Components = {"ipc", "vm", "fs", "hinavm", "lists"}
    IpcTasks = {1, 2, 3}
    IpcAsync <- NetAsync
    IpcCalls <- NetCalls
    IpcSends = {}
    IpcListeners = {}
    MaxQueue = 2
    MaxTid = 4
    ServiceNames = {"s"}
    BootServers <- ShellAppServer
    Startable = {"app"}
    Endings = {"exit", "fault"}
    MaxBorn = 5
    NumBlocks = 10
    NumBits = 10
    IndexMod = 65536
    BLOCK_SIZE = 2
    BLOCKS_PER_ENTRY = 3
    OPEN_FILES_MAX = 2
    Clients = {1, 2}
    Ops = {"mkfile", "open", "close", "read", "write", "destroyed"}
    Lens = {1}
    DeviceFails = FALSE
    MaxOps = 7
    MaxCrashes = 0
    Paths <- TwoFiles
    DirPaths = {}
    HinaPrograms = {"pong"}
    WordBits = 8
    ImmBits = 7
    NumRegs = 6
    HinaTask = 3
    HinaNatives = {1, 2}
    Pager = 1
    Values = {2, 200}
    MaxCalls = 2
    NumPages = 20
    BeyondFree = FALSE
    NumDevices = 1
    MemorySlots = {2, 3}
    Uaddrs = {"lo", "lo2"}
    StackPages = 1
    MaxPages = 2
    MaxCreates = 1
    HeapSize = 20
    Hdr = 2
    Align = 2
    Sizes = {0, 3, 5, 8}
    Pointers = {p}
    Heads = {l1, l2}
    Elems = {e1, e2, e3}
    NoCell = NoCell
    MaxVisits = 4
PROPERTIES ImplementsMailbox ImplementsFiles ImplementsLists Progress
CHECK_DEADLOCK FALSE
