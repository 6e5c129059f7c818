SPECIFICATION Spec
CONSTANTS
    Components = {"ipc", "vm", "vm_frail", "vm_killers", "fs", "hinavm", "memory", "memory_paging", "memory_low", "heap"}
    IpcTasks = {1, 2, 3}
    IpcAsync <- NetAsync
    IpcCalls <- NetCalls
    IpcSends <- NetSends
    IpcListeners = {1}
    MaxQueue = 2
    MaxTid = 4
    ServiceNames = {"s", "r"}
    BootServers <- ShellAppServer
    Startable = {"app", "missing"}
    Endings = {"exit", "fault", "invalid"}
    MaxBorn = 6
    NumBlocks = 8
    NumBits = 10
    IndexMod = 65536
    BLOCK_SIZE = 2
    BLOCKS_PER_ENTRY = 3
    OPEN_FILES_MAX = 1
    Clients = {1}
    Ops = {"mkfile", "mkdir", "delete", "readdir", "open"}
    Lens = {1}
    DeviceFails = FALSE
    MaxOps = 5
    MaxCrashes = 1
    Paths <- TreePaths
    DirPaths <- OnlyA
    HinaPrograms = {"pong", "echo", "client", "stray", "illegal", "nobody", "self"}
    WordBits = 8
    ImmBits = 7
    NumRegs = 6
    HinaTask = 3
    HinaNatives = {1, 2}
    Pager = 1
    Values = {2, 200}
    MaxCalls = 2
    NumPages = 20
    BeyondFree = FALSE
    NumDevices = 1
    MemorySlots = {2, 3}
    Uaddrs = {"lo", "lo2"}
    StackPages = 1
    MaxPages = 2
    MaxCreates = 3
    HeapSize = 20
    Hdr = 2
    Align = 2
    Sizes = {0, 3, 5, 8}
    Pointers = {p, q}
    Heads = {l1, l2}
    Elems = {e1, e2, e3}
    NoCell = NoCell
    MaxVisits = 4
INVARIANTS MessagesAnnounced TasksTracked DiskConsistent ProgramsAnswer MemoryOwned
PROPERTY StepsRight
CHECK_DEADLOCK FALSE
