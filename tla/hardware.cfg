SPECIFICATION FairSpec
CONSTANTS
    Components = {"serial", "clock", "clock_alone", "ipi", "ipi_many", "net", "blk"}
    Tasks = {t1, t2}
    Chars = {0, 1}
    CTRL_P = 16
    RingSize = 3
    MaxLens = {1, 2}
    WriteMax = 2
    KbufSize = 2
    Texts <- TextsToWrite
    clock_CPUs = {0, 1}
    TickTime = 2
    INTERVAL = 2
    Word = 100
    TICK_HZ = 1000
    Latency = 3
    Timeouts = {0, 2}
    MaxAge = 5
    ipi_CPUs = {1, 2, 3}
    Mappers = {1}
    Destroyers = {1}
    MaxOps = 2
    net_NumDescs = 2
    net_IndexMod = 4
    NumTx = 2
    NumRx = 2
    MaxSend = 4
    MaxArrive = 2
    blk_NumDescs = 4
    blk_IndexMod = 8
    NumSectors = 2
    AskSectors = {0, 1}
    Lens = {1, 2}
    MaxRequests = 8
INVARIANTS ConsoleAndClock IpisSound DriversSound
PROPERTIES ImplementsDropOldest WaitsEnd
CHECK_DEADLOCK FALSE
