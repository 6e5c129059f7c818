SPECIFICATION Spec
CONSTANTS
    NUM_TASKS_MAX = 4
    NumCpus = 2
    TASK_QUANTUM = 1
    InputMax = 2
    MaxTicks = 2
    MaxTimeout = 2
    BootTasks = 3
    Requests <- DeviceIpc
    UserBits <- AsyncBits
    MayCall <- DeviceCalls
    Events = {"timer","irq","serial"}
INVARIANTS DevicesSound ReaderNotForgotten
