SPECIFICATION ServerSpec
CONSTANTS
    NUM_TASKS_MAX = 5
    NumCpus = 2
    TASK_QUANTUM = 1
    InputMax = 1
    MaxTicks = 1
    MaxTimeout = 1
    BootTasks = 4
    Requests <- ServerIpc
    UserBits <- AsyncBits
    MayCall <- ServerCalls
    Events = {"timer"}
PROPERTIES NoStarvation SendsComplete
