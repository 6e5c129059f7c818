SPECIFICATION Spec
CONSTANTS
    NUM_TASKS_MAX = 4
    NumCpus = 2
    TASK_QUANTUM = 1
    InputMax = 1
    MaxTicks = 1
    MaxTimeout = 1
    BootTasks = 3
    Requests <- PeerIpc
    UserBits <- AsyncBits
    MayCall <- PeerCalls
    Events = {"timer"}
INVARIANTS TypeOK RunnableOnce WaitsInOneQueue NoLostWakeup DeliverySound NoMutualSend
PROPERTIES MessageNotOverwritten
