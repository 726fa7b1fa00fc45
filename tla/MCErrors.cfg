CONSTANTS
    Tasks = {t1, t2, t3}
    RecoverableTasks = {t3}
    RecoverableJobTasks = {t2}
    Pollers = {t1, t3}
    Stranger = stranger
    UserBarriers = {}
    Register = Register
    Shutdown = Shutdown
    BarrierArgs = {}
    AliveArgs = {}
    RegisterWithBarrier = FALSE
    ShutdownWithBarrier = TRUE
    AllowReconnect = TRUE
    LeaveOnRestart = FALSE
    MaxIncarnation = 1
    MaxCounter = 0
SPECIFICATION Spec
PROPERTIES ErrorsAreHeard
CHECK_DEADLOCK FALSE
