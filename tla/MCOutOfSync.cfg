CONSTANTS
    Tasks = {t1, t3}
    RecoverableTasks = {t3}
    RecoverableJobTasks = {}
    Pollers = {}
    Stranger = stranger
    UserBarriers = {b}
    Register = Register
    Shutdown = Shutdown
    BarrierArgs = {{}, {t1}, {t1, stranger}}
    AliveArgs = {{t1, t3}}
    RegisterWithBarrier = TRUE
    ShutdownWithBarrier = FALSE
    AllowReconnect = FALSE
    LeaveOnRestart = TRUE
    MaxIncarnation = 1
    MaxCounter = 1
SPECIFICATION FairCheckSpec
INVARIANTS TypeOK BarrierBooks AlivenessNotStuck
PROPERTIES UnsyncedDoNotBlock CallsAnswered
CHECK_DEADLOCK FALSE
