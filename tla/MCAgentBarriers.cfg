SPECIFICATION AgentsSpec
CONSTANTS
    Tasks = {t1, t2}
    RecoverableTasks = {t2}
    RecoverableJobTasks = {}
    Pollers = {}
    Stranger = stranger
    UserBarriers = {b}
    Register = Register
    Shutdown = Shutdown
    BarrierArgs = {{}}
    AliveArgs = {}
    RegisterWithBarrier = FALSE
    ShutdownWithBarrier = FALSE
    AllowReconnect = FALSE
    LeaveOnRestart = FALSE
    MaxIncarnation = 2
    MaxCounter = 1
    MaxCalls = 2
    MaxInterrupted = 1
    Cancellers = {t1}
    Quitters = {t2}
INVARIANT OkMeansEveryoneArrived
INVARIANT NoWaitForFailedTask
PROPERTY OkMeansAllCalled
PROPERTY OkIsNew
CHECK_DEADLOCK FALSE
