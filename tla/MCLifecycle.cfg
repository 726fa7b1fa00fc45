CONSTANTS
    Tasks = {t1, t2, t3}
    RecoverableTasks = {t3}
    RecoverableJobTasks = {}
    Pollers = {}
    Stranger = stranger
    UserBarriers = {}
    Register = Register
    Shutdown = Shutdown
    BarrierArgs = {}
    AliveArgs = {}
    RegisterWithBarrier = TRUE
    ShutdownWithBarrier = TRUE
    AllowReconnect = FALSE
    LeaveOnRestart = FALSE
    MaxIncarnation = 2
    MaxCounter = 0
SPECIFICATION Spec
INVARIANTS ConnectedTogether NewestIncarnationWaits
PROPERTIES ShutdownIsAllOrNothing RestartIsNoticed
CHECK_DEADLOCK FALSE
SYMMETRY MCSymmetry
