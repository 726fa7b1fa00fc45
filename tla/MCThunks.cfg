SPECIFICATION FairSpec
CONSTANTS
    tok = tok
    comm = comm
    Resources = {tok, comm}
    Times = {0, 1}
    N = 4
    Programs <- MCPrograms
    Executed <- MCExecuted
    HasRunner = TRUE
    MayBlock = {1}
    QueueTypes = {"fifo", "lifo", "priority"}
    PreferSequential = FALSE
    MaxWorkers = 2
    SplitThreshold = 0
    Outcomes = {"now", "later", "fail"}
    IsToken <- MCIsToken
INVARIANTS QuietOnceDone SchedulesKept
PROPERTIES OrderKeptInExecution EventSet
