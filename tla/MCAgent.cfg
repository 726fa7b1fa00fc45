SPECIFICATION FairSpec
CONSTANTS
    PollAtStartup = TRUE
    Recoverable = FALSE
    AllowReconnect = TRUE
    MaxSessions = 3
    MaxIncarnation = 2
    MaxLeader = 2
INVARIANT HeartbeatsEndWithSession
PROPERTY NoSelfDuplicate
PROPERTY FailureIsNoticed
CHECK_DEADLOCK FALSE
