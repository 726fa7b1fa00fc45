SPECIFICATION FairSpec
CONSTANTS
    Tasks = {t1, t2, t3}
    MaxFaults = 2
    MaxStep = 2
INVARIANTS Agreement NoneIsPast
PROPERTY AllSave
CHECK_DEADLOCK FALSE
