SPECIFICATION FairSpec
CONSTANTS
    t1 = t1
    t2 = t2
    t3 = t3
    t4 = t4
    t5 = t5
    Threads = {t1, t2, t3, t4, t5}
    Units = {1, 2, 3, 4, 5, 6}
    Share <- MCShare
    Fails = {t2, t3, t5}
    Observers = {o}
    OkStatus = OkStatus
INVARIANTS OutcomeRight
