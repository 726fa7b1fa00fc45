SPECIFICATION FairSpec
CONSTANTS
    Root = root
    c1 = c1
    c2 = c2
    u1 = u1
    u2 = u2
    t1 = t1
    t2 = t2
    Children = {c1, c2}
    Users = {u1, u2}
    Cancellers = {t1, t2}
    ManagerOf <- MCManagerOf
    Target <- MCTarget
INVARIANTS DeregisterSettles CallbacksReached NoUseAfterFree
PROPERTY WaitsEnd
CHECK_DEADLOCK FALSE
