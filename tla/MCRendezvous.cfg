CONSTANTS
    a1 = a1
    a2 = a2
    a3 = a3
    ka = ka
    kb = kb
    Threads = {a1, a2, a3}
    MaxCalls = 2
    Setups <- MCSetups
    Skipped = Skipped
    Nil = Nil
SPECIFICATION FairSpec
INVARIANTS RoundsDoNotMix
PROPERTIES AllReturn RoundsImplemented
CHECK_DEADLOCK FALSE
