CONSTANTS
    t1 = t1
    t2 = t2
    vc = vc
    vf = vf
    vg = vg
    w1 = w1
    w2 = w2
    Threads = {t1, t2}
    Concrete = {vc}
    Indirect = {vf, vg}
    Born <- MCBorn
    Target <- MCTarget
    Producer <- MCProducer
    Given <- MCGiven
    Waiters = {w1, w2}
    On <- MCOn
    Owning = {w1}
    Blocking = {w2}
    Group <- MCGroup
    Callee = callee
    Nil = Nil
SPECIFICATION FairSpec
INVARIANTS NoUseAfterFree NoLeak WaiterSeesValue
CHECK_DEADLOCK FALSE
PROPERTIES KeepsPromises WaitersRun
