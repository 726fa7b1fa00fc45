CONSTANTS
    a = a
    ax = ax
    b = b
    Keys = {a, ax, b}
    Under <- MCUnder
    Callers = {c1, c2}
    Deleters = {d1}
    Word = Word
    None = None
    Cancelled = Cancelled
    IntMax = 2
    MaxAbs = 4
    Ints = {1}
    Increments = {1, 2}
SPECIFICATION Spec
INVARIANTS NoLostWakeup CallbackAccounting
PROPERTY AnsweredOnce
CHECK_DEADLOCK FALSE
