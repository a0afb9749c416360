CONSTANTS
    t1 = t1
    t2 = t2
    Timers = {t1, t2}
    Intervals <- MCIntervals
    Ticks <- MCTicks
    MinQuantityTime = 3
    WaitUpTime = 99
    Far = 14
SPECIFICATION Spec
INVARIANTS TypeOK InTime TicksKept
