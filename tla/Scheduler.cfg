SPECIFICATION Spec
CONSTANTS
    Schedulers = {s1, s2}
    Interval = 4
    Nap = 2
    PerSecond = 2
    Never = Never
    Stall = 2
    MaxDeaths = 1
    MaxTime = 28
SYMMETRY SchedulerSymmetry
INVARIANTS TypeOK TaskKeepsRunning
PROPERTIES RunsSpaced
CHECK_DEADLOCK FALSE
