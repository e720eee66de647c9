CONSTANTS
    t1 = t1
    t2 = t2
    NoTask = NoTask
    Tasks = {t1, t2}
    MaxSpaces = 3
    MaxCalls = 1
    LiveLimit = 1
    SweepEvery = 1
    MaxEvents = 2
SPECIFICATION Spec
INVARIANT PlanNeverStalls
CHECK_DEADLOCK FALSE
