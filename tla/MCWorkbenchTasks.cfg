CONSTANTS
    t1 = t1
    t2 = t2
    NoTask = NoTask
    Tasks = {t1, t2}
    MaxSpaces = 3
    MaxCalls = 2
    LiveLimit = 1
    SweepEvery = 1
    MaxEvents = 2
SPECIFICATION FairSpec
INVARIANTS
  BoardSound
  PlanAdvances
PROPERTIES
  EndedStaysEnded
  StartingEnds
  LostWorkerNoticed
  OrphansClosed
CHECK_DEADLOCK FALSE
