SPECIFICATION FairSpec
CONSTANTS
    t1 = t1
    t2 = t2
    t3 = t3
    w1 = w1
    w2 = w2
    Tasks = {t1, t2, t3}
    TimerThreads = {w1, w2}
    NoThread = NoThread
    NoTask = NoTask
    Period <- MCPeriod
    OnUserClock = {t2, t3}
    ThreadTimeout = 1
    CheckPeriod = 1
    Times = {1, 2}
    MaxTime = 2
    MaxDeviation = 1
INVARIANTS TypeOK UserClockTasksCounted OneThreadServes CancelledTimerIsEmpty NoTaskIsOverslept
PROPERTIES HeapKept RunsTheEarliestDue LoopMeetsItsTasks
CHECK_DEADLOCK FALSE
