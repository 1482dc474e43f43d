SPECIFICATION Spec
CONSTANTS
    k1 = k1
    k2 = k2
    t1 = t1
    t2 = t2
    u1 = u1
    u2 = u2
    a = a
    b = b
    iso = iso
    Tasks = {k1, k2}
    FirstTask = k1
    Threads = {t1, t2, u1, u2}
    Objects = {a, b, iso}
    NoThread = NoThread
    NoObject = NoObject
    NoTask = NoTask
    TaskOf <- MCTaskOf
    MainThread <- MCMainThread
    HomeOf <- MCHomeOf
    ThreadObj <- MCThreadObj
    Represents <- MCRepresents
INVARIANTS ThreadsAccountedFor StoppingThreadsRun SuspendedTasksRest ExitIsSeen
CHECK_DEADLOCK FALSE
