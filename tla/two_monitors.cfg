SPECIFICATION Spec
CONSTANTS
  t1 = t1
  t2 = t2
  t3 = t3
  a = a
  b = b
  Threads = {t1, t2, t3}
  Objects = {a, b}
  NoThread = NoThread
  NoObject = NoObject
  ThreadObj <- NoThreadObjs
  MaxNest = 2
  Sleepers = {t1, t2, t3}
  TimedWaiters = {t1, t2, t3}
  AsyncCallers = {}
  Interrupters = {t1, t2, t3}
SYMMETRY AllAlike
PROPERTIES ImplementsJavaMonitor
INVARIANTS WholeInv RunnableOwnsItsLocks WaitersImplyLocked OneListPerThread WaitListsFound
