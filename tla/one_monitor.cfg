SPECIFICATION FairSpec
CONSTANTS
  t1 = t1
  t2 = t2
  t3 = t3
  a = a
  b = b
  Threads = {t1, t2, t3}
  Objects = {a}
  NoThread = NoThread
  NoObject = NoObject
  ThreadObj <- JoinableT1
  MaxNest = 1
  Sleepers = {t1}
  TimedWaiters = {t1, t2, t3}
  AsyncCallers = {t2}
  Interrupters = {t1}
INVARIANTS NoGuaranteeFails StopsOnlyWhenStuck
PROPERTIES FifoHandOver NoSpuriousWakeUp TimedWaitsEnd YieldEnds
