SPECIFICATION FairSpec
CONSTANTS
  t1 = t1
  t2 = t2
  t3 = t3
  Threads = {t1, t2, t3}
  NoThread = NoThread
  MaxPriority = 3
  NormalPriority = 2
  Movable = {t1, t2}
INVARIANTS InQueueOfItsPriority BitsTellQueues CacheIsRunnable
PROPERTIES FindsThread HigherPriorityFirst AllTakeTurns
