------------------------------- MODULE Tasks -------------------------------
(***************************************************************************)
(* Tasks (the VM's side of isolates) and what starting, suspending,        *)
(* resuming and stopping one does to its threads, wherever the scheduler   *)
(* has them.                                                               *)
(*                                                                         *)
(* Native methods run to their end, so each is one step of the current     *)
(* thread.  Lists are sets here, and any runnable thread may be chosen     *)
(* next: the order of threads is the subject of Scheduler and RunQueue.    *)
(***************************************************************************)
EXTENDS Integers, FiniteSets

CONSTANTS
    Tasks, FirstTask,
    Threads,
    Objects,
    NoThread, NoObject, NoTask,
    TaskOf,         \* task_id of each thread
    MainThread,     \* the thread create_task makes for each task
    HomeOf,         \* the task whose threads use each object
    ThreadObj,      \* the Thread object of each thread, or NoObject
    Represents      \* the task an Isolate object stands for, or NoTask; each
                    \* task has one such object at most

ASSUME TasksAssumption ==
    /\ IsFiniteSet(Threads)
    /\ NoThread \notin Threads /\ NoObject \notin Objects /\ NoTask \notin Tasks
    /\ TaskOf \in [Threads -> Tasks]
    /\ FirstTask \in Tasks
    /\ MainThread \in [Tasks -> Threads]
    /\ \A k \in Tasks : TaskOf[MainThread[k]] = k
    /\ HomeOf \in [Objects -> Tasks]
    /\ ThreadObj \in [Threads -> Objects \cup {NoObject}]
    /\ Represents \in [Objects -> Tasks \cup {NoTask}]
    /\ \A o, p \in Objects :
          Represents[o] = Represents[p] /\ Represents[o] # NoTask => o = p

VARIABLES
    status,         \* Task._status without SUSPEND_STATUS
    suspendBit,     \* SUSPEND_STATUS
    terminating,    \* Task._is_terminating
    threadCount,    \* Task._thread_count
    life,           \* of each thread: Thread.start to Scheduler::terminate
    active,         \* the priority queues of all tasks
    suspendQueue,   \* Universe::suspend_task_queue
    asynchronous,   \* Universe::scheduler_async
    waiting,        \* the wait lists and the sleep queue
    waitObj,        \* wait_obj of each thread
    owner,          \* of each object's lock
    waiters,        \* threads queued for it, StackLock._waiters
    starting,       \* Isolate objects whose start() has seen a new isolate
    current,        \* _current_thread, or NoThread once it has ended
    exiting         \* how far the current thread is on its way out

tasks == <<status, suspendBit, terminating, threadCount>>
lists == <<active, suspendQueue, asynchronous, waiting, waitObj, waiters>>
vars == <<tasks, life, lists, owner, starting, current, exiting>>

TasksTyped ==
    /\ status \in [Tasks -> {"new", "started", "stopping", "stopped"}]
    /\ suspendBit \in [Tasks -> BOOLEAN]
    /\ terminating \in [Tasks -> BOOLEAN]
    /\ threadCount \in [Tasks -> Nat]

ListsTyped ==
    /\ life \in [Threads -> {"unborn", "alive", "dead"}]
    /\ active \subseteq Threads
    /\ suspendQueue \subseteq Threads
    /\ asynchronous \subseteq Threads
    /\ waiting \subseteq Threads
    /\ waitObj \in [Threads -> Objects \cup {NoObject}]
    /\ owner \in [Objects -> Threads \cup {NoThread}]
    /\ waiters \in [Objects -> SUBSET Threads]
    /\ starting \subseteq Objects
    /\ current \in Threads \cup {NoThread}
    /\ exiting \in {"no", "uncaught", "unwound"}

TypeOK == TasksTyped /\ ListsTyped

ThreadsOf(k) == {t \in Threads : TaskOf[t] = k}

LiveThreads(k) == {t \in ThreadsOf(k) : life[t] = "alive"}

\* Task.task exists: Isolate objects find it in the task list.
Exists(k) == status[k] \in {"started", "stopping"}

\* The current thread executes Java code.  set_current, or stop itself, has
\* made the termination object its exception when its task is terminating.
Running ==
    /\ current \in active
    /\ exiting = "no"
    /\ ~terminating[TaskOf[current]]
    /\ \A o \in starting : owner[o] # current

\* Task.set_status: it means to keep SUSPEND_STATUS, but reads it from status,
\* which has masked it out.
SetStatus(k, s) ==
    /\ status' = [status EXCEPT ![k] = s]
    /\ suspendBit' = [suspendBit EXCEPT ![k] = FALSE]

-----------------------------------------------------------------------------
(* Locks and waits.                                                        *)

\* The threads that get the locks of the objects in S as these are given up.
Heirs(S) == {owner'[o] : o \in S} \ {NoThread}

\* The locks of the objects in S are given up, each to a thread that queues
\* for it: signal_waiters does not ask whether the task of that one is
\* suspended.  The threads in out leave the active ones.
Release(S, out) ==
    /\ \E f \in [S -> Threads \cup {NoThread}] :
          /\ \A o \in S : IF waiters[o] = {} THEN f[o] = NoThread
                                             ELSE f[o] \in waiters[o]
          /\ owner' = [o \in Objects |-> IF o \in S THEN f[o] ELSE owner[o]]
    /\ active' = (active \cup Heirs(S)) \ out
    /\ waiters' = [o \in Objects |-> waiters[o] \ Heirs(S)]

MonitorEnter(o) ==
    /\ Running /\ HomeOf[o] = TaskOf[current] /\ owner[o] # current
    /\ IF owner[o] = NoThread
       THEN /\ owner' = [owner EXCEPT ![o] = current]
            /\ UNCHANGED lists
       ELSE /\ active' = active \ {current}
            /\ waiters' = [waiters EXCEPT ![o] = @ \cup {current}]
            /\ waitObj' = [waitObj EXCEPT ![current] = o]
            /\ UNCHANGED <<suspendQueue, asynchronous, waiting, owner>>
    /\ UNCHANGED <<tasks, life, starting, current, exiting>>

MonitorExit(o) ==
    /\ Running /\ owner[o] = current
    /\ Release({o}, {})
    /\ waitObj' = [t \in Threads |->
                      IF t \in Heirs({o}) THEN NoObject ELSE waitObj[t]]
    /\ UNCHANGED <<tasks, life, suspendQueue, asynchronous, waiting, starting,
                   current, exiting>>

\* Faulty variant: the look at the status is left to the loop in
\* waitForExit, before other threads have run.
MayAlwaysWait(o) == Represents[o] \in Tasks \cup {NoTask}

\* An application waits on its own objects; on an Isolate object threads wait
\* in waitForExit, through waitStatus, which looks at the status once more.
MayWait(o) == Represents[o] # NoTask => status[Represents[o]] # "stopped"

Wait(o) ==
    /\ Running /\ owner[o] = current /\ MayWait(o)
    /\ Release({o}, {current})
    /\ waitObj' = [[t \in Threads |->
                       IF t \in Heirs({o}) THEN NoObject ELSE waitObj[t]]
                       EXCEPT ![current] = o]
    /\ waiting' = waiting \cup {current}
    /\ UNCHANGED <<tasks, life, suspendQueue, asynchronous, starting, current,
                   exiting>>

Sleep ==
    /\ Running
    /\ active' = active \ {current}
    /\ waiting' = waiting \cup {current}
    /\ UNCHANGED <<tasks, life, suspendQueue, asynchronous, waitObj, waiters,
                   owner, starting, current,
                   exiting>>

\* BlockCurrentThread: a native method that is to be done again later.
BlockCurrentThread ==
    /\ Running
    /\ active' = active \ {current}
    /\ asynchronous' = asynchronous \cup {current}
    /\ UNCHANGED <<tasks, life, suspendQueue, waiting, waitObj, waiters, owner,
                   starting, current, exiting>>

-----------------------------------------------------------------------------
(* Wake-ups.                                                               *)

\* notify_wakeup of the threads in W one after the other: for each lock that
\* is free one of those that waited on its object gets it.
GrantLocks(W) ==
    \E f \in [Objects -> Threads \cup {NoThread}] :
       /\ \A o \in Objects :
             LET claimants == {t \in W : waitObj[t] = o}
             IN  IF owner[o] = NoThread /\ claimants # {}
                 THEN f[o] \in claimants
                 ELSE f[o] = owner[o]
       /\ owner' = f

\* Those of W that need no lock or have got it.
Admitted(W) == {t \in W : waitObj[t] = NoObject \/ owner'[waitObj[t]] = t}

\* The others queue for the lock.
Queued(W) == [o \in Objects |->
                 waiters[o] \cup {t \in W \ Admitted(W) : waitObj[t] = o}]

\* Faulty variant: a thread that has got its lock is made active.
SuspendedAsleep(W) == {t \in W : suspendBit[TaskOf[t]] /\ waitObj[t] = NoObject}

\* Threads that belong to a suspended task.
Suspended(W) == {t \in W : suspendBit[TaskOf[t]]}

\* The threads in W are woken while stay are the active threads.
NotifyWakeup(W, stay) ==
    /\ GrantLocks(W)
    /\ waiting' = waiting \ W
    /\ waiters' = Queued(W)
    /\ waitObj' = [t \in Threads |->
                      IF t \in Admitted(W) THEN NoObject ELSE waitObj[t]]
    /\ active' = stay \cup (Admitted(W) \ Suspended(Admitted(W)))
    /\ suspendQueue' = suspendQueue \cup Suspended(Admitted(W))
    /\ UNCHANGED asynchronous

\* The threads that wait on one of the objects in S.
WaitersOn(S) == {t \in waiting : waitObj[t] \in S}

Notify(o, W) ==
    /\ Running /\ owner[o] = current /\ Represents[o] = NoTask
    /\ W = WaitersOn({o}) \/ \E t \in WaitersOn({o}) : W = {t}
    /\ NotifyWakeup(W, active)
    /\ UNCHANGED <<tasks, life, starting, current, exiting>>

\* A time-out.  waitStatus waits without one.
TimeOut(t) ==
    /\ t \in waiting
    /\ waitObj[t] # NoObject => Represents[waitObj[t]] = NoTask
    /\ NotifyWakeup({t}, active)
    /\ UNCHANGED <<tasks, life, starting, current, exiting>>

\* An event for a blocked native method.
UnblockThread(t) ==
    /\ t \in asynchronous
    /\ asynchronous' = asynchronous \ {t}
    /\ active' = active \cup ({t} \ Suspended({t}))
    /\ suspendQueue' = suspendQueue \cup Suspended({t})
    /\ UNCHANGED <<tasks, life, waiting, waitObj, waiters, owner, starting,
                   current, exiting>>

-----------------------------------------------------------------------------
(* Starting threads and tasks.                                             *)

\* Task.add_thread.
AddThread(k) == threadCount' = [threadCount EXCEPT ![k] = @ + 1]

StartThread(t) ==
    /\ Running /\ status[TaskOf[current]] # "stopping"
    /\ TaskOf[t] = TaskOf[current] /\ life[t] = "unborn"
    /\ t # MainThread[TaskOf[t]]
    /\ life' = [life EXCEPT ![t] = "alive"]
    /\ active' = active \cup {t}
    /\ AddThread(TaskOf[t])
    /\ UNCHANGED <<status, suspendBit, terminating, suspendQueue, asynchronous,
                   waiting, waitObj, waiters, owner, starting, current,
                   exiting>>

\* Isolate.start, which is synchronized, sees that the isolate is new.
StartIsolate(o) ==
    /\ Running /\ owner[o] = current
    /\ Represents[o] # NoTask /\ status[Represents[o]] = "new"
    /\ starting' = starting \cup {o}
    /\ UNCHANGED <<tasks, life, lists, owner, current, exiting>>

\* nativeStart, which does not look at the status again.  The task gets its
\* main thread and is started, or fails to start and is torn down.
NativeStart(o) ==
    LET k == Represents[o] IN
    /\ current \in active /\ exiting = "no" /\ ~terminating[TaskOf[current]]
    /\ o \in starting /\ owner[o] = current
    /\ starting' = starting \ {o}
    /\ \/ /\ SetStatus(k, "started")
          /\ AddThread(k)
          /\ life' = [life EXCEPT ![MainThread[k]] = "alive"]
          /\ NotifyWakeup(WaitersOn({o}), active \cup {MainThread[k]})
       \/ /\ SetStatus(k, "stopped")
          /\ life' = [life EXCEPT ![MainThread[k]] = "dead"]
          /\ NotifyWakeup(WaitersOn({o}), active)
          /\ UNCHANGED threadCount
    /\ UNCHANGED <<terminating, current, exiting>>

-----------------------------------------------------------------------------
(* Suspending, resuming and stopping tasks.                                *)

\* Isolate.suspend0 asks only whether the task exists.
Suspend(k) ==
    /\ Running /\ Exists(k)
    /\ suspendBit' = [suspendBit EXCEPT ![k] = TRUE]
    /\ active' = active \ ThreadsOf(k)
    /\ suspendQueue' = suspendQueue \cup (active \cap ThreadsOf(k))
    /\ UNCHANGED <<status, terminating, threadCount, life, asynchronous, waiting,
                   waitObj, waiters, owner, starting, current, exiting>>

Resume(k) ==
    /\ Running /\ Exists(k)
    /\ SetStatus(k, status[k])
    /\ suspendQueue' = suspendQueue \ ThreadsOf(k)
    /\ active' = active \cup (suspendQueue \cap ThreadsOf(k))
    /\ UNCHANGED <<terminating, threadCount, life, asynchronous, waiting, waitObj,
                   waiters, owner, starting, current, exiting>>

\* Faulty variant: stop keeps the queues, and unlock_stack_lock finds in them
\* threads that are active already.
KeepWaiters(blocked) == waiters

\* The locks a stopped task's threads queue for lose all that queue for them:
\* those threads are made active without their locks.
ClearWaiters(blocked) ==
    [o \in Objects |-> IF \E t \in blocked : waitObj[t] = o THEN {} ELSE waiters[o]]

\* Faulty variant: threads in blocking native methods are left until their
\* events arrive.
NoneFromAsync(k) == asynchronous \cap {}

\* The threads of task k that stop finds in native methods that block.
WokenFromAsync(k) == asynchronous \cap ThreadsOf(k)

\* Task.stop with wake_up_terminated_sleepers.  Waiting threads are woken, and
\* may then queue for a lock; threads in native methods and suspended ones are
\* made active; at last those that queue for a lock.
StopTask(k) ==
    LET asleep  == waiting \cap ThreadsOf(k)
        blocked == {t \in ThreadsOf(k) : waitObj[t] # NoObject} \ Admitted(asleep)
    IN
    /\ SetStatus(k, "stopping")
    /\ terminating' = [terminating EXCEPT ![k] = TRUE]
    /\ GrantLocks(asleep)
    /\ waiting' = waiting \ asleep
    /\ asynchronous' = asynchronous \ WokenFromAsync(k)
    /\ suspendQueue' = suspendQueue \ ThreadsOf(k)
    /\ active' = active \cup Admitted(asleep) \cup WokenFromAsync(k)
                     \cup (suspendQueue \cap ThreadsOf(k)) \cup blocked
    /\ waiters' = ClearWaiters(blocked)
    /\ waitObj' = [t \in Threads |-> IF t \in ThreadsOf(k) THEN NoObject
                                                       ELSE waitObj[t]]
    /\ UNCHANGED <<threadCount, life>>

Stop(k) ==
    /\ Running /\ status[k] = "started"
    /\ StopTask(k)
    /\ UNCHANGED <<starting, current, exiting>>

\* Isolate.stop of an isolate that has not been started: IsolateObj.terminate.
StopUnstarted(o) ==
    /\ Running /\ HomeOf[o] = TaskOf[current]
    /\ Represents[o] # NoTask /\ status[Represents[o]] = "new"
    /\ SetStatus(Represents[o], "stopped")
    /\ NotifyWakeup(WaitersOn({o}), active)
    /\ UNCHANGED <<terminating, threadCount, life, starting, current, exiting>>

-----------------------------------------------------------------------------
(* The end of a thread.                                                    *)

Locked(t) == {o \in Objects : owner[o] = t}

\* find_exception_frame finds no handler and gives up all locks.
Unwind(as) ==
    /\ Release(Locked(current), {})
    /\ waitObj' = [t \in Threads |->
                      IF t \in Heirs(Locked(current)) THEN NoObject ELSE waitObj[t]]
    /\ starting' = starting \ Locked(current)
    /\ exiting' = as
    /\ UNCHANGED <<tasks, life, suspendQueue, asynchronous, waiting, current>>

\* The current thread's exception is the termination object.
Terminated ==
    /\ current \in active /\ exiting = "no" /\ terminating[TaskOf[current]]
    /\ Unwind("unwound")

Uncaught == Running /\ Unwind("uncaught")

Return ==
    /\ Running /\ Locked(current) = {}
    /\ exiting' = "unwound"
    /\ UNCHANGED <<tasks, life, lists, owner, starting, current>>

\* lightweight_thread_uncaught_exception: JVMSPI_HandleUncaughtException has
\* the exception ignored, the task stopped, or all threads but the current one
\* suspended, unless it is the last.
HandleUncaught ==
    LET k == TaskOf[current] IN
    /\ exiting = "uncaught"
    /\ exiting' = "unwound"
    /\ \/ UNCHANGED <<tasks, life, lists, owner>>
       \/ /\ StopTask(k)
       \/ /\ threadCount[k] # 1 /\ status[k] = "started" /\ ~suspendBit[k]
          /\ suspendBit' = [suspendBit EXCEPT ![k] = TRUE]
          /\ active' = (active \ ThreadsOf(k)) \cup {current}
          /\ suspendQueue' = suspendQueue
                                \cup ((active \cap ThreadsOf(k)) \ {current})
          /\ UNCHANGED <<status, terminating, threadCount, life, asynchronous,
                         waiting, waitObj, waiters, owner>>
    /\ UNCHANGED <<starting, current>>

IsLast(t) == threadCount[TaskOf[t]] = 1

\* Who is notified of the end of thread t: those that join it, and if it is the
\* last of its task, those that wait for the exit of the isolate.
NotifiedOfEnd(t) ==
    WaitersOn({o \in Objects : \/ o = ThreadObj[t]
                               \/ IsLast(t) /\ Represents[o] = TaskOf[t]})

\* finish, thread_task_cleanup and lightweight_thread_exit.
EndThread ==
    LET k == TaskOf[current] IN
    /\ exiting = "unwound"
    /\ NotifyWakeup(NotifiedOfEnd(current), active \ {current})
    /\ life' = [life EXCEPT ![current] = "dead"]
    /\ threadCount' = [threadCount EXCEPT ![k] = @ - 1]
    /\ IF IsLast(current) THEN SetStatus(k, "stopped")
                          ELSE UNCHANGED <<status, suspendBit>>
    /\ current' = NoThread
    /\ exiting' = "no"
    /\ UNCHANGED <<terminating, starting>>

\* switch_thread: any active thread may be next.
Switch(t) ==
    /\ exiting = "no" /\ t \in active /\ t # current
    /\ current' = t
    /\ UNCHANGED <<tasks, life, lists, owner, starting, exiting>>

-----------------------------------------------------------------------------
Init ==
    LET first == MainThread[FirstTask] IN
    /\ status = [k \in Tasks |-> IF k = FirstTask THEN "started" ELSE "new"]
    /\ suspendBit = [k \in Tasks |-> FALSE]
    /\ terminating = [k \in Tasks |-> FALSE]
    /\ threadCount = [k \in Tasks |-> IF k = FirstTask THEN 1 ELSE 0]
    /\ life = [t \in Threads |-> IF t = first THEN "alive" ELSE "unborn"]
    /\ active = {first}
    /\ suspendQueue = {} /\ asynchronous = {} /\ waiting = {}
    /\ waitObj = [t \in Threads |-> NoObject]
    /\ owner = [o \in Objects |-> NoThread]
    /\ waiters = [o \in Objects |-> {}]
    /\ starting = {}
    /\ current = first
    /\ exiting = "no"

ThreadStep ==
    \/ \E o \in Objects : MonitorEnter(o) \/ MonitorExit(o) \/ Wait(o)
    \/ \E o \in Objects, W \in SUBSET Threads : Notify(o, W)
    \/ Sleep \/ BlockCurrentThread
    \/ \E t \in Threads : StartThread(t)
    \/ Terminated \/ Uncaught \/ Return \/ HandleUncaught \/ EndThread

TaskStep ==
    \/ \E o \in Objects : StartIsolate(o) \/ NativeStart(o) \/ StopUnstarted(o)
    \/ \E k \in Tasks : Suspend(k) \/ Resume(k) \/ Stop(k)

Next ==
    \/ ThreadStep
    \/ TaskStep
    \/ \E t \in Threads : TimeOut(t) \/ UnblockThread(t) \/ Switch(t)

Spec == Init /\ [][Next]_vars

-----------------------------------------------------------------------------
(* Properties.                                                             *)

\* No thread is lost or listed twice, whatever its task goes through: a live
\* thread is in exactly one list, a thread that queues for a lock queues for
\* the one it needs, which is taken, and each task counts its live threads
\* (thread_count, on which the end of the task depends).
ThreadsAccountedFor ==
    LET queued == UNION {waiters[o] : o \in Objects}
        list == <<active, suspendQueue, asynchronous, waiting, queued>>
    IN  /\ {t \in Threads : life[t] = "alive"} = UNION {list[i] : i \in 1..5}
        /\ \A i, j \in 1..5 : i # j => list[i] \cap list[j] = {}
        /\ \A o \in Objects : \A t \in waiters[o] :
              waitObj[t] = o /\ owner[o] # NoThread
        /\ \A k \in Tasks : threadCount[k] = Cardinality(LiveThreads(k))

\* Once Task.stop has posted the termination signal, all the threads of the
\* task need to end is the processor: none waits for a lock, a notify, a time
\* or an event, unless the task has been suspended again.
StoppingThreadsRun ==
    \A k \in Tasks :
        terminating[k] /\ ~suspendBit[k] => LiveThreads(k) \subseteq active

\* A suspended task's threads do not become active by a time-out, an event, a
\* notify or the release of a lock (which signal_waiters grants without asking);
\* only a thread that is about to end is let run.
SuspendedTasksRest ==
    \A k \in Tasks : suspendBit[k] =>
        \A t \in active \cap ThreadsOf(k) : t = current /\ exiting # "no"

\* No thread waits for the exit of an isolate that has exited: whoever calls
\* waitForExit is notified, although the last thread of the isolate, or the
\* thread whose start of it failed, does not own the lock of the Isolate object.
ExitIsSeen ==
    \A t \in waiting : waitObj[t] # NoObject /\ Represents[waitObj[t]] # NoTask
        => status[Represents[waitObj[t]]] # "stopped"
=============================================================================
