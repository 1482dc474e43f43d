------------------------------- MODULE Timer -------------------------------
(***************************************************************************)
(* java.util.Timer of the class library: the queue of tasks, a heap on     *)
(* their next execution time, the calls that add and cancel tasks, and     *)
(* the timer thread, which is started when a task is scheduled, leaves its *)
(* loop when no task has come for a while, and is started again.           *)
(*                                                                         *)
(* A block synchronized on the queue is one step; queue.wait ends it, and  *)
(* the thread that waits goes on in a later step.  Between the end of the  *)
(* loop and the death of the thread any other thread may run.              *)
(***************************************************************************)
EXTENDS Integers, Sequences, FiniteSets, SequencesExt

CONSTANTS
    Tasks,          \* the TimerTask objects
    TimerThreads,   \* TimerThread objects; a dead one stands for a new one
    NoThread,       \* the field "thread" before the first call of sched
    NoTask,         \* no task is executing
    Period,         \* per task: 0 runs once, > 0 fixed rate, < 0 fixed delay
    OnUserClock,    \* the tasks scheduled at a Date
    ThreadTimeout,  \* THREAD_TIMEOUT
    CheckPeriod,    \* USER_CLOCK_CHECK_PERIOD
    Times,          \* bound: the execution times a caller may have computed
    MaxTime,        \* bound: the clock stops here
    MaxDeviation    \* bound: how far the user clock may be set ahead

ASSUME TimerAssumption ==
    /\ NoThread \notin TimerThreads
    /\ NoTask \notin Tasks
    /\ Period \in [Tasks -> Int]
    /\ OnUserClock \subseteq Tasks
    /\ ThreadTimeout \in Nat \ {0}
    /\ CheckPeriod \in Nat \ {0}
    /\ Times \subseteq Int
    /\ MaxTime \in Nat
    /\ MaxDeviation \in Nat

VARIABLES
    queue,          \* TaskQueue.queue[1..size]
    task,           \* the fields of each TimerTask
    userClockTaskCount,
    newTasksMayBeScheduled,
    thread,         \* Timer.thread
    pc,             \* where each timer thread is
    deadline,       \* when the wait of a timer thread times out, or 0
    firing,         \* the task whose run method a timer thread executes
    now,            \* Timer.monotonicTimeMillis()
    userClock,      \* the user clock less the monotonic clock
    userClockOffset \* what Timer last knew of it

vars == <<queue, task, userClockTaskCount, newTasksMayBeScheduled, thread,
          pc, deadline, firing, now, userClock, userClockOffset>>

clocks == <<now, userClock, userClockOffset>>

TypeOK ==
    /\ queue \in Seq(Tasks) /\ IsInjective(queue)
    /\ task \in [Tasks -> [state : {"virgin", "scheduled", "executed",
                                    "cancelled"},
                           nextExecutionTime : Int,
                           isUserClock : BOOLEAN]]
    /\ userClockTaskCount \in Int
    /\ newTasksMayBeScheduled \in BOOLEAN
    /\ thread \in TimerThreads \cup {NoThread}
    /\ pc \in [TimerThreads -> {"top", "idle", "idle_woken", "asleep",
                                "run", "killed", "exit", "dead"}]
    /\ deadline \in [TimerThreads -> Int]
    /\ firing \in [TimerThreads -> Tasks \cup {NoTask}]
    /\ now \in Nat
    /\ userClock \in Int
    /\ userClockOffset \in Int

Init ==
    /\ queue = <<>>
    /\ task = [t \in Tasks |-> [state |-> "virgin", nextExecutionTime |-> 0,
                                isUserClock |-> FALSE]]
    /\ userClockTaskCount = 0
    /\ newTasksMayBeScheduled = TRUE
    /\ thread = NoThread
    /\ pc = [w \in TimerThreads |-> "dead"]
    /\ deadline = [w \in TimerThreads |-> 0]
    /\ firing = [w \in TimerThreads |-> NoTask]
    /\ now = 0
    /\ userClock = 0
    /\ userClockOffset = 0

-----------------------------------------------------------------------------
(* The heap.  The children of node n are the nodes 2 n and 2 n + 1.        *)

Swap(h, i, j) == [h EXCEPT ![i] = h[j], ![j] = h[i]]

\* Promote the task at node k while its parent is due later.
FixUp(tasks, heap, node) ==
    LET nodes == 1..Len(heap)
        due(t) == tasks[t].nextExecutionTime
        up[at \in [nodes -> Tasks] \X nodes] ==
            LET h == at[1]
                k == at[2]
            IN  IF k <= 1 \/ due(h[k \div 2]) <= due(h[k])
                THEN h
                ELSE up[<<Swap(h, k \div 2, k), k \div 2>>]
    IN  up[<<heap, node>>]

\* Faulty variant: the left child is taken for the smaller one.
FixDownLeft(tasks, heap, node) ==
    LET nodes == 1..Len(heap)
        due(t) == tasks[t].nextExecutionTime
        down[at \in [nodes -> Tasks] \X (Nat \ {0})] ==
            LET h == at[1]
                k == at[2]
            IN  IF 2*k > Len(heap) \/ due(h[k]) <= due(h[2*k])
                THEN h
                ELSE down[<<Swap(h, k, 2*k), 2*k>>]
    IN  down[<<heap, node>>]

\* Demote the task at node k while its smaller child is due earlier.
FixDown(tasks, heap, node) ==
    LET nodes == 1..Len(heap)
        due(t) == tasks[t].nextExecutionTime
        smallest(h, k) ==
            IF 2*k < Len(heap) /\ due(h[2*k]) > due(h[2*k + 1])
            THEN 2*k + 1 ELSE 2*k
        down[at \in [nodes -> Tasks] \X (Nat \ {0})] ==
            LET h == at[1]
                k == at[2]
            IN  IF 2*k > Len(heap) \/ due(h[k]) <= due(h[smallest(h, k)])
                THEN h
                ELSE down[<<Swap(h, k, smallest(h, k)), smallest(h, k)>>]
    IN  down[<<heap, node>>]

Add(tasks, t) == FixUp(tasks, Append(queue, t), Len(queue) + 1)

\* Faulty variant: the size is not decremented.
RemoveMinKeepsSize(tasks, heap) ==
    LET last == Len(heap)
    IN  [FixDown(tasks, [heap EXCEPT ![1] = heap[last]], 1)
            EXCEPT ![last] = NoTask]

RemoveMin(tasks, heap) ==
    FixDown(tasks, SubSeq([heap EXCEPT ![1] = heap[Len(heap)]],
                          1, Len(heap) - 1), 1)

\* What an arrival or a departure of t changes in userClockTaskCount.
UserClockShare(tasks, t) == IF tasks[t].isUserClock THEN 1 ELSE 0

-----------------------------------------------------------------------------
(* The user clock.                                                         *)

UserClockSkew == userClock - userClockOffset

\* checkUserClockChange asks for the skew, which resets it, only when the
\* queue holds a task on the user clock.
SkewSeen == IF userClockTaskCount > 0 THEN UserClockSkew ELSE 0

Shifted == [t \in Tasks |->
               IF t \in ToSet(queue) /\ task[t].isUserClock
               THEN [task[t] EXCEPT !.nextExecutionTime = @ - SkewSeen]
               ELSE task[t]]

\* The loops of checkUserClockChange meet each task once, compare it with tasks
\* they have met, and pass over those that are not on the user clock.
PromoteUser(h, i) == IF task[h[i]].isUserClock THEN FixUp(Shifted, h, i) ELSE h
DemoteUser(h, i) == IF task[h[i]].isUserClock THEN FixDown(Shifted, h, i) ELSE h

Reordered ==
    LET n == Len(queue)
        promoted[i \in 0..n] ==
            IF i = 0 THEN queue ELSE PromoteUser(promoted[i - 1], i)
        demoted[i \in 1..n + 1] ==
            IF i = n + 1 THEN queue ELSE DemoteUser(demoted[i + 1], i)
    IN  CASE SkewSeen = 0 -> queue
          [] SkewSeen < 0 -> promoted[n]
          [] SkewSeen > 0 -> demoted[1]

-----------------------------------------------------------------------------
(* Calls of the application.                                               *)

Alive(w) == w # NoThread /\ pc[w] # "dead"

\* The thread has started and is not on its way out.
InLoop(w) == Alive(w) /\ pc[w] \notin {"killed", "exit"}

\* A thread goes on behind the wait it was in: mainLoop has two.
WaitEnds(at) == IF at = "idle" THEN "idle_woken" ELSE "top"

EndWait(at, w, goesOnAt) ==
    /\ pc' = [at EXCEPT ![w] = goesOnAt]
    /\ deadline' = [deadline EXCEPT ![w] = 0]

Waiting(at) == {w \in TimerThreads : at[w] \in {"idle", "asleep"}}

\* queue.notify: a waiting thread, if there is one, will take the lock again.
Notify(at) ==
    \/ Waiting(at) = {} /\ pc' = at /\ UNCHANGED deadline
    \/ \E w \in Waiting(at) : EndWait(at, w, WaitEnds(at[w]))

\* Faulty variant: a thread that has left its loop is taken for dead.
ServerInLoop == IF InLoop(thread) THEN {thread}
                ELSE {w \in TimerThreads : ~Alive(w)}

\* The thread at hand if it is alive, otherwise a new one, to be started.
Server == IF Alive(thread) THEN {thread}
          ELSE {w \in TimerThreads : ~Alive(w)}

\* Faulty variant: the thread is told of the first task in the queue only.
AnnounceFirst(t, at) ==
    IF Len(queue') = 1 THEN Notify(at) ELSE pc' = at /\ UNCHANGED deadline

Announce(t, at) ==
    IF queue'[1] = t THEN Notify(at) ELSE pc' = at /\ UNCHANGED deadline

Enqueue(t, time, at) ==
    /\ task[t].state = "virgin"
    /\ task' = [task EXCEPT ![t] = [state |-> "scheduled",
                                    nextExecutionTime |-> time,
                                    isUserClock |-> t \in OnUserClock]]
    /\ queue' = Add(task', t)
    /\ userClockTaskCount' = userClockTaskCount + UserClockShare(task', t)
    /\ Announce(t, at)

\* The task was scheduled or cancelled before; a thread may have been started.
Refuse(t, at) ==
    /\ task[t].state # "virgin"
    /\ pc' = at
    /\ UNCHANGED <<queue, task, userClockTaskCount, deadline>>

\* Faulty variant: a cancelled timer takes tasks.
SchedUnchecked(t, time) ==
    /\ \E w \in Server :
        LET at == [pc EXCEPT ![w] = IF @ = "dead" THEN "top" ELSE @]
        IN  /\ thread' = w
            /\ Enqueue(t, time, at) \/ Refuse(t, at)
    /\ UNCHANGED <<newTasksMayBeScheduled, firing, clocks>>

\* Timer.sched.  The caller computed time before it took the lock.
Sched(t, time) ==
    /\ newTasksMayBeScheduled
    /\ \E w \in Server :
        LET at == [pc EXCEPT ![w] = IF @ = "dead" THEN "top" ELSE @]
        IN  /\ thread' = w
            /\ Enqueue(t, time, at) \/ Refuse(t, at)
    /\ UNCHANGED <<newTasksMayBeScheduled, firing, clocks>>

\* TimerTask.cancel: the task stays in the queue until its time comes.
CancelTask(t) ==
    /\ task' = [task EXCEPT ![t].state = "cancelled"]
    /\ UNCHANGED <<queue, userClockTaskCount, newTasksMayBeScheduled, thread,
                   pc, deadline, firing, clocks>>

\* TaskQueue.clear, with the flag that refuses new tasks.
Clear ==
    /\ newTasksMayBeScheduled' = FALSE
    /\ queue' = <<>>
    /\ userClockTaskCount' = 0

\* Timer.cancel.
Cancel ==
    /\ Clear
    /\ Notify(pc)
    /\ UNCHANGED <<task, thread, firing, clocks>>

-----------------------------------------------------------------------------
(* The timer thread.                                                       *)

\* The queue is empty: wait for a task, or leave the loop when the wait is
\* over or no task can come any more.
MeetEmptyQueue(w) ==
    /\ queue = <<>>
    /\ IF pc[w] = "top" /\ newTasksMayBeScheduled
       THEN /\ pc' = [pc EXCEPT ![w] = "idle"]
            /\ deadline' = [deadline EXCEPT ![w] = now + ThreadTimeout]
       ELSE pc' = [pc EXCEPT ![w] = "exit"] /\ UNCHANGED deadline
    /\ UNCHANGED <<queue, task, userClockTaskCount, firing, userClockOffset>>

\* Faulty variant: isUserClock is reset before it is read.
UncountAfterReset(t) ==
    userClockTaskCount' = userClockTaskCount - UserClockShare(task', t)

\* The first task leaves the queue or the user clock: what it was before counts.
Uncount(t) ==
    userClockTaskCount' = userClockTaskCount - UserClockShare(Shifted, t)

\* Faulty variant: mainLoop does not look at the state of the task.
NeverCancelled(t) == FALSE

IsCancelled(t) == Shifted[t].state = "cancelled"

\* The first task has been cancelled: drop it and look again.
DropCancelled(w, t) ==
    /\ IsCancelled(t)
    /\ task' = Shifted
    /\ queue' = RemoveMin(Shifted, Reordered)
    /\ Uncount(t)
    /\ pc' = [pc EXCEPT ![w] = "top"]
    /\ UNCHANGED <<deadline, firing>>

\* The first task is due: take it out or set its next time, then run it.
Fire(w, t) ==
    /\ ~IsCancelled(t)
    /\ Shifted[t].nextExecutionTime <= now
    /\ IF Period[t] = 0
       THEN /\ task' = [Shifted EXCEPT ![t].state = "executed"]
            /\ queue' = RemoveMin(Shifted, Reordered)
       ELSE LET next == IF Period[t] < 0
                        THEN now - Period[t]
                        ELSE Shifted[t].nextExecutionTime + Period[t]
            IN  /\ task' = [Shifted EXCEPT ![t].nextExecutionTime = next,
                                           ![t].isUserClock = FALSE]
                /\ queue' = FixDown(task', Reordered, 1)
    /\ Uncount(t)
    /\ firing' = [firing EXCEPT ![w] = t]
    /\ pc' = [pc EXCEPT ![w] = "run"]
    /\ UNCHANGED deadline

\* Faulty variant: the time of the task is taken for the time to wait.
SleepTimeAbsolute(t) == Shifted[t].nextExecutionTime

SleepTime(t) ==
    LET left == Shifted[t].nextExecutionTime - now
    IN  IF userClockTaskCount > 0 /\ left > CheckPeriod
        THEN CheckPeriod ELSE left

\* The first task is not due: wait for its time, or for the next look at the
\* user clock.
Sleep(w, t) ==
    /\ ~IsCancelled(t)
    /\ Shifted[t].nextExecutionTime > now
    /\ deadline' = [deadline EXCEPT ![w] = now + SleepTime(t)]
    /\ task' = Shifted
    /\ queue' = Reordered
    /\ pc' = [pc EXCEPT ![w] = "asleep"]
    /\ UNCHANGED <<userClockTaskCount, firing>>

MeetTask(w) ==
    /\ queue # <<>>
    /\ LET t == Reordered[1]
       IN  DropCancelled(w, t) \/ Fire(w, t) \/ Sleep(w, t)
    /\ userClockOffset' = userClockOffset + SkewSeen

\* One pass through the synchronized block of mainLoop.
Look(w) ==
    /\ pc[w] \in {"top", "idle_woken"}
    /\ MeetEmptyQueue(w) \/ MeetTask(w)
    /\ UNCHANGED <<newTasksMayBeScheduled, thread, now, userClock>>

\* The run method of the task returns, or throws: an Exception cancels the
\* task, any other Throwable ends the thread.
RunEnds(w) ==
    /\ pc[w] = "run"
    /\ \/ pc' = [pc EXCEPT ![w] = "top"] /\ UNCHANGED task
       \/ /\ pc' = [pc EXCEPT ![w] = "top"]
          /\ task' = [task EXCEPT ![firing[w]].state = "cancelled"]
       \/ pc' = [pc EXCEPT ![w] = "killed"] /\ UNCHANGED task
    /\ firing' = [firing EXCEPT ![w] = NoTask]
    /\ UNCHANGED <<queue, userClockTaskCount, newTasksMayBeScheduled, thread,
                   deadline, clocks>>

\* The handler of run() for whatever came out of mainLoop.
ActAsCancelled(w) ==
    /\ pc[w] = "killed"
    /\ Clear
    /\ pc' = [pc EXCEPT ![w] = "exit"]
    /\ UNCHANGED <<task, thread, deadline, firing, clocks>>

\* run() has returned: the thread is no longer alive.
Die(w) ==
    /\ pc[w] = "exit"
    /\ pc' = [pc EXCEPT ![w] = "dead"]
    /\ UNCHANGED <<queue, task, userClockTaskCount, newTasksMayBeScheduled,
                   thread, deadline, firing, clocks>>

\* The wait times out, or is interrupted: mainLoop catches that and goes on
\* from the top.
WaitTimesOut(w) ==
    /\ w \in Waiting(pc)
    /\ now >= deadline[w]
    /\ EndWait(pc, w, WaitEnds(pc[w]))
    /\ UNCHANGED <<queue, task, userClockTaskCount, newTasksMayBeScheduled,
                   thread, firing, clocks>>

Interrupt(w) ==
    /\ w \in Waiting(pc)
    /\ EndWait(pc, w, "top")
    /\ UNCHANGED <<queue, task, userClockTaskCount, newTasksMayBeScheduled,
                   thread, firing, clocks>>

-----------------------------------------------------------------------------
(* The clocks.                                                             *)

Tick ==
    /\ now < MaxTime
    /\ now' = now + 1
    /\ UNCHANGED <<queue, task, userClockTaskCount, newTasksMayBeScheduled,
                   thread, pc, deadline, firing, userClock, userClockOffset>>

SetUserClock(d) ==
    /\ userClock' = d
    /\ UNCHANGED <<queue, task, userClockTaskCount, newTasksMayBeScheduled,
                   thread, pc, deadline, firing, now, userClockOffset>>

ThreadStep(w) ==
    \/ Look(w)
    \/ RunEnds(w)
    \/ ActAsCancelled(w)
    \/ Die(w)
    \/ WaitTimesOut(w)

Next ==
    \/ \E t \in Tasks, time \in Times : Sched(t, time)
    \/ \E t \in Tasks : CancelTask(t)
    \/ Cancel
    \/ \E w \in TimerThreads : ThreadStep(w) \/ Interrupt(w)
    \/ Tick
    \/ \E d \in 0..MaxDeviation : SetUserClock(d)

Spec == Init /\ [][Next]_vars

\* The scheduler runs every Java thread again and again, and time passes.
FairSpec ==
    /\ Spec
    /\ \A w \in TimerThreads : WF_vars(ThreadStep(w))
    /\ WF_vars(Tick)

-----------------------------------------------------------------------------
(* Properties.                                                             *)

\* The comment of TaskQueue.queue: every task is due no earlier than its parent.
QueueIsHeap ==
    \A i \in 2..Len(queue) :
       task[queue[i \div 2]].nextExecutionTime
          <= task[queue[i]].nextExecutionTime

\* checkUserClockChange moves some times of the queue and not the others.
MixedCorrection ==
    /\ userClockOffset' # userClockOffset
    /\ \E t \in ToSet(queue) : ~task[t].isUserClock

\* add, removeMin, rescheduleMin and clear keep a heap a heap, and so does a
\* change of the user clock that finds only tasks of that clock in the queue.
HeapKept ==
    [][QueueIsHeap /\ ~MixedCorrection => QueueIsHeap']_vars

\* userClockTaskCount decides whether the thread looks at the user clock at
\* all: it counts the tasks in the queue that are on that clock.
UserClockTasksCounted ==
    userClockTaskCount
       = Cardinality({t \in ToSet(queue) : task[t].isUserClock})

\* sched starts a thread only when the last one is dead: two threads never
\* serve the queue.
OneThreadServes ==
    Cardinality({w \in TimerThreads : Alive(w)}) <= 1

\* Timer.cancel, or the death of the thread by a Throwable, leaves no task
\* behind and none comes later: what is in the queue may still run.
CancelledTimerIsEmpty ==
    ~newTasksMayBeScheduled => queue = <<>>

\* A wait ends in time: a thread that waits for tasks has none, and a thread
\* that waits for the first task wakes up when that is due, or earlier, even
\* when sched has added an earlier task since; in a heap, that is before any
\* task is due.
NoTaskIsOverslept ==
    \A w \in TimerThreads :
        /\ pc[w] = "idle" => queue = <<>>
        /\ pc[w] = "asleep" =>
              \A i \in 1..Len(queue) :
                 i = 1 \/ QueueIsHeap =>
                    deadline[w] <= task[queue[i]].nextExecutionTime

\* A task starts only when it is due, is not cancelled and belongs to a timer
\* that is not cancelled; and unless the user clock has broken the order of the
\* queue, no other task that may run was due before it.
RunsTheEarliestDue ==
    [][\A w \in TimerThreads :
          LET t == firing'[w]
          IN  t # firing[w] /\ t # NoTask =>
                /\ newTasksMayBeScheduled
                /\ task[t].state = "scheduled"
                /\ Shifted[t].nextExecutionTime <= now
                /\ QueueIsHeap /\ ~MixedCorrection =>
                      \A u \in ToSet(queue) :
                         Shifted[t].nextExecutionTime
                            <= Shifted[u].nextExecutionTime]_vars

\* While the thread is in its loop no task waits for ever: each that will be
\* due before the clock stops is taken out or run, whatever tasks come before
\* it and however the user clock is set, as long as its changes leave the queue
\* a heap.
LoopMeetsItsTasks ==
    \A t \in Tasks :
        (/\ t \in ToSet(queue)
         /\ MaxTime >= task[t].nextExecutionTime
                       + (IF task[t].isUserClock
                          THEN userClockOffset + MaxDeviation ELSE 0)
         /\ \E w \in TimerThreads : InLoop(w))
        ~> \/ t \notin ToSet(queue)
           \/ \E w \in TimerThreads : firing[w] = t
           \/ ~QueueIsHeap

\* The comment in TimerThread.run says that a thread that timed out is
\* restarted by sched when the next task is queued.  The thread that has left
\* its loop is still alive for a while, and sched believes it will serve.
QueueIsServed ==
    queue # <<>> /\ newTasksMayBeScheduled =>
        \E w \in TimerThreads : Alive(w) /\ pc[w] # "exit"
=============================================================================
