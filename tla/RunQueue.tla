----------------------------- MODULE RunQueue -----------------------------
(***************************************************************************)
(* The Run queues of the scheduler: one circular list of runnable threads  *)
(* per priority, and the choice of the next thread to run among them, by   *)
(* priority, by turns and by quota (Scheduler.cpp: adjust_priority_list,   *)
(* set_priority, yield, get_next_runnable_thread, switch_thread).          *)
(* Single-VM build, master mode, no debugger.                              *)
(*                                                                         *)
(* Module Scheduler leaves this choice open and says instead why threads   *)
(* stop and start being runnable; here they do so at any time the          *)
(* scheduler allows.  A list is a sequence from the head the array of      *)
(* queues points to; its links close the circle.                           *)
(***************************************************************************)
EXTENDS Naturals, Sequences, SequencesExt, Lists

CONSTANTS
    Threads,        \* the Java threads
    NoThread,       \* the null thread reference
    MaxPriority,    \* NUM_PRIORITY_SLOTS
    NormalPriority, \* PRIORITY_NORMAL
    Movable         \* threads whose priority programs change after their start

ASSUME QueueAssumption ==
    /\ NoThread \notin Threads
    /\ MaxPriority \in Nat
    /\ NormalPriority \in 1..MaxPriority
    /\ Movable \subseteq Threads

Priorities == 1..MaxPriority

VARIABLES
    phase,      \* "java": the current thread executes; "yield": it is in Scheduler::yield;
                \* "idle": yield found no thread and waits for one
    current,    \* Thread::current()
    priority,   \* per thread, the priority of its Thread object
    queue,      \* scheduler_priority_queues
    valid,      \* _priority_queue_valid, the priorities whose bits are set
    count,      \* _thread_execute_counts
    last,       \* _last_priority_queue
    next        \* _next_runnable_thread, the cache

queues == <<queue, valid>>
turns == <<count, last>>
vars == <<phase, current, priority, queues, turns, next>>

\* The runnable threads.
Active == UNION {ToSet(queue[p]) : p \in Priorities}

-----------------------------------------------------------------------------
(* The lists. *)

First(s) == IF s = <<>> THEN NoThread ELSE Head(s)

\* Faulty variant of Rotated: the thread that yields stays at the head.
Unmoved(s, t) == s

\* The list from the thread after t if t is at its head.
Rotated(s, t) == IF Head(s) = t THEN Append(Tail(s), t) ELSE s

\* Faulty variant of WithoutBit: the bit stays set when the queue becomes empty.
BitStays(p, s) == valid

\* The bits after threads of queue p are reduced to s.
WithoutBit(p, s) == IF s = <<>> THEN valid \ {p} ELSE valid

\* add_to_active: at the end of the queue of the thread's priority, which leaves its head.
Activate(t) ==
    /\ t \notin Active
    /\ queue' = [queue EXCEPT ![priority[t]] = Append(@, t)]
    /\ valid' = valid \cup {priority[t]}
    /\ UNCHANGED <<phase, current, priority, turns, next>>

\* Faulty variant of CacheWithout: the cache is left as it is.
CacheKept(t, s) == next

\* The cache after t has left its queue, of which s remains.
CacheWithout(t, s) == IF next = t THEN First(s) ELSE next

\* remove_from_active when the current thread waits, sleeps, blocks or ends; then it yields.
LeaveActive ==
    /\ phase = "java"
    /\ LET p == priority[current]
           s == Unlink(queue[p], current)
       IN  /\ queue' = [queue EXCEPT ![p] = s]
           /\ valid' = WithoutBit(p, s)
           /\ next' = CacheWithout(current, s)
    /\ phase' = "yield"
    /\ UNCHANGED <<current, priority, turns>>

\* Faulty variant of Requeued: the thread stays in the queue of its old priority.
StaysQueued(t, new) == queue

\* set_priority: a runnable thread moves to the end of the queue of its new priority.
Requeued(t, new) ==
    LET rest == [queue EXCEPT ![priority[t]] = Unlink(@, t)]
    IN  [rest EXCEPT ![new] = Append(@, t)]

\* Thread.setPriority: field and queue change with no other thread in between, and the cache
\* stays as it is.
SetPriority(t, new) ==
    /\ phase = "java"
    /\ t \in Movable
    /\ priority' = [priority EXCEPT ![t] = new]
    /\ IF t \in ToSet(queue[priority[t]])
       THEN /\ queue' = Requeued(t, new)
            /\ valid' = WithoutBit(priority[t], Unlink(queue[priority[t]], t)) \cup {new}
       ELSE UNCHANGED queues
    /\ UNCHANGED <<phase, current, turns, next>>

-----------------------------------------------------------------------------
(* The choice of the next thread. *)

\* A queue may run threads while its count is not above its quota.
Quota(p) == 2 * p

\* Faulty variant of StartPriority: the search always goes on at the last queue.
StartAtLast == IF last = 0 THEN MaxPriority ELSE last

\* The search starts at the last queue that has run, unless a higher one has threads.
StartPriority ==
    IF valid # {} /\ \A p \in valid : p <= last THEN last ELSE MaxPriority

Filled == {p \in 1..StartPriority : queue[p] # <<>>}

\* The queues that have threads and have not used up their share.
WithinQuota == {p \in Filled : count[p] <= Quota(p)}

\* Queue p lets its first thread run, which becomes the head of the queue; a thread that
\* yields at the head lets the next one go first.
RunFirst(p, counts, starting) ==
    /\ queue' = [queue EXCEPT ![p] = Rotated(@, starting)]
    /\ next' = Head(queue'[p])
    /\ count' = [counts EXCEPT ![p] = @ + 1]
    /\ last' = p

Highest(S) == {p \in S : \A q \in S : q <= p}

\* Faulty variant of SecondRound: counts are reset, but the queues are not searched again.
NoSecondRound(starting) ==
    /\ count' = [p \in Priorities |-> 0]
    /\ next' = NoThread
    /\ UNCHANGED <<queue, last>>

\* All queues have used up their shares: the counts are reset and the search begins again.
SecondRound(starting) ==
    \E p \in Highest(Filled) : RunFirst(p, [q \in Priorities |-> 0], starting)

\* get_next_runnable_thread when the cache is not to be used: the highest queue within its quota.
Search(starting) ==
    /\ \/ \E p \in Highest(WithinQuota) : RunFirst(p, count, starting)
       \/ WithinQuota = {} /\ Filled # {} /\ SecondRound(starting)
       \/ Filled = {} /\ next' = NoThread /\ UNCHANGED <<queue, turns>>
    /\ UNCHANGED <<valid, priority>>

-----------------------------------------------------------------------------
(* The interpreter and yield. *)

\* A timer tick takes the current thread to yield.
Tick ==
    /\ phase = "java"
    /\ phase' = "yield"
    /\ UNCHANGED <<current, priority, queues, turns, next>>

\* yield has woken whom it could; it searches the queues, and switch_thread runs the thread
\* found, or yield goes on to wait.
YieldSearch ==
    /\ phase = "yield"
    /\ Search(current)
    /\ IF next' = NoThread
       THEN phase' = "idle" /\ current' = current
       ELSE phase' = "java" /\ current' = next'

\* The waiting loop of yield finds a thread that has become runnable.
Resume ==
    /\ phase = "idle"
    /\ Active # {}
    /\ Search(NoThread)
    /\ phase' = "java"
    /\ current' = next'

\* switch_thread after a call of the VM finds the cache empty, as it is at the start.
FillCache ==
    /\ phase = "java"
    /\ next = NoThread
    /\ Search(NoThread)
    /\ current' = next'
    /\ phase' = phase

\* Scheduler::start of the main thread; the priorities the other threads will start with.
Init ==
    /\ phase = "java"
    /\ current \in Threads
    /\ priority \in [Threads -> Priorities]
    /\ priority[current] = NormalPriority
    /\ queue = [p \in Priorities |-> IF p = NormalPriority THEN <<current>> ELSE <<>>]
    /\ valid = {NormalPriority}
    /\ count = [p \in Priorities |-> 0]
    /\ last = 0
    /\ next = NoThread

Next ==
    \/ \E t \in Threads : Activate(t)
    \/ \E t \in Threads, p \in Priorities : SetPriority(t, p)
    \/ LeaveActive
    \/ Tick
    \/ YieldSearch
    \/ Resume
    \/ FillCache

Spec == Init /\ [][Next]_vars

\* Ticks come, and the VM goes on executing yield; threads owe nothing.
Fairness == WF_vars(Tick) /\ WF_vars(YieldSearch) /\ WF_vars(Resume)

FairSpec == Spec /\ Fairness

-----------------------------------------------------------------------------
(* Properties. *)

\* Types; the counts, which are bytes, stay within the quota and one.
TypeOK ==
    /\ phase \in {"java", "yield", "idle"}
    /\ current \in Threads
    /\ priority \in [Threads -> Priorities]
    /\ queue \in [Priorities -> Seq(Threads)]
    /\ valid \in SUBSET Priorities
    /\ count \in [Priorities -> Nat]
    /\ \A p \in Priorities : count[p] <= Quota(p) + 1
    /\ last \in 0..MaxPriority
    /\ next \in Threads \cup {NoThread}

\* A runnable thread is in the queue of the priority its Thread object has now, once, whatever
\* setPriority calls met it there: remove_from_active looks for it nowhere else ("must be in list").
InQueueOfItsPriority ==
    \A p \in Priorities : /\ \A t \in ToSet(queue[p]) : priority[t] = p
                          /\ IsInjective(queue[p])

\* "Threads in queue, but bit is clear", "No threads in queue, but bit is set": the bit mask
\* tells the queues that are not empty (get_next_runnable_thread).
BitsTellQueues == valid = {p \in Priorities : queue[p] # <<>>}

\* The cache never keeps a thread that has left the queues, also after setPriority has moved
\* it, and while Java code runs it holds nobody but the current thread.
CacheIsRunnable ==
    /\ next # NoThread => next \in Active
    /\ phase = "java" => current \in Active /\ next \in {current, NoThread}

\* yield gives up only when no thread can run: quotas, the bit mask and the priority where the search starts
\* hide none ("No active threads").
FindsThread == [][phase # "idle" /\ phase' = "idle" => Active = {}]_vars

\* A thread is preferred to one of higher priority only when that one's queue has used up its quota.
HigherPriorityFirst ==
    [][phase # "java" /\ phase' = "java" =>
          \A p \in Priorities : p > priority[current'] /\ queue[p] # <<>> => count'[p] > Quota(p)]_vars

Runs(t) == phase = "java" /\ current = t

Members == [p \in Priorities |-> ToSet(queue[p])]

\* As long as no thread enters a queue, leaves one or is put to the end of one by setPriority,
\* all that are there take turns, whatever their priorities.
AllTakeTurns ==
    \A t \in Threads :
        \/ []<>(Runs(t) \/ t \notin Active)
        \/ []<><<TRUE>>_Members
        \/ []<><<phase = "java" /\ phase' = phase /\ queue' # queue>>_vars
=============================================================================
