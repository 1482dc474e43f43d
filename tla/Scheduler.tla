---------------------------- MODULE Scheduler ----------------------------
(***************************************************************************)
(* The green-thread scheduler of the VM with its Java monitors:            *)
(* Scheduler.cpp and Synchronizer.cpp, which call each other, together     *)
(* with the natives of java.lang.Object and java.lang.Thread that enter    *)
(* them.  Single-VM build (ENABLE_ISOLATES off), master mode, no debugger, *)
(* locks on ordinary objects (not on interned strings).                    *)
(*                                                                         *)
(* One Java thread, current, executes at a time; it gives the processor    *)
(* up only inside Scheduler::yield.  yield runs Java code of nobody, but   *)
(* it is not atomic: it polls native events, then walks the lists of       *)
(* waiting threads and wakes the expired ones, and waking the current      *)
(* thread can call yield again.  Each call of yield in progress is a frame *)
(* of the stack frames; its local variables are the record's fields.       *)
(*                                                                         *)
(* Time is abstracted to what the code asks of it: a wake-up time is       *)
(* absent ("none", the value 0), in the future ("armed") or reached        *)
(* ("expired").  The choice among the runnable threads, which Run queues   *)
(* make by priority and quota, is left open here.                          *)
(***************************************************************************)
EXTENDS Naturals, Sequences, FiniteSets, SequencesExt, Lists

CONSTANTS
    Threads,       \* the Java threads the program may start
    Objects,       \* the objects used as monitors
    NoThread,      \* the null thread reference
    NoObject,      \* the null object reference
    ThreadObj,     \* java.lang.Thread object of a thread, NoObject when no thread synchronises on it
    MaxNest,       \* bound: stack locks a thread has at most
    Sleepers,      \* threads whose program calls Thread.sleep
    TimedWaiters,  \* threads whose program calls Object.wait(ms) with ms > 0
    AsyncCallers,  \* threads whose program calls a native method that blocks
    Interrupters   \* threads whose program calls Thread.interrupt

\* The null references are no thread and no object; a Thread object belongs to one thread.
ASSUME ConstantsAssumption ==
    /\ NoThread \notin Threads
    /\ NoObject \notin Objects
    /\ ThreadObj \in [Threads -> Objects \cup {NoObject}]
    /\ \A t, u \in Threads : ThreadObj[t] = ThreadObj[u] => t = u \/ ThreadObj[t] = NoObject
    /\ MaxNest \in Nat
    /\ Sleepers \subseteq Threads
    /\ TimedWaiters \subseteq Threads
    /\ AsyncCallers \subseteq Threads
    /\ Interrupters \subseteq Threads

VARIABLES
    status,             \* of the VM: "up", or why it stopped
    current,            \* Thread::current()
    life,               \* state of the java.lang.Thread object
    active,             \* threads on a priority queue
    sleeping,           \* sleep queue: scheduler_waiting._next
    chain,              \* objects waited on, in the order of scheduler_waiting._next_waiting
    waiters,            \* per object, the threads in Object.wait, oldest first
    async,              \* threads blocked in a native method: scheduler_async
    async_redo,         \* threads that must execute their native method again
    locks,              \* per thread, the objects of its stack locks, innermost last
    owner,              \* per object, the thread of its StackLock, or NoThread when unlocked
    entry,              \* per object, the waiters of its StackLock, oldest first
    wait_obj,           \* per thread, the object it waits for or wants to lock
    timer,              \* per thread, its wakeup_time
    pending_exception,  \* threads resumed with an InterruptedException to throw
    pending_interrupt,  \* threads whose interrupt flag is set
    frames              \* the calls of Scheduler::yield in progress, outermost first

lists == <<active, sleeping, chain, waiters, async>>
monitors == <<locks, owner, entry, wait_obj>>
signals == <<pending_exception, pending_interrupt>>
vars == <<status, current, life, lists, async_redo, monitors, timer, signals, frames>>

-----------------------------------------------------------------------------
(* The intrusive lists, and what their links lead to. *)

First(s) == IF s = <<>> THEN NoThread ELSE Head(s)

\* The element that follows e in s.
Successor(s, e) ==
    LET i == CHOOSE j \in DOMAIN s : s[j] = e
    IN  IF i < Len(s) THEN s[i + 1] ELSE NoThread

\* Faulty variant of ChainHead: the walk misses the first wait list.
ChainHeadAfter(i) == IF i + 1 \in DOMAIN chain THEN Head(waiters[chain[i + 1]]) ELSE NoThread

\* The first waiter of the i-th object waited on.
ChainHead(i) == IF i \in DOMAIN chain THEN Head(waiters[chain[i]]) ELSE NoThread

\* Thread::next_waiting: links the first waiters of different objects, and the waiters of a StackLock.
NextWaiting(t) ==
    IF \E i \in DOMAIN chain : ChainHead(i) = t
    THEN ChainHead(1 + CHOOSE i \in DOMAIN chain : ChainHead(i) = t)
    ELSE IF wait_obj[t] \in Objects /\ t \in ToSet(entry[wait_obj[t]])
         THEN Successor(entry[wait_obj[t]], t)
         ELSE NoThread

\* The values Thread::next may have: it links the sleepers, the waiters of one object
\* and, in a circle, the active threads of one priority.
NextLinks(t) ==
    IF t \in ToSet(sleeping) THEN {Successor(sleeping, t)}
    ELSE IF t \in active THEN active
    ELSE IF wait_obj[t] \in Objects /\ t \in ToSet(waiters[wait_obj[t]])
         THEN {Successor(waiters[wait_obj[t]], t)}
         ELSE {NoThread}

\* The threads wake_up_timed_out_sleepers can find: the sleep queue and the wait lists.
Waiting == ToSet(sleeping) \cup UNION {ToSet(waiters[o]) : o \in Objects}

\* remove_waiting_thread finds the thread in the list its wait_obj leads to.
Removable(t) ==
    IF wait_obj[t] = NoObject THEN t \in ToSet(sleeping)
                              ELSE t \in ToSet(waiters[wait_obj[t]])

-----------------------------------------------------------------------------
(* Who may act. *)

\* Bytecodes of the current thread are executed.
Running == status = "up" /\ frames = <<>>

\* The current thread executes the next bytecode or native call of its program.
CanExecute ==
    /\ Running
    /\ current \in active
    /\ life[current] # "gone"
    /\ current \notin pending_exception
    /\ current \notin async_redo

top == frames[Len(frames)]

\* A call of Scheduler::yield: the events are polled first.
NewFrame == [pc |-> "poll", due |-> {}, this |-> NoThread, next_waiting |-> NoThread]

SetTop(f) == [frames EXCEPT ![Len(frames)] = f]

YieldAt(pc) == status = "up" /\ frames # <<>> /\ top.pc = pc
-----------------------------------------------------------------------------
(* Monitors. *)

\* Faulty variants of Heir: the youngest waiter, and nobody when several wait.
YoungestWaiter(o) == IF entry[o] = <<>> THEN NoThread ELSE Last(entry[o])
OnlyWaiter(o) == IF Len(entry[o]) = 1 THEN Head(entry[o]) ELSE NoThread

\* Synchronizer::signal_waiters: the released lock of o goes to its oldest waiter.
Heir(o) == First(entry[o])

\* Faulty variants of LaterWaiters: the heir stays in the queue, and the queue is dropped.
AllWaiters(o) == entry[o]
NoWaiters(o) == <<>>

LaterWaiters(o) == IF entry[o] = <<>> THEN <<>> ELSE Tail(entry[o])

\* The thread signal_waiters makes active, if any.
Woken(o) == {Heir(o)} \ {NoThread}

\* Faulty variant of IsRecursive: every monitorexit frees the object.
NeverRecursive(o) == FALSE

\* The innermost stack lock of the thread, on o, has no real near: an outer one keeps o locked.
IsRecursive(o) == o \in ToSet(Front(locks[current]))

\* Faulty variant of LockObject: the lock word of the object is not tested.
LockUnchecked(o) ==
    /\ owner' = [owner EXCEPT ![o] = current]
    /\ UNCHANGED <<active, entry, wait_obj, timer, frames>>

\* monitorenter on an object nobody has locked: lock_object, StackLock::lock.
LockObject(o) ==
    /\ owner[o] = NoThread
    /\ owner' = [owner EXCEPT ![o] = current]
    /\ UNCHANGED <<active, entry, wait_obj, timer, frames>>

\* monitorenter on an object the thread has locked: a stack lock without a real near.
LockAgain(o) ==
    /\ owner[o] = current
    /\ UNCHANGED <<active, owner, entry, wait_obj, timer, frames>>

\* Synchronizer::enter on an object another thread has locked: add_sync_thread, wait_for.
BlockOnObject(o) ==
    /\ owner[o] \in Threads \ {current}
    /\ active' = active \ {current}
    /\ entry' = [entry EXCEPT ![o] = Append(@, current)]
    /\ wait_obj' = [wait_obj EXCEPT ![current] = o]
    /\ timer' = [timer EXCEPT ![current] = "none"]
    /\ frames' = <<NewFrame>>
    /\ UNCHANGED owner

MonitorEnter(o) ==
    /\ CanExecute
    /\ life[current] = "alive"
    /\ Len(locks[current]) < MaxNest
    /\ LockObject(o) \/ LockAgain(o) \/ BlockOnObject(o)
    /\ locks' = [locks EXCEPT ![current] = Append(@, o)]
    /\ UNCHANGED <<status, current, life, sleeping, chain, waiters, async, async_redo, signals>>

\* monitorexit of a stack lock that is not the outermost one of its object.
UnlockAgain(o) ==
    /\ IsRecursive(o)
    /\ UNCHANGED <<active, owner, entry, wait_obj>>

\* monitorexit that frees the object: unlock_stack_lock, signal_waiters.
UnlockObject(o) ==
    /\ ~ IsRecursive(o)
    /\ owner' = [owner EXCEPT ![o] = Heir(o)]
    /\ entry' = [entry EXCEPT ![o] = LaterWaiters(o)]
    /\ active' = active \cup Woken(o)
    /\ wait_obj' = [t \in Threads |-> IF t = Heir(o) THEN NoObject ELSE wait_obj[t]]

\* Compiled Java code releases its monitors innermost first.
MonitorExit ==
    /\ CanExecute
    /\ locks[current] # <<>>
    /\ UnlockAgain(Last(locks[current])) \/ UnlockObject(Last(locks[current]))
    /\ locks' = [locks EXCEPT ![current] = Front(@)]
    /\ UNCHANGED <<status, current, life, sleeping, chain, waiters, async, async_redo,
                   timer, signals, frames>>

\* handle_pending_interrupt: wait and sleep throw at once when the interrupt flag is set.
HandlePendingInterrupt ==
    /\ current \in pending_interrupt
    /\ pending_interrupt' = pending_interrupt \ {current}
    /\ pending_exception' = pending_exception \cup {current}
    /\ UNCHANGED <<lists, monitors, timer, frames>>

\* Object.wait without a pending interrupt: release the lock, join the wait list, yield.
ReleaseAndWait(o, timeout) ==
    /\ current \notin pending_interrupt
    /\ owner' = [owner EXCEPT ![o] = Heir(o)]
    /\ entry' = [entry EXCEPT ![o] = LaterWaiters(o)]
    /\ active' = (active \cup Woken(o)) \ {current}
    /\ wait_obj' = [t \in Threads |-> IF t = current THEN o
                                      ELSE IF t = Heir(o) THEN NoObject
                                      ELSE wait_obj[t]]
    /\ chain' = IF waiters[o] = <<>> THEN Append(chain, o) ELSE chain
    /\ waiters' = [waiters EXCEPT ![o] = Append(@, current)]
    /\ timer' = [timer EXCEPT ![current] = timeout]
    /\ frames' = <<NewFrame>>
    /\ UNCHANGED <<sleeping, async, locks, signals>>

ObjectWait(o, timeout) ==
    /\ CanExecute
    /\ life[current] = "alive"
    /\ owner[o] = current
    /\ timeout = "armed" => current \in TimedWaiters
    /\ HandlePendingInterrupt \/ ReleaseAndWait(o, timeout)
    /\ UNCHANGED <<status, current, life, async_redo>>

\* Scheduler::notify by the owner of o: the threads ws, the oldest waiters of o, are made
\* active one by one and block at once on the lock, which the notifier holds.
Wake(o, ws) ==
    /\ waiters' = [waiters EXCEPT ![o] = SubSeq(@, Len(ws) + 1, Len(@))]
    /\ chain' = IF ws # <<>> /\ ws = waiters[o] THEN Unlink(chain, o) ELSE chain
    /\ entry' = [entry EXCEPT ![o] = @ \o ws]
    /\ timer' = [t \in Threads |-> IF t \in ToSet(ws) THEN "none" ELSE timer[t]]
    /\ UNCHANGED <<active, sleeping, async, locks, owner, wait_obj>>

Notify(o) ==
    /\ CanExecute
    /\ life[current] = "alive"
    /\ owner[o] = current
    /\ waiters[o] # <<>>
    /\ Wake(o, <<Head(waiters[o])>>)
    /\ UNCHANGED <<status, current, life, async_redo, signals, frames>>

NotifyAll(o) ==
    /\ CanExecute
    /\ life[current] = "alive"
    /\ owner[o] = current
    /\ waiters[o] # <<>>
    /\ Wake(o, waiters[o])
    /\ UNCHANGED <<status, current, life, async_redo, signals, frames>>

\* remove_waiting_thread and notify_wakeup of a thread asleep, or waiting for an object
\* whose lock it gets when it is free and queues up for when it is not.
RemoveAndWakeUp(t) ==
    LET o == wait_obj[t] IN
    \/ /\ o = NoObject
       /\ sleeping' = Unlink(sleeping, t)
       /\ active' = active \cup {t}
       /\ UNCHANGED <<chain, waiters, async, monitors, timer>>
    \/ /\ o \in Objects
       /\ waiters' = [waiters EXCEPT ![o] = Unlink(@, t)]
       /\ chain' = IF Len(waiters[o]) = 1 THEN Unlink(chain, o) ELSE chain
       /\ \/ /\ owner[o] = NoThread
             /\ owner' = [owner EXCEPT ![o] = t]
             /\ active' = active \cup {t}
             /\ wait_obj' = [wait_obj EXCEPT ![t] = NoObject]
             /\ UNCHANGED <<entry, timer>>
          \/ /\ owner[o] # NoThread
             /\ entry' = [entry EXCEPT ![o] = Append(@, t)]
             /\ timer' = [timer EXCEPT ![t] = "none"]
             /\ UNCHANGED <<active, owner, wait_obj>>
       /\ UNCHANGED <<sleeping, async, locks>>
-----------------------------------------------------------------------------
(* Threads: start, sleep, blocking natives, interrupt, preemption, death. *)

\* Thread.start0 by the current thread: Scheduler::start.
StartThread(t) ==
    /\ CanExecute
    /\ life[current] = "alive"
    /\ life[t] = "unstarted"
    /\ life' = [life EXCEPT ![t] = "alive"]
    /\ active' = active \cup {t}
    /\ UNCHANGED <<status, current, sleeping, chain, waiters, async, async_redo, monitors,
                   timer, signals, frames>>

\* sleep_current_thread.
FallAsleep ==
    /\ current \notin pending_interrupt
    /\ active' = active \ {current}
    /\ sleeping' = Append(sleeping, current)
    /\ wait_obj' = [wait_obj EXCEPT ![current] = NoObject]
    /\ timer' = [timer EXCEPT ![current] = "armed"]
    /\ frames' = <<NewFrame>>
    /\ UNCHANGED <<chain, waiters, async, locks, owner, entry, signals>>

Sleep ==
    /\ CanExecute
    /\ life[current] = "alive"
    /\ current \in Sleepers
    /\ HandlePendingInterrupt \/ FallAsleep
    /\ UNCHANGED <<status, current, life, async_redo>>

\* Thread.yield, or the timer tick of real_time_tick seen at a method entry or a branch.
Yield ==
    /\ Running
    /\ frames' = <<NewFrame>>
    /\ UNCHANGED <<status, current, life, lists, async_redo, monitors, timer, signals>>

\* A native method blocks its thread: block_current_thread, and the yield of switch_thread.
BlockCurrentThread ==
    /\ CanExecute
    /\ life[current] = "alive"
    /\ current \in AsyncCallers
    /\ async_redo' = async_redo \cup {current}
    /\ active' = active \ {current}
    /\ async' = async \cup {current}
    /\ frames' = <<NewFrame>>
    /\ UNCHANGED <<status, current, life, sleeping, chain, waiters, monitors, timer, signals>>

\* The native method is executed again by a thread that was unblocked; it returns.
RedoNativeMethod ==
    /\ Running
    /\ current \in async_redo
    /\ async_redo' = async_redo \ {current}
    /\ UNCHANGED <<status, current, life, lists, monitors, timer, signals, frames>>

\* interrupt_thread of a thread in the sleep queue or in a wait list.
InterruptWaiting(t) ==
    /\ t \in Waiting
    /\ RemoveAndWakeUp(t)
    /\ pending_exception' = pending_exception \cup {t}
    /\ UNCHANGED pending_interrupt

\* interrupt_thread of any other thread: it is told at its next wait or sleep.
InterruptLater(t) ==
    /\ t \notin Waiting
    /\ pending_interrupt' = pending_interrupt \cup {t}
    /\ UNCHANGED <<lists, monitors, timer, pending_exception>>

Interrupt(t) ==
    /\ CanExecute
    /\ life[current] = "alive"
    /\ current \in Interrupters
    /\ life[t] = "alive"
    /\ InterruptWaiting(t) \/ InterruptLater(t)
    /\ UNCHANGED <<status, current, life, async_redo, frames>>

\* The InterruptedException handed to the thread is thrown when it executes again.
ThrowPendingException ==
    /\ Running
    /\ current \in pending_exception
    /\ pending_exception' = pending_exception \ {current}
    /\ UNCHANGED <<status, current, life, lists, async_redo, monitors, timer,
                   pending_interrupt, frames>>

\* Scheduler::notify of an object nobody has locked: the oldest waiter gets the lock, the others
\* queue for it.
WakeOnFreeLock(o) ==
    /\ owner[o] = NoThread
    /\ waiters[o] # <<>>
    /\ LET first == Head(waiters[o])
           others == Tail(waiters[o])
       IN  /\ owner' = [owner EXCEPT ![o] = first]
           /\ active' = active \cup {first}
           /\ wait_obj' = [wait_obj EXCEPT ![first] = NoObject]
           /\ entry' = [entry EXCEPT ![o] = @ \o others]
           /\ timer' = [t \in Threads |-> IF t \in ToSet(others) THEN "none" ELSE timer[t]]
    /\ waiters' = [waiters EXCEPT ![o] = <<>>]
    /\ chain' = Unlink(chain, o)
    /\ UNCHANGED <<sleeping, async, locks>>

\* Scheduler::notify by the VM, which need not own the lock of o.
WakeJoining(o) ==
    \/ (owner[o] # NoThread \/ waiters[o] = <<>>) /\ Wake(o, waiters[o])
    \/ WakeOnFreeLock(o)

\* run has returned and all monitors are released: Thread::finish marks the thread dead and
\* notifies the threads that join it, without the lock of its Thread object.
FinishThread ==
    /\ CanExecute
    /\ life[current] = "alive"
    /\ locks[current] = <<>>
    /\ life' = [life EXCEPT ![current] = "terminated"]
    /\ IF ThreadObj[current] = NoObject
       THEN UNCHANGED <<lists, monitors, timer>>
       ELSE WakeJoining(ThreadObj[current])
    /\ UNCHANGED <<status, current, async_redo, signals, frames>>

\* lightweight_thread_exit: Scheduler::terminate, and a last yield.
TerminateThread ==
    /\ CanExecute
    /\ life[current] = "terminated"
    /\ life' = [life EXCEPT ![current] = "gone"]
    /\ active' = active \ {current}
    /\ frames' = <<NewFrame>>
    /\ UNCHANGED <<status, current, sleeping, chain, waiters, async, async_redo, monitors,
                   timer, signals>>

-----------------------------------------------------------------------------
(* Inside Scheduler::yield. *)

\* A wake-up time is reached.  Only the times of waiting threads are followed.
Expire(t) ==
    /\ status = "up"
    /\ t \in Waiting
    /\ timer[t] = "armed"
    /\ timer' = [timer EXCEPT ![t] = "expired"]
    /\ UNCHANGED <<status, current, life, lists, async_redo, monitors, signals, frames>>

\* JVMSPI_CheckEvents, called by check_blocked_threads, finds the event t is blocked for
\* and calls unblock_thread: before the wait lists are walked, or while no thread can run.
UnblockThread(t) ==
    /\ YieldAt("poll") \/ YieldAt("idle")
    /\ t \in async
    /\ async' = async \ {t}
    /\ active' = active \cup {t}
    /\ UNCHANGED <<status, current, life, sleeping, chain, waiters, async_redo, monitors,
                   timer, signals, frames>>

\* wake_up_timed_out_sleepers reads the clock once and starts at the sleep queue.
StartWakeUps ==
    /\ YieldAt("poll")
    /\ frames' = SetTop([pc |-> "wake",
                         due |-> {t \in Threads : timer[t] = "expired"},
                         this |-> First(sleeping),
                         next_waiting |-> ChainHead(1)])
    /\ UNCHANGED <<status, current, life, lists, async_redo, monitors, timer, signals>>

\* The list is exhausted: go on with the list of the object after it.
NextList ==
    /\ YieldAt("wake")
    /\ top.this = NoThread
    /\ top.next_waiting # NoThread
    /\ frames' = SetTop([top EXCEPT !.this = top.next_waiting,
                                    !.next_waiting = NextWaiting(top.next_waiting)])
    /\ UNCHANGED <<status, current, life, lists, async_redo, monitors, timer, signals>>

\* Faulty variant of Due: the wake-up time is not compared with the clock.
HasWakeUpTime(t) == timer[t] # "none"

\* The wake-up time of this_thread is compared with the time read at the start.
Due(t) == t \in top.due /\ timer[t] # "none"

\* Faulty variant of SkipThread: the loop advances only past threads it wakes.
SkipWithoutNext ==
    /\ YieldAt("wake")
    /\ top.this # NoThread
    /\ ~ Due(top.this)
    /\ UNCHANGED vars

\* this_thread is not due: the loop follows its link.
SkipThread ==
    /\ YieldAt("wake")
    /\ top.this # NoThread
    /\ ~ Due(top.this)
    /\ \E next \in NextLinks(top.this) : frames' = SetTop([top EXCEPT !.this = next])
    /\ UNCHANGED <<status, current, life, lists, async_redo, monitors, timer, signals>>

\* The current thread, still inside the yield of its own wait, finds the lock taken when it is
\* woken: Synchronizer::enter calls wait_for, and wait_for calls yield for the current thread.
BlocksCurrent(t) == t = current /\ wait_obj[t] # NoObject /\ owner[wait_obj[t]] # NoThread

\* Faulty variant of WakeThread: the link is read after the thread was put on another list.
WakeThenReadNext ==
    /\ YieldAt("wake")
    /\ \E t \in {top.this} \cap Threads :
          /\ Due(t)
          /\ Removable(t)
          /\ RemoveAndWakeUp(t)
          /\ \E next \in NextLinks(t)' :
                LET outer == SetTop([top EXCEPT !.this = next])
                IN  frames' = IF BlocksCurrent(t) THEN Append(outer, NewFrame) ELSE outer
    /\ UNCHANGED <<status, current, life, async_redo, signals>>

\* this_thread is due: the loop reads its link, removes it from its list and wakes it.
WakeThread ==
    /\ YieldAt("wake")
    /\ top.this # NoThread
    /\ Due(top.this)
    /\ Removable(top.this)
    /\ RemoveAndWakeUp(top.this)
    /\ \E next \in NextLinks(top.this) :
          LET outer == SetTop([top EXCEPT !.this = next])
          IN  frames' = IF BlocksCurrent(top.this) THEN Append(outer, NewFrame) ELSE outer
    /\ UNCHANGED <<status, current, life, async_redo, signals>>

\* remove_waiting_thread does not find this_thread where its wait_obj says: a GUARANTEE
\* fails and the VM aborts.
GuaranteeFails ==
    /\ YieldAt("wake")
    /\ top.this # NoThread
    /\ Due(top.this)
    /\ ~ Removable(top.this)
    /\ status' = "guarantee failed"
    /\ UNCHANGED <<current, life, lists, async_redo, monitors, timer, signals, frames>>

WalkDone == YieldAt("wake") /\ top.this = NoThread /\ top.next_waiting = NoThread

\* No thread can run: sleep until the next wake-up time or event.
GoIdle ==
    /\ WalkDone
    /\ active = {}
    /\ frames' = SetTop([top EXCEPT !.pc = "idle"])
    /\ UNCHANGED <<status, current, life, lists, async_redo, monitors, timer, signals>>

\* wait_for_event_or_timer returns: poll and walk the lists again.
WakeFromIdle ==
    /\ YieldAt("idle")
    /\ active # {} \/ \E t \in Waiting : timer[t] = "expired"
    /\ frames' = SetTop(NewFrame)
    /\ UNCHANGED <<status, current, life, lists, async_redo, monitors, timer, signals>>

\* Faulty variant of NothingToWaitFor: threads blocked in a native method are forgotten.
NoWakeUpTime ==
    /\ YieldAt("idle")
    /\ active = {}
    /\ \A t \in Waiting : timer[t] = "none"

\* Nobody has a wake-up time and no native event is awaited: waiting would be for ever.
NothingToWaitFor ==
    /\ YieldAt("idle")
    /\ active = {}
    /\ async = {}
    /\ \A t \in Waiting : timer[t] = "none"

YieldReturns == (WalkDone /\ active # {}) \/ NothingToWaitFor

\* A yield called while waking the current thread returns into the loop that woke it.
ReturnToLoop ==
    /\ YieldReturns
    /\ Len(frames) > 1
    /\ frames' = Front(frames)
    /\ UNCHANGED <<status, current, life, lists, async_redo, monitors, timer, signals>>

\* The outermost yield returns and switch_thread makes a runnable thread the current one.
SwitchThread ==
    /\ YieldReturns
    /\ Len(frames) = 1
    /\ current' \in active
    /\ frames' = <<>>
    /\ UNCHANGED <<status, life, lists, async_redo, monitors, timer, signals>>

\* switch_thread finds no thread to run: the VM exits when the current thread has died,
\* and otherwise sleeps for ever.
StopForEver ==
    /\ YieldReturns
    /\ Len(frames) = 1
    /\ active = {}
    /\ status' = IF life[current] = "gone" THEN "exited" ELSE "asleep for ever"
    /\ frames' = <<>>
    /\ UNCHANGED <<current, life, lists, async_redo, monitors, timer, signals>>

\* A VM that has stopped stays as it is.
Stopped == status # "up" /\ UNCHANGED vars

-----------------------------------------------------------------------------
Init ==
    /\ status = "up"
    /\ current \in Threads
    /\ life = [t \in Threads |-> IF t = current THEN "alive" ELSE "unstarted"]
    /\ active = {current}
    /\ sleeping = <<>>
    /\ chain = <<>>
    /\ waiters = [o \in Objects |-> <<>>]
    /\ async = {}
    /\ async_redo = {}
    /\ locks = [t \in Threads |-> <<>>]
    /\ owner = [o \in Objects |-> NoThread]
    /\ entry = [o \in Objects |-> <<>>]
    /\ wait_obj = [t \in Threads |-> NoObject]
    /\ timer = [t \in Threads |-> "none"]
    /\ pending_exception = {}
    /\ pending_interrupt = {}
    /\ frames = <<>>

\* Steps of the program the VM executes.
ProgramStep ==
    \/ \E o \in Objects : MonitorEnter(o)
    \/ MonitorExit
    \/ \E o \in Objects, timeout \in {"none", "armed"} : ObjectWait(o, timeout)
    \/ \E o \in Objects : Notify(o)
    \/ \E o \in Objects : NotifyAll(o)
    \/ \E t \in Threads : StartThread(t)
    \/ Sleep
    \/ BlockCurrentThread
    \/ RedoNativeMethod
    \/ \E t \in Threads : Interrupt(t)
    \/ ThrowPendingException
    \/ FinishThread
    \/ TerminateThread

\* Steps of Scheduler::yield.
YieldStep ==
    \/ StartWakeUps
    \/ NextList
    \/ SkipThread
    \/ WakeThread
    \/ GuaranteeFails
    \/ GoIdle
    \/ WakeFromIdle
    \/ ReturnToLoop
    \/ SwitchThread
    \/ StopForEver

Next ==
    \/ ProgramStep
    \/ Yield
    \/ YieldStep
    \/ \E t \in Threads : UnblockThread(t)
    \/ \E t \in Threads : Expire(t)
    \/ Stopped

Spec == Init /\ [][Next]_vars
-----------------------------------------------------------------------------
(* What must hold. *)

TimerValues == {"none", "armed", "expired"}

FrameType == [pc : {"poll", "wake", "idle"},
              due : SUBSET Threads,
              this : Threads \cup {NoThread},
              next_waiting : Threads \cup {NoThread}]

\* The types of the state.
TypeOK ==
    /\ status \in {"up", "guarantee failed", "exited", "asleep for ever"}
    /\ current \in Threads
    /\ life \in [Threads -> {"unstarted", "alive", "terminated", "gone"}]
    /\ active \in SUBSET Threads
    /\ sleeping \in Seq(Threads)
    /\ chain \in Seq(Objects)
    /\ waiters \in [Objects -> Seq(Threads)]
    /\ async \in SUBSET Threads
    /\ async_redo \in SUBSET Threads
    /\ locks \in [Threads -> Seq(Objects)]
    /\ owner \in [Objects -> Threads \cup {NoThread}]
    /\ entry \in [Objects -> Seq(Threads)]
    /\ wait_obj \in [Threads -> Objects \cup {NoObject}]
    /\ timer \in [Threads -> TimerValues]
    /\ pending_exception \in SUBSET Threads
    /\ pending_interrupt \in SUBSET Threads
    /\ frames \in Seq(FrameType)

\* A thread that may run owns every monitor its frames have locked, also after
\* Object.wait, a timeout or an interrupt put it back among the runnable threads.
\* Hence two runnable threads never both hold a monitor.
RunnableOwnsItsLocks ==
    \A t \in active : \A o \in ToSet(locks[t]) : owner[o] = t

\* No lock is left free while threads queue for it: signal_waiters hands it over, and
\* notify_wakeup queues a thread only on a lock that is taken.
WaitersImplyLocked ==
    \A o \in Objects : entry[o] # <<>> => owner[o] # NoThread

\* The threads in the wait lists of objects and in the queues for their locks.
Queued == UNION {ToSet(waiters[o]) \cup ToSet(entry[o]) : o \in Objects}

Disjoint(S, T) == S \cap T = {}

\* Every live thread is in exactly one list, exactly once, and a dead one in none: a thread in
\* no list is lost for ever, and a second add breaks the circular links ("cannot add twice").
OneListPerThread ==
    /\ active \cup async \cup ToSet(sleeping) \cup Queued
          = {t \in Threads : life[t] \in {"alive", "terminated"}}
    /\ Disjoint(active, async)
    /\ Disjoint(active \cup async, ToSet(sleeping))
    /\ Disjoint(active \cup async \cup ToSet(sleeping), Queued)
    /\ IsInjective(sleeping)
    /\ \A o \in Objects : /\ IsInjective(waiters[o])
                          /\ IsInjective(entry[o])
                          /\ Disjoint(ToSet(waiters[o]), ToSet(entry[o]))

\* find_waiting_thread finds the waiters of an object, and only those: each object waited on
\* is linked once into the chain of wait lists, and its waiters have it as wait_obj.
WaitListsFound ==
    /\ IsInjective(chain)
    /\ ToSet(chain) = {o \in Objects : waiters[o] # <<>>}
    /\ \A o \in Objects : \A t \in ToSet(waiters[o]) \cup ToSet(entry[o]) : wait_obj[t] = o

\* "Waiting thread not in list" (remove_waiting_thread): no GUARANTEE of the wake-up loop fails.
NoGuaranteeFails == status # "guarantee failed"

\* The VM gives up only when nothing can happen any more: no thread can run, no native event
\* and no wake-up time is awaited, and every lock queued for is held by a thread that is stuck.
StopsOnlyWhenStuck ==
    status \in {"exited", "asleep for ever"} =>
        /\ active = {} /\ async = {} /\ sleeping = <<>>
        /\ \A t \in Waiting : timer[t] = "none"
        /\ \A o \in Objects : entry[o] # <<>> =>
              \E u \in Objects : owner[o] \in ToSet(entry[u]) \cup ToSet(waiters[u])

\* A released lock goes to its oldest waiter: a thread that comes later never gets past one
\* that queues already, whether it enters the monitor or returns from a wait.
FifoHandOver ==
    [][\A o \in Objects : entry[o] # <<>> /\ owner'[o] # owner[o] =>
          /\ owner'[o] = Head(entry[o])
          /\ IsPrefix(Tail(entry[o]), entry'[o])]_vars

\* Object.wait returns for a reason: the waiter was notified by the owner of the object, or by the
\* VM because the thread whose object it is has ended; it was interrupted and will throw; or it
\* had its wake-up time reached.
NoSpuriousWakeUp ==
    [][\A o \in Objects : \A t \in ToSet(waiters[o]) \ ToSet(waiters'[o]) :
          \/ Running /\ owner[o] = current
          \/ \E u \in Threads :
                ThreadObj[u] = o /\ life[u] = "alive" /\ life'[u] = "terminated"
          \/ t \in pending_exception'
          \/ timer[t] = "expired"]_vars

-----------------------------------------------------------------------------
(* Fairness: the VM goes on executing yield, time passes, and timer ticks preempt the current *)
(* thread sooner or later.  Programs and native events owe nothing.                           *)

Fairness ==
    /\ WF_vars(YieldStep)
    /\ WF_vars(Yield)
    /\ \A t \in Threads : WF_vars(Expire(t))

FairSpec == Spec /\ Fairness

\* A timed wait ends: the waiter gets the lock or queues for it.  A sleeper gets runnable.
TimedWaitsEnd ==
    \A t \in Threads : (status = "up" /\ t \in Waiting /\ timer[t] # "none") ~> (t \notin Waiting)

\* Scheduler::yield returns when a thread can run.
YieldEnds == (status = "up" /\ frames # <<>> /\ active # {}) ~> (frames = <<>>)
=============================================================================
