------------------------ MODULE SchedulerInvariant ------------------------
(***************************************************************************)
(* Why the properties of Scheduler hold: an invariant every step of the    *)
(* scheduler preserves.  It says, thread by thread, what the lists, the    *)
(* wait_obj fields, the locks and the calls of yield in progress have to   *)
(* do with each other.                                                     *)
(***************************************************************************)
EXTENDS Scheduler

\* wait_obj is set exactly while the thread is in the wait list or the lock queue of the object.
QueueTellsWaitObj ==
    \A t \in Threads, o \in Objects :
        t \in ToSet(waiters[o]) \/ t \in ToSet(entry[o]) <=> wait_obj[t] = o

\* No thread is in a list twice, or both in the wait list and the lock queue of an object.
NoDuplicates ==
    /\ IsInjective(sleeping)
    /\ \A o \in Objects :
          /\ IsInjective(waiters[o])
          /\ IsInjective(entry[o])
          /\ \A t \in Threads : ~ (t \in ToSet(waiters[o]) /\ t \in ToSet(entry[o]))

\* A thread that was started and has not gone runs, is blocked in a native method, sleeps or
\* waits for an object; it does one of these only, and other threads do none.
OnePlace ==
    \A t \in Threads :
        /\ life[t] \in {"alive", "terminated"} <=>
              t \in active \/ t \in async \/ t \in ToSet(sleeping) \/ wait_obj[t] # NoObject
        /\ t \in active => t \notin async /\ t \notin ToSet(sleeping) /\ wait_obj[t] = NoObject
        /\ t \in async => t \notin ToSet(sleeping) /\ wait_obj[t] = NoObject
        /\ t \in ToSet(sleeping) => wait_obj[t] = NoObject

\* The chain links the wait lists that are not empty, each once.
ChainTellsWaiters ==
    /\ IsInjective(chain)
    /\ \A o \in Objects : o \in ToSet(chain) <=> waiters[o] # <<>>

\* A monitor a thread has locked is its own, unless the thread waits for just that monitor.
LocksHeld ==
    \A t \in Threads : \A o \in ToSet(locks[t]) : owner[o] = t \/ wait_obj[t] = o

\* The state of the lists and monitors.
ListsInv ==
    /\ QueueTellsWaitObj
    /\ NoDuplicates
    /\ OnePlace
    /\ ChainTellsWaiters
    /\ LocksHeld
    /\ WaitersImplyLocked

\* yield calls itself once at most: then the current thread is in no list the inner loop walks.
OneNestedYield == Len(frames) <= 2 /\ (Len(frames) = 2 => current \notin Waiting)

SchedulerInv == TypeOK /\ ListsInv /\ OneNestedYield

\* The clock does not go back under a call of yield: a wake-up time it has found reached stays
\* reached until the thread is woken, which may clear it.
DueTimersReached ==
    \A i \in DOMAIN frames : \A t \in frames[i].due : timer[t] # "armed"

WakeUpInv == SchedulerInv /\ DueTimersReached

\* While bytecodes are executed, the thread that executes them is on a priority queue.
RunningThreadIsActive == Running => current \in active

\* A sleeping thread has a wake-up time.
SleepersHaveTimes == \A t \in ToSet(sleeping) : timer[t] # "none"

\* The owner of a monitor has a stack lock on it, and so has a thread that will own it again.
OwnersHaveLocked ==
    /\ \A o \in Objects : owner[o] # NoThread => o \in ToSet(locks[owner[o]])
    /\ \A t \in Threads : wait_obj[t] # NoObject => wait_obj[t] \in ToSet(locks[t])

\* A thread has no stack locks before it starts and none when it has ended, nor does it throw.
OnlyLiveThreadsAct ==
    \A t \in Threads : locks[t] # <<>> \/ t \in pending_exception => life[t] = "alive"

\* The VM has stopped in a state in which it had nothing to wait for.
StoppedWithNothingToDo ==
    status \in {"exited", "asleep for ever"} =>
        active = {} /\ async = {} /\ \A t \in Waiting : timer[t] = "none"

\* What a VM that stops has come to.
StoppingInv ==
    /\ RunningThreadIsActive
    /\ SleepersHaveTimes
    /\ OwnersHaveLocked
    /\ OnlyLiveThreadsAct
    /\ StoppedWithNothingToDo

\* What every step keeps, whatever the program.
WholeInv == WakeUpInv /\ StoppingInv

-----------------------------------------------------------------------------
(* Why remove_waiting_thread finds the thread the wake-up loop has come to. *)

\* A thread that queues for a lock has no wake-up time.
QueuedHaveNoTimes == \A o \in Objects : \A t \in ToSet(entry[o]) : timer[t] = "none"

InWaitList(t) == wait_obj[t] # NoObject /\ t \in ToSet(waiters[wait_obj[t]])

InLockQueue(t) == wait_obj[t] # NoObject /\ t \in ToSet(entry[wait_obj[t]])

\* The wake-up loop is in the sleep queue or in the wait list of an object, and the next wait list
\* is that of another object; or it has come to a thread that was put in a queue for a lock.
CursorOnList(f) ==
    /\ f.next_waiting # NoThread => InWaitList(f.next_waiting)
    /\ \/ f.this = NoThread
       \/ f.this \in ToSet(sleeping)
       \/ /\ InWaitList(f.this)
          /\ f.next_waiting # NoThread => wait_obj[f.next_waiting] # wait_obj[f.this]
       \/ InLockQueue(f.this) /\ f.next_waiting = NoThread

\* A loop that is suspended while the current thread calls yield again is past the sleep queue,
\* in the wait list of an object whose lock nobody can release until yield returns.
Suspended(f) ==
    /\ f.this \notin ToSet(sleeping)
    /\ f.this # NoThread /\ InWaitList(f.this) => owner[wait_obj[f.this]] # NoThread

CursorsOnLists ==
    \A i \in DOMAIN frames : /\ CursorOnList(frames[i])
                             /\ i < Len(frames) => Suspended(frames[i])

\* No suspended wake-up loop has another wait list to come.
NothingPending == \A i \in DOMAIN frames : i < Len(frames) => frames[i].next_waiting = NoThread

CursorInv == SchedulerInv /\ QueuedHaveNoTimes /\ CursorsOnLists /\ NothingPending
=============================================================================
