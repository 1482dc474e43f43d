------------------------ MODULE MonitorRefinement ------------------------
(***************************************************************************)
(* Scheduler and Synchronizer implement the monitors of JavaMonitor.       *)
(***************************************************************************)
EXTENDS Scheduler

Occurrences(e, s) == Cardinality({i \in DOMAIN s : s[i] = e})

\* The stack locks of a thread become entry counts, one per object.
EntryCounts == [t \in Threads |-> [o \in Objects |-> Occurrences(o, locks[t])]]

\* The queues lose their order.
BlockedThreads == [o \in Objects |-> ToSet(entry[o])]
WaitSets == [o \in Objects |-> ToSet(waiters[o])]

\* A wake-up time counts only while the thread waits for an object.
TimedThreads == {t \in Threads : timer[t] # "none" /\ \E o \in Objects : t \in ToSet(waiters[o])}

\* A thread is dead once Thread::finish has marked its Thread object.
EndedThreads == {t \in Threads : life[t] \in {"terminated", "gone"}}

\* The monitor state a Java program can tell.
Monitor == INSTANCE JavaMonitor WITH
    holder <- owner,
    count <- EntryCounts,
    blocked <- BlockedThreads,
    waitset <- WaitSets,
    timed <- TimedThreads,
    interrupted <- pending_exception,
    ended <- EndedThreads

\* Every step of the scheduler is a step the contract of Java monitors allows, or none: the lock
\* passes only by release, a waiter returns only by notify of the holder, time-out, interrupt or
\* the end of the thread whose object it waits for, and has its entry count again.
ImplementsJavaMonitor == Monitor!Spec
=============================================================================
