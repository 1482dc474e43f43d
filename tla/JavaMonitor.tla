--------------------------- MODULE JavaMonitor ---------------------------
(***************************************************************************)
(* What the VM promises a Java program of the monitor of an object: the    *)
(* contract of monitorenter, monitorexit, Object.wait and notify,          *)
(* Thread.interrupt and the end of a thread others join, without           *)
(* scheduler, queues or order.  The module MonitorRefinement shows that    *)
(* Scheduler implements it.                                                *)
(***************************************************************************)
EXTENDS Naturals

CONSTANTS
    Threads,
    Objects,
    NoThread,
    ThreadObj     \* per thread, its Thread object, if others wait for that

VARIABLES
    holder,       \* per object, the thread that holds its monitor
    count,        \* per thread and object, how often the thread has entered the monitor
    blocked,      \* per object, the threads that want the monitor and do not hold it
    waitset,      \* per object, its wait set
    timed,        \* waiting threads whose wait ends by itself
    interrupted,  \* threads that are about to throw InterruptedException
    ended         \* threads that are dead

monitor == <<holder, count, blocked, waitset, timed, interrupted, ended>>

Init ==
    /\ holder = [o \in Objects |-> NoThread]
    /\ count = [t \in Threads |-> [o \in Objects |-> 0]]
    /\ blocked = [o \in Objects |-> {}]
    /\ waitset = [o \in Objects |-> {}]
    /\ timed = {}
    /\ interrupted = {}
    /\ ended = {}

\* A thread that waits, is blocked or is dead does nothing.
Free(t) ==
    /\ t \notin ended
    /\ \A o \in Objects : t \notin blocked[o] \cup waitset[o]

\* The monitor of o gets free, or passes to a blocked thread.
Release(o) ==
    \/ /\ blocked[o] = {}
       /\ holder' = [holder EXCEPT ![o] = NoThread]
       /\ UNCHANGED blocked
    \/ \E heir \in blocked[o] :
          /\ holder' = [holder EXCEPT ![o] = heir]
          /\ blocked' = [blocked EXCEPT ![o] = @ \ {heir}]

Enter(t, o) ==
    /\ Free(t)
    /\ count' = [count EXCEPT ![t][o] = @ + 1]
    /\ \/ /\ holder[o] \in {NoThread, t}
          /\ holder' = [holder EXCEPT ![o] = t]
          /\ UNCHANGED blocked
       \/ /\ holder[o] \notin {NoThread, t}
          /\ blocked' = [blocked EXCEPT ![o] = @ \cup {t}]
          /\ UNCHANGED holder
    /\ UNCHANGED <<waitset, timed, interrupted, ended>>

Exit(t, o) ==
    /\ Free(t)
    /\ holder[o] = t
    /\ count[t][o] > 0
    /\ count' = [count EXCEPT ![t][o] = @ - 1]
    /\ IF count[t][o] = 1 THEN Release(o) ELSE UNCHANGED <<holder, blocked>>
    /\ UNCHANGED <<waitset, timed, interrupted, ended>>

\* The entry count is kept: the thread has it again when the wait is over.
Wait(t, o) ==
    /\ Free(t)
    /\ holder[o] = t
    /\ Release(o)
    /\ waitset' = [waitset EXCEPT ![o] = @ \cup {t}]
    /\ timed' \in {timed, timed \cup {t}}
    /\ UNCHANGED <<count, interrupted, ended>>

\* The threads of S leave the wait set of o; one of them gets the monitor when it is free.
Wake(S, o) ==
    /\ S # {}
    /\ S \subseteq waitset[o]
    /\ waitset' = [waitset EXCEPT ![o] = @ \ S]
    /\ \/ /\ holder[o] = NoThread
          /\ \E first \in S :
                /\ holder' = [holder EXCEPT ![o] = first]
                /\ blocked' = [blocked EXCEPT ![o] = @ \cup (S \ {first})]
       \/ /\ holder[o] # NoThread
          /\ blocked' = [blocked EXCEPT ![o] = @ \cup S]
          /\ UNCHANGED holder
    /\ timed' = timed \ S
    /\ UNCHANGED count

\* Only the holder of the monitor notifies.
NotifyOne(t, o) ==
    /\ Free(t) /\ holder[o] = t
    /\ \E u \in waitset[o] : Wake({u}, o)
    /\ UNCHANGED <<interrupted, ended>>

NotifyAll(t, o) ==
    /\ Free(t) /\ holder[o] = t
    /\ Wake(waitset[o], o)
    /\ UNCHANGED <<interrupted, ended>>

TimeOut(u, o) ==
    /\ u \in timed
    /\ Wake({u}, o)
    /\ UNCHANGED <<interrupted, ended>>

InterruptWaiter(u, o) ==
    /\ Wake({u}, o)
    /\ interrupted' = interrupted \cup {u}
    /\ UNCHANGED ended

\* A thread that does not wait is interrupted when it calls wait or sleep, or sleeps.
InterruptFree(t) ==
    /\ Free(t)
    /\ interrupted' = interrupted \cup {t}
    /\ UNCHANGED <<holder, count, blocked, waitset, timed, ended>>

\* The exception is thrown by a thread that executes.
Throw(t) ==
    /\ Free(t)
    /\ t \in interrupted
    /\ interrupted' = interrupted \ {t}
    /\ UNCHANGED <<holder, count, blocked, waitset, timed, ended>>

\* A thread ends, with no monitor: all that wait for its Thread object return.
Finish(t) ==
    /\ Free(t)
    /\ \A o \in Objects : holder[o] # t
    /\ ended' = ended \cup {t}
    /\ \/ /\ \A o \in Objects : o = ThreadObj[t] => waitset[o] = {}
          /\ UNCHANGED <<holder, count, blocked, waitset, timed>>
       \/ \E o \in Objects : o = ThreadObj[t] /\ Wake(waitset[o], o)
    /\ UNCHANGED interrupted

Next ==
    \E t \in Threads :
        \/ InterruptFree(t)
        \/ Throw(t)
        \/ Finish(t)
        \/ \E o \in Objects :
              \/ Enter(t, o)
              \/ Exit(t, o)
              \/ Wait(t, o)
              \/ NotifyOne(t, o)
              \/ NotifyAll(t, o)
              \/ TimeOut(t, o)
              \/ InterruptWaiter(t, o)

Spec == Init /\ [][Next]_monitor
=============================================================================
