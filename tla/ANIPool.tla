------------------------------ MODULE ANIPool ------------------------------
(***************************************************************************)
(* ANILib: native methods that would block hand their function to a        *)
(* thread of the operating system out of a fixed pool, and their Java      *)
(* thread waits in the VM until the pool thread has finished.              *)
(*                                                                         *)
(* Two kinds of threads share the pool without a lock.  The VM's own       *)
(* thread runs the native methods, one at a time and to their end, and     *)
(* waits for events; each pool thread takes a call, runs its function and  *)
(* reports.  One write of a pool thread to a field the VM reads is one     *)
(* step.                                                                   *)
(***************************************************************************)
EXTENDS Integers, FiniteSets

CONSTANTS
    Callers,            \* Java threads that call native methods using ANILib
    NumPoolThreads,     \* NUM_POOL_THREADS
    NULL,               \* no function
    MaxSignals,         \* bound: no call is handed over at so many signals
    MaxOverdraft        \* bound: how far the event may fall below zero

ASSUME PoolAssumption ==
    /\ NumPoolThreads \in Nat \ {0}
    /\ IsFiniteSet(Callers)
    /\ NULL \notin Callers
    /\ MaxSignals \in Nat
    /\ MaxOverdraft \in Nat

PoolThreads == 1..NumPoolThreads

NoPoolThread == 0

VARIABLES
    at,             \* where each caller is
    pt,             \* ANI_BlockingInfo.pt of each caller: whose parameter block
                    \* it has allocated, unless pt is NoPoolThread
    executed,       \* the function of the caller's call has been executed
    waiter_count,
    used,           \* is_used of each pool thread
    idle,           \* is_idle
    function,       \* function: the caller it was set up for
    execute_event,  \* signals not yet taken
    stage,          \* where each pool thread is in PoolThread_Run
    running,        \* the function it has called
    finished_event, \* thread_finished_event: signals not yet taken
    overdrawn,      \* a wait has failed and taken a signal that was not there
    vm,             \* what the VM's thread does
    scanned         \* the pool thread it looks at

callers == <<at, pt, executed, waiter_count>>
pool == <<used, idle, function, execute_event, stage, running>>
vars == <<callers, pool, finished_event, overdrawn, vm, scanned>>

TypeOK ==
    /\ at \in [Callers -> {"outside", "entering", "blocked"}]
    /\ pt \in [Callers -> PoolThreads \cup {NoPoolThread}]
    /\ executed \in [Callers -> BOOLEAN]
    /\ waiter_count \in Int
    /\ used \in [PoolThreads -> BOOLEAN]
    /\ idle \in [PoolThreads -> BOOLEAN]
    /\ function \in [PoolThreads -> Callers \cup {NULL}]
    /\ execute_event \in [PoolThreads -> Nat]
    /\ stage \in [PoolThreads -> {"none", "waiting", "calling", "finished",
                                  "cleared"}]
    /\ running \in [PoolThreads -> Callers \cup {NULL}]
    /\ finished_event \in Int
    /\ overdrawn \in BOOLEAN
    /\ vm \in {"java", "timed", "forever", "scan"}
    /\ scanned \in PoolThreads \cup {NoPoolThread}

Init ==
    /\ at = [j \in Callers |-> "outside"]
    /\ pt = [j \in Callers |-> NoPoolThread]
    /\ executed = [j \in Callers |-> FALSE]
    /\ waiter_count = 0
    /\ used = [i \in PoolThreads |-> FALSE]
    /\ idle = [i \in PoolThreads |-> FALSE]
    /\ function = [i \in PoolThreads |-> NULL]
    /\ execute_event = [i \in PoolThreads |-> 0]
    /\ stage = [i \in PoolThreads |-> "none"]
    /\ running = [i \in PoolThreads |-> NULL]
    /\ finished_event = 0
    /\ overdrawn = FALSE
    /\ vm = "java"
    /\ scanned = NoPoolThread

\* Faulty variant: a pool thread that is idle is taken for one that is free.
FreeWhenIdle == {i \in PoolThreads : idle[i] \/ stage[i] = "none"}

Free == {i \in PoolThreads : ~used[i]}

\* Java threads that ANI_Wait has blocked: no pool thread was to be had.
Waiters == {j \in Callers : at[j] = "blocked" /\ pt[j] = NoPoolThread}

\* A pool thread has called a function that is not there.
Crashed == \E i \in PoolThreads : stage[i] = "calling" /\ running[i] = NULL

-----------------------------------------------------------------------------
(* Native methods.                                                         *)

\* PoolThread_Allocate takes the first pool thread that is not in use.
FirstFree == {i \in Free : \A k \in Free : i <= k}

\* The thread of the operating system has yet to be created.
MustSpawn(i) == stage[i] = "none"

StageOnceSpawned(i) == IF MustSpawn(i) THEN "waiting" ELSE stage[i]

\* ANI_Start found no pool thread, or could not create one: ANI_Wait blocks
\* the caller.
Wait(j) ==
    /\ \A i \in FirstFree : MustSpawn(i)
    /\ waiter_count' = waiter_count + 1
    /\ at' = [at EXCEPT ![j] = "blocked"]
    /\ UNCHANGED <<pt, executed, pool>>

\* Faulty variant: is_idle is not reset.
StartStaysIdle(i) ==
    /\ execute_event' = [execute_event EXCEPT ![i] = @ + 1]
    /\ UNCHANGED idle

\* PoolThread_StartExecution.
StartExecution(i) ==
    /\ idle' = [idle EXCEPT ![i] = FALSE]
    /\ execute_event' = [execute_event EXCEPT ![i] = @ + 1]

\* ANI_Start, ANI_UseFunction and ANI_BlockThread: hand the function over.
HandOver(j) ==
    /\ finished_event < MaxSignals
    /\ \E i \in FirstFree :
           /\ pt' = [pt EXCEPT ![j] = i]
           /\ used' = [used EXCEPT ![i] = TRUE]
           /\ stage' = [stage EXCEPT ![i] = StageOnceSpawned(i)]
           /\ function' = [function EXCEPT ![i] = j]
           /\ StartExecution(i)
    /\ at' = [at EXCEPT ![j] = "blocked"]
    /\ UNCHANGED <<executed, waiter_count, running>>

\* The method ends without blocking: its arguments were no good, or the
\* function, tried at once, had its result.
FinishAtOnce(j) ==
    /\ \E i \in FirstFree :
           /\ stage' = [stage EXCEPT ![i] = StageOnceSpawned(i)]
           /\ idle' = [idle EXCEPT ![i] = IF MustSpawn(i) THEN TRUE ELSE @]
           /\ \/ function' = [function EXCEPT ![i] = j]
              \/ UNCHANGED function
    /\ at' = [at EXCEPT ![j] = "outside"]
    /\ UNCHANGED <<pt, executed, waiter_count, used, execute_event,
                   running>>

\* First activation of the method, or one after ANI_Wait.
Enter(j) ==
    /\ vm = "java"
    /\ at[j] \in {"outside", "entering"}
    /\ pt[j] = NoPoolThread
    /\ Wait(j) \/ HandOver(j) \/ FinishAtOnce(j)
    /\ UNCHANGED <<finished_event, overdrawn, vm, scanned>>

\* The activation after ANI_BlockThread fetches the result; ANI_End releases
\* the pool thread.
Return(j) ==
    /\ vm = "java"
    /\ at[j] = "entering"
    /\ pt[j] # NoPoolThread
    /\ used' = [used EXCEPT ![pt[j]] = FALSE]
    /\ at' = [at EXCEPT ![j] = "outside"]
    /\ pt' = [pt EXCEPT ![j] = NoPoolThread]
    /\ executed' = [executed EXCEPT ![j] = FALSE]
    /\ UNCHANGED <<waiter_count, idle, function, execute_event, stage, running,
                   finished_event, overdrawn, vm,
                   scanned>>

-----------------------------------------------------------------------------
(* The VM waits for events.                                                *)

\* Faulty variant: the first pool thread is not looked at.
TakeSignalFromSecond ==
    /\ finished_event > -MaxOverdraft
    /\ finished_event' = finished_event - 1
    /\ vm' = "scan"
    /\ scanned' = NumPoolThreads

\* A wait has ended with a signal, or with what it takes for one: look at the
\* pool threads, one after the other.
TakeSignal ==
    /\ finished_event > -MaxOverdraft
    /\ finished_event' = finished_event - 1
    /\ vm' = "scan"
    /\ scanned' = 1

\* Os_WaitForEventOrTimeout.  The sum of the time and the time-out may carry
\* in the nanoseconds; pthread_cond_timedwait then fails at once, which is
\* not told from a signal.
WaitOrTimeout(polls) ==
    IF finished_event # 0
    THEN TakeSignal /\ UNCHANGED overdrawn
    ELSE \/ /\ vm' = IF polls THEN "java" ELSE "timed"
            /\ UNCHANGED <<finished_event, overdrawn, scanned>>
         \/ /\ ~polls
            /\ TakeSignal
            /\ overdrawn' = TRUE

\* Os_WaitForEvent.
WaitForEver ==
    /\ IF finished_event # 0
       THEN TakeSignal
       ELSE vm' = "forever" /\ UNCHANGED <<finished_event, scanned>>
    /\ UNCHANGED overdrawn

\* Faulty variant: one waiter less, however many try again.
UnblockCountsOne(tried) ==
    /\ at' = [j \in Callers |-> IF j \in tried THEN "entering" ELSE at[j]]
    /\ waiter_count' = waiter_count - 1

UnblockWaiters(tried) ==
    /\ at' = [j \in Callers |-> IF j \in tried THEN "entering" ELSE at[j]]
    /\ waiter_count' = waiter_count - Cardinality(tried)

\* As many waiters as pool threads are free try again; then do not wait.
Retry ==
    /\ waiter_count > 0
    /\ Free # {}
    /\ \E tried \in SUBSET Waiters :
          /\ \/ Cardinality(tried) = Cardinality(Free)
             \/ tried = Waiters /\ Cardinality(tried) < Cardinality(Free)
          /\ UnblockWaiters(tried)
    /\ UNCHANGED <<pt, executed>>
    /\ WaitOrTimeout(TRUE)

\* Nobody to try again: wait, for ever only if no Java thread can run.
AwaitEvent ==
    /\ waiter_count <= 0 \/ Free = {}
    /\ \/ WaitOrTimeout(TRUE)
       \/ WaitOrTimeout(FALSE)
       \/ (\A j \in Callers : at[j] # "entering") /\ WaitForEver
    /\ UNCHANGED callers

\* ANI_WaitForThreadUnblocking, called from JVMSPI_CheckEvents.
CheckEvents ==
    /\ vm = "java"
    /\ Retry \/ AwaitEvent
    /\ UNCHANGED pool

\* The wait ends by a signal or by its time-out.
WakeUp ==
    /\ vm \in {"timed", "forever"}
    /\ finished_event # 0
    /\ TakeSignal
    /\ UNCHANGED <<callers, pool, overdrawn>>

TimeOut ==
    /\ vm = "timed"
    /\ vm' = "java"
    /\ UNCHANGED <<callers, pool, finished_event, overdrawn, scanned>>

\* PoolThread_WaitForFinishOrTimeout looks at one pool thread and unblocks
\* the Java thread that waits for it.
Scan ==
    /\ vm = "scan"
    /\ at' = [j \in Callers |->
                 IF at[j] = "blocked" /\ pt[j] = scanned /\ idle[scanned]
                 THEN "entering" ELSE at[j]]
    /\ IF scanned = NumPoolThreads
       THEN vm' = "java" /\ scanned' = NoPoolThread
       ELSE vm' = "scan" /\ scanned' = scanned + 1
    /\ UNCHANGED <<pt, executed, waiter_count, pool, finished_event,
                   overdrawn>>

-----------------------------------------------------------------------------
(* A pool thread.                                                          *)

Take(i) ==
    /\ stage[i] = "waiting"
    /\ execute_event[i] > 0
    /\ execute_event' = [execute_event EXCEPT ![i] = @ - 1]
    /\ running' = [running EXCEPT ![i] = function[i]]
    /\ stage' = [stage EXCEPT ![i] = "calling"]
    /\ UNCHANGED <<callers, used, idle, function, finished_event, overdrawn, vm,
                   scanned>>

\* The function has returned; is_idle tells the VM.
Finish(i) ==
    /\ stage[i] = "calling"
    /\ executed' = [executed EXCEPT ![running[i]] = TRUE]
    /\ idle' = [idle EXCEPT ![i] = TRUE]
    /\ running' = [running EXCEPT ![i] = NULL]
    /\ stage' = [stage EXCEPT ![i] = "finished"]
    /\ UNCHANGED <<at, pt, waiter_count, used, function,
                   execute_event, finished_event, overdrawn, vm,
                   scanned>>

ClearFunction(i) ==
    /\ stage[i] = "finished"
    /\ function' = [function EXCEPT ![i] = NULL]
    /\ stage' = [stage EXCEPT ![i] = "cleared"]
    /\ UNCHANGED <<callers, used, idle, execute_event, running, finished_event,
                   overdrawn, vm,
                   scanned>>

\* Faulty variant: the event does not remember a signal nobody waits for.
SignalUnremembered(i) ==
    /\ stage[i] = "cleared"
    /\ finished_event' = IF vm \in {"timed", "forever"} THEN finished_event + 1
                         ELSE finished_event
    /\ stage' = [stage EXCEPT ![i] = "waiting"]
    /\ UNCHANGED <<callers, used, idle, function, execute_event, running,
                   overdrawn, vm, scanned>>

SignalFinished(i) ==
    /\ stage[i] = "cleared"
    /\ finished_event' = finished_event + 1
    /\ stage' = [stage EXCEPT ![i] = "waiting"]
    /\ UNCHANGED <<callers, used, idle, function, execute_event, running,
                   overdrawn, vm,
                   scanned>>

PoolThreadStep(i) ==
    Take(i) \/ Finish(i) \/ ClearFunction(i) \/ SignalFinished(i)

VMStep == CheckEvents \/ WakeUp \/ TimeOut \/ Scan

Next ==
    /\ ~Crashed
    /\ \/ \E j \in Callers : Enter(j) \/ Return(j)
       \/ VMStep
       \/ \E i \in PoolThreads : PoolThreadStep(i)

Spec == Init /\ [][Next]_vars

\* The operating system runs every pool thread and the functions return; the
\* scheduler looks for events again and again while Java threads run.
FairSpec ==
    /\ Spec
    /\ WF_vars(~Crashed /\ VMStep)
    /\ \A i \in PoolThreads : WF_vars(~Crashed /\ PoolThreadStep(i))

-----------------------------------------------------------------------------
(* Properties.                                                             *)

\* A pool thread serves one call: is_used tells exactly the pool threads some
\* caller holds, and no two callers hold the same, however releases and
\* allocations alternate with the retries of waiting callers.
PoolThreadServesOneCall ==
    /\ \A i \in PoolThreads : used[i] <=> \E j \in Callers : pt[j] = i
    /\ \A j, k \in Callers : pt[j] = pt[k] /\ pt[j] # NoPoolThread => j = k

\* ANI_BlockThread: the method is entered again only when the native thread
\* has executed the function, although the VM looks at is_idle for whatever
\* reason a wait may end.
ReentersWithResult ==
    \A j \in Callers : at[j] = "entering" /\ pt[j] # NoPoolThread => executed[j]

\* waiter_count is the number of Java threads that wait for a pool thread:
\* above it the VM would poll instead of wait, below it a waiter would be
\* forgotten.
WaitersCounted == waiter_count = Cardinality(Waiters)

\* A call that has finished is seen: the pool thread is about to signal, the
\* signal is there, or the VM has yet to look at that pool thread.  This is so
\* until a timed wait fails and takes a signal that was not there.
CompletionWillBeSeen ==
    ~overdrawn =>
        \A j \in Callers :
            at[j] = "blocked" /\ pt[j] # NoPoolThread /\ idle[pt[j]] =>
                \/ stage[pt[j]] \in {"finished", "cleared"}
                \/ finished_event > 0
                \/ vm = "scan" /\ scanned <= pt[j]

\* Every call whose function was handed over is entered again, unless the VM
\* crashes or a timed wait fails.
EveryCallGoesOn ==
    []~(overdrawn \/ Crashed) =>
        \A j \in Callers :
            (at[j] = "blocked" /\ pt[j] # NoPoolThread) ~> at[j] = "entering"

\* The documentation of ANI_UseFunction calls it the function that the native
\* thread is supposed to execute: the pool thread calls what was set up for
\* the call it has taken.  PoolThread_Run sets is_idle before it clears the
\* function, and may clear the function of the next call.
ExecutesFunctionSetUp ==
    \A i \in PoolThreads : stage[i] = "calling" =>
        running[i] # NULL /\ pt[running[i]] = i
=============================================================================
