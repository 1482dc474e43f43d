# CLDC HotSpot VM: the scheduler and its monitors in TLA+

The repository is a Java virtual machine for small devices (CLDC).  It runs all Java threads as
green threads on one thread of the operating system.  This project models the parts of the VM where
order matters most: the scheduler with the Java monitors and its Run queues, tasks (isolates) and what
starting, suspending and stopping them does to the threads in the scheduler's lists, the pool of native
threads behind blocking native methods, `java.util.Timer`, and the linking of compiled code with its direct
virtual calls.  It model-checks them with
TLC on small instances and proves their most important properties with TLAPS for all instances.
Paths are relative to `src/src/` of the repository.

## 1. Inventory

| Component | State | Operations | Interacts with |
|---|---|---|---|
| Scheduler (`vm/share/runtime/Scheduler.cpp`) | Run queues (one circular list per priority), waiting list (sleep queue and one list per object waited on), asynchronous list, `_next_runnable_thread`, `_timer_has_ticked` | `start`, `terminate`, `wait`, `wait_for`, `notify`, `notify_wakeup`, `yield`, `wake_up_timed_out_sleepers`, `sleep_current_thread`, `interrupt_thread`, `block_current_thread`, `unblock_thread`, `set_priority`, `switch_thread`, suspend and resume of tasks | Synchronizer (both directions), natives, interpreter, event library |
| Synchronizer (`vm/share/runtime/Synchronizer.cpp`) | stack locks on the Java stacks: owner thread, saved near, first waiter; table of proxy locks for interned strings | `enter`, `exit`, `unlock_stack_lock`, `signal_waiters`, `get_lock_object_ref`, `release_lock_object_ref` | Scheduler, interpreter, compiled code |
| Threads (`vm/share/runtime/Thread.cpp`, `handles/ThreadObj.cpp`, `natives/Natives.cpp`) | current thread, pending exceptions, interrupt flag, state of the Thread object | `start`, `finish`, `lightweight_thread_exit`, `timer_tick`, natives of Object and Thread | Scheduler |
| Interpreter (`vm/cpu/c/Interpreter_c.cpp`, assembler generators of the other processors, `interpreter/InterpreterRuntime.cpp`) | Java frames, stack locks in them, `async_redo` of native calls | byte codes, `lock_object`, `unlock_object`, thread switch after calls of the VM | Scheduler, Synchronizer |
| Run queues (in Scheduler) | `_priority_queue_valid`, `_thread_execute_counts`, `_last_priority_queue`, the same per task | `get_next_runnable_thread`, `adjust_priority_list`, `add_to_active`, `remove_from_active` | yield, setPriority |
| Tasks and isolates (`runtime/Task.cpp`, `runtime/IsolateObj.cpp`, `isolate/IsolateNatives.cpp`, `Isolate.java`) | task list, status with its suspend bit, `_is_terminating`, number of threads, queue of suspended threads | start, suspend, resume, stop, wait for exit, end of the last thread | Scheduler (all its lists), Synchronizer, unwinding of stacks (`Frame.cpp`) |
| ANI (`anilib/share/ani.cpp`, `poolthread.cpp`, `linux/os_port.cpp`) | pool of OS threads with their flags, functions and events; number of Java threads that wait for one | allocate, hand over, execute, signal, look for finished calls, release | block and unblock of Java threads |
| Semaphore (`runtime/Semaphore.cpp`) | permits | acquire, release | wait and notify of Scheduler |
| Timer (`javaapi/cldc1.1.1/java/util/Timer.java`) | heap of tasks, count of tasks on the user clock, timer thread | sched, cancel, main loop, correction for the user clock | Object.wait and notify, Thread.isAlive, the clocks |
| Class initialization (`javaapi/cldc1.1/java/lang/Class.java`, `handles/InstanceClass.cpp`) | status, initializing thread, bitmap of overridden methods | initialize, `init9`, `update_vtable_bitmaps` | monitors, compiled code |
| Adaptive compiler (`compiler/Compiler.cpp`, `handles/Method.cpp`, `runtime/Frame.cpp`) | execution entry of each method, suspended compilation, records of direct callers, interpretation log | `on_timer_tick`, `compile`, `resume_compilation`, `add_direct_caller`, `unlink_direct_callers`, `uncommon_trap`, `deoptimize`, `osr_replace_frame` | Java frames, class initialization, compiled method cache |
| Compiled method cache (`memory/CompiledMethodCache.cpp`) | items by index, weights, locks of the items that run | `alloc`, `insert`, `evict`, `evict_underweight`, `on_timer_tick` | compiler, heap |
| DeadlockFinder (`runtime/DeadlockFinder.cpp`) | wait graph built on demand | find | lists of Scheduler |
| Heap, code generators, verifier, class file parser, ROMizer, debugger, OS ports | | | see section 7 |

What is hard in this code:

* the lists are intrusive: one link field (`next`) serves the Run queue (circular), the sleep queue
  and the wait lists, another (`next_waiting`) the heads of the wait lists and the queue of a lock.
  Every thread must be in exactly one list, or links of one list are followed in another;
* `Scheduler` and `Synchronizer` call each other: waking a waiter enters its monitor, entering a
  taken monitor waits, and waiting yields, which wakes waiters;
* notify, time-out, interrupt, a release of the lock and the death of a thread may meet in any order;
* nothing but `yield` notices that time has passed, and only `yield` decides that nothing will
  ever happen;
* stopping a task has to find its threads in five kinds of lists, and the locks they hold or queue for,
  from a single native call;
* the pool threads of ANI are real threads that share plain fields with the VM without a lock;
* compiled code is linked to its method, running in frames, and cached, and each of the three changes without the others; what it
  assumes of the classes may become wrong at any time between two ticks, also while it is being compiled;
* the thread of a timer comes and goes, while tasks are added by threads that only ask whether it is alive; and its heap has keys of two
  clocks, of which one may be set.

What makes each component correct:

* *Scheduler*: each live thread in exactly one list, once; every waiter found from its object; waits
  end for a reason and timed waits end; yield returns when a thread can run; the VM gives up only when
  nothing can happen; no `GUARANTEE` fails.
* *Synchronizer*: one owner; a runnable thread owns what it has locked, also after a wait; a released
  lock goes to the oldest thread that queues; no free lock with a queue.
* *Run queues*: a thread is in the queue of its priority; bit mask and cache agree with the queues; a
  runnable thread is found when there is one; priority is respected up to the quotas, and nobody starves.
* *Tasks*: a suspended task runs no thread; all threads of a stopped one can run to their end, and none is lost; the
  end of a task is noticed by those who wait for it.
* *ANI*: a pool thread serves one call; a method goes on with its result; no completion is missed; callers that wait for a
  pool thread are counted.
* *Timer*: the queue is a heap, so that the earliest task that is due is run, unless it has been cancelled; one thread serves; no wait lasts beyond the
  time of a task; a queued task has a thread that will look at it.

* *Compiled code*: what is linked, or about to be, makes no direct call of an overridden method; what is linked or runs is not
  evicted; a suspended compilation finds its place when it ends.

The list of hazards in `PROJECT.json` names each of these places by line, with the properties that
cover it or the reason why none does.

## 2. Plan

All steps below are done, in this order; each module came with its run before its proofs.

1. `Scheduler` (with `Synchronizer` and the thread natives), its abstract specification
   `JavaMonitor`, the refinement, the inductive invariant and its proof.
2. `RunQueue`: the priority queues with `get_next_runnable_thread`, quotas and `setPriority`, for one
   task, and their proofs.
3. `Timer`, a client of `Object.wait` and `notify`, and its proofs, those about the heap last.
4. `ANIPool`, with real threads, and its proofs.
5. `Tasks`: what the operations on tasks do to the lists of the scheduler, and its proofs.
6. `CompiledCode`: compiling, linking, evicting and unlinking while frames run and classes are initialized, and its proofs.

`Scheduler` is composed of the scheduler and the synchronizer, which call each other; `JavaMonitor` is what it
promises.  `RunQueue` refines the one choice `Scheduler` leaves open.  `Tasks` is the build with isolates: it
takes lists as sets, so that all lists fit into one model, and leaves their order to the other two.  `ANIPool` stands behind
`BlockCurrentThread` and `UnblockThread` of `Scheduler` and `Tasks`.  `CompiledCode` meets the scheduler only at ticks, where threads
change: it lets any thread go on between any two of its steps.

What could come next is in section 7.

## 3. Modules

| Module | Content |
|---|---|
| `Scheduler` | state, actions, properties and fairness of scheduler and monitors |
| `SchedulerInvariant` | the inductive invariants: `SchedulerInv` (lists and locks), `WakeUpInv` (with the clock), `WholeInv` (with what a VM that stops has come to), and `CursorInv` of the wake-up loop |
| `JavaMonitor` | what a Java program is promised of a monitor, and of the end of a thread that others join, without queues and scheduler |
| `MonitorRefinement` | the refinement mapping (`EntryCounts`, `BlockedThreads`, `WaitSets`, `TimedThreads`, `EndedThreads`), `ImplementsJavaMonitor` |
| `MCScheduler` | model values and symmetry for TLC |
| `RunQueue` | the choice of the next thread: queues by priority, turns, quotas, cache |
| `MCRunQueue` | model values for TLC |
| `RunQueueProofs` | the proofs about `RunQueue` |
| `Lists` | unlinking, used by `Scheduler` and `RunQueue` |
| `ListLemmas` | facts on lists, without reference to the VM |
| `SchedulerProofs` | the proofs of the invariants of `Scheduler` on lists, locks and stopping |
| `SchedulerStepProofs` | the proofs of what no step may do, of the refinement and of the wake-up loop |
| `Tasks` | tasks, and the threads of each in the lists of the scheduler |
| `MCTasks`, `TasksProofs` | an instance for TLC; the proofs about `Tasks` |
| `ANIPool` | native methods that block, the pool of threads behind them, their events |
| `MCANIPool`, `ANIPoolProofs` | an instance for TLC; the proofs about `ANIPool` |
| `Timer` | `java.util.Timer`: heap of tasks, timer threads, clocks |
| `MCTimer`, `TimerProofs` | an instance for TLC; the proofs about `Timer` |
| `CompiledCode` | compiled code of methods: linked, running, cached, suspended, unlinked when a class overrides what it calls |
| `MCCompiledCode`, `CompiledCodeProofs` | an instance for TLC; the proofs about `CompiledCode` |

### State and code

| Variable | Code |
|---|---|
| `current` | `Thread::current()` |
| `life` | `ThreadObj`: unstarted, alive, terminated (`set_terminated`); `gone` after `Scheduler::terminate` |
| `active` | the threads of all Run queues; which one runs next is left open |
| `sleeping` | `scheduler_waiting()._next...`, the sleep queue at the front of the waiting list |
| `chain`, `waiters` | the waiting list: `next_waiting` links the first waiters of the objects (`chain`), `next` the waiters of one object (`waiters`) |
| `async`, `async_redo` | `scheduler_async`, `Thread::async_redo` |
| `locks` | the stack locks in the frames of a thread, innermost last |
| `owner`, `entry` | the `StackLock` an object's near points to: its thread and its `waiters`, linked by `next_waiting` |
| `wait_obj`, `timer` | `Thread::wait_obj`, `Thread::wakeup_time` |
| `pending_exception`, `pending_interrupt` | the `InterruptedException` of `noncurrent_pending_exception`, the flag of the thread object |
| `frames` | the calls of `Scheduler::yield` in progress with the local variables of `wake_up_timed_out_sleepers` |

Each native, byte code or handler of the VM that is entered from Java is one action (`MonitorEnter`,
`MonitorExit`, `ObjectWait`, `Notify`, `NotifyAll`, `StartThread`, `Sleep`, `Yield`,
`BlockCurrentThread`, `RedoNativeMethod`, `Interrupt`, `ThrowPendingException`, `FinishThread`,
`TerminateThread`), up to the call of `yield` if it makes one: the VM is not interrupted in between.
`yield` itself is a sequence of steps, since events and the clock come in between and since it can call
itself: poll events, read the clock, walk the lists (`NextList`, `SkipThread`, `WakeThread`), wait for an
event (`GoIdle`, `WakeFromIdle`), return.  A step of the walk keeps the local variables `this_thread`
and `next_waiting` of the code.  `next_thread` is read when `this_thread` is handled.

The end of a thread is no call of Java code: `Thread::finish` marks the Thread object and notifies those that join the thread, with
`must_be_owner` false (`Thread.cpp:458`), since it does not hold the lock.  So `FinishThread` wakes them whoever owns the lock
(`WakeJoining`): they queue for it behind its owner, or, when it is free, the oldest takes it and the others queue behind that one
(`WakeOnFreeLock`).  `Finish` is this step in `JavaMonitor`: all that wait for the Thread object return, and no holder is needed.

`RunQueue` refines one choice of `Scheduler`, `current' \in active` in `SwitchThread`, and abstracts from the rest: why a thread
starts or stops being runnable is left to `Scheduler`, here it happens whenever the VM allows it.  Only the current thread leaves the
queues, on its way to `yield`; any other may join them at any time, also inside `yield`, which notices timers and events.

| Variable of `RunQueue` | Code |
|---|---|
| `phase` | Java code runs, or the VM is in `Scheduler::yield` before its search, or in its waiting loop |
| `priority` | `ThreadObj::priority` |
| `queue` | `Universe::scheduler_priority_queues`; the head is the thread the array refers to |
| `valid`, `count`, `last` | `_priority_queue_valid` (the bits set), `_thread_execute_counts`, `_last_priority_queue` |
| `next` | the cache `_next_runnable_thread` |

`Activate`, `LeaveActive` and `SetPriority` are `adjust_priority_list` and `set_priority`; `YieldSearch`, `Resume` and `FillCache` are the
calls of `get_next_runnable_thread` that do not take the cached thread, with the search in `Search`.  `setPriority` is one step: between the
read of the field in `Thread.java` and the write after the native method there is neither a method entry nor a backward branch, where ticks
are noticed, and the native method is a quick one.

| Variable of `Tasks` | Code |
|---|---|
| `status`, `suspendBit` | `Task::_status` without and with `SUSPEND_STATUS`; a task without a `Task` object is new or stopped |
| `terminating`, `threadCount` | `Task::_is_terminating`, `Task::_thread_count` |
| `active`, `suspendQueue`, `asynchronous`, `waiting` | the priority queues of all tasks, `suspend_task_queue`, `scheduler_async`, the wait lists with the sleep queue |
| `waitObj`, `owner`, `waiters` | `Thread::wait_obj`, the `StackLock` of an object: its thread and its waiters |
| `starting` | Isolate objects whose `start()` has looked at the status and not yet called `nativeStart` |
| `exiting` | the current thread between its last Java code and `lightweight_thread_exit`: an uncaught exception, or all frames gone |

A native method is one step of the current thread.  `StopTask` is `Task::stop` with `wake_up_terminated_sleepers`:
waiting threads are woken and may queue for locks, threads in native methods and suspended ones become active, and those still queued
for a lock lose their place and become active without it.  A thread of a stopped task then only unwinds (`Terminated`), giving up its locks,
and ends (`EndThread`); the last one ends the task and notifies those that wait for its exit.  `HandleUncaught` has the three answers of
`JVMSPI_HandleUncaughtException`.  `NativeStart` has the failure of `start_task`.

| Variable of `ANIPool` | Code |
|---|---|
| `at`, `pt` | where the native method of a Java thread is; `ANI_BlockingInfo.pt` |
| `waiter_count` | the static counter of `ani.cpp` |
| `used`, `idle`, `function`, `execute_event` | the fields of `PoolThread` |
| `stage`, `running` | the program counter of `PoolThread_Run` and the function it has called |
| `finished_event` | `thread_finished_event.signaled`, which a failed wait decrements below zero |
| `vm`, `scanned` | Java code runs, the VM waits in `JVMSPI_CheckEvents`, or looks at the pool threads one by one |

The VM's thread is one process, each pool thread another.  A step of a pool thread writes at most one field the VM reads: `Finish` sets
`is_idle`, `ClearFunction` clears `function`, `SignalFinished` signals.

| Variable of `Timer` | Code |
|---|---|
| `queue`, `task` | `TaskQueue.queue[1..size]`, a heap; the fields of each `TimerTask` |
| `userClockTaskCount`, `newTasksMayBeScheduled`, `thread` | the fields of that name |
| `pc`, `deadline`, `firing` | where each timer thread is, when its `queue.wait` times out, the task it runs |
| `now`, `userClock`, `userClockOffset` | `monotonicTimeMillis()`, the system's user clock relative to it, what `Timer` knows of that |

A block synchronized on the queue is one step (`Sched`, `Cancel`, `Look`); `wait` ends it.  The end of the loop (`exit`) and the death of the thread (`Die`)
are steps of their own: `isAlive` is true in between.
`Reordered` is the repair of the heap in `checkUserClockChange`: the loop goes over all nodes, forwards or backwards by the sign of the skew, and
calls `fixUp` or `fixDown` for the tasks on the user clock only (`PromoteUser`, `DemoteUser`); `Shifted` has the new times.

| Variable of `CompiledCode` | Code |
|---|---|
| `entry` | `Method::execution_entry`: code, the interpreter, `shared_invoke_compiler` ("compiler"), the interpreter for ever ("fixed", `set_impossible_to_compile`) |
| `item` | `CompiledMethodCache::Map`: the method of a `CompiledMethod` and the virtual calls its code makes directly |
| `frames` | the Java frames of a thread: the method, and the code it runs (`NoCode`: the interpreter) |
| `compiling` | the suspended compilation, `CompilerState` with its queue (`todo`: the calls not compiled yet) |
| `directCallers`, `overridden` | `Task::direct_callers`, the bits of the vtable bitmaps |
| `status` | of a class: linked, in `<clinit>`, initialized, in error |
| `ticking` | the thread that enters a method through `shared_invoke_compiler`, which fakes a tick |

A tick is one step: `process_interpretation_log`, `CompiledMethodCache::on_timer_tick` and then, unless the compiler abstains, a slice of
a compilation (`CompileSlice`), which is suspended, ends (`Finish`) or fails.  To start one, room is made first by eviction (`X`).
`FinishInitialization` is `init9`: `update_vtable_bitmaps` calls `unlink_direct_callers` for each method that is overridden for the first time.
`Throw` is the end of `find_exception_frame`, with its `deoptimize` and `osr_replace_frame`.

Abstractions of `Scheduler` and `RunQueue`:

* *The build*: one VM task (`ENABLE_ISOLATES` off), master mode (the VM owns the OS thread), no debugger.
* *Time*: a wake-up time is absent, in the future or reached.  Only those of waiting threads are followed,
  which are the only ones the code reads.
* *Data*: objects are model values; locks on interned strings, which go through a proxy, are left out.
  So are failures of allocation.
* *Programs* do anything in any order, except that monitors are released innermost first, as compiled
  Java code does, and that a thread ends with no monitor: its frames are gone.  Nested stack locks are bounded by `MaxNest`.
* *Priorities*: `SwitchThread` may take any active thread.  What holds then holds for every choice of the Run
  queues, but starvation cannot be seen here.
* `JVMSPI_CheckEvents` is not in `vm/share`: it may report a blocked thread whenever the VM asks.
* The link field `next` of an active thread leads to some thread of its circle: `NextLinks` gives all
  active threads, so the walk is right or wrong for each of them.

Abstractions of the others:

* `Tasks`: monitors belong to the threads of one task, as the code assumes ("monitors are Task private", `Scheduler.cpp:1052`);
  one Isolate object stands for an isolate; any active thread may be next.  `check_blocked_threads` inside stop is an
  `UnblockThread` before it.  Cleaning up class initialization and memory is left out.
* `ANIPool`: a call is its Java thread; what its function does is left out, but not whether it has been executed.  Spawning a pool
  thread is part of the step that allocates it, or fails.  A Java thread that is killed while it is blocked is left out.
* `Timer`: one timer.  `TimerTask.run` returns, throws an `Exception` or throws something else.  `SKEW_THRESHOLD` is less than a unit of time.
* `CompiledCode`: a method is the set of methods it calls virtually; a call is compiled directly or not whatever else is known of the receiver, if the
  method is not overridden.  Inlined leaf methods are direct calls.  Any code that does not run may be evicted: weights decide in the program.  Each
  class overrides methods of a class that is initialized already and has no subclass, as `VTable` says; the frames of `Class.initialize` itself are left out,
  any thread may start, fail or finish an initialization that is due.  Code shared between tasks, handles to code on the C stack and the debugger's
  unlinking are left out.

## 4. What the runs check

Bounds.  *Scheduler*: three threads, one or two objects.  Three threads are the least for a queue with an order (owner and two
waiters), and for the re-entrant wake-up (the current thread, the new owner of its lock and the
thread woken inside).  Two objects are the least for a chain of wait lists, nested different locks and locks kept over
a wait.  `MaxNest = 2` gives re-entered locks and pairs of locks.  *Run queues*: three priorities are the least with one
above and one below another, and three threads the least for two in one queue and one outside; the quotas are the code's, `2 * p`.
*Timer*: three tasks give a heap with two children, one of each kind of repetition, two on the user clock and one not; two timer threads, one to die and
one to come.  Time runs to 2 and the user clock is at most 1 ahead, so that it can be set forwards and back while a task is queued; the
time-outs are one unit each, so that both kinds of wait end before and after tasks are due.  *ANI*: three callers and two pool threads, so
that somebody waits; no call is handed over while `MaxSignals` signals are pending, and the event falls at most `MaxOverdraft` below zero.  *Tasks*: two
tasks of two threads each, two objects of the second task, one of which is a joined Thread object, and the Isolate object, used by the first.
*Compiled code*: a method and one that overrides it, each calling the first; two threads with at most `MaxFrames = 2` frames each are the least for two frames
of one method, on one stack or on two, in the same code or in old and new code; two places for code, so that the cache is full while a compilation is suspended.

| Run | Instance | Shows |
|---|---|---|
| `one_monitor` | one object, the Thread object of t1, so that t1 ends while its lock is free or taken; all kinds of calls: t1 sleeps and interrupts, t2 calls blocking natives, all wait with and without time-out; `FairSpec` | `NoGuaranteeFails` (the wake-up loop never goes on at a thread that has left its list), `StopsOnlyWhenStuck`, `FifoHandOver`, `NoSpuriousWakeUp`; `TimedWaitsEnd` and `YieldEnds` under fairness |
| `two_monitors` | two objects, nested locks, all threads sleep, wait and interrupt; symmetric threads and objects | `WholeInv` (the inductive invariant of the proofs, with the types), `RunnableOwnsItsLocks`, `WaitersImplyLocked`, `OneListPerThread`, `WaitListsFound`; `ImplementsJavaMonitor`: refinement of the abstract monitors |
| `priorities` | three priorities, two threads may change anybody's; `FairSpec` | `InQueueOfItsPriority`, `BitsTellQueues`, `CacheIsRunnable`, `FindsThread`, `HigherPriorityFirst`; `AllTakeTurns`: all runnable threads run again and again while nobody enters or leaves a queue |
| `timer` | as above; `FairSpec` | `TypeOK`, `UserClockTasksCounted`, `OneThreadServes`, `CancelledTimerIsEmpty`; `HeapKept`: nothing but a correction of the user clock that moves some queued tasks and not others (`MixedCorrection`) breaks the heap; `NoTaskIsOverslept`: the first task never is, and in a heap none is; `RunsTheEarliestDue`: what runs is due and not cancelled, and while the queue is a heap it is the earliest; `LoopMeetsItsTasks`: while a thread is in its loop and the queue stays a heap every task is met |
| `ani_pool` | as above; `FairSpec` | `PoolThreadServesOneCall`, `ReentersWithResult`, `WaitersCounted`, `CompletionWillBeSeen`; `EveryCallGoesOn`: every call handed over is entered again, unless a wait fails or the VM crashes |
| `tasks` | as above | `ThreadsAccountedFor` (every live thread in one list, and counted by its task), `StoppingThreadsRun`, `SuspendedTasksRest`, `ExitIsSeen` |
| `compiled_code` | as above; symmetric threads and places for code | `LinkedCodeIsValid`, `SuspendedCodeIsValid`, `CodeInUseIsCached`, `OverriddenHasNoDirectCallers`, `CompiledOnce` |
| `stale_wake_up_cursor` | two objects, timed waits | *violated*: `NoGuaranteeFails` |
| `heap_broken_by_clock` | as `timer` | *violated*: `QueueIsHeap` |
| `timer_task_lost` | as `timer` | *violated*: `QueueIsServed` |
| `function_cleared_late` | as `ani_pool` | *violated*: `ExecutesFunctionSetUp` |
| `stale_direct_calls` | as `compiled_code` | *violated*: `RunningCodeIsValid` |

A VM that has stopped stutters in `Scheduler` (`Stopped`), so that TLC's deadlock check stays on there and for `RunQueue` and `CompiledCode`, and says
that no other state is without a step.  It is off for the other three, which really may stop: a timer at `MaxTime` with nothing to do, a VM that a null
function has crashed, two tasks whose threads have all ended or wait for each other.

The type invariants and `IndexIsReserved` of `CompiledCode` are proved (section 6); of the former only that of `Timer`, and that of `Scheduler` as
part of `WholeInv`, are run again.  The symmetric runs check safety only.  Each property has a faulty variant of the code
(`mutants` in `PROJECT.json`, the operators marked "faulty") that breaks it.

**Fairness.**  The VM goes on executing `yield` once it is called (`WF(YieldStep)`): it is straight code
on one thread.  The current thread, whatever its program does, meets a timer tick sooner or
later (`WF(Yield)`): `real_time_tick` sets the tick flag and every method entry and backward branch tests it.  Time
passes (`WF(Expire(t))`).  Programs owe nothing: they need not release monitors, notify or end.  Nor do native
events.  For `RunQueue` it is the same: `WF(Tick)`, `WF(YieldSearch)`, `WF(Resume)`.
Hence `TimedWaitsEnd` says that a timed waiter leaves the wait list, not that it gets the lock.
For `Timer`, the scheduler runs the timer thread again and again (`WF(ThreadStep(w))`, what `AllTakeTurns` says of threads that do not
come and go) and `WF(Tick)`.  For `ANIPool`, the operating system runs each pool thread and the functions they execute return
(`WF(PoolThreadStep(i))`), and the VM, whether Java threads run or not, looks for events again and again (`WF(VMStep)`), since `yield` does so at each
tick and when it waits.  Nothing is owed by the native methods of other threads.  `tasks` assumes no fairness and checks safety: whether a stopped
task ends depends on the choice of threads, the subject of `RunQueue`; `StoppingThreadsRun` says that nothing else is needed.

## 5. What the runs found

* `stale_wake_up_cursor`.  `wake_up_timed_out_sleepers` keeps `next_waiting` and `next_thread` over
  `notify_wakeup` (`Scheduler.cpp:698-715`).  When the thread it wakes is the current one, still inside the
  `yield` of its own `wait`, and its lock has been taken, `Synchronizer::enter` calls `wait_for`, which yields (`:920-921`);
  the inner call walks the same lists and may wake the very threads the outer call has remembered.  The outer call then removes a
  thread from a wait list it is not in: "Waiting thread not in list" (`:514`, `:542`).  With a single monitor this
  cannot happen, as `one_monitor` shows.
* `heap_broken_by_clock`.  `Timer.java:581` states the order of the heap.  When the user clock has been set, `checkUserClockChange` (`:755-771`) corrects
  the times of the tasks on that clock and calls `fixUp` for those that get due later, `fixDown` for those that get due earlier: the wrong
  way round, since a task that is due later can only be wrong with its children, one that is due earlier with its parent.  In a heap the
  two loops move nothing (`CorrectionMovesNothing`, section 6).  That does no harm when all tasks are on the user clock.  When some are not, a task stays
  above an earlier one: the main loop, which looks at the first only, sleeps until the later one is due.  `timer` shows that this is the only way to break
  the heap, and what still holds when it is broken.
* `timer_task_lost`.  A comment in `TimerThread.run` (`Timer.java:487`) says that a thread that has timed out is restarted by `sched`.  `sched` asks
  `isAlive` (`:350`), which is true until the thread has really ended: a task scheduled between the `break` of `:518` and that moment is queued
  and no thread looks at the queue, until some later call of `sched` finds the thread dead.
* `function_cleared_late`.  `PoolThread_Run` sets `is_idle` and then clears `function` (`poolthread.cpp:164-165`).  In between the VM, woken by the signal
  of another pool thread, can unblock the caller, release the pool thread and hand it the next function, which is then cleared and
  called through a null pointer.  `ReentersWithResult` holds all the same: the caller of the first call has its result.
* `stale_direct_calls`.  `unlink_direct_callers` means to deoptimize all frames of direct callers (`Method.cpp:677`), but finds only frames in the
  code their method is linked to now (`:701-704`).  After `uncommon_trap` has unlinked code, or newer code has replaced it, other frames go on in the old
  code, and are missed when a method they call directly is overridden.

Five more places where a comment and the code differ came up while the code was translated.  The models follow the code there; no run is about them.

* `add_to_list` and `adjust_priority_list` mean to avoid starvation (`Scheduler.cpp:224`, `:283`).  But the head of a queue moves on only when
  the thread that yields is that head (`:2245`).  When the head is preempted by a thread of higher priority and that one waits again, the same
  head runs again, and the threads behind it do not move up.  A thread that sleeps for less than a tick wakes at each tick, since timers are noticed in
  `yield` only: of two busy threads of one priority below it one never runs.  The quotas do not help, because the counts of all queues are reset
  whenever the only queue with threads has used up its quota.  This is why `AllTakeTurns` is about threads that neither enter nor leave a queue.
* A comment (`Thread.cpp:296`) says that a dying thread either finds another thread to run or was the last one.  When the others wait without
  time-out neither is so, and the VM exits (`Scheduler`: `status` becomes "exited" with threads alive).
* `Isolate.suspend` promises to have an effect on started isolates only (`Isolate.java:851`).  `suspend0` suspends any task
  that exists (`IsolateNatives.cpp:216`), also one that has been stopped: its threads go to the suspend queue, and the isolate does not end until it
  is resumed (`Tasks`: `StoppingThreadsRun` makes the exception).  `JVM_SuspendIsolate` does check the status (`Task.cpp:787`).
* `update_vtable_bitmaps` speaks of "the loaded class" (`InstanceClass.cpp:1090`), but runs in `init9`, after `<clinit>`
  (`Class.java:385-392`).  Instances of the class can exist before, and for ever if `<clinit>` throws (`CompiledCode`: `Instantiable`); code with direct
  calls passes their methods by.
* In Thumb builds `CompiledMethodCache::on_timer_tick` restores the entry of the method of each item of the cache (`:296-308`), whether a sensor update
  or `unlink_compiled_code` has changed it: the next tick undoes what `unlink_direct_callers` has done (`Method.cpp:730`).  `CompiledCode` is of
  the other builds, where this code is left out.

## 6. What is proved

`SchedulerProofs` and `SchedulerStepProofs` prove, for every set of threads and objects and every `MaxNest`, from `ConstantsAssumption` only (the
null references are no thread and no object, a Thread object belongs to one thread):

| Theorem | Statement |
|---|---|
| `Invariance` | `Spec => []SchedulerInv` |
| `TypeCorrect` | the types, and that `yield` nests at most once |
| `LockOwnership` | `Spec => []RunnableOwnsItsLocks`: mutual exclusion, also after waits |
| `NoFreeLockQueuedFor` | `Spec => []WaitersImplyLocked` |
| `NoThreadLost` | `Spec => []OneListPerThread` |
| `WaitersAreFound` | `Spec => []WaitListsFound` |
| `StopsStuck` | `Spec => []StopsOnlyWhenStuck`: the VM gives up only when nothing can happen any more |
| `WholeInvariance` | `Spec => []WholeInv` (by way of `WakeUpInvariance` and `StoppingInvariance`) |
| `QueueOrder` | `Spec => FifoHandOver`: nobody overtakes in the queue of a lock |
| `WaitsEndForAReason` | `Spec => NoSpuriousWakeUp`: notified by the owner, interrupted, timed out, or the joined thread has ended |
| `MonitorsImplemented` | `Spec => ImplementsJavaMonitor`: the refinement of `JavaMonitor` |
| `GuaranteesHoldForOneObject` | `Objects = {obj}` implies `Spec => []NoGuaranteeFails` |
| `GuaranteesHoldUnlessPending` | `Spec /\ []NothingPending => []NoGuaranteeFails` |

The argument.  None of these properties is inductive.  That a runnable thread owns its locks after a wait depends on
its being in a list of the lock while it waits; that it is woken only out of that list depends on `wait_obj` naming the list; that
`notify` leaves no thread in two lists depends on each list having it once.  `SchedulerInv` says these together,
thread by thread: `QueueTellsWaitObj` (`wait_obj` is set exactly while the thread is in the wait list or the lock queue of that
object), `NoDuplicates`, `OnePlace` (runs, blocked, sleeps or waits, and only one of them),
`ChainTellsWaiters`, `LocksHeld` (a monitor a thread has locked is its own unless it waits for it) and `WaitersImplyLocked`.
`OneNestedYield` is needed for the types: a call of `yield` can nest only while the current thread is in a wait list, and the nested call
is made after it has left it.  There is one lemma per action (`...Keeps`), `NextKeeps` combines them, and the
theorems follow by temporal reasoning.  `RemoveAndWakeUpKeeps` is the heart: time-out and interrupt.  `FreeLockKeeps` is the case of joining
threads that find a free lock: one of them gets it and the others get into its queue at once.
`ListLemmas` says which members `Append`, `Tail`, `Front`, unlinking and splicing leave; the library has no such facts on
`RemoveAt` and `ToSet` that the provers can use directly.

The action properties follow step by step.  An owner changes only in `LockObject`, `UnlockObject` and `WakeOnFreeLock`, and the first and the last find no
queue (`WaitersImplyLocked`); hence `QueueOrder`.  A waiter leaves its list by `notify` of the owner, by the end of the thread it joins, by
`interrupt` or in `WakeThread`.  The last is the hard case: the loop wakes a thread because its wake-up time had been reached when this call of `yield` read the
clock, but a nested call may have woken it since, and the thread may wait again.  `DueTimersReached` says that what a call
remembers is never ahead of the clock: whoever is woken has lost its wake-up time, and only the running thread sets a new one, which it cannot
while a call of `yield` is in progress.  `WakeUpInv` adds this to `SchedulerInv`.

*Stopping* (`StopsStuck`).  The code looks at the queues of threads and at wake-up times (`wait_for_event_or_timer`), not at locks.  That a VM which
finds nothing there is stuck needs to be known of the locks: whoever owns one has a stack lock on it (`OwnersHaveLocked`), only threads that are
alive have stack locks (`OnlyLiveThreadsAct`), hence the owner is in some list, and it can only be one in which threads wait for an object: nobody is active
or blocked, and whoever sleeps has a wake-up time (`SleepersHaveTimes`).  `RunningThreadIsActive` keeps these: locks are taken and released only by a
thread that is on a priority queue.  `StoppingInv` joins them, and is inductive together with `SchedulerInv`.

*Refinement* (`MonitorsImplemented`).  A Java program sees of a monitor its owner, how often a thread has entered it (the stack locks on it,
counted by `Occurrences`), the threads that block on it, its wait set and those of them that wait for a time.  Each action of `Scheduler` is, under the
mapping, one step of `JavaMonitor` or none: `EnterMaps`, `ExitMaps`, `WaitMaps`, `NotifyMaps`, `FinishMaps` for the end of a thread, and `WakeUpMaps` for time-outs and interrupts, joined by
`ProgramMaps` (calls of the program) and `YieldMaps` (the steps inside `yield`).  What the lists and links do beside that is not seen (`UnseenStep`).  The mapping
needs the invariant: `NotifyMaps` and `WakeUpMaps` move exactly one thread out of the wait set because lists have it once and `wait_obj` names the list;
after `ReleaseMaps` the new owner blocks no more because it was in the queue once; and the current thread, which acts, is not dead, and waits for and blocks on nothing (`FreeThread`).  `FreeLockMaps` is the case of joining
threads that find the lock free: one becomes its holder, the others block, as `Wake` of `JavaMonitor` says.

*The wake-up loop* (`GuaranteesHold...`).  `remove_waiting_thread` must find the thread the loop has come to.  `NoGuaranteeFails` is false for
several objects (section 5), so the question is what exactly goes wrong.  `CursorInv` says where a call of `yield` may stand: in the sleep queue, in a wait list, or at a
thread that a nested call has put in the queue for a lock; and that `next_waiting` leads into another list.  One case breaks it: a suspended
call remembers `next_waiting`, and the nested call wakes that thread.  `NothingPending` says that no suspended call remembers one, and with it `CursorInv` is
inductive (`StepKeepsCursors`) and implies `NoGuaranteeFails` (`CursorIsRemovable`).  With all threads on one object there is no other list, hence
`NothingPending` holds by itself (`OneObjectNothingPending`).

`RunQueueProofs` proves about `RunQueue`, for every set of threads and every number of priorities, from `QueueAssumption` only:

| Theorem | Statement |
|---|---|
| `QueueInvariance` | `Spec => []QueueInv`, the conjunction of `TypeOK` and the next three, inductive as it stands |
| `QueueTypeCorrect` | `Spec => []TypeOK`: the counts stay within the quota and one |
| `QueuedByPriority`, `BitsAgree`, `CacheAgrees` | `Spec => []InQueueOfItsPriority`, `Spec => []BitsTellQueues`, `Spec => []CacheIsRunnable` |
| `SearchIsComplete` | `Spec => FindsThread` |
| `PriorityOrder` | `Spec => HigherPriorityFirst` |

The queue of the current thread is found because its field and its queue agree; the start of the search hides no queue (`FilledQueues`)
because the bits tell exactly the queues with threads; hence the search finds a thread when there is one (`SearchFinds`).  `Highest` is a set, not
a choice: that there is a highest queue is not needed.

`TasksProofs` proves about `Tasks`, for any tasks, threads and objects, from `TasksAssumption` (threads and objects belong to one task each, an
isolate has one Isolate object, there are finitely many threads):

| Theorem | Statement |
|---|---|
| `TasksInvariance` | `Spec => []IInv` |
| `TasksTypeCorrect` | `Spec => []TypeOK`: among others, no count of threads becomes negative |
| `NoThreadIsLost` | `Spec => []ThreadsAccountedFor` |
| `StoppedThreadsRun` | `Spec => []StoppingThreadsRun` |
| `SuspendedRest` | `Spec => []SuspendedTasksRest` |
| `ExitsAreSeen` | `Spec => []ExitIsSeen` |

The invariant has two halves.  `ListInv` says where threads are: each live one in one list, and a thread that waits on, queues for or
owns an object belongs to the task of that object.  `TaskInv` says what the status of a task means for its threads: it counts its live
threads (`Counted`), only started and stopping tasks have any, a thread in the suspend queue belongs to a suspended task, and a
terminating task that is not suspended has all its threads active.  Both halves are needed at once: `signal_waiters` makes an heir active without looking at
its task, which is right only because the thread that gives the lock up runs, hence its task is not suspended, and the heir is of the same
task; and `StopTask` clears the queues of locks that threads of *one* task queue for.  `WakeupEffect` and `ReleaseEffect` say what the two ways of moving other
threads do; each action has one lemma for the lists and one for the tasks.

`ANIPoolProofs` proves about `ANIPool`, for any callers and any size of the pool, from `PoolAssumption`:

| Theorem | Statement |
|---|---|
| `PoolInvariance`, `TypeCorrect` | `Spec => []PoolInv`, `Spec => []TypeOK` |
| `OneCallPerPoolThread` | `Spec => []PoolThreadServesOneCall` |
| `ResultIsThere` | `Spec => []ReentersWithResult` |
| `CompletionsAreSeen` | `Spec => []CompletionWillBeSeen` |
| `WaitersAreCounted` | `Spec => []WaitersCounted` |

A caller goes on when the VM has seen `is_idle`; that it has its result depends on `is_idle` being false from the hand-over until the function has
returned.  Hence `PoolInv` follows a call through the pool thread: handed over and not yet taken (`PendingCall`), being executed (`RunningCall`),
finished (`ExecutedWhenIdle`).  The function of a pending call is the caller's *or cleared* (`FunctionOfCaller`): the invariant states the
defect of section 5, and the results hold although it is there, since a cleared function ends the VM.  `CompletionWillBeSeen` is proved on top of `PoolInv` together with
`NotOverdrawn`, `WaitersCounted` with facts on the cardinality of finite sets.

`TimerProofs` proves about `Timer`, for any tasks, periods, time-outs and clocks, from `TimerAssumption`:

| Theorem | Statement |
|---|---|
| `OneThread` | `Spec => []OneThreadServes` |
| `CancelledIsEmpty` | `Spec => []CancelledTimerIsEmpty` |
| `NoneRunsAfterCancel` | no step begins to run a task of a cancelled timer |
| `TimerInvariance` | `Spec => []TimerInv`, the inductive invariant; the next two are parts of it |
| `TimerTypes` | `Spec => []TypeOK` |
| `CountOfUserClockTasks` | `Spec => []UserClockTasksCounted` |
| `WaitsEndInTime` | `Spec => []NoTaskIsOverslept` |
| `EarliestDueFirst` | `Spec => RunsTheEarliestDue` |
| `HeapOrder` | `Spec => HeapKept`, for heaps of every size |
| `HeapUntilMixed` | `Spec /\ [][~MixedCorrection]_vars => []QueueIsHeap` |
| `CorrectionMovesNothing` | `Spec => [](QueueIsHeap => Reordered = queue)` |

`OneThread` follows from `ThreadInv`: a thread that is alive is the one the field `thread` refers to.

The heap.  `fixUp`, `fixDown` and the loop over all nodes after a correction of the user clock are recursive functions, and the library's induction
theorems cannot be used (they take an operator as a parameter).  Two lemmas of first order replace them, proved from the fact that a set of natural numbers that is
not empty has a least element (`LeastNumber`): `RecursionIsDefined` says that a function exists that satisfies its recursive equation when a measure of the argument
descends, and `LoopEnds` that a loop which starts in a set and does not leave it ends in that set.  Sets stand for predicates: the loop invariants are sets of
pairs of a heap and a node (`KeptByPromotion`, `KeptByDemotion`).  For `fixUp` the set says that all nodes but one are in order with their parents, and that the children
of that one are in order with its parent (`FixUpPromotes`); for `fixDown`, that a subtree is in order except at one node (`FixDownDemotes`).  Both only swap, so the tasks stay
the same ones, in a heap or not (`FixUpMoves`, `FixDownMoves`).  `AddKeeps` and `RemoveMinKeeps` follow.

The correction of the user clock keeps the tasks, whatever order it leaves (`CorrectionKeeps`).  In a heap it moves nothing: `fixUp` stops at once at a task
that is due later than it was, below a parent that has been moved by as much or not at all (`FixUpStays`), and `fixDown` at one that is due earlier
(`FixDownStays`); over all nodes this is `CorrectionStays`.  Hence the heap survives a correction just when the new times are in order at the old nodes, which
they are when all tasks of the queue move together (`CorrectionKeepsOrder`).  With the steps that do not correct (`LookKeepsHeap`, `SchedKeepsHeap`) this is
`HeapOrder`, and by induction over steps `HeapUntilMixed`.

`TimerInv` must therefore do without the order of the heap, and needs its other parts together.  `removeMin` would leave a count wrong if a task were
in the queue twice; the time a waiting thread sleeps until is right for the first task even when there is no heap, because `add` puts the new task first
or leaves the first one there, and in the former case `sched` notifies the one thread that can wait (`AliveIsThread`, `NotifyWakes`).  `WaitsEndInTime` and
`EarliestDueFirst` add the order where it is there: in a heap the first task is the earliest (`FirstIsEarliest`).

`CompiledCodeProofs` proves about `CompiledCode`, for any methods, classes, threads and places for code, from `CompiledCodeAssumption`:

| Theorem | Statement |
|---|---|
| `CompiledTypesCorrect` | `Spec => []TypeOK` |
| `LinkedCodeStaysValid` | `Spec => []LinkedCodeIsValid` |
| `SuspendedCodeStaysValid` | `Spec => []SuspendedCodeIsValid` |
| `CodeInUseStaysCached` | `Spec => []CodeInUseIsCached` |
| `OverriddenNeverHasDirectCallers` | `Spec => []OverriddenHasNoDirectCallers` |
| `IndexStaysReserved` | `Spec => []IndexIsReserved` |
| `NeverCompiledTwice` | `Spec => []CompiledOnce` |

That linked code is valid is not inductive: nothing in it says that the overriding class will find the code.  `Inv` says instead that every direct call
of linked code is recorded with the method it calls (`RecordedIn`), and every one of a suspended compilation (`JobInv`), and that an overridden method has no
records left.  `JobInv` also says that the method has no code meanwhile, since `unlink_direct_callers` aborts a compilation only of a method it has not unlinked
(`FinishInitializationKeepsInv`), and that the cache has an index free for it.  The lemmas on eviction and on slices of compilations (`EvictionKeepsCode`, `SliceKeepsInv`) take items and entries as
parameters, because a tick marks methods, evicts and compiles in one step.  `RunningCodeIsValid`, the property of frames
that fails, is not in `Inv`; it is just what `RecordedIn` would say of frames.

Hence every invariant and every action property that a passing run checks is proved, with one restriction: `NoGuaranteeFails` for one object, or without a pending wait
list, since it is false in general.  Only model-checked: the liveness properties `TimedWaitsEnd`, `YieldEnds`, `AllTakeTurns`,
`LoopMeetsItsTasks` and `EveryCallGoesOn`, which depend on fairness and are beyond the prover; and that the VM cannot deadlock (`ENABLED`).

## 7. Not modelled

* *Scheduler*: slave mode (the host program calls the VM in slices) and the debugger's suspension of threads
  change where the VM waits, not the lists; `terminate_all` is the end of the VM.  The search for the next thread over several tasks has quotas of
  its own (`get_next_runnable_thread` with isolates): the search of one task is in `RunQueue`, the effect of tasks on threads in `Tasks`, and the
  product of both is too large for a run.  The sum in `wait_for`, which saturates, is a single statement.
* *Synchronizer*: proxy locks of interned strings, with their count of users, and failures of allocation in `monitorenter`.  The count refers to the
  stack locks of every frame, which `Scheduler` reduces to the objects locked.
* *Tasks*: several Isolate objects for one isolate, links between isolates, memory quotas, class data of a task.
* *ANI*: the operations on sockets behind the functions, and callers killed by the end of their task while they are blocked.
* *Timer*: a second `Timer`, which shares the static offset of the user clock with the first, and the time of a new task computed before the lock on
  the queue is taken (`Timer.java:336`); in the model it is any time of a set.
* *Semaphore*: two native methods that nothing interrupts, a counter on top of `wait` and `notify`.
* *DeadlockFinder*: a debugging aid that reads the lists and changes nothing.
* *Class initialization*: parsing, loading and verification before it, and the wait of one thread for another that initializes the class, which
  is `Object.wait`.
* *Compiled code*: the weights by which code is evicted, and the moving of code with the frames and entries that point into it, are arithmetic on
  words; code generation, register allocation and inlining of leaf methods are compilers for five processors.  The patching of running code
  (`ENABLE_CODE_PATCHING`) is optional and works on instructions.
* Heap and garbage collector, verifier, class file parser, ROMizer,
  floating point, OS ports and build tools are sequential code or code generators: what matters about them are data: the layout of
  words, instructions, tables.  They are most of the repository, and a model checker does not reach them.
