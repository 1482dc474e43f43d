--------------------------- MODULE ANIPoolProofs ---------------------------
(***************************************************************************)
(* Theorems about ANIPool, for every set of callers and every size of the  *)
(* pool: a pool thread serves one call, a method is entered again only     *)
(* with its result, waiting callers are counted, and the completion of a   *)
(* call is seen.                                                           *)
(***************************************************************************)
EXTENDS ANIPool, FiniteSetTheorems, TLAPS

-----------------------------------------------------------------------------
(* The inductive invariant.                                                *)

\* A call that has been handed over and not been taken: its caller is there.
PendingCall ==
    \A i \in PoolThreads : execute_event[i] # 0 =>
        /\ execute_event[i] = 1
        /\ ~idle[i]
        /\ stage[i] \in {"waiting", "finished", "cleared"}
        /\ \E j \in Callers : pt[j] = i

\* The function of a pending call is its caller's, or has been cleared.
FunctionOfCaller ==
    \A i \in PoolThreads, j \in Callers :
        pt[j] = i /\ execute_event[i] # 0 => function[i] \in {j, NULL}

\* So is the function that is being executed.
RunningCall ==
    \A i \in PoolThreads : stage[i] = "calling" =>
        /\ execute_event[i] = 0
        /\ ~idle[i]
        /\ \E j \in Callers : pt[j] = i /\ running[i] \in {j, NULL}

\* A caller is blocked while its pool thread is at work.
BlockedWhileBusy ==
    \A j \in Callers :
        pt[j] # NoPoolThread /\ ~idle[pt[j]] => at[j] = "blocked"

\* A pool thread that is idle has executed the function of the caller.
ExecutedWhenIdle ==
    \A j \in Callers : pt[j] # NoPoolThread /\ idle[pt[j]] => executed[j]

\* The event is overdrawn only when a wait has failed.
NotOverdrawn == ~overdrawn => finished_event >= 0

\* The VM looks at a pool thread while it scans.
ScansPoolThread == vm = "scan" => scanned \in PoolThreads

PoolInv ==
    /\ TypeOK
    /\ PoolThreadServesOneCall
    /\ PendingCall
    /\ FunctionOfCaller
    /\ RunningCall
    /\ BlockedWhileBusy
    /\ ExecutedWhenIdle
    /\ ScansPoolThread

-----------------------------------------------------------------------------
(* Every step keeps the invariant.                                         *)

LEMMA PoolInvInit ==
    ASSUME Init
    PROVE  PoolInv
<1> USE PoolAssumption DEF Init, PoolThreads, NoPoolThread
<1>1. TypeOK
  <2>1. at \in [Callers -> {"outside", "entering", "blocked"}]
    OBVIOUS
  <2>2. stage \in [PoolThreads -> {"none", "waiting", "calling", "finished",
                                   "cleared"}]
    OBVIOUS
  <2>3. /\ function \in [PoolThreads -> Callers \cup {NULL}]
        /\ running \in [PoolThreads -> Callers \cup {NULL}]
    OBVIOUS
  <2>4. /\ pt \in [Callers -> PoolThreads \cup {NoPoolThread}]
        /\ execute_event \in [PoolThreads -> Nat]
    OBVIOUS
  <2>5. /\ executed \in [Callers -> BOOLEAN]
        /\ used \in [PoolThreads -> BOOLEAN]
        /\ idle \in [PoolThreads -> BOOLEAN]
    OBVIOUS
  <2>6. waiter_count \in Int /\ finished_event \in Int
    OBVIOUS
  <2>6a. overdrawn \in BOOLEAN /\ vm \in {"java", "timed", "forever", "scan"}
    BY Zenon
  <2>7. scanned \in {NoPoolThread}
    OBVIOUS
  <2>8. QED
    BY <2>1, <2>2, <2>3, <2>4, <2>5, <2>6, <2>6a, <2>7, Zenon DEF TypeOK
<1>2. PoolThreadServesOneCall
  BY DEF PoolThreadServesOneCall
<1>3. PendingCall
  BY DEF PendingCall
<1>4. FunctionOfCaller
  BY DEF FunctionOfCaller
<1>5. RunningCall
  BY DEF RunningCall
<1>6. BlockedWhileBusy
  BY DEF BlockedWhileBusy
<1>7. ExecutedWhenIdle
  BY DEF ExecutedWhenIdle
<1>8. ScansPoolThread
  BY DEF ScansPoolThread
<1>9. QED
  BY <1>1, <1>2, <1>3, <1>4, <1>5, <1>6, <1>7, <1>8 DEF PoolInv

LEMMA WaitKeeps ==
    ASSUME PoolInv, NEW j \in Callers, Enter(j), Wait(j)
    PROVE  PoolInv'
<1> USE PoolAssumption DEF PoolInv, PoolThreads, NoPoolThread
<1>1. TypeOK'
  BY DEF TypeOK, Enter, Wait, callers, pool
<1>2. PoolThreadServesOneCall'
  BY DEF PoolThreadServesOneCall, TypeOK, Enter, Wait, callers, pool
<1>3. PendingCall'
  BY DEF PendingCall, TypeOK, Enter, Wait, callers, pool
<1>4. FunctionOfCaller'
  BY DEF FunctionOfCaller, TypeOK, Enter, Wait, callers, pool
<1>5. RunningCall'
  BY DEF RunningCall, TypeOK, Enter, Wait, callers, pool
<1>6. BlockedWhileBusy'
  BY DEF BlockedWhileBusy, TypeOK, Enter, Wait, callers, pool
<1>7. ExecutedWhenIdle'
  BY DEF ExecutedWhenIdle, TypeOK, Enter, Wait, callers, pool
<1>8. ScansPoolThread'
  BY DEF ScansPoolThread, TypeOK, Enter, Wait, callers, pool
<1>9. QED
  BY <1>1, <1>2, <1>3, <1>4, <1>5, <1>6, <1>7, <1>8

LEMMA HandOverKeeps ==
    ASSUME PoolInv, NEW j \in Callers, Enter(j), HandOver(j)
    PROVE  PoolInv'
<1> USE PoolAssumption DEF PoolInv, PoolThreads, NoPoolThread
<1>a. PICK i \in FirstFree :
        /\ pt' = [pt EXCEPT ![j] = i]
        /\ used' = [used EXCEPT ![i] = TRUE]
        /\ stage' = [stage EXCEPT ![i] = StageOnceSpawned(i)]
        /\ function' = [function EXCEPT ![i] = j]
        /\ idle' = [idle EXCEPT ![i] = FALSE]
        /\ execute_event' = [execute_event EXCEPT ![i] = @ + 1]
  BY DEF HandOver, StartExecution
<1>b. i \in PoolThreads /\ ~used[i]
  BY DEF FirstFree, Free
<1>c. \A k \in Callers : pt[k] # i
  BY <1>b DEF PoolThreadServesOneCall, TypeOK
<1>d. execute_event[i] = 0 /\ stage[i] # "calling"
  BY <1>b, <1>c DEF PendingCall, RunningCall, TypeOK
<1>e. /\ at' = [at EXCEPT ![j] = "blocked"]
      /\ UNCHANGED <<executed, waiter_count, running, finished_event,
                     overdrawn, vm, scanned>>
  BY DEF HandOver, Enter
<1>f. StageOnceSpawned(i) \in {"waiting", "finished", "cleared"}
  BY <1>b, <1>d DEF StageOnceSpawned, MustSpawn, TypeOK
<1>1. TypeOK'
  BY <1>a, <1>b, <1>d, <1>e, <1>f DEF TypeOK
<1>2. PoolThreadServesOneCall'
  <2>1. \A k \in Callers : pt'[k] = IF k = j THEN i ELSE pt[k]
    BY <1>a DEF TypeOK
  <2>2. \A k \in PoolThreads : used'[k] = IF k = i THEN TRUE ELSE used[k]
    BY <1>a DEF TypeOK
  <2>3. pt[j] = NoPoolThread
    BY DEF Enter
  <2>4. ASSUME NEW k \in PoolThreads
        PROVE  used'[k] <=> \E c \in Callers : pt'[c] = k
    <3>1. CASE k = i
      BY <3>1, <2>1, <2>2
    <3>2. CASE k # i
      <4>1. used'[k] <=> \E c \in Callers : pt[c] = k
        BY <3>2, <2>2 DEF PoolThreadServesOneCall
      <4>2. \A c \in Callers : pt'[c] = k <=> pt[c] = k
        BY <3>2, <2>1, <2>3
      <4>3. QED
        BY <4>1, <4>2
    <3>3. QED
      BY <3>1, <3>2
  <2>5. ASSUME NEW c \in Callers, NEW d \in Callers,
               pt'[c] = pt'[d], pt'[c] # NoPoolThread
        PROVE  c = d
    BY <2>1, <2>5, <1>c DEF PoolThreadServesOneCall
  <2>6. QED
    BY <2>4, <2>5 DEF PoolThreadServesOneCall
<1>3. PendingCall'
  <2> SUFFICES ASSUME NEW k \in PoolThreads, execute_event'[k] # 0
               PROVE  /\ execute_event'[k] = 1
                      /\ ~idle'[k]
                      /\ stage'[k] \in {"waiting", "finished", "cleared"}
                      /\ \E c \in Callers : pt'[c] = k
    BY DEF PendingCall
  <2>1. CASE k = i
    BY <2>1, <1>a, <1>b, <1>d, <1>f DEF TypeOK
  <2>2. CASE k # i
    <3>1. /\ execute_event[k] = 1
          /\ ~idle[k]
          /\ stage[k] \in {"waiting", "finished", "cleared"}
      BY <2>2, <1>a, <1>b DEF PendingCall, TypeOK
    <3>2. PICK c \in Callers : pt[c] = k
      BY <2>2, <1>a, <1>b DEF PendingCall, TypeOK
    <3>3. pt'[c] = k
      BY <3>2, <1>a DEF Enter, TypeOK
    <3>4. QED
      BY <2>2, <3>1, <3>3, <1>a, <1>b DEF TypeOK
  <2>3. QED
    BY <2>1, <2>2
<1>4. FunctionOfCaller'
  BY <1>a, <1>b, <1>c DEF FunctionOfCaller, TypeOK
<1>5. RunningCall'
  <2> SUFFICES ASSUME NEW k \in PoolThreads, stage'[k] = "calling"
               PROVE  /\ execute_event'[k] = 0
                      /\ ~idle'[k]
                      /\ \E c \in Callers : pt'[c] = k
                                            /\ running'[k] \in {c, NULL}
    BY DEF RunningCall
  <2>1. k # i
    BY <1>a, <1>b, <1>f DEF TypeOK
  <2>2. stage[k] = "calling"
    BY <2>1, <1>a, <1>b DEF TypeOK
  <2>3. PICK c \in Callers : pt[c] = k /\ running[k] \in {c, NULL}
    BY <2>2 DEF RunningCall
  <2>4. pt'[c] = k
    BY <2>3, <1>a DEF Enter, TypeOK
  <2>5. execute_event[k] = 0 /\ ~idle[k]
    BY <2>2 DEF RunningCall
  <2>6. QED
    BY <2>1, <2>3, <2>4, <2>5, <1>a, <1>b, <1>e DEF TypeOK
<1>6. BlockedWhileBusy'
  BY <1>a, <1>b, <1>c, <1>e DEF BlockedWhileBusy, TypeOK
<1>7. ExecutedWhenIdle'
  BY <1>a, <1>b, <1>c, <1>e DEF ExecutedWhenIdle, TypeOK
<1>8. ScansPoolThread'
  BY <1>e DEF ScansPoolThread
<1>9. QED
  BY <1>1, <1>2, <1>3, <1>4, <1>5, <1>6, <1>7, <1>8

LEMMA FinishAtOnceKeeps ==
    ASSUME PoolInv, NEW j \in Callers, Enter(j), FinishAtOnce(j)
    PROVE  PoolInv'
<1> USE PoolAssumption DEF PoolInv, PoolThreads, NoPoolThread
<1>a. PICK i \in FirstFree :
        /\ stage' = [stage EXCEPT ![i] = StageOnceSpawned(i)]
        /\ idle' = [idle EXCEPT ![i] = IF MustSpawn(i) THEN TRUE ELSE @]
        /\ function' \in {function, [function EXCEPT ![i] = j]}
  BY DEF FinishAtOnce
<1>b. i \in PoolThreads /\ ~used[i]
  BY DEF FirstFree, Free
<1>c. \A k \in Callers : pt[k] # i
  BY <1>b DEF PoolThreadServesOneCall, TypeOK
<1>d. execute_event[i] = 0 /\ stage[i] # "calling"
  BY <1>b, <1>c DEF PendingCall, RunningCall, TypeOK
<1>e. /\ at' = [at EXCEPT ![j] = "outside"]
      /\ pt[j] = NoPoolThread
      /\ UNCHANGED <<pt, executed, waiter_count, used, execute_event, running,
                     finished_event, overdrawn, vm, scanned>>
  BY DEF FinishAtOnce, Enter
<1>f. StageOnceSpawned(i) \in {"waiting", "finished", "cleared"}
  BY <1>b, <1>d DEF StageOnceSpawned, MustSpawn, TypeOK
<1>g. /\ \A k \in PoolThreads : k # i => idle'[k] = idle[k]
      /\ \A k \in PoolThreads : k # i => stage'[k] = stage[k]
      /\ \A k \in PoolThreads : k # i => function'[k] = function[k]
      /\ stage'[i] # "calling"
  BY <1>a, <1>b, <1>f DEF TypeOK
<1>1. TypeOK'
  <2>1. idle' \in [PoolThreads -> BOOLEAN]
    BY <1>a DEF TypeOK
  <2>2. function' \in [PoolThreads -> Callers \cup {NULL}]
    BY <1>a DEF TypeOK
  <2>3. stage' \in [PoolThreads -> {"none", "waiting", "calling", "finished",
                                    "cleared"}]
    BY <1>a, <1>f DEF TypeOK
  <2>4. QED
    BY <2>1, <2>2, <2>3, <1>e DEF TypeOK
<1>2. PoolThreadServesOneCall'
  BY <1>e DEF PoolThreadServesOneCall
<1>3. PendingCall'
  BY <1>d, <1>e, <1>g DEF PendingCall
<1>4. FunctionOfCaller'
  BY <1>d, <1>e, <1>g DEF FunctionOfCaller
<1>5. RunningCall'
  BY <1>e, <1>g DEF RunningCall
<1>6. BlockedWhileBusy'
  BY <1>c, <1>e, <1>g DEF BlockedWhileBusy, TypeOK
<1>7. ExecutedWhenIdle'
  BY <1>c, <1>e, <1>g DEF ExecutedWhenIdle, TypeOK
<1>8. ScansPoolThread'
  BY <1>e DEF ScansPoolThread
<1>9. QED
  BY <1>1, <1>2, <1>3, <1>4, <1>5, <1>6, <1>7, <1>8

LEMMA ReturnKeeps ==
    ASSUME PoolInv, NEW j \in Callers, Return(j)
    PROVE  PoolInv'
<1> USE PoolAssumption DEF PoolInv, PoolThreads, NoPoolThread
<1>a. /\ at[j] = "entering"
      /\ used' = [used EXCEPT ![pt[j]] = FALSE]
      /\ at' = [at EXCEPT ![j] = "outside"]
      /\ pt' = [pt EXCEPT ![j] = NoPoolThread]
      /\ executed' = [executed EXCEPT ![j] = FALSE]
      /\ UNCHANGED <<waiter_count, idle, function, execute_event, stage,
                     running, finished_event, overdrawn, vm, scanned>>
  BY DEF Return
<1>b. pt[j] \in PoolThreads
  BY DEF Return, TypeOK
<1>c. \A k \in Callers : pt[k] = pt[j] => k = j
  BY <1>b DEF PoolThreadServesOneCall
<1>d. idle[pt[j]]
  BY <1>a, <1>b DEF BlockedWhileBusy
<1>e. execute_event[pt[j]] = 0 /\ stage[pt[j]] # "calling"
  BY <1>b, <1>d DEF PendingCall, RunningCall
<1>1. TypeOK'
  BY <1>a DEF TypeOK
<1>2. PoolThreadServesOneCall'
  BY <1>a, <1>b, <1>c DEF PoolThreadServesOneCall, TypeOK
<1>3. PendingCall'
  <2> SUFFICES ASSUME NEW k \in PoolThreads, execute_event[k] # 0
               PROVE  \E c \in Callers : pt'[c] = k
    BY <1>a DEF PendingCall
  <2>1. PICK c \in Callers : pt[c] = k
    BY DEF PendingCall
  <2>2. c # j
    BY <2>1, <1>e
  <2>3. QED
    BY <2>1, <2>2, <1>a DEF TypeOK
<1>4. FunctionOfCaller'
  BY <1>a DEF FunctionOfCaller, TypeOK
<1>5. RunningCall'
  <2> SUFFICES ASSUME NEW k \in PoolThreads, stage[k] = "calling"
               PROVE  \E c \in Callers : pt'[c] = k
                                         /\ running[k] \in {c, NULL}
    BY <1>a DEF RunningCall
  <2>1. PICK c \in Callers : pt[c] = k /\ running[k] \in {c, NULL}
    BY DEF RunningCall
  <2>2. c # j
    BY <2>1, <1>e
  <2>3. QED
    BY <2>1, <2>2, <1>a DEF TypeOK
<1>6. BlockedWhileBusy'
  BY <1>a DEF BlockedWhileBusy, TypeOK
<1>7. ExecutedWhenIdle'
  BY <1>a DEF ExecutedWhenIdle, TypeOK
<1>8. ScansPoolThread'
  BY <1>a DEF ScansPoolThread
<1>9. QED
  BY <1>1, <1>2, <1>3, <1>4, <1>5, <1>6, <1>7, <1>8

LEMMA CheckEventsKeeps ==
    ASSUME PoolInv, CheckEvents
    PROVE  PoolInv'
<1> USE PoolAssumption DEF PoolInv, PoolThreads, NoPoolThread
<1>1. TypeOK'
  <2>1. at' \in [Callers -> {"outside", "entering", "blocked"}]
    BY DEF TypeOK, CheckEvents, Retry, AwaitEvent, UnblockWaiters, callers
  <2>2. waiter_count' \in Int
    <3>1. CASE Retry
      <4>1. PICK tried \in SUBSET Waiters :
               waiter_count' = waiter_count - Cardinality(tried)
        BY <3>1 DEF Retry, UnblockWaiters
      <4>2. tried \subseteq Callers
        BY <4>1 DEF Waiters
      <4>3. Cardinality(tried) \in Nat
        BY <4>2, FS_Subset, FS_CardinalityType
      <4>4. QED
        BY <4>1, <4>3 DEF TypeOK
    <3>2. CASE AwaitEvent
      BY <3>2 DEF AwaitEvent, callers, TypeOK
    <3>3. QED
      BY <3>1, <3>2 DEF CheckEvents
  <2>3. \/ TakeSignal /\ overdrawn' \in {overdrawn, TRUE}
        \/ /\ vm' \in {"java", "timed", "forever"}
           /\ UNCHANGED <<finished_event, overdrawn, scanned>>
    BY DEF CheckEvents, Retry, AwaitEvent, WaitOrTimeout, WaitForEver
  <2>3a. /\ finished_event' \in Int
         /\ overdrawn' \in BOOLEAN
         /\ vm' \in {"java", "timed", "forever", "scan"}
         /\ scanned' \in PoolThreads \cup {NoPoolThread}
    <3>1. CASE TakeSignal /\ overdrawn' \in {overdrawn, TRUE}
      <4>1. 1 \in PoolThreads
        OBVIOUS
      <4>2. scanned' \in PoolThreads /\ vm' = "scan"
        BY <3>1, <4>1 DEF TakeSignal
      <4>3. finished_event' \in Int
        BY <3>1 DEF TypeOK, TakeSignal
      <4>4. overdrawn' \in BOOLEAN
        BY <3>1 DEF TypeOK
      <4>5. QED
        BY <4>2, <4>3, <4>4
    <3>2. CASE /\ vm' \in {"java", "timed", "forever"}
               /\ UNCHANGED <<finished_event, overdrawn, scanned>>
      BY <3>2 DEF TypeOK
    <3>3. QED
      BY <2>3, <3>1, <3>2
  <2>4. UNCHANGED <<pt, executed, pool>>
    BY DEF CheckEvents, Retry, AwaitEvent, callers
  <2>5. QED
    BY <2>1, <2>2, <2>3a, <2>4 DEF TypeOK, pool
<1>2. PoolThreadServesOneCall'
  BY DEF PoolThreadServesOneCall, TypeOK, CheckEvents, Retry, AwaitEvent, UnblockWaiters, WaitOrTimeout, WaitForEver, TakeSignal, Waiters, callers, pool
<1>3. PendingCall'
  BY DEF PendingCall, TypeOK, CheckEvents, Retry, AwaitEvent, UnblockWaiters, WaitOrTimeout, WaitForEver, TakeSignal, Waiters, callers, pool
<1>4. FunctionOfCaller'
  BY DEF FunctionOfCaller, TypeOK, CheckEvents, Retry, AwaitEvent, UnblockWaiters, WaitOrTimeout, WaitForEver, TakeSignal, Waiters, callers, pool
<1>5. RunningCall'
  BY DEF RunningCall, TypeOK, CheckEvents, Retry, AwaitEvent, UnblockWaiters, WaitOrTimeout, WaitForEver, TakeSignal, Waiters, callers, pool
<1>6. BlockedWhileBusy'
  BY DEF BlockedWhileBusy, TypeOK, CheckEvents, Retry, AwaitEvent, UnblockWaiters, WaitOrTimeout, WaitForEver, TakeSignal, Waiters, callers, pool
<1>7. ExecutedWhenIdle'
  BY DEF ExecutedWhenIdle, TypeOK, CheckEvents, Retry, AwaitEvent, UnblockWaiters, WaitOrTimeout, WaitForEver, TakeSignal, Waiters, callers, pool
<1>8. ScansPoolThread'
  BY DEF ScansPoolThread, TypeOK, CheckEvents, Retry, AwaitEvent, UnblockWaiters, WaitOrTimeout, WaitForEver, TakeSignal, Waiters, callers, pool
<1>9. QED
  BY <1>1, <1>2, <1>3, <1>4, <1>5, <1>6, <1>7, <1>8

LEMMA WakeUpKeeps ==
    ASSUME PoolInv, WakeUp
    PROVE  PoolInv'
<1> USE PoolAssumption DEF PoolInv, PoolThreads, NoPoolThread
<1>1. TypeOK'
  BY DEF TypeOK, WakeUp, TakeSignal, callers, pool
<1>2. PoolThreadServesOneCall'
  BY DEF PoolThreadServesOneCall, TypeOK, WakeUp, TakeSignal, callers, pool
<1>3. PendingCall'
  BY DEF PendingCall, TypeOK, WakeUp, TakeSignal, callers, pool
<1>4. FunctionOfCaller'
  BY DEF FunctionOfCaller, TypeOK, WakeUp, TakeSignal, callers, pool
<1>5. RunningCall'
  BY DEF RunningCall, TypeOK, WakeUp, TakeSignal, callers, pool
<1>6. BlockedWhileBusy'
  BY DEF BlockedWhileBusy, TypeOK, WakeUp, TakeSignal, callers, pool
<1>7. ExecutedWhenIdle'
  BY DEF ExecutedWhenIdle, TypeOK, WakeUp, TakeSignal, callers, pool
<1>8. ScansPoolThread'
  BY DEF ScansPoolThread, TypeOK, WakeUp, TakeSignal, callers, pool
<1>9. QED
  BY <1>1, <1>2, <1>3, <1>4, <1>5, <1>6, <1>7, <1>8

LEMMA TimeOutKeeps ==
    ASSUME PoolInv, TimeOut
    PROVE  PoolInv'
<1> USE PoolAssumption DEF PoolInv, PoolThreads, NoPoolThread
<1>1. TypeOK'
  BY DEF TypeOK, TimeOut, callers, pool
<1>2. PoolThreadServesOneCall'
  BY DEF PoolThreadServesOneCall, TypeOK, TimeOut, callers, pool
<1>3. PendingCall'
  BY DEF PendingCall, TypeOK, TimeOut, callers, pool
<1>4. FunctionOfCaller'
  BY DEF FunctionOfCaller, TypeOK, TimeOut, callers, pool
<1>5. RunningCall'
  BY DEF RunningCall, TypeOK, TimeOut, callers, pool
<1>6. BlockedWhileBusy'
  BY DEF BlockedWhileBusy, TypeOK, TimeOut, callers, pool
<1>7. ExecutedWhenIdle'
  BY DEF ExecutedWhenIdle, TypeOK, TimeOut, callers, pool
<1>8. ScansPoolThread'
  BY DEF ScansPoolThread, TypeOK, TimeOut, callers, pool
<1>9. QED
  BY <1>1, <1>2, <1>3, <1>4, <1>5, <1>6, <1>7, <1>8

LEMMA ScanKeeps ==
    ASSUME PoolInv, Scan
    PROVE  PoolInv'
<1> USE PoolAssumption DEF PoolInv, PoolThreads, NoPoolThread
<1>1. TypeOK'
  BY DEF TypeOK, Scan, callers, pool
<1>2. PoolThreadServesOneCall'
  BY DEF PoolThreadServesOneCall, TypeOK, Scan, callers, pool
<1>3. PendingCall'
  BY DEF PendingCall, TypeOK, Scan, callers, pool
<1>4. FunctionOfCaller'
  BY DEF FunctionOfCaller, TypeOK, Scan, callers, pool
<1>5. RunningCall'
  BY DEF RunningCall, TypeOK, Scan, callers, pool
<1>6. BlockedWhileBusy'
  BY DEF BlockedWhileBusy, TypeOK, Scan, callers, pool
<1>7. ExecutedWhenIdle'
  BY DEF ExecutedWhenIdle, TypeOK, Scan, callers, pool
<1>8. ScansPoolThread'
  BY DEF ScansPoolThread, TypeOK, Scan, callers, pool
<1>9. QED
  BY <1>1, <1>2, <1>3, <1>4, <1>5, <1>6, <1>7, <1>8

LEMMA TakeKeeps ==
    ASSUME PoolInv, NEW i \in PoolThreads, Take(i)
    PROVE  PoolInv'
<1> USE PoolAssumption DEF PoolInv, PoolThreads, NoPoolThread
<1>1. TypeOK'
  BY DEF TypeOK, Take, callers, pool
<1>2. PoolThreadServesOneCall'
  BY DEF PoolThreadServesOneCall, TypeOK, Take, callers, pool
<1>3. PendingCall'
  BY DEF PendingCall, TypeOK, Take, callers, pool
<1>4. FunctionOfCaller'
  BY DEF FunctionOfCaller, TypeOK, Take, callers, pool
<1>5. RunningCall'
  <2> SUFFICES ASSUME NEW k \in PoolThreads, stage'[k] = "calling"
               PROVE  /\ execute_event'[k] = 0
                      /\ ~idle'[k]
                      /\ \E c \in Callers : pt'[c] = k
                                            /\ running'[k] \in {c, NULL}
    BY DEF RunningCall
  <2>1. CASE k = i
    <3>1. execute_event[i] # 0
      BY DEF Take, TypeOK
    <3>2. PICK c \in Callers : pt[c] = i
      BY <3>1 DEF PendingCall
    <3>3. function[i] \in {c, NULL}
      BY <3>1, <3>2 DEF FunctionOfCaller
    <3>4. execute_event[i] = 1 /\ ~idle[i]
      BY <3>1 DEF PendingCall
    <3>5. /\ running'[i] = function[i]
          /\ execute_event'[i] = execute_event[i] - 1
          /\ UNCHANGED <<pt, idle>>
      BY DEF Take, TypeOK, callers
    <3>6. QED
      BY <2>1, <3>2, <3>3, <3>4, <3>5
  <2>2. CASE k # i
    BY <2>2 DEF RunningCall, TypeOK, Take, callers
  <2>3. QED
    BY <2>1, <2>2
<1>6. BlockedWhileBusy'
  BY DEF BlockedWhileBusy, TypeOK, Take, callers, pool
<1>7. ExecutedWhenIdle'
  BY DEF ExecutedWhenIdle, TypeOK, Take, callers, pool
<1>8. ScansPoolThread'
  BY DEF ScansPoolThread, TypeOK, Take, callers, pool
<1>9. QED
  BY <1>1, <1>2, <1>3, <1>4, <1>5, <1>6, <1>7, <1>8

LEMMA FinishKeeps ==
    ASSUME PoolInv, ~Crashed, NEW i \in PoolThreads, Finish(i)
    PROVE  PoolInv'
<1> USE PoolAssumption DEF PoolInv, PoolThreads, NoPoolThread
<1>1. TypeOK'
  BY DEF TypeOK, Finish, Crashed, callers, pool
<1>2. PoolThreadServesOneCall'
  BY DEF PoolThreadServesOneCall, TypeOK, Finish, Crashed, callers, pool
<1>3. PendingCall'
  BY DEF PendingCall, TypeOK, Finish, Crashed, callers, pool
<1>4. FunctionOfCaller'
  BY DEF FunctionOfCaller, TypeOK, Finish, Crashed, callers, pool
<1>5. RunningCall'
  BY DEF RunningCall, TypeOK, Finish, Crashed, callers, pool
<1>6. BlockedWhileBusy'
  BY DEF BlockedWhileBusy, TypeOK, Finish, Crashed, callers, pool
<1>7. ExecutedWhenIdle'
  <2> SUFFICES ASSUME NEW c \in Callers, pt[c] # NoPoolThread, idle'[pt[c]]
               PROVE  executed'[c]
    BY DEF ExecutedWhenIdle, Finish
  <2>1. running[i] \in Callers
    BY DEF Finish, Crashed, TypeOK
  <2>2. executed' = [executed EXCEPT ![running[i]] = TRUE]
    BY DEF Finish
  <2>3. CASE pt[c] = i
    <3>1. PICK b \in Callers : pt[b] = i /\ running[i] \in {b, NULL}
      BY DEF RunningCall, Finish
    <3>2. b = c
      BY <2>3, <3>1 DEF PoolThreadServesOneCall
    <3>3. running[i] = c
      BY <3>1, <3>2, <2>1
    <3>4. QED
      BY <3>3, <2>2 DEF TypeOK
  <2>4. CASE pt[c] # i
    <3>1. idle[pt[c]]
      BY <2>4 DEF Finish, TypeOK
    <3>2. executed[c]
      BY <3>1 DEF ExecutedWhenIdle
    <3>3. QED
      BY <3>2, <2>1, <2>2 DEF TypeOK
  <2>5. QED
    BY <2>3, <2>4
<1>8. ScansPoolThread'
  BY DEF ScansPoolThread, TypeOK, Finish, Crashed, callers, pool
<1>9. QED
  BY <1>1, <1>2, <1>3, <1>4, <1>5, <1>6, <1>7, <1>8

LEMMA ClearFunctionKeeps ==
    ASSUME PoolInv, NEW i \in PoolThreads, ClearFunction(i)
    PROVE  PoolInv'
<1> USE PoolAssumption DEF PoolInv, PoolThreads, NoPoolThread
<1>1. TypeOK'
  BY DEF TypeOK, ClearFunction, callers, pool
<1>2. PoolThreadServesOneCall'
  BY DEF PoolThreadServesOneCall, TypeOK, ClearFunction, callers, pool
<1>3. PendingCall'
  BY DEF PendingCall, TypeOK, ClearFunction, callers, pool
<1>4. FunctionOfCaller'
  BY DEF FunctionOfCaller, TypeOK, ClearFunction, callers, pool
<1>5. RunningCall'
  BY DEF RunningCall, TypeOK, ClearFunction, callers, pool
<1>6. BlockedWhileBusy'
  BY DEF BlockedWhileBusy, TypeOK, ClearFunction, callers, pool
<1>7. ExecutedWhenIdle'
  BY DEF ExecutedWhenIdle, TypeOK, ClearFunction, callers, pool
<1>8. ScansPoolThread'
  BY DEF ScansPoolThread, TypeOK, ClearFunction, callers, pool
<1>9. QED
  BY <1>1, <1>2, <1>3, <1>4, <1>5, <1>6, <1>7, <1>8

LEMMA SignalFinishedKeeps ==
    ASSUME PoolInv, NEW i \in PoolThreads, SignalFinished(i)
    PROVE  PoolInv'
<1> USE PoolAssumption DEF PoolInv, PoolThreads, NoPoolThread
<1>1. TypeOK'
  BY DEF TypeOK, SignalFinished, callers, pool
<1>2. PoolThreadServesOneCall'
  BY DEF PoolThreadServesOneCall, TypeOK, SignalFinished, callers, pool
<1>3. PendingCall'
  BY DEF PendingCall, TypeOK, SignalFinished, callers, pool
<1>4. FunctionOfCaller'
  BY DEF FunctionOfCaller, TypeOK, SignalFinished, callers, pool
<1>5. RunningCall'
  BY DEF RunningCall, TypeOK, SignalFinished, callers, pool
<1>6. BlockedWhileBusy'
  BY DEF BlockedWhileBusy, TypeOK, SignalFinished, callers, pool
<1>7. ExecutedWhenIdle'
  BY DEF ExecutedWhenIdle, TypeOK, SignalFinished, callers, pool
<1>8. ScansPoolThread'
  BY DEF ScansPoolThread, TypeOK, SignalFinished, callers, pool
<1>9. QED
  BY <1>1, <1>2, <1>3, <1>4, <1>5, <1>6, <1>7, <1>8

LEMMA PoolInvStep ==
    ASSUME PoolInv, [Next]_vars
    PROVE  PoolInv'
<1>1. ASSUME NEW j \in Callers, Enter(j)
      PROVE  PoolInv'
  BY <1>1, WaitKeeps, HandOverKeeps, FinishAtOnceKeeps DEF Enter
<1>2. CASE VMStep
  BY <1>2, CheckEventsKeeps, WakeUpKeeps, TimeOutKeeps, ScanKeeps DEF VMStep
<1>3. ASSUME NEW i \in PoolThreads, ~Crashed, PoolThreadStep(i)
      PROVE  PoolInv'
  BY <1>3, TakeKeeps, FinishKeeps, ClearFunctionKeeps, SignalFinishedKeeps
     DEF PoolThreadStep
<1>4. CASE UNCHANGED vars
  BY <1>4 DEF vars, callers, pool, PoolInv, TypeOK, PoolThreadServesOneCall,
     PendingCall, FunctionOfCaller, RunningCall, BlockedWhileBusy,
     ExecutedWhenIdle, ScansPoolThread
<1>5. QED
  BY <1>1, <1>2, <1>3, <1>4, ReturnKeeps DEF Next

THEOREM PoolInvariance == Spec => []PoolInv
<1>1. Init => PoolInv
  BY PoolInvInit
<1>2. PoolInv /\ [Next]_vars => PoolInv'
  BY PoolInvStep
<1>3. QED
  BY <1>1, <1>2, PTL DEF Spec

\* The fields of the pool and the callers have their types; in particular an
\* execute_event never falls below zero.
THEOREM TypeCorrect == Spec => []TypeOK
<1>1. PoolInv => TypeOK
  BY DEF PoolInv
<1>2. QED
  BY <1>1, PoolInvariance, PTL

\* However releases, allocations and retries alternate, a pool thread that is
\* in use belongs to exactly one call, and one that is not to none.
THEOREM OneCallPerPoolThread == Spec => []PoolThreadServesOneCall
<1>1. PoolInv => PoolThreadServesOneCall
  BY DEF PoolInv
<1>2. QED
  BY <1>1, PoolInvariance, PTL

\* A native method that has blocked is entered again only when its function
\* has been executed.
THEOREM ResultIsThere == Spec => []ReentersWithResult
<1>1. PoolInv => ReentersWithResult
  <2> SUFFICES ASSUME PoolInv, NEW j \in Callers, at[j] = "entering",
                      pt[j] # NoPoolThread
               PROVE  executed[j]
    BY DEF ReentersWithResult
  <2>1. idle[pt[j]]
    BY DEF PoolInv, BlockedWhileBusy
  <2>2. QED
    BY <2>1 DEF PoolInv, ExecutedWhenIdle
<1>2. QED
  BY <1>1, PoolInvariance, PTL

-----------------------------------------------------------------------------
(* Completions.                                                            *)

CompletionInv == NotOverdrawn /\ CompletionWillBeSeen

\* A pool thread that finishes will signal, a signal makes the VM look at
\* every pool thread, and looking at one unblocks its caller.
LEMMA CompletionStep ==
    ASSUME PoolInv, CompletionInv, [Next]_vars
    PROVE  CompletionInv'
<1> USE PoolAssumption DEF PoolThreads, NoPoolThread, CompletionInv
<1>0. TypeOK
  BY DEF PoolInv
<1>1. ASSUME NEW j \in Callers, Enter(j)
      PROVE  CompletionInv'
  <2>1. NotOverdrawn'
    BY <1>1 DEF Enter, NotOverdrawn
  <2>2. CompletionWillBeSeen'
    <3>1. CASE Wait(j)
      BY <1>0, <1>1, <3>1 DEF Enter, Wait, CompletionWillBeSeen, TypeOK, pool
    <3>2. CASE HandOver(j)
      <4>1. PICK i \in FirstFree :
               /\ pt' = [pt EXCEPT ![j] = i]
               /\ stage' = [stage EXCEPT ![i] = StageOnceSpawned(i)]
               /\ idle' = [idle EXCEPT ![i] = FALSE]
        BY <3>2 DEF HandOver, StartExecution
      <4>2. /\ at' = [at EXCEPT ![j] = "blocked"]
            /\ UNCHANGED <<finished_event, overdrawn, vm, scanned>>
        BY <1>1, <3>2 DEF HandOver, Enter
      <4>3. i \in PoolThreads
        BY DEF FirstFree, Free
      <4>4. QED
        BY <1>0, <4>1, <4>2, <4>3 DEF CompletionWillBeSeen, TypeOK
    <3>3. CASE FinishAtOnce(j)
      <4>1. PICK i \in FirstFree :
               /\ stage' = [stage EXCEPT ![i] = StageOnceSpawned(i)]
               /\ idle' = [idle EXCEPT ![i] = IF MustSpawn(i) THEN TRUE ELSE @]
        BY <3>3 DEF FinishAtOnce
      <4>2. /\ at' = [at EXCEPT ![j] = "outside"]
            /\ UNCHANGED <<pt, finished_event, overdrawn, vm, scanned>>
        BY <1>1, <3>3 DEF FinishAtOnce, Enter
      <4>3. i \in PoolThreads /\ \A k \in Callers : pt[k] # i
        BY <1>0 DEF FirstFree, Free, PoolInv, PoolThreadServesOneCall
      <4>4. \A k \in Callers : pt[k] # NoPoolThread =>
                 idle'[pt[k]] = idle[pt[k]] /\ stage'[pt[k]] = stage[pt[k]]
        BY <1>0, <4>1, <4>3 DEF TypeOK
      <4>5. QED
        BY <1>0, <4>2, <4>4 DEF CompletionWillBeSeen, TypeOK
    <3>4. QED
      BY <1>1, <3>1, <3>2, <3>3 DEF Enter
  <2>3. QED
    BY <2>1, <2>2
<1>2. ASSUME NEW j \in Callers, Return(j)
      PROVE  CompletionInv'
  BY <1>0, <1>2 DEF Return, NotOverdrawn, CompletionWillBeSeen, TypeOK
<1>3. CASE CheckEvents
  <2>1. UNCHANGED <<pt, idle, stage>> /\ vm = "java"
    BY <1>3 DEF CheckEvents, Retry, AwaitEvent, callers, pool
  <2>2. \A j \in Callers : pt[j] # NoPoolThread /\ at'[j] = "blocked" =>
           at[j] = "blocked"
    BY <1>0, <1>3 DEF CheckEvents, Retry, AwaitEvent, UnblockWaiters, callers,
       TypeOK
  <2>3. \/ /\ TakeSignal
           /\ \/ overdrawn' = TRUE
              \/ finished_event # 0 /\ overdrawn' = overdrawn
        \/ UNCHANGED <<finished_event, overdrawn>>
    <3>1. ASSUME NEW polls \in BOOLEAN, WaitOrTimeout(polls)
          PROVE  \/ /\ TakeSignal
                    /\ \/ overdrawn' = TRUE
                       \/ finished_event # 0 /\ overdrawn' = overdrawn
                 \/ UNCHANGED <<finished_event, overdrawn>>
      BY <3>1, Zenon DEF WaitOrTimeout
    <3>2. CASE WaitForEver
      BY <3>2 DEF WaitForEver
    <3>3. QED
      BY <1>3, <3>1, <3>2 DEF CheckEvents, Retry, AwaitEvent
  <2>4. CASE /\ TakeSignal
             /\ \/ overdrawn' = TRUE
                \/ finished_event # 0 /\ overdrawn' = overdrawn
    <3>1. NotOverdrawn'
      BY <1>0, <2>4 DEF NotOverdrawn, TakeSignal, TypeOK
    <3>2. \A j \in Callers : pt[j] # NoPoolThread => 1 <= pt[j]
      BY <1>0 DEF TypeOK
    <3>3. CompletionWillBeSeen'
      BY <2>1, <2>4, <3>2 DEF CompletionWillBeSeen, TakeSignal
    <3>4. QED
      BY <3>1, <3>3
  <2>5. CASE UNCHANGED <<finished_event, overdrawn>>
    BY <2>1, <2>2, <2>5 DEF NotOverdrawn, CompletionWillBeSeen
  <2>6. QED
    BY <2>3, <2>4, <2>5
<1>4. CASE WakeUp
  BY <1>0, <1>4 DEF WakeUp, TakeSignal, NotOverdrawn, CompletionWillBeSeen, TypeOK, callers, pool
<1>5. CASE TimeOut
  BY <1>0, <1>5 DEF TimeOut, NotOverdrawn, CompletionWillBeSeen, TypeOK, callers, pool
<1>6. CASE Scan
  BY <1>0, <1>6 DEF Scan, NotOverdrawn, CompletionWillBeSeen, TypeOK, callers, pool
<1>7. ASSUME NEW i \in PoolThreads, Take(i)
      PROVE  CompletionInv'
  BY <1>0, <1>7 DEF Take, NotOverdrawn, CompletionWillBeSeen, TypeOK, callers
<1>8. ASSUME NEW i \in PoolThreads, Finish(i)
      PROVE  CompletionInv'
  BY <1>0, <1>8 DEF Finish, NotOverdrawn, CompletionWillBeSeen, TypeOK, callers
<1>9. ASSUME NEW i \in PoolThreads, ClearFunction(i)
      PROVE  CompletionInv'
  BY <1>0, <1>9 DEF ClearFunction, NotOverdrawn, CompletionWillBeSeen, TypeOK, callers
<1>10. ASSUME NEW i \in PoolThreads, SignalFinished(i)
       PROVE  CompletionInv'
  BY <1>0, <1>10 DEF SignalFinished, NotOverdrawn, CompletionWillBeSeen, TypeOK, callers
<1>11. CASE UNCHANGED vars
  BY <1>11 DEF vars, callers, pool, NotOverdrawn, CompletionWillBeSeen
<1>12. QED
  BY <1>1, <1>2, <1>3, <1>4, <1>5, <1>6, <1>7, <1>8, <1>9, <1>10, <1>11
     DEF Next, VMStep, PoolThreadStep

\* The VM never sleeps over a call that has finished, as long as no timed wait
\* has failed.
THEOREM CompletionsAreSeen == Spec => []CompletionWillBeSeen
<1>1. Init => CompletionInv
  BY DEF Init, CompletionInv, NotOverdrawn, CompletionWillBeSeen
<1>2. PoolInv /\ CompletionInv /\ [Next]_vars => CompletionInv'
  BY CompletionStep
<1>3. CompletionInv => CompletionWillBeSeen
  BY DEF CompletionInv
<1>4. QED
  BY <1>1, <1>2, <1>3, PoolInvariance, PTL DEF Spec

-----------------------------------------------------------------------------
(* Callers that wait for a pool thread.                                    *)

LEMMA WaitersFinite ==
    ASSUME TypeOK
    PROVE  IsFiniteSet(Waiters) /\ Cardinality(Waiters) \in Nat
BY PoolAssumption, FS_Subset, FS_CardinalityType DEF Waiters

LEMMA WaitersCountedStep ==
    ASSUME PoolInv, WaitersCounted, [Next]_vars
    PROVE  WaitersCounted'
<1> USE PoolAssumption DEF PoolThreads, NoPoolThread
<1>0. TypeOK
  BY DEF PoolInv
<1>1. IsFiniteSet(Waiters) /\ Cardinality(Waiters) \in Nat
  BY <1>0, WaitersFinite
<1>2. ASSUME Waiters' = Waiters, UNCHANGED waiter_count
      PROVE  WaitersCounted'
  BY <1>2 DEF WaitersCounted
<1>3. ASSUME NEW j \in Callers, Enter(j)
      PROVE  WaitersCounted'
  <2>1. j \notin Waiters /\ pt[j] = NoPoolThread
    BY <1>3 DEF Enter, Waiters
  <2>2. CASE Wait(j)
    <3>1. /\ at' = [at EXCEPT ![j] = "blocked"]
          /\ waiter_count' = waiter_count + 1
          /\ UNCHANGED pt
      BY <2>2 DEF Wait
    <3>2. Waiters' = Waiters \cup {j}
      BY <1>0, <2>1, <3>1 DEF Waiters, TypeOK
    <3>3. Cardinality(Waiters \cup {j}) = Cardinality(Waiters) + 1
      BY <1>1, <2>1, FS_AddElement
    <3>4. QED
      BY <3>1, <3>2, <3>3 DEF WaitersCounted
  <2>3. CASE HandOver(j)
    <3>1. PICK i \in FirstFree : pt' = [pt EXCEPT ![j] = i]
      BY <2>3 DEF HandOver
    <3>2. i \in PoolThreads
      BY DEF FirstFree, Free
    <3>3. at' = [at EXCEPT ![j] = "blocked"] /\ UNCHANGED waiter_count
      BY <2>3 DEF HandOver
    <3>4. Waiters' = Waiters
      BY <1>0, <2>1, <3>1, <3>2, <3>3 DEF Waiters, TypeOK
    <3>5. QED
      BY <1>2, <3>3, <3>4
  <2>4. CASE FinishAtOnce(j)
    <3>1. /\ at' = [at EXCEPT ![j] = "outside"]
          /\ UNCHANGED <<pt, waiter_count>>
      BY <2>4 DEF FinishAtOnce
    <3>2. Waiters' = Waiters
      BY <1>0, <2>1, <3>1 DEF Waiters, TypeOK
    <3>3. QED
      BY <1>2, <3>1, <3>2
  <2>5. QED
    BY <1>3, <2>2, <2>3, <2>4 DEF Enter
<1>4. ASSUME NEW j \in Callers, Return(j)
      PROVE  WaitersCounted'
  <2>1. /\ at[j] = "entering"
        /\ at' = [at EXCEPT ![j] = "outside"]
        /\ pt' = [pt EXCEPT ![j] = NoPoolThread]
        /\ UNCHANGED waiter_count
    BY <1>4 DEF Return
  <2>2. Waiters' = Waiters
    BY <1>0, <2>1 DEF Waiters, TypeOK
  <2>3. QED
    BY <1>2, <2>1, <2>2
<1>5. CASE CheckEvents
  <2>1. ASSUME Retry
        PROVE  WaitersCounted'
    <3>1. PICK tried \in SUBSET Waiters : UnblockWaiters(tried)
      BY <2>1 DEF Retry
    <3>2. UNCHANGED pt
      BY <2>1 DEF Retry
    <3>3. Waiters' = Waiters \ tried
      BY <1>0, <3>1, <3>2 DEF UnblockWaiters, Waiters, TypeOK
    <3>4. Cardinality(Waiters \ tried)
             = Cardinality(Waiters) - Cardinality(Waiters \cap tried)
      BY <1>1, FS_Difference
    <3>5. Waiters \cap tried = tried
      BY <3>1
    <3>6. waiter_count' = waiter_count - Cardinality(tried)
      BY <3>1 DEF UnblockWaiters
    <3>7. QED
      BY <3>3, <3>4, <3>5, <3>6 DEF WaitersCounted
  <2>2. ASSUME AwaitEvent
        PROVE  WaitersCounted'
    <3>1. UNCHANGED callers
      BY <2>2 DEF AwaitEvent
    <3>2. QED
      BY <1>2, <3>1 DEF callers, Waiters
  <2>3. QED
    BY <1>5, <2>1, <2>2 DEF CheckEvents
<1>6. CASE Scan
  <2>1. scanned \in PoolThreads
    BY <1>6 DEF Scan, PoolInv, ScansPoolThread
  <2>2. Waiters' = Waiters
    BY <1>0, <1>6, <2>1 DEF Scan, Waiters, TypeOK
  <2>3. QED
    BY <1>2, <1>6, <2>2 DEF Scan
<1>7. CASE UNCHANGED <<at, pt, waiter_count>>
  BY <1>2, <1>7 DEF Waiters
<1>8. QED
  <2>1. CASE WakeUp \/ TimeOut \/ UNCHANGED vars
    BY <2>1, <1>7 DEF WakeUp, TimeOut, vars, callers
  <2>2. ASSUME NEW i \in PoolThreads, PoolThreadStep(i)
        PROVE  WaitersCounted'
    BY <1>7, <2>2 DEF PoolThreadStep, Take, Finish, ClearFunction,
       SignalFinished, callers
  <2>3. QED
    BY <1>3, <1>4, <1>5, <1>6, <2>1, <2>2 DEF Next, VMStep

\* waiter_count is the number of Java threads that ANI_Wait has blocked, so
\* that the VM polls only while there are some.
THEOREM WaitersAreCounted == Spec => []WaitersCounted
<1>1. Init => WaitersCounted
  <2> SUFFICES ASSUME Init
               PROVE  WaitersCounted
    OBVIOUS
  <2>1. Waiters = {}
    BY DEF Init, Waiters
  <2>2. QED
    BY <2>1, FS_EmptySet DEF Init, WaitersCounted
<1>2. PoolInv /\ WaitersCounted /\ [Next]_vars => WaitersCounted'
  BY WaitersCountedStep
<1>3. QED
  BY <1>1, <1>2, PoolInvariance, PTL DEF Spec
=============================================================================
