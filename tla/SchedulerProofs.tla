-------------------------- MODULE SchedulerProofs --------------------------
(***************************************************************************)
(* Proofs that every step of Scheduler preserves SchedulerInv, and of the  *)
(* safety properties that follow from it, for any set of threads, objects  *)
(* and programs.                                                           *)
(***************************************************************************)
EXTENDS SchedulerInvariant, ListLemmas

-----------------------------------------------------------------------------
(* The operators the scheduler is built from. *)

\* The element after a member of a list is a member or nothing.
LEMMA SuccessorType ==
    ASSUME NEW S, NEW s \in Seq(S), NEW e \in ToSet(s)
    PROVE  Successor(s, e) \in S \cup {NoThread}
    <1>. DEFINE i == CHOOSE j \in DOMAIN s : s[j] = e
    <1>1. i \in DOMAIN s
        BY DEF ToSet
    <1>2. i \in 1..Len(s)
        BY <1>1
    <1>. HIDE DEF i
    <1>3. i < Len(s) => s[i + 1] \in S
        <2>1. Len(s) \in Nat OBVIOUS
        <2>2. i < Len(s) => i + 1 \in 1..Len(s) BY <1>2, <2>1
        <2>. QED BY <2>2, ElementOfSeq
    <1>. QED BY <1>3 DEF Successor, i

\* The head of each list of waiting threads is a thread or nothing.
LEMMA ListHeads ==
    ASSUME TypeOK, ChainTellsWaiters
    PROVE  /\ First(sleeping) \in Threads \cup {NoThread}
           /\ \A i : ChainHead(i) \in Threads \cup {NoThread}
    <1>1. First(sleeping) \in Threads \cup {NoThread}
        BY HeadTailProperties DEF TypeOK, First
    <1>2. ASSUME NEW i, i \in DOMAIN chain
          PROVE  Head(waiters[chain[i]]) \in Threads
        <2>1. chain[i] \in Objects /\ chain[i] \in ToSet(chain)
            BY <1>2, MembersType DEF TypeOK, ToSet
        <2>2. waiters[chain[i]] \in Seq(Threads) /\ waiters[chain[i]] # <<>>
            BY <2>1 DEF TypeOK, ChainTellsWaiters
        <2>. QED BY <2>2
    <1>. QED BY <1>1, <1>2 DEF ChainHead

\* The links the wake-up loop follows lead to threads or end.
LEMMA LinkTypes ==
    ASSUME TypeOK, ChainTellsWaiters, NEW t \in Threads
    PROVE  /\ NextWaiting(t) \in Threads \cup {NoThread}
           /\ NextLinks(t) \subseteq Threads \cup {NoThread}
    <1>1. ASSUME wait_obj[t] \in Objects, t \in ToSet(entry[wait_obj[t]])
          PROVE  Successor(entry[wait_obj[t]], t) \in Threads \cup {NoThread}
        BY <1>1, SuccessorType DEF TypeOK
    <1>2. ASSUME wait_obj[t] \in Objects, t \in ToSet(waiters[wait_obj[t]])
          PROVE  Successor(waiters[wait_obj[t]], t) \in Threads \cup {NoThread}
        BY <1>2, SuccessorType DEF TypeOK
    <1>3. ASSUME t \in ToSet(sleeping)
          PROVE  Successor(sleeping, t) \in Threads \cup {NoThread}
        BY <1>3, SuccessorType DEF TypeOK
    <1>4. active \subseteq Threads
        BY DEF TypeOK
    <1>5. NextWaiting(t) \in Threads \cup {NoThread}
        BY <1>1, ListHeads DEF NextWaiting
    <1>. QED BY <1>2, <1>3, <1>4, <1>5 DEF NextLinks

\* A change of the innermost call of yield changes no other.
LEMMA SetTopType ==
    ASSUME frames \in Seq(FrameType), frames # <<>>, NEW f \in FrameType
    PROVE  /\ top \in FrameType
           /\ SetTop(f) \in Seq(FrameType)
           /\ Len(SetTop(f)) = Len(frames)
    <1>1. Len(frames) \in Nat \ {0}
        OBVIOUS
    <1>2. Len(frames) \in 1..Len(frames)
        BY <1>1
    <1>. QED BY <1>2, ExceptSeq, ElementOfSeq DEF SetTop, top

\* A program calls yield with no other call of it in progress.
LEMMA ProgramFrames ==
    ASSUME Running, frames' \in {frames, <<NewFrame>>}
    PROVE  frames' \in Seq(FrameType) /\ OneNestedYield'
    <1>1. NewFrame \in FrameType
        BY DEF NewFrame, FrameType
    <1>2. frames' = <<>> \/ frames' = <<NewFrame>>
        BY DEF Running
    <1>3. <<NewFrame>> \in Seq(FrameType) /\ Len(<<NewFrame>>) = 1
        BY <1>1
    <1>4. frames' \in Seq(FrameType) /\ Len(frames') <= 1
        <2>1. CASE frames' = <<>> BY <2>1, EmptyList
        <2>2. CASE frames' = <<NewFrame>> BY <2>2, <1>3
        <2>. QED BY <1>2, <2>1, <2>2
    <1>5. Len(frames') # 2
        BY <1>2, <1>3, EmptyList
    <1>. QED BY <1>2, <1>3, <1>4, <1>5, EmptyList DEF OneNestedYield

-----------------------------------------------------------------------------
(* Steps that touch neither lists nor monitors. *)

\* A step that leaves the lists and monitors alone keeps what is said of them.
LEMMA QuietLists ==
    ASSUME ListsInv, UNCHANGED <<life, lists, monitors>>
    PROVE  ListsInv'
    BY DEF ListsInv, QueueTellsWaitObj, NoDuplicates, OnePlace, ChainTellsWaiters, LocksHeld,
           WaitersImplyLocked, lists, monitors

-----------------------------------------------------------------------------
(* Monitors. *)

\* Facts about a thread that executes.
LEMMA CurrentExecutes ==
    ASSUME TypeOK, ListsInv, CanExecute
    PROVE  /\ current \in Threads /\ frames = <<>>
           /\ current \notin async /\ current \notin ToSet(sleeping)
           /\ wait_obj[current] = NoObject
           /\ life[current] \in {"alive", "terminated"}
           /\ \A o \in Objects : current \notin ToSet(waiters[o]) /\ current \notin ToSet(entry[o])
           /\ \A o \in ToSet(locks[current]) : owner[o] = current
    BY ConstantsAssumption, MembersType
    DEF TypeOK, ListsInv, CanExecute, Running, OnePlace, QueueTellsWaitObj, LocksHeld

\* monitorenter keeps the invariant, whether it locks, locks again or blocks (Synchronizer::enter).
LEMMA MonitorEnterKeeps ==
    ASSUME SchedulerInv, NEW o \in Objects, MonitorEnter(o)
    PROVE  SchedulerInv'
    <1>. USE DEF SchedulerInv
    <1>1. /\ TypeOK /\ ListsInv /\ CanExecute
          /\ UNCHANGED <<status, current, life, sleeping, chain, waiters, async, async_redo, signals>>
        BY DEF MonitorEnter
    <1>locks. locks' = [locks EXCEPT ![current] = Append(@, o)]
        BY DEF MonitorEnter
    <1>2. /\ current \in Threads /\ frames = <<>>
          /\ current \notin async /\ current \notin ToSet(sleeping)
          /\ wait_obj[current] = NoObject
          /\ life[current] \in {"alive", "terminated"}
          /\ \A u \in Objects : current \notin ToSet(waiters[u]) /\ current \notin ToSet(entry[u])
          /\ \A u \in ToSet(locks[current]) : owner[u] = current
        BY <1>1, CurrentExecutes
    <1>3. /\ Append(locks[current], o) \in Seq(Objects)
          /\ ToSet(Append(locks[current], o)) = ToSet(locks[current]) \cup {o}
        <2>1. locks[current] \in Seq(Objects) BY <1>2 DEF TypeOK
        <2>. QED BY <2>1, AppendMember
    <1>4. locks' \in [Threads -> Seq(Objects)]
        BY <1>locks, <1>2, <1>3 DEF TypeOK
    <1>5. \A t \in Threads : \A u : u \in ToSet(locks'[t]) <=>
             u \in ToSet(locks[t]) \/ (t = current /\ u = o)
        BY <1>locks, <1>2, <1>3 DEF TypeOK
    <1>6. \A t \in Threads : ToSet(locks[t]) \subseteq Objects
        BY MembersType DEF TypeOK
    <1>7. CASE LockObject(o)
        <2>1. frames' \in Seq(FrameType) /\ OneNestedYield'
            BY <1>1, <1>7, ProgramFrames DEF CanExecute, LockObject
        <2>2. TypeOK'
            BY <1>1, <1>2, <1>4, <1>7, <2>1 DEF TypeOK, LockObject, signals
        <2>3. (QueueTellsWaitObj /\ NoDuplicates /\ OnePlace /\ ChainTellsWaiters)'
            BY <1>1, <1>7 DEF ListsInv, QueueTellsWaitObj, NoDuplicates, OnePlace,
               ChainTellsWaiters, LockObject
        <2>owner. /\ owner[o] = NoThread
                  /\ \A u \in Objects : owner'[u] = IF u = o THEN current ELSE owner[u]
                  /\ wait_obj' = wait_obj
            BY <1>7 DEF LockObject, TypeOK
        <2>4. LocksHeld'
            BY <1>1, <1>2, <1>5, <1>6, <2>owner, ConstantsAssumption
            DEF ListsInv, LocksHeld
        <2>5. WaitersImplyLocked'
            BY <1>1, <1>2, <1>7, ConstantsAssumption
            DEF ListsInv, WaitersImplyLocked, LockObject, TypeOK
        <2>. QED BY <2>1, <2>2, <2>3, <2>4, <2>5 DEF ListsInv
    <1>8. CASE LockAgain(o)
        <2>1. frames' \in Seq(FrameType) /\ OneNestedYield'
            BY <1>1, <1>8, ProgramFrames DEF CanExecute, LockAgain
        <2>2. TypeOK'
            BY <1>1, <1>2, <1>4, <1>8, <2>1 DEF TypeOK, LockAgain, signals
        <2>3. (QueueTellsWaitObj /\ NoDuplicates /\ OnePlace /\ ChainTellsWaiters)'
            BY <1>1, <1>8 DEF ListsInv, QueueTellsWaitObj, NoDuplicates, OnePlace,
               ChainTellsWaiters, LockAgain
        <2>4. LocksHeld'
            BY <1>1, <1>2, <1>5, <1>6, <1>8 DEF ListsInv, LocksHeld, LockAgain
        <2>5. WaitersImplyLocked'
            BY <1>1, <1>8 DEF ListsInv, WaitersImplyLocked, LockAgain
        <2>. QED BY <2>1, <2>2, <2>3, <2>4, <2>5 DEF ListsInv
    <1>9. CASE BlockOnObject(o)
        <2>1. frames' \in Seq(FrameType) /\ OneNestedYield'
            BY <1>1, <1>9, ProgramFrames DEF CanExecute, BlockOnObject
        <2>2. /\ Append(entry[o], current) \in Seq(Threads)
              /\ Append(entry[o], current) # <<>>
              /\ ToSet(Append(entry[o], current)) = ToSet(entry[o]) \cup {current}
              /\ IsInjective(Append(entry[o], current))
            <3>1. entry[o] \in Seq(Threads) BY DEF TypeOK
            <3>2. IsInjective(entry[o]) /\ current \notin ToSet(entry[o])
                BY <1>2 DEF ListsInv, NoDuplicates
            <3>. QED BY <1>2, <3>1, <3>2, AppendMember
        <2>3. entry' \in [Objects -> Seq(Threads)]
            BY <1>9, <2>2 DEF TypeOK, BlockOnObject
        <2>4. TypeOK'
            BY <1>1, <1>2, <1>4, <1>9, <2>1, <2>3 DEF TypeOK, BlockOnObject, signals, TimerValues
        <2>5. \A u \in Objects : \A t : t \in ToSet(entry'[u]) <=>
                 t \in ToSet(entry[u]) \/ (u = o /\ t = current)
            BY <1>9, <2>2 DEF TypeOK, BlockOnObject
        <2>6. \A t \in Threads : wait_obj'[t] = IF t = current THEN o ELSE wait_obj[t]
            BY <1>9 DEF TypeOK, BlockOnObject
        <2>7. QueueTellsWaitObj'
            BY <1>1, <1>2, <2>5, <2>6, ConstantsAssumption DEF ListsInv, QueueTellsWaitObj
        <2>8. NoDuplicates'
            <3>1. \A u \in Objects : IsInjective(entry'[u])
                BY <1>9, <2>2 DEF ListsInv, NoDuplicates, BlockOnObject, TypeOK
            <3>. QED BY <1>1, <1>2, <2>5, <3>1 DEF ListsInv, NoDuplicates
        <2>9. (OnePlace /\ ChainTellsWaiters)'
            BY <1>1, <1>2, <1>9, <2>6, ConstantsAssumption
            DEF ListsInv, OnePlace, ChainTellsWaiters, BlockOnObject
        <2>10. LocksHeld'
            <3>1. owner' = owner BY <1>9 DEF BlockOnObject
            <3>. QED BY <1>1, <1>2, <1>5, <1>6, <2>6, <3>1 DEF ListsInv, LocksHeld
        <2>11. WaitersImplyLocked'
            BY <1>1, <1>9, ConstantsAssumption DEF ListsInv, WaitersImplyLocked, BlockOnObject, TypeOK
        <2>. QED BY <2>1, <2>4, <2>7, <2>8, <2>9, <2>10, <2>11 DEF ListsInv
    <1>. QED BY <1>7, <1>8, <1>9 DEF MonitorEnter

\* signal_waiters takes the oldest waiter, who waits for the object, out of the lock's queue.
LEMMA HandOver ==
    ASSUME TypeOK, ListsInv, NEW o \in Objects
    PROVE  /\ Heir(o) \in Threads \cup {NoThread}
           /\ LaterWaiters(o) \in Seq(Threads)
           /\ IsInjective(LaterWaiters(o))
           /\ \A t \in Threads : t \in ToSet(LaterWaiters(o)) <=> t \in ToSet(entry[o]) /\ t # Heir(o)
           /\ LaterWaiters(o) # <<>> => Heir(o) \in Threads
           /\ Heir(o) \in Threads => Heir(o) \in ToSet(entry[o]) /\ wait_obj[Heir(o)] = o
    <1>1. entry[o] \in Seq(Threads) /\ IsInjective(entry[o])
        BY DEF TypeOK, ListsInv, NoDuplicates
    <1>2. CASE entry[o] = <<>>
        <2>1. Heir(o) = NoThread /\ LaterWaiters(o) = <<>>
            BY <1>2 DEF Heir, LaterWaiters, First
        <2>. QED BY <1>2, <2>1, EmptyList, ConstantsAssumption
    <1>3. CASE entry[o] # <<>>
        <2>1. Heir(o) = Head(entry[o]) /\ LaterWaiters(o) = Tail(entry[o])
            BY <1>3 DEF Heir, LaterWaiters, First
        <2>2. /\ Head(entry[o]) \in Threads
              /\ Head(entry[o]) \in ToSet(entry[o])
              /\ Tail(entry[o]) \in Seq(Threads)
              /\ ToSet(entry[o]) = ToSet(Tail(entry[o])) \cup {Head(entry[o])}
              /\ IsInjective(Tail(entry[o]))
              /\ Head(entry[o]) \notin ToSet(Tail(entry[o]))
            BY <1>1, <1>3, HeadMember
        <2>3. wait_obj[Head(entry[o])] = o
            BY <2>2 DEF ListsInv, QueueTellsWaitObj
        <2>. QED BY <2>1, <2>2, <2>3
    <1>. QED BY <1>2, <1>3

\* monitorexit keeps the invariant: signal_waiters moves the heir from the queue to the Run queue.
LEMMA MonitorExitKeeps ==
    ASSUME SchedulerInv, MonitorExit
    PROVE  SchedulerInv'
    <1>. USE DEF SchedulerInv
    <1>. DEFINE o == Last(locks[current])
    <1>1. /\ TypeOK /\ ListsInv /\ CanExecute
          /\ UNCHANGED <<status, current, life, sleeping, chain, waiters, async, async_redo,
                         timer, signals, frames>>
        BY DEF MonitorExit
    <1>locks. locks' = [locks EXCEPT ![current] = Front(@)] /\ locks[current] # <<>>
        BY DEF MonitorExit
    <1>2. /\ current \in Threads /\ frames = <<>>
          /\ wait_obj[current] = NoObject
          /\ \A u \in ToSet(locks[current]) : owner[u] = current
        BY <1>1, CurrentExecutes
    <1>3. /\ Front(locks[current]) \in Seq(Objects)
          /\ ToSet(locks[current]) = ToSet(Front(locks[current])) \cup {o}
          /\ o \in Objects
        <2>1. locks[current] \in Seq(Objects) BY <1>2 DEF TypeOK
        <2>. QED BY <1>locks, <2>1, LastMember
    <1>4. locks' \in [Threads -> Seq(Objects)]
        BY <1>locks, <1>2, <1>3 DEF TypeOK
    <1>5. \A t \in Threads : \A u : u \in ToSet(locks'[t]) =>
             IF t = current THEN u \in ToSet(Front(locks[t])) ELSE u \in ToSet(locks[t])
        BY <1>locks, <1>2, <1>3 DEF TypeOK
    <1>6. \A t \in Threads : ToSet(locks[t]) \subseteq Objects
        BY MembersType DEF TypeOK
    <1>7. frames' \in Seq(FrameType) /\ OneNestedYield'
        BY <1>1, ProgramFrames DEF CanExecute
    <1>. HIDE DEF o
    <1>8. CASE UnlockAgain(o)
        <2>1. UNCHANGED <<active, owner, entry, wait_obj>>
            BY <1>8 DEF UnlockAgain
        <2>2. TypeOK'
            BY <1>1, <1>4, <1>7, <2>1 DEF TypeOK, signals
        <2>3. (QueueTellsWaitObj /\ NoDuplicates /\ OnePlace /\ ChainTellsWaiters
               /\ WaitersImplyLocked)'
            BY <1>1, <2>1 DEF ListsInv, QueueTellsWaitObj, NoDuplicates, OnePlace,
               ChainTellsWaiters, WaitersImplyLocked
        <2>4. LocksHeld'
            BY <1>1, <1>3, <1>5, <2>1 DEF ListsInv, LocksHeld
        <2>. QED BY <1>7, <2>2, <2>3, <2>4 DEF ListsInv
    <1>9. CASE UnlockObject(o)
        <2>1. /\ Heir(o) \in Threads \cup {NoThread}
              /\ LaterWaiters(o) \in Seq(Threads)
              /\ IsInjective(LaterWaiters(o))
              /\ \A t \in Threads : t \in ToSet(LaterWaiters(o)) <=> t \in ToSet(entry[o]) /\ t # Heir(o)
              /\ LaterWaiters(o) # <<>> => Heir(o) \in Threads
              /\ Heir(o) \in Threads => Heir(o) \in ToSet(entry[o]) /\ wait_obj[Heir(o)] = o
            BY <1>1, <1>3, HandOver
        <2>2. /\ owner' \in [Objects -> Threads \cup {NoThread}]
              /\ \A u \in Objects : owner'[u] = IF u = o THEN Heir(o) ELSE owner[u]
            BY <1>9, <2>1 DEF UnlockObject, TypeOK
        <2>3. /\ entry' \in [Objects -> Seq(Threads)]
              /\ \A u \in Objects : u # o => entry'[u] = entry[u]
              /\ entry'[o] = LaterWaiters(o)
            BY <1>3, <1>9, <2>1 DEF UnlockObject, TypeOK
        <2>4. \A u \in Objects, t \in Threads : t \in ToSet(entry'[u]) <=>
                 t \in ToSet(entry[u]) /\ ~ (u = o /\ t = Heir(o))
            BY <2>1, <2>3
        <2>5. /\ wait_obj' \in [Threads -> Objects \cup {NoObject}]
              /\ \A t \in Threads : wait_obj'[t] = IF t = Heir(o) THEN NoObject ELSE wait_obj[t]
            BY <1>9, <2>1 DEF UnlockObject, TypeOK
        <2>6. /\ active' \in SUBSET Threads
              /\ \A t \in Threads : t \in active' <=> t \in active \/ t = Heir(o)
            BY <1>9, <2>1, ConstantsAssumption DEF UnlockObject, Woken, TypeOK
        <2>7. TypeOK'
            BY <1>1, <1>4, <1>7, <2>2, <2>3, <2>5, <2>6 DEF TypeOK, signals
        <2>8. QueueTellsWaitObj'
            BY <1>1, <1>3, <2>1, <2>4, <2>5, ConstantsAssumption
            DEF ListsInv, QueueTellsWaitObj, NoDuplicates
        <2>9. NoDuplicates'
            <3>1. \A u \in Objects : IsInjective(entry'[u])
                BY <2>1, <2>3 DEF ListsInv, NoDuplicates
            <3>. QED BY <1>1, <2>4, <3>1 DEF ListsInv, NoDuplicates
        <2>10. OnePlace'
            BY <1>1, <1>3, <2>1, <2>5, <2>6, ConstantsAssumption DEF ListsInv, OnePlace
        <2>11. ChainTellsWaiters'
            BY <1>1 DEF ListsInv, ChainTellsWaiters
        <2>12. LocksHeld'
            <3>1. o \notin ToSet(Front(locks[current]))
                BY <1>9 DEF UnlockObject, IsRecursive
            <3>2. SUFFICES ASSUME NEW t \in Threads, NEW u \in ToSet(locks'[t])
                           PROVE  owner'[u] = t \/ wait_obj'[t] = u
                BY DEF LocksHeld
            <3>3. u \in ToSet(locks[t]) /\ u \in Objects /\ (t = current => u # o)
                BY <1>3, <1>5, <1>6, <3>1, <3>2
            <3>4. owner[u] = t \/ wait_obj[t] = u
                BY <3>3 DEF ListsInv, LocksHeld
            <3>. QED BY <1>2, <1>3, <2>1, <2>2, <2>5, <3>3, <3>4
        <2>13. WaitersImplyLocked'
            <3>1. SUFFICES ASSUME NEW u \in Objects, entry'[u] # <<>> PROVE owner'[u] # NoThread
                BY DEF WaitersImplyLocked
            <3>2. CASE u = o
                <4>1. LaterWaiters(o) # <<>> BY <3>1, <3>2, <2>3
                <4>2. Heir(o) \in Threads BY <4>1, <2>1
                <4>3. owner'[u] = Heir(o) BY <3>2, <2>2
                <4>. QED BY <4>2, <4>3, ConstantsAssumption
            <3>3. CASE u # o
                <4>1. entry[u] # <<>> BY <3>1, <3>3, <2>3
                <4>2. owner[u] # NoThread BY <4>1 DEF ListsInv, WaitersImplyLocked
                <4>3. owner'[u] = owner[u] BY <3>3, <2>2
                <4>. QED BY <4>2, <4>3
            <3>. QED BY <3>2, <3>3
        <2>. QED BY <1>7, <2>7, <2>8, <2>9, <2>10, <2>11, <2>12, <2>13 DEF ListsInv
    <1>. QED BY <1>8, <1>9 DEF MonitorExit, o

\* wait and sleep throw at once when the interrupt flag is set.
LEMMA PendingInterruptKeeps ==
    ASSUME SchedulerInv, CanExecute, HandlePendingInterrupt,
           UNCHANGED <<status, current, life, async_redo>>
    PROVE  SchedulerInv'
    <1>. USE DEF SchedulerInv
    <1>1. ListsInv'
        BY QuietLists DEF HandlePendingInterrupt, lists, monitors
    <1>2. frames' \in Seq(FrameType) /\ OneNestedYield'
        BY ProgramFrames DEF CanExecute, HandlePendingInterrupt
    <1>3. TypeOK'
        BY <1>2 DEF TypeOK, HandlePendingInterrupt, lists, monitors
    <1>. QED BY <1>1, <1>2, <1>3

\* Scheduler::wait keeps the lists and monitors right: the lock is handed over, the thread joins the wait list.
LEMMA ReleaseAndWaitKeeps ==
    ASSUME SchedulerInv, CanExecute, NEW o \in Objects, NEW timeout \in {"none", "armed"},
           owner[o] = current, ReleaseAndWait(o, timeout),
           UNCHANGED <<status, current, life, async_redo>>
    PROVE  SchedulerInv'
    <1>. USE DEF SchedulerInv
    <1>1. TypeOK /\ ListsInv /\ UNCHANGED <<sleeping, async, locks, signals>>
        BY DEF ReleaseAndWait
    <1>2. /\ current \in Threads /\ frames = <<>>
          /\ current \notin async /\ current \notin ToSet(sleeping)
          /\ wait_obj[current] = NoObject
          /\ life[current] \in {"alive", "terminated"}
          /\ \A u \in Objects : current \notin ToSet(waiters[u]) /\ current \notin ToSet(entry[u])
          /\ \A u \in ToSet(locks[current]) : owner[u] = current
        BY <1>1, CurrentExecutes
    <1>3. /\ Heir(o) \in Threads \cup {NoThread}
          /\ LaterWaiters(o) \in Seq(Threads)
          /\ IsInjective(LaterWaiters(o))
          /\ \A t \in Threads : t \in ToSet(LaterWaiters(o)) <=> t \in ToSet(entry[o]) /\ t # Heir(o)
          /\ LaterWaiters(o) # <<>> => Heir(o) \in Threads
          /\ Heir(o) \in Threads => Heir(o) \in ToSet(entry[o]) /\ wait_obj[Heir(o)] = o
        BY <1>1, HandOver
    <1>4. Heir(o) # current
        BY <1>2, <1>3
    <1>5. frames' \in Seq(FrameType) /\ OneNestedYield'
        BY ProgramFrames DEF CanExecute, ReleaseAndWait
    <1>6. /\ owner' \in [Objects -> Threads \cup {NoThread}]
          /\ \A u \in Objects : owner'[u] = IF u = o THEN Heir(o) ELSE owner[u]
        BY <1>3 DEF ReleaseAndWait, TypeOK
    <1>7. /\ entry' \in [Objects -> Seq(Threads)]
          /\ \A u \in Objects : u # o => entry'[u] = entry[u]
          /\ entry'[o] = LaterWaiters(o)
        BY <1>3 DEF ReleaseAndWait, TypeOK
    <1>8. \A u \in Objects, t \in Threads : t \in ToSet(entry'[u]) <=>
             t \in ToSet(entry[u]) /\ ~ (u = o /\ t = Heir(o))
        BY <1>3, <1>7
    <1>9. /\ wait_obj' \in [Threads -> Objects \cup {NoObject}]
          /\ \A t \in Threads : wait_obj'[t] = IF t = current THEN o
                                               ELSE IF t = Heir(o) THEN NoObject ELSE wait_obj[t]
        BY <1>3 DEF ReleaseAndWait, TypeOK
    <1>10. /\ active' \in SUBSET Threads
           /\ \A t \in Threads : t \in active' <=> (t \in active \/ t = Heir(o)) /\ t # current
        BY <1>3, ConstantsAssumption DEF ReleaseAndWait, Woken, TypeOK
    <1>11. /\ Append(waiters[o], current) \in Seq(Threads)
           /\ Append(waiters[o], current) # <<>>
           /\ ToSet(Append(waiters[o], current)) = ToSet(waiters[o]) \cup {current}
           /\ IsInjective(Append(waiters[o], current))
        <2>1. waiters[o] \in Seq(Threads) BY DEF TypeOK
        <2>2. IsInjective(waiters[o]) /\ current \notin ToSet(waiters[o])
            BY <1>2 DEF ListsInv, NoDuplicates
        <2>. QED BY <1>2, <2>1, <2>2, AppendMember
    <1>12. /\ waiters' \in [Objects -> Seq(Threads)]
           /\ waiters'[o] = Append(waiters[o], current)
           /\ \A u \in Objects : u # o => waiters'[u] = waiters[u]
        BY <1>11 DEF ReleaseAndWait, TypeOK
    <1>13. \A u \in Objects, t \in Threads : t \in ToSet(waiters'[u]) <=>
              t \in ToSet(waiters[u]) \/ (u = o /\ t = current)
        BY <1>11, <1>12
    <1>14. /\ chain' \in Seq(Objects)
           /\ IsInjective(chain')
           /\ \A u \in Objects : u \in ToSet(chain') <=> u \in ToSet(chain) \/ u = o
        <2>1. chain \in Seq(Objects) /\ IsInjective(chain)
            BY DEF TypeOK, ListsInv, ChainTellsWaiters
        <2>2. CASE waiters[o] = <<>>
            <3>1. o \notin ToSet(chain)
                BY <2>2 DEF ListsInv, ChainTellsWaiters
            <3>2. chain' = Append(chain, o)
                BY <2>2 DEF ReleaseAndWait
            <3>. QED BY <2>1, <3>1, <3>2, AppendMember
        <2>3. CASE waiters[o] # <<>>
            BY <2>1, <2>3 DEF ReleaseAndWait, ListsInv, ChainTellsWaiters
        <2>. QED BY <2>2, <2>3
    <1>15. timer' \in [Threads -> TimerValues]
        BY <1>2 DEF ReleaseAndWait, TypeOK, TimerValues
    <1>16. TypeOK'
        BY <1>1, <1>5, <1>6, <1>7, <1>9, <1>10, <1>12, <1>14, <1>15 DEF TypeOK, signals
    <1>17. QueueTellsWaitObj'
        BY <1>1, <1>2, <1>3, <1>4, <1>8, <1>9, <1>13, ConstantsAssumption
        DEF ListsInv, QueueTellsWaitObj, NoDuplicates
    <1>18. NoDuplicates'
        <2>1. \A u \in Objects : IsInjective(entry'[u]) /\ IsInjective(waiters'[u])
            BY <1>3, <1>7, <1>11, <1>12 DEF ListsInv, NoDuplicates
        <2>. QED BY <1>1, <1>2, <1>8, <1>13, <2>1 DEF ListsInv, NoDuplicates
    <1>19. OnePlace'
        BY <1>1, <1>2, <1>3, <1>4, <1>9, <1>10, ConstantsAssumption DEF ListsInv, OnePlace
    <1>20. ChainTellsWaiters'
        BY <1>11, <1>12, <1>14 DEF ListsInv, ChainTellsWaiters
    <1>21. LocksHeld'
        <2>1. SUFFICES ASSUME NEW t \in Threads, NEW u \in ToSet(locks'[t])
                       PROVE  owner'[u] = t \/ wait_obj'[t] = u
            BY DEF LocksHeld
        <2>2. u \in ToSet(locks[t]) /\ u \in Objects
            BY <1>1, MembersType DEF TypeOK
        <2>3. owner[u] = t \/ wait_obj[t] = u
            BY <2>2 DEF ListsInv, LocksHeld
        <2>. QED BY <1>2, <1>3, <1>4, <1>6, <1>9, <2>2, <2>3, ConstantsAssumption
    <1>22. WaitersImplyLocked'
        <2>1. SUFFICES ASSUME NEW u \in Objects, entry'[u] # <<>> PROVE owner'[u] # NoThread
            BY DEF WaitersImplyLocked
        <2>2. CASE u = o
            <3>1. LaterWaiters(o) # <<>> BY <2>1, <2>2, <1>7
            <3>2. Heir(o) \in Threads BY <3>1, <1>3
            <3>3. owner'[u] = Heir(o) BY <2>2, <1>6
            <3>. QED BY <3>2, <3>3, ConstantsAssumption
        <2>3. CASE u # o
            <3>1. entry[u] # <<>> BY <2>1, <2>3, <1>7
            <3>2. owner[u] # NoThread BY <3>1 DEF ListsInv, WaitersImplyLocked
            <3>3. owner'[u] = owner[u] BY <2>3, <1>6
            <3>. QED BY <3>2, <3>3
        <2>. QED BY <2>2, <2>3
    <1>. QED BY <1>5, <1>16, <1>17, <1>18, <1>19, <1>20, <1>21, <1>22 DEF ListsInv

\* Object.wait keeps the invariant, with or without a pending interrupt.
LEMMA ObjectWaitKeeps ==
    ASSUME SchedulerInv, NEW o \in Objects, NEW timeout \in {"none", "armed"},
           ObjectWait(o, timeout)
    PROVE  SchedulerInv'
    <1>1. CASE HandlePendingInterrupt
        BY <1>1, PendingInterruptKeeps DEF ObjectWait
    <1>2. CASE ReleaseAndWait(o, timeout)
        BY <1>2, ReleaseAndWaitKeeps DEF ObjectWait
    <1>. QED BY <1>1, <1>2 DEF ObjectWait

\* What notify leaves of a wait list: the waiters that were not woken, in the same order.
LEMMA WokenPrefix ==
    ASSUME NEW s \in Seq(Threads), IsInjective(s),
           NEW ws, ws = s \/ (s # <<>> /\ ws = <<Head(s)>>)
    PROVE  /\ ws \in Seq(Threads)
           /\ IsInjective(ws)
           /\ SubSeq(s, Len(ws) + 1, Len(s)) \in Seq(Threads)
           /\ IsInjective(SubSeq(s, Len(ws) + 1, Len(s)))
           /\ \A t : t \in ToSet(ws) => t \in ToSet(s)
           /\ \A t : t \in ToSet(SubSeq(s, Len(ws) + 1, Len(s))) <=> t \in ToSet(s) /\ t \notin ToSet(ws)
           /\ SubSeq(s, Len(ws) + 1, Len(s)) = <<>> <=> ws = s
    <1>1. CASE ws = s
        <2>1. Len(s) \in Nat
            OBVIOUS
        <2>2. SubSeq(s, Len(ws) + 1, Len(s)) = <<>>
            <3>1. Len(s) + 1 \in Int /\ Len(s) \in Int /\ Len(s) < Len(s) + 1 BY <2>1
            <3>. QED BY <1>1, <3>1, SubSeqEmpty
        <2>. QED BY <1>1, <2>2, EmptyList
    <1>2. CASE s # <<>> /\ ws = <<Head(s)>>
        <2>1. /\ Head(s) \in Threads
              /\ Head(s) \in ToSet(s)
              /\ Tail(s) \in Seq(Threads)
              /\ ToSet(s) = ToSet(Tail(s)) \cup {Head(s)}
              /\ IsInjective(Tail(s))
              /\ Head(s) \notin ToSet(Tail(s))
            BY <1>2, HeadMember
        <2>2. Len(ws) = 1
            BY <1>2
        <2>3. ws \in Seq(Threads) /\ ToSet(ws) = {Head(s)} /\ IsInjective(ws)
            BY <1>2, <2>1, OneMember
        <2>4. SubSeq(s, Len(ws) + 1, Len(s)) = Tail(s)
            BY <1>2, <2>2, TailIsSubSeq
        <2>5. ToSet(s) = {Head(s)} <=> Tail(s) = <<>>
            BY <2>1, NoMembers
        <2>6. Tail(s) = <<>> => s = ws
            <3>1. SUFFICES ASSUME Tail(s) = <<>> PROVE s = ws OBVIOUS
            <3>2. Len(Tail(s)) = Len(s) - 1 /\ Len(Tail(s)) = 0
                BY <1>2, <3>1, HeadTailProperties, EmptyList
            <3>3. Len(s) = 1 BY <3>2
            <3>. QED BY <1>2, <3>3
        <2>. QED BY <2>1, <2>3, <2>4, <2>5, <2>6
    <1>. QED BY <1>1, <1>2

\* notify by the owner of o moves waiters to the lock's queue and disturbs nothing else.
LEMMA WakeKeeps ==
    ASSUME TypeOK, ListsInv, NEW o \in Objects,
           owner[o] \in Threads \/ waiters[o] = <<>>, NEW ws,
           ws = waiters[o] \/ (waiters[o] # <<>> /\ ws = <<Head(waiters[o])>>),
           Wake(o, ws),
           \A t \in Threads : life'[t] \in {"alive", "terminated"} <=> life[t] \in {"alive", "terminated"}
    PROVE  /\ waiters' \in [Objects -> Seq(Threads)] /\ entry' \in [Objects -> Seq(Threads)]
           /\ chain' \in Seq(Objects) /\ timer' \in [Threads -> TimerValues]
           /\ ListsInv'
    <1>. DEFINE rest == SubSeq(waiters[o], Len(ws) + 1, Len(waiters[o]))
    <1>1. UNCHANGED <<active, sleeping, async, locks, owner, wait_obj>>
        BY DEF Wake
    <1>2. /\ waiters[o] \in Seq(Threads) /\ IsInjective(waiters[o])
          /\ entry[o] \in Seq(Threads) /\ IsInjective(entry[o])
          /\ \A t \in Threads : ~ (t \in ToSet(waiters[o]) /\ t \in ToSet(entry[o]))
        BY DEF TypeOK, ListsInv, NoDuplicates
    <1>3. /\ ws \in Seq(Threads)
          /\ IsInjective(ws)
          /\ rest \in Seq(Threads)
          /\ IsInjective(rest)
          /\ \A t : t \in ToSet(ws) => t \in ToSet(waiters[o])
          /\ \A t : t \in ToSet(rest) <=> t \in ToSet(waiters[o]) /\ t \notin ToSet(ws)
          /\ rest = <<>> <=> ws = waiters[o]
        BY <1>2, WokenPrefix
    <1>4. /\ waiters' \in [Objects -> Seq(Threads)]
          /\ waiters'[o] = rest
          /\ \A u \in Objects : u # o => waiters'[u] = waiters[u]
        BY <1>3 DEF Wake, TypeOK
    <1>. HIDE DEF rest
    <1>5. \A u \in Objects : \A t : t \in ToSet(waiters'[u]) <=>
             t \in ToSet(waiters[u]) /\ ~ (u = o /\ t \in ToSet(ws))
        BY <1>3, <1>4
    <1>6. /\ entry[o] \o ws \in Seq(Threads)
          /\ ToSet(entry[o] \o ws) = ToSet(entry[o]) \cup ToSet(ws)
          /\ IsInjective(entry[o] \o ws)
        <2>1. ToSet(entry[o]) \cap ToSet(ws) = {}
            BY <1>2, <1>3, MembersType
        <2>. QED BY <1>2, <1>3, <2>1, SplicedMembers
    <1>7. /\ entry' \in [Objects -> Seq(Threads)]
          /\ entry'[o] = entry[o] \o ws
          /\ \A u \in Objects : u # o => entry'[u] = entry[u]
        BY <1>6 DEF Wake, TypeOK
    <1>8. \A u \in Objects : \A t : t \in ToSet(entry'[u]) <=>
             t \in ToSet(entry[u]) \/ (u = o /\ t \in ToSet(ws))
        BY <1>6, <1>7
    <1>9. /\ chain' \in Seq(Objects)
          /\ ChainTellsWaiters'
        <2>1. chain \in Seq(Objects) /\ IsInjective(chain)
            BY DEF TypeOK, ListsInv, ChainTellsWaiters
        <2>2. CASE ws # <<>> /\ ws = waiters[o]
            <3>1. o \in ToSet(chain)
                BY <2>2 DEF ListsInv, ChainTellsWaiters
            <3>2. chain' = Unlink(chain, o)
                BY <2>2 DEF Wake
            <3>3. /\ chain' \in Seq(Objects)
                  /\ IsInjective(chain')
                  /\ ToSet(chain') = ToSet(chain) \ {o}
                BY <2>1, <3>1, <3>2, UnlinkOne
            <3>. QED BY <1>3, <1>4, <2>2, <3>3 DEF ListsInv, ChainTellsWaiters
        <2>3. CASE ~ (ws # <<>> /\ ws = waiters[o])
            <3>1. chain' = chain
                BY <2>3 DEF Wake
            <3>2. waiters'[o] = <<>> <=> waiters[o] = <<>>
                BY <1>3, <1>4, <2>3
            <3>. QED BY <1>4, <2>1, <3>1, <3>2 DEF ListsInv, ChainTellsWaiters
        <2>. QED BY <2>2, <2>3
    <1>10. timer' \in [Threads -> TimerValues]
        BY DEF Wake, TypeOK, TimerValues
    <1>11. QueueTellsWaitObj'
        BY <1>1, <1>3, <1>5, <1>8 DEF ListsInv, QueueTellsWaitObj
    <1>12. NoDuplicates'
        <2>1. \A u \in Objects : IsInjective(entry'[u]) /\ IsInjective(waiters'[u])
            BY <1>3, <1>4, <1>6, <1>7 DEF ListsInv, NoDuplicates
        <2>. QED BY <1>1, <1>5, <1>8, <2>1 DEF ListsInv, NoDuplicates
    <1>13. (OnePlace /\ LocksHeld)'
        BY <1>1 DEF ListsInv, OnePlace, LocksHeld
    <1>14. WaitersImplyLocked'
        <2>1. owner[o] \in Threads \/ entry'[o] = entry[o]
            BY <1>2, <1>3, <1>7, EmptyList
        <2>. QED BY <1>1, <1>7, <2>1, ConstantsAssumption DEF ListsInv, WaitersImplyLocked
    <1>. QED BY <1>4, <1>7, <1>9, <1>10, <1>11, <1>12, <1>13, <1>14 DEF ListsInv

\* Object.notify and notifyAll keep the invariant (Scheduler::notify).
LEMMA NotifyKeeps ==
    ASSUME SchedulerInv, NEW o \in Objects, Notify(o) \/ NotifyAll(o)
    PROVE  SchedulerInv'
    <1>. USE DEF SchedulerInv
    <1>1. /\ CanExecute /\ owner[o] = current /\ waiters[o] # <<>>
          /\ UNCHANGED <<status, current, life, async_redo, signals, frames>>
          /\ \E ws \in {<<Head(waiters[o])>>, waiters[o]} : Wake(o, ws)
        BY DEF Notify, NotifyAll
    <1>2. frames' \in Seq(FrameType) /\ OneNestedYield'
        BY <1>1, ProgramFrames DEF CanExecute
    <1>3. current \in Threads
        BY DEF TypeOK
    <1>4. PICK ws \in {<<Head(waiters[o])>>, waiters[o]} : Wake(o, ws)
        BY <1>1
    <1>5. /\ waiters' \in [Objects -> Seq(Threads)] /\ entry' \in [Objects -> Seq(Threads)]
          /\ chain' \in Seq(Objects) /\ timer' \in [Threads -> TimerValues]
          /\ ListsInv'
        BY <1>1, <1>3, <1>4, WakeKeeps
    <1>6. TypeOK'
        BY <1>1, <1>2, <1>4, <1>5 DEF TypeOK, Wake, signals
    <1>. QED BY <1>2, <1>5, <1>6

\* A waiting thread is where its wait_obj leads: remove_waiting_thread finds it.
LEMMA WaitingIsRemovable ==
    ASSUME TypeOK, ListsInv, NEW t \in Threads, t \in Waiting
    PROVE  Removable(t)
    <1>1. t \in ToSet(sleeping) \/ \E o \in Objects : t \in ToSet(waiters[o])
        BY DEF Waiting
    <1>2. CASE t \in ToSet(sleeping)
        BY <1>2 DEF Removable, ListsInv, OnePlace
    <1>3. CASE \E o \in Objects : t \in ToSet(waiters[o])
        BY <1>3, ConstantsAssumption DEF Removable, ListsInv, QueueTellsWaitObj
    <1>. QED BY <1>1, <1>2, <1>3

\* remove_waiting_thread and notify_wakeup take the thread out of its list, into one other.
LEMMA RemoveAndWakeUpKeeps ==
    ASSUME TypeOK, ListsInv, NEW t \in Threads, Removable(t), RemoveAndWakeUp(t), UNCHANGED life
    PROVE  /\ active' \in SUBSET Threads /\ sleeping' \in Seq(Threads)
           /\ waiters' \in [Objects -> Seq(Threads)] /\ entry' \in [Objects -> Seq(Threads)]
           /\ chain' \in Seq(Objects) /\ timer' \in [Threads -> TimerValues]
           /\ owner' \in [Objects -> Threads \cup {NoThread}]
           /\ wait_obj' \in [Threads -> Objects \cup {NoObject}]
           /\ locks' = locks /\ async' = async
           /\ ListsInv'
           /\ t \notin Waiting'
           /\ Waiting' \subseteq Waiting
    <1>1. CASE wait_obj[t] = NoObject
        <2>1. /\ sleeping' = Unlink(sleeping, t)
              /\ active' = active \cup {t}
              /\ UNCHANGED <<chain, waiters, async, locks, owner, entry, wait_obj, timer>>
            BY <1>1, ConstantsAssumption DEF RemoveAndWakeUp, monitors
        <2>2. t \in ToSet(sleeping)
            BY <1>1 DEF Removable
        <2>3. /\ sleeping' \in Seq(Threads)
              /\ IsInjective(sleeping')
              /\ ToSet(sleeping') = ToSet(sleeping) \ {t}
            BY <2>1, <2>2, UnlinkOne DEF TypeOK, ListsInv, NoDuplicates
        <2>4. active' \in SUBSET Threads /\ \A u \in Threads : u \in active' <=> u \in active \/ u = t
            BY <2>1 DEF TypeOK
        <2>5. OnePlace'
            BY <1>1, <2>1, <2>2, <2>3, <2>4 DEF ListsInv, OnePlace
        <2>6. (QueueTellsWaitObj /\ ChainTellsWaiters /\ LocksHeld /\ WaitersImplyLocked)'
            BY <2>1 DEF ListsInv, QueueTellsWaitObj, ChainTellsWaiters, LocksHeld, WaitersImplyLocked
        <2>7. NoDuplicates'
            BY <2>1, <2>3 DEF ListsInv, NoDuplicates
        <2>8. t \notin Waiting' /\ Waiting' \subseteq Waiting
            <3>1. \A o \in Objects : t \notin ToSet(waiters[o])
                BY <1>1, ConstantsAssumption DEF ListsInv, QueueTellsWaitObj
            <3>. QED BY <2>1, <2>3, <3>1 DEF Waiting
        <2>. QED BY <2>1, <2>3, <2>4, <2>5, <2>6, <2>7, <2>8 DEF ListsInv, TypeOK
    <1>2. CASE wait_obj[t] # NoObject
        <2>. DEFINE o == wait_obj[t]
        <2>1. o \in Objects
            BY <1>2 DEF TypeOK
        <2>2. /\ t \in ToSet(waiters[o])
              /\ waiters' = [waiters EXCEPT ![o] = Unlink(@, t)]
              /\ chain' = IF Len(waiters[o]) = 1 THEN Unlink(chain, o) ELSE chain
              /\ UNCHANGED <<sleeping, async, locks>>
            BY <1>2 DEF RemoveAndWakeUp, Removable
        <2>free. \/ /\ owner[o] = NoThread
                    /\ owner' = [owner EXCEPT ![o] = t]
                    /\ active' = active \cup {t}
                    /\ wait_obj' = [wait_obj EXCEPT ![t] = NoObject]
                    /\ UNCHANGED <<entry, timer>>
                 \/ /\ owner[o] # NoThread
                    /\ entry' = [entry EXCEPT ![o] = Append(@, t)]
                    /\ timer' = [timer EXCEPT ![t] = "none"]
                    /\ UNCHANGED <<active, owner, wait_obj>>
            BY <1>2 DEF RemoveAndWakeUp
        <2>obj. wait_obj[t] = o
            OBVIOUS
        <2>. HIDE DEF o
        <2>3. /\ Unlink(waiters[o], t) \in Seq(Threads)
              /\ IsInjective(Unlink(waiters[o], t))
              /\ ToSet(Unlink(waiters[o], t)) = ToSet(waiters[o]) \ {t}
              /\ Unlink(waiters[o], t) = <<>> <=> Len(waiters[o]) = 1
            <3>1. waiters[o] \in Seq(Threads) /\ IsInjective(waiters[o])
                BY <2>1 DEF TypeOK, ListsInv, NoDuplicates
            <3>. QED BY <2>2, <3>1, UnlinkOne
        <2>4. /\ waiters' \in [Objects -> Seq(Threads)]
              /\ waiters'[o] = Unlink(waiters[o], t)
              /\ \A u \in Objects : u # o => waiters'[u] = waiters[u]
            BY <2>1, <2>2, <2>3 DEF TypeOK
        <2>5. \A u \in Objects : \A v : v \in ToSet(waiters'[u]) <=>
                 v \in ToSet(waiters[u]) /\ ~ (u = o /\ v = t)
            BY <2>3, <2>4
        <2>6. /\ chain' \in Seq(Objects)
              /\ ChainTellsWaiters'
            <3>1. chain \in Seq(Objects) /\ IsInjective(chain)
                BY DEF TypeOK, ListsInv, ChainTellsWaiters
            <3>2. waiters[o] # <<>>
                BY <2>2, EmptyList
            <3>3. o \in ToSet(chain)
                BY <2>1, <3>2 DEF ListsInv, ChainTellsWaiters
            <3>4. CASE Len(waiters[o]) = 1
                <4>1. chain' = Unlink(chain, o)
                    BY <2>2, <3>4
                <4>2. /\ chain' \in Seq(Objects)
                      /\ IsInjective(chain')
                      /\ ToSet(chain') = ToSet(chain) \ {o}
                    BY <3>1, <3>3, <4>1, UnlinkOne
                <4>. QED BY <2>3, <2>4, <3>4, <4>2 DEF ListsInv, ChainTellsWaiters
            <3>5. CASE Len(waiters[o]) # 1
                <4>1. chain' = chain
                    BY <2>2, <3>5
                <4>. QED BY <2>3, <2>4, <3>1, <3>2, <3>5, <4>1 DEF ListsInv, ChainTellsWaiters
            <3>. QED BY <3>4, <3>5
        <2>7. t \notin ToSet(sleeping) /\ t \notin active /\ t \notin async
            BY <1>2 DEF ListsInv, OnePlace
        <2>8. t \notin Waiting' /\ Waiting' \subseteq Waiting
            <3>1. \A u \in Objects : u # o => t \notin ToSet(waiters[u])
                BY <2>obj DEF ListsInv, QueueTellsWaitObj
            <3>. QED BY <2>2, <2>5, <2>7, <3>1 DEF Waiting
        <2>9. CASE owner[o] = NoThread
            <3>1. /\ owner' = [owner EXCEPT ![o] = t]
                  /\ active' = active \cup {t}
                  /\ wait_obj' = [wait_obj EXCEPT ![t] = NoObject]
                  /\ UNCHANGED <<entry, timer>>
                BY <2>9, <2>free
            <3>2. /\ owner' \in [Objects -> Threads \cup {NoThread}]
                  /\ \A u \in Objects : owner'[u] = IF u = o THEN t ELSE owner[u]
                BY <3>1 DEF TypeOK
            <3>3. /\ wait_obj' \in [Threads -> Objects \cup {NoObject}]
                  /\ \A v \in Threads : wait_obj'[v] = IF v = t THEN NoObject ELSE wait_obj[v]
                BY <3>1 DEF TypeOK
            <3>4. active' \in SUBSET Threads /\ \A u \in Threads : u \in active' <=> u \in active \/ u = t
                BY <3>1 DEF TypeOK
            <3>5. /\ entry' = entry /\ timer' = timer
                  /\ entry' \in [Objects -> Seq(Threads)] /\ timer' \in [Threads -> TimerValues]
                BY <3>1 DEF TypeOK
            <3>6. QueueTellsWaitObj'
                <4>1. t \notin ToSet(entry[o])
                    BY <2>1, <2>2 DEF ListsInv, NoDuplicates
                <4>2. \A u \in Objects : t \notin ToSet(waiters'[u]) /\ t \notin ToSet(entry'[u])
                    BY <2>5, <2>obj, <3>5, <4>1 DEF ListsInv, QueueTellsWaitObj
                <4>3. SUFFICES ASSUME NEW v \in Threads, NEW u \in Objects
                      PROVE  v \in ToSet(waiters'[u]) \/ v \in ToSet(entry'[u]) <=> wait_obj'[v] = u
                    BY DEF QueueTellsWaitObj
                <4>4. CASE v = t
                    BY <3>3, <4>2, <4>4, ConstantsAssumption
                <4>5. CASE v # t
                    <5>1. wait_obj'[v] = wait_obj[v] /\ entry'[u] = entry[u]
                        BY <3>3, <3>5, <4>5
                    <5>2. v \in ToSet(waiters'[u]) <=> v \in ToSet(waiters[u])
                        BY <2>5, <4>5
                    <5>. QED BY <5>1, <5>2 DEF ListsInv, QueueTellsWaitObj
                <4>. QED BY <4>4, <4>5
            <3>7. NoDuplicates'
                <4>1. \A u \in Objects : IsInjective(waiters'[u]) /\ IsInjective(entry'[u])
                    BY <2>3, <2>4, <3>5 DEF ListsInv, NoDuplicates
                <4>. QED BY <2>2, <2>5, <3>5, <4>1 DEF ListsInv, NoDuplicates
            <3>8. OnePlace'
                BY <1>2, <2>2, <2>7, <3>3, <3>4 DEF ListsInv, OnePlace
            <3>9. LocksHeld'
                <4>1. SUFFICES ASSUME NEW v \in Threads, NEW u \in ToSet(locks'[v])
                               PROVE  owner'[u] = v \/ wait_obj'[v] = u
                    BY DEF LocksHeld
                <4>2. u \in ToSet(locks[v]) /\ u \in Objects
                    BY <2>2, MembersType DEF TypeOK
                <4>3. owner[u] = v \/ wait_obj[v] = u
                    BY <4>2 DEF ListsInv, LocksHeld
                <4>. QED BY <2>9, <2>obj, <3>2, <3>3, <4>2, <4>3, ConstantsAssumption
            <3>10. WaitersImplyLocked'
                BY <3>2, <3>5, ConstantsAssumption DEF ListsInv, WaitersImplyLocked
            <3>11. sleeping' \in Seq(Threads) /\ locks' = locks /\ async' = async
                BY <2>2 DEF TypeOK
            <3>. QED BY <2>4, <2>6, <2>8, <3>2, <3>3, <3>4, <3>5, <3>6, <3>7, <3>8, <3>9,
                        <3>10, <3>11 DEF ListsInv
        <2>10. CASE owner[o] # NoThread
            <3>1. /\ entry' = [entry EXCEPT ![o] = Append(@, t)]
                  /\ timer' = [timer EXCEPT ![t] = "none"]
                  /\ UNCHANGED <<active, owner, wait_obj>>
                BY <2>10, <2>free
            <3>2. /\ Append(entry[o], t) \in Seq(Threads)
                  /\ ToSet(Append(entry[o], t)) = ToSet(entry[o]) \cup {t}
                  /\ IsInjective(Append(entry[o], t))
                <4>1. entry[o] \in Seq(Threads) /\ IsInjective(entry[o]) /\ t \notin ToSet(entry[o])
                    BY <2>1, <2>2 DEF TypeOK, ListsInv, NoDuplicates
                <4>. QED BY <4>1, AppendMember
            <3>3. /\ entry' \in [Objects -> Seq(Threads)]
                  /\ entry'[o] = Append(entry[o], t)
                  /\ \A u \in Objects : u # o => entry'[u] = entry[u]
                BY <2>1, <3>1, <3>2 DEF TypeOK
            <3>4. \A u \in Objects : \A v : v \in ToSet(entry'[u]) <=>
                     v \in ToSet(entry[u]) \/ (u = o /\ v = t)
                BY <3>2, <3>3
            <3>5. timer' \in [Threads -> TimerValues]
                BY <3>1 DEF TypeOK, TimerValues
            <3>6. UNCHANGED <<active, owner, wait_obj>>
                BY <3>1
            <3>7. QueueTellsWaitObj'
                BY <2>1, <2>2, <2>5, <2>obj, <3>4, <3>6 DEF ListsInv, QueueTellsWaitObj
            <3>8. NoDuplicates'
                <4>1. \A u \in Objects : IsInjective(waiters'[u]) /\ IsInjective(entry'[u])
                    BY <2>3, <2>4, <3>2, <3>3 DEF ListsInv, NoDuplicates
                <4>. QED BY <2>2, <2>5, <3>4, <4>1 DEF ListsInv, NoDuplicates
            <3>9. (OnePlace /\ LocksHeld)'
                BY <2>2, <3>6 DEF ListsInv, OnePlace, LocksHeld
            <3>10. WaitersImplyLocked'
                BY <2>10, <3>3, <3>6 DEF ListsInv, WaitersImplyLocked
            <3>11. sleeping' \in Seq(Threads) /\ locks' = locks /\ async' = async
                BY <2>2 DEF TypeOK
            <3>. QED BY <2>4, <2>6, <2>8, <3>3, <3>5, <3>6, <3>7, <3>8, <3>9, <3>10, <3>11
                     DEF ListsInv, TypeOK
        <2>. QED BY <2>9, <2>10
    <1>. QED BY <1>1, <1>2

-----------------------------------------------------------------------------
(* Threads. *)

\* Scheduler::start keeps the invariant: the new thread was in no list.
LEMMA StartThreadKeeps ==
    ASSUME SchedulerInv, NEW t \in Threads, StartThread(t)
    PROVE  SchedulerInv'
    <1>. USE DEF SchedulerInv
    <1>1. /\ CanExecute /\ life[t] = "unstarted"
          /\ active' = active \cup {t}
          /\ UNCHANGED <<status, current, sleeping, chain, waiters, async, async_redo, monitors,
                         timer, signals, frames>>
        BY DEF StartThread
    <1>2. \A u \in Threads : life'[u] = IF u = t THEN "alive" ELSE life[u]
        BY DEF StartThread, TypeOK
    <1>3. life' \in [Threads -> {"unstarted", "alive", "terminated", "gone"}]
        BY DEF StartThread, TypeOK
    <1>4. frames' \in Seq(FrameType) /\ OneNestedYield'
        BY <1>1, ProgramFrames DEF CanExecute
    <1>5. TypeOK'
        BY <1>1, <1>3, <1>4 DEF TypeOK, monitors, signals
    <1>6. OnePlace'
        BY <1>1, <1>2 DEF ListsInv, OnePlace, monitors
    <1>7. (QueueTellsWaitObj /\ NoDuplicates /\ ChainTellsWaiters /\ LocksHeld /\ WaitersImplyLocked)'
        BY <1>1 DEF ListsInv, QueueTellsWaitObj, NoDuplicates, ChainTellsWaiters, LocksHeld,
           WaitersImplyLocked, monitors
    <1>. QED BY <1>4, <1>5, <1>6, <1>7 DEF ListsInv

\* Thread.sleep keeps the invariant (sleep_current_thread).
LEMMA SleepKeeps ==
    ASSUME SchedulerInv, Sleep
    PROVE  SchedulerInv'
    <1>. USE DEF SchedulerInv
    <1>1. CASE HandlePendingInterrupt
        BY <1>1, PendingInterruptKeeps DEF Sleep
    <1>2. CASE FallAsleep
        <2>1. /\ CanExecute /\ current \in Threads
              /\ UNCHANGED <<status, current, life, async_redo>>
              /\ UNCHANGED <<chain, waiters, async, locks, owner, entry, signals>>
            BY <1>2 DEF Sleep, FallAsleep, TypeOK
        <2>2. /\ current \notin async /\ current \notin ToSet(sleeping)
              /\ wait_obj[current] = NoObject
              /\ life[current] \in {"alive", "terminated"}
            BY <2>1, CurrentExecutes
        <2>3. frames' \in Seq(FrameType) /\ OneNestedYield'
            BY <1>2, <2>1, ProgramFrames DEF CanExecute, FallAsleep
        <2>4. wait_obj' = wait_obj
            BY <1>2, <2>1, <2>2 DEF FallAsleep, TypeOK
        <2>5. /\ sleeping' \in Seq(Threads)
              /\ IsInjective(sleeping')
              /\ ToSet(sleeping') = ToSet(sleeping) \cup {current}
            <3>1. sleeping' = Append(sleeping, current) BY <1>2 DEF FallAsleep
            <3>2. sleeping \in Seq(Threads) BY DEF TypeOK
            <3>3. IsInjective(sleeping) BY DEF ListsInv, NoDuplicates
            <3>. QED BY <3>1, <3>2, <3>3, <2>1, <2>2, AppendMember
        <2>6. /\ active' = active \ {current}
              /\ timer' \in [Threads -> TimerValues]
            BY <1>2, <2>1 DEF FallAsleep, TypeOK, TimerValues
        <2>7. TypeOK'
            BY <2>1, <2>3, <2>4, <2>5, <2>6 DEF TypeOK, signals
        <2>8. OnePlace'
            BY <2>1, <2>2, <2>4, <2>5, <2>6 DEF ListsInv, OnePlace
        <2>9. NoDuplicates'
            BY <2>1, <2>5 DEF ListsInv, NoDuplicates
        <2>10. (QueueTellsWaitObj /\ ChainTellsWaiters /\ LocksHeld /\ WaitersImplyLocked)'
            BY <2>1, <2>4 DEF ListsInv, QueueTellsWaitObj, ChainTellsWaiters, LocksHeld,
               WaitersImplyLocked
        <2>. QED BY <2>3, <2>7, <2>8, <2>9, <2>10 DEF ListsInv
    <1>. QED BY <1>1, <1>2 DEF Sleep

\* block_current_thread keeps the invariant: the thread moves to the asynchronous list.
LEMMA BlockCurrentThreadKeeps ==
    ASSUME SchedulerInv, BlockCurrentThread
    PROVE  SchedulerInv'
    <1>. USE DEF SchedulerInv
    <1>1. /\ CanExecute /\ current \in Threads
          /\ active' = active \ {current}
          /\ async' = async \cup {current}
          /\ async_redo' = async_redo \cup {current}
          /\ UNCHANGED <<status, current, life, sleeping, chain, waiters, monitors, timer, signals>>
        BY DEF BlockCurrentThread, TypeOK
    <1>2. frames' \in Seq(FrameType) /\ OneNestedYield'
        BY <1>1, ProgramFrames DEF CanExecute, BlockCurrentThread
    <1>3. TypeOK'
        BY <1>1, <1>2 DEF TypeOK, monitors, signals
    <1>4. OnePlace'
        BY <1>1, CurrentExecutes DEF ListsInv, OnePlace, monitors
    <1>5. (QueueTellsWaitObj /\ NoDuplicates /\ ChainTellsWaiters /\ LocksHeld /\ WaitersImplyLocked)'
        BY <1>1 DEF ListsInv, QueueTellsWaitObj, NoDuplicates, ChainTellsWaiters, LocksHeld,
           WaitersImplyLocked, monitors
    <1>. QED BY <1>2, <1>3, <1>4, <1>5 DEF ListsInv

\* unblock_thread keeps the invariant: the thread moves back to the Run queue.
LEMMA UnblockThreadKeeps ==
    ASSUME SchedulerInv, NEW t \in Threads, UnblockThread(t)
    PROVE  SchedulerInv'
    <1>. USE DEF SchedulerInv
    <1>1. /\ t \in async
          /\ async' = async \ {t}
          /\ active' = active \cup {t}
          /\ UNCHANGED <<status, current, life, sleeping, chain, waiters, async_redo, monitors,
                         timer, signals, frames>>
        BY DEF UnblockThread
    <1>2. TypeOK'
        BY <1>1 DEF TypeOK, monitors, signals
    <1>3. OnePlace'
        BY <1>1 DEF ListsInv, OnePlace, monitors
    <1>4. (QueueTellsWaitObj /\ NoDuplicates /\ ChainTellsWaiters /\ LocksHeld /\ WaitersImplyLocked)'
        BY <1>1 DEF ListsInv, QueueTellsWaitObj, NoDuplicates, ChainTellsWaiters, LocksHeld,
           WaitersImplyLocked, monitors
    <1>5. OneNestedYield'
        BY <1>1 DEF OneNestedYield, Waiting
    <1>. QED BY <1>2, <1>3, <1>4, <1>5 DEF ListsInv

\* interrupt_thread keeps the invariant, whether its target waits or not.
LEMMA InterruptKeeps ==
    ASSUME SchedulerInv, NEW t \in Threads, Interrupt(t)
    PROVE  SchedulerInv'
    <1>. USE DEF SchedulerInv
    <1>1. CanExecute /\ UNCHANGED <<status, current, life, async_redo, frames>>
        BY DEF Interrupt
    <1>2. frames' \in Seq(FrameType) /\ OneNestedYield'
        BY <1>1, ProgramFrames DEF CanExecute
    <1>3. CASE InterruptWaiting(t)
        <2>1. /\ RemoveAndWakeUp(t) /\ Removable(t)
              /\ pending_exception' \in SUBSET Threads /\ UNCHANGED pending_interrupt
            BY <1>3, WaitingIsRemovable DEF InterruptWaiting, TypeOK
        <2>2. TypeOK' /\ ListsInv'
            BY <1>1, <1>2, <2>1, RemoveAndWakeUpKeeps DEF TypeOK
        <2>. QED BY <1>2, <2>2
    <1>4. CASE InterruptLater(t)
        <2>1. ListsInv'
            BY <1>1, <1>4, QuietLists DEF InterruptLater
        <2>2. TypeOK'
            BY <1>1, <1>2, <1>4 DEF TypeOK, InterruptLater, lists, monitors
        <2>. QED BY <1>2, <2>1, <2>2
    <1>. QED BY <1>3, <1>4 DEF Interrupt

\* A thread ends and the lock its joiners wait for is free: the oldest gets it, the others queue.
LEMMA FreeLockTaken ==
    ASSUME TypeOK, ListsInv, NEW o \in Objects, WakeOnFreeLock(o)
    PROVE  /\ Head(waiters[o]) \in Threads
           /\ Tail(waiters[o]) \in Seq(Threads)
           /\ IsInjective(Tail(waiters[o]))
           /\ ToSet(waiters[o]) = ToSet(Tail(waiters[o])) \cup {Head(waiters[o])}
           /\ Head(waiters[o]) \notin ToSet(Tail(waiters[o]))
           /\ wait_obj[Head(waiters[o])] = o
           /\ o \in ToSet(chain)
           /\ entry[o] = <<>>
           /\ waiters' \in [Objects -> Seq(Threads)]
           /\ \A u \in Objects : waiters'[u] = IF u = o THEN <<>> ELSE waiters[u]
           /\ entry' \in [Objects -> Seq(Threads)]
           /\ \A u \in Objects : entry'[u] = IF u = o THEN Tail(waiters[o]) ELSE entry[u]
           /\ owner' \in [Objects -> Threads \cup {NoThread}]
           /\ \A u \in Objects : owner'[u] = IF u = o THEN Head(waiters[o]) ELSE owner[u]
           /\ wait_obj' \in [Threads -> Objects \cup {NoObject}]
           /\ \A t \in Threads : wait_obj'[t] = IF t = Head(waiters[o]) THEN NoObject ELSE wait_obj[t]
    <1>1. /\ waiters[o] \in Seq(Threads) /\ waiters[o] # <<>> /\ IsInjective(waiters[o])
          /\ entry \in [Objects -> Seq(Threads)] /\ waiters \in [Objects -> Seq(Threads)]
          /\ owner \in [Objects -> Threads \cup {NoThread}]
          /\ wait_obj \in [Threads -> Objects \cup {NoObject}]
        BY DEF TypeOK, ListsInv, NoDuplicates, WakeOnFreeLock
    <1>2. /\ Head(waiters[o]) \in Threads
          /\ Tail(waiters[o]) \in Seq(Threads)
          /\ Head(waiters[o]) \in ToSet(waiters[o])
          /\ ToSet(waiters[o]) = ToSet(Tail(waiters[o])) \cup {Head(waiters[o])}
          /\ IsInjective(Tail(waiters[o]))
          /\ Head(waiters[o]) \notin ToSet(Tail(waiters[o]))
        BY <1>1, HeadMember
    <1>3. entry[o] = <<>>
        BY DEF WakeOnFreeLock, ListsInv, WaitersImplyLocked
    <1>4. <<>> \o Tail(waiters[o]) = Tail(waiters[o])
        BY <1>2
    <1>5. /\ waiters' = [waiters EXCEPT ![o] = <<>>]
          /\ entry' = [entry EXCEPT ![o] = Tail(waiters[o])]
          /\ owner' = [owner EXCEPT ![o] = Head(waiters[o])]
          /\ wait_obj' = [wait_obj EXCEPT ![Head(waiters[o])] = NoObject]
        BY <1>1, <1>3, <1>4 DEF WakeOnFreeLock
    <1>6. wait_obj[Head(waiters[o])] = o
        BY <1>2 DEF ListsInv, QueueTellsWaitObj
    <1>7. o \in ToSet(chain)
        BY <1>1 DEF ListsInv, ChainTellsWaiters
    <1>. QED BY <1>1, <1>2, <1>3, <1>5, <1>6, <1>7, EmptyList

\* Scheduler::notify of an object nobody has locked moves one waiter to the Run queue, the others
\* to the queue of the lock, and disturbs nothing else.
LEMMA FreeLockKeeps ==
    ASSUME TypeOK, ListsInv, NEW o \in Objects, WakeOnFreeLock(o),
           \A t \in Threads : life'[t] \in {"alive", "terminated"} <=> life[t] \in {"alive", "terminated"}
    PROVE  /\ waiters' \in [Objects -> Seq(Threads)] /\ entry' \in [Objects -> Seq(Threads)]
           /\ chain' \in Seq(Objects) /\ timer' \in [Threads -> TimerValues]
           /\ owner' \in [Objects -> Threads \cup {NoThread}]
           /\ wait_obj' \in [Threads -> Objects \cup {NoObject}]
           /\ active' \in SUBSET Threads
           /\ UNCHANGED <<sleeping, async, locks>>
           /\ ListsInv'
    <1>. DEFINE first == Head(waiters[o])
    <1>. DEFINE others == Tail(waiters[o])
    <1>1. /\ first \in Threads /\ others \in Seq(Threads) /\ IsInjective(others)
          /\ ToSet(waiters[o]) = ToSet(others) \cup {first} /\ first \notin ToSet(others)
          /\ wait_obj[first] = o /\ o \in ToSet(chain) /\ entry[o] = <<>>
          /\ waiters' \in [Objects -> Seq(Threads)]
          /\ \A u \in Objects : waiters'[u] = IF u = o THEN <<>> ELSE waiters[u]
          /\ entry' \in [Objects -> Seq(Threads)]
          /\ \A u \in Objects : entry'[u] = IF u = o THEN others ELSE entry[u]
          /\ owner' \in [Objects -> Threads \cup {NoThread}]
          /\ \A u \in Objects : owner'[u] = IF u = o THEN first ELSE owner[u]
          /\ wait_obj' \in [Threads -> Objects \cup {NoObject}]
          /\ \A t \in Threads : wait_obj'[t] = IF t = first THEN NoObject ELSE wait_obj[t]
        BY FreeLockTaken
    <1>2. /\ active' = active \cup {first}
          /\ timer' = [t \in Threads |-> IF t \in ToSet(others) THEN "none" ELSE timer[t]]
          /\ chain' = Unlink(chain, o) /\ owner[o] = NoThread
          /\ UNCHANGED <<sleeping, async, locks>>
        BY DEF WakeOnFreeLock
    <1>. HIDE DEF first, others
    <1>3. active' \in SUBSET Threads /\ timer' \in [Threads -> TimerValues]
        BY <1>1, <1>2 DEF TypeOK, TimerValues
    <1>4. /\ chain' \in Seq(Objects) /\ IsInjective(chain') /\ ToSet(chain') = ToSet(chain) \ {o}
        <2>1. chain \in Seq(Objects) /\ IsInjective(chain)
            BY DEF TypeOK, ListsInv, ChainTellsWaiters
        <2>. QED BY <1>1, <1>2, <2>1, UnlinkOne
    <1>5. ChainTellsWaiters'
        BY <1>1, <1>4 DEF ListsInv, ChainTellsWaiters
    <1>6. \A u \in Objects : \A t : t \in ToSet(waiters'[u]) <=> t \in ToSet(waiters[u]) /\ u # o
        BY <1>1, EmptyList
    <1>7. \A u \in Objects : \A t : t \in ToSet(entry'[u]) <=>
             t \in ToSet(entry[u]) \/ (u = o /\ t \in ToSet(waiters[u]) /\ t # first)
        BY <1>1, EmptyList
    <1>8. QueueTellsWaitObj'
        <2>1. SUFFICES ASSUME NEW t \in Threads, NEW u \in Objects
              PROVE  t \in ToSet(waiters'[u]) \/ t \in ToSet(entry'[u]) <=> wait_obj'[t] = u
            BY DEF QueueTellsWaitObj
        <2>2. t \in ToSet(waiters[u]) \/ t \in ToSet(entry[u]) <=> wait_obj[t] = u
            BY DEF ListsInv, QueueTellsWaitObj
        <2>3. CASE t = first
            <3>1. u # o => t \notin ToSet(waiters[u]) /\ t \notin ToSet(entry[u])
                BY <1>1, <2>2, <2>3
            <3>2. t \notin ToSet(waiters'[u]) /\ t \notin ToSet(entry'[u])
                BY <1>1, <1>6, <1>7, <2>3, <3>1, EmptyList
            <3>. QED BY <1>1, <2>3, <3>2, ConstantsAssumption
        <2>4. CASE t # first
            BY <1>1, <1>6, <1>7, <2>2, <2>4
        <2>. QED BY <2>3, <2>4
    <1>9. NoDuplicates'
        <2>1. \A u \in Objects : IsInjective(entry'[u]) /\ IsInjective(waiters'[u])
            BY <1>1, EmptyList DEF ListsInv, NoDuplicates
        <2>. QED BY <1>2, <1>6, <1>7, <2>1 DEF ListsInv, NoDuplicates
    <1>10. OnePlace'
        <2>1. first \notin async /\ first \notin ToSet(sleeping) /\ wait_obj[first] # NoObject
            BY <1>1, ConstantsAssumption DEF ListsInv, OnePlace
        <2>. QED BY <1>1, <1>2, <2>1 DEF ListsInv, OnePlace
    <1>11. LocksHeld'
        <2>1. SUFFICES ASSUME NEW v \in Threads, NEW u \in ToSet(locks'[v])
                       PROVE  owner'[u] = v \/ wait_obj'[v] = u
            BY DEF LocksHeld
        <2>2. u \in ToSet(locks[v]) /\ u \in Objects
            BY <1>2, MembersType DEF TypeOK
        <2>3. owner[u] = v \/ wait_obj[v] = u
            BY <2>2 DEF ListsInv, LocksHeld
        <2>. QED BY <1>1, <1>2, <2>2, <2>3, ConstantsAssumption
    <1>12. WaitersImplyLocked'
        <2>1. \A u \in Objects : u # o => entry'[u] = entry[u] /\ owner'[u] = owner[u]
            BY <1>1
        <2>2. owner'[o] # NoThread
            BY <1>1, ConstantsAssumption
        <2>. QED BY <2>1, <2>2 DEF ListsInv, WaitersImplyLocked
    <1>. QED BY <1>1, <1>2, <1>3, <1>4, <1>5, <1>8, <1>9, <1>10, <1>11, <1>12 DEF ListsInv

\* Thread::finish keeps the invariant, whoever has locked the Thread object, or nobody.
LEMMA FinishThreadKeeps ==
    ASSUME SchedulerInv, FinishThread
    PROVE  SchedulerInv'
    <1>. USE DEF SchedulerInv
    <1>. DEFINE o == ThreadObj[current]
    <1>1. /\ CanExecute /\ current \in Threads /\ life[current] = "alive"
          /\ IF o = NoObject THEN UNCHANGED <<lists, monitors, timer>> ELSE WakeJoining(o)
          /\ UNCHANGED <<status, current, async_redo, signals, frames>>
        BY DEF FinishThread, TypeOK
    <1>2. /\ life' \in [Threads -> {"unstarted", "alive", "terminated", "gone"}]
          /\ \A t \in Threads : life'[t] \in {"alive", "terminated"} <=> life[t] \in {"alive", "terminated"}
        BY DEF FinishThread, TypeOK
    <1>3. frames' \in Seq(FrameType) /\ OneNestedYield'
        BY <1>1, ProgramFrames DEF CanExecute
    <1>4. o \in Objects \cup {NoObject}
        BY <1>1, ConstantsAssumption
    <1>. HIDE DEF o
    <1>5. CASE o = NoObject
        <2>1. UNCHANGED <<active, sleeping, chain, waiters, async, locks, owner, entry, wait_obj, timer>>
            BY <1>1, <1>5 DEF lists, monitors
        <2>2. TypeOK'
            BY <1>1, <1>2, <1>3, <2>1 DEF TypeOK, signals
        <2>3. OnePlace'
            BY <1>2, <2>1 DEF ListsInv, OnePlace
        <2>4. (QueueTellsWaitObj /\ NoDuplicates /\ ChainTellsWaiters /\ LocksHeld /\ WaitersImplyLocked)'
            BY <2>1 DEF ListsInv, QueueTellsWaitObj, NoDuplicates, ChainTellsWaiters, LocksHeld,
               WaitersImplyLocked
        <2>. QED BY <1>3, <2>2, <2>3, <2>4 DEF ListsInv
    <1>6. CASE o # NoObject /\ (owner[o] # NoThread \/ waiters[o] = <<>>) /\ Wake(o, waiters[o])
        <2>1. o \in Objects
            BY <1>4, <1>6
        <2>2. owner[o] \in Threads \/ waiters[o] = <<>>
            BY <1>6, <2>1 DEF TypeOK
        <2>3. /\ waiters' \in [Objects -> Seq(Threads)] /\ entry' \in [Objects -> Seq(Threads)]
              /\ chain' \in Seq(Objects) /\ timer' \in [Threads -> TimerValues]
              /\ ListsInv'
            BY <1>2, <1>6, <2>1, <2>2, WakeKeeps
        <2>4. TypeOK'
            BY <1>1, <1>2, <1>3, <1>6, <2>3 DEF TypeOK, Wake, signals
        <2>. QED BY <1>3, <2>3, <2>4
    <1>7. CASE o # NoObject /\ WakeOnFreeLock(o)
        <2>1. /\ waiters' \in [Objects -> Seq(Threads)] /\ entry' \in [Objects -> Seq(Threads)]
              /\ chain' \in Seq(Objects) /\ timer' \in [Threads -> TimerValues]
              /\ owner' \in [Objects -> Threads \cup {NoThread}]
              /\ wait_obj' \in [Threads -> Objects \cup {NoObject}]
              /\ active' \in SUBSET Threads
              /\ UNCHANGED <<sleeping, async, locks>>
              /\ ListsInv'
            BY <1>2, <1>4, <1>7, FreeLockKeeps
        <2>2. TypeOK'
            BY <1>1, <1>2, <1>3, <2>1 DEF TypeOK, signals
        <2>. QED BY <1>3, <2>1, <2>2
    <1>. QED BY <1>1, <1>5, <1>6, <1>7 DEF WakeJoining

\* Scheduler::terminate keeps the invariant: the thread holds no lock and is in no other list.
LEMMA TerminateThreadKeeps ==
    ASSUME SchedulerInv, TerminateThread
    PROVE  SchedulerInv'
    <1>. USE DEF SchedulerInv
    <1>1. /\ CanExecute /\ current \in Threads
          /\ active' = active \ {current}
          /\ UNCHANGED <<status, current, sleeping, chain, waiters, async, async_redo, monitors,
                         timer, signals>>
        BY DEF TerminateThread, TypeOK
    <1>2. /\ life' \in [Threads -> {"unstarted", "alive", "terminated", "gone"}]
          /\ \A t \in Threads : life'[t] = IF t = current THEN "gone" ELSE life[t]
        BY DEF TerminateThread, TypeOK
    <1>3. frames' \in Seq(FrameType) /\ OneNestedYield'
        BY <1>1, ProgramFrames DEF CanExecute, TerminateThread
    <1>4. TypeOK'
        BY <1>1, <1>2, <1>3 DEF TypeOK, monitors, signals
    <1>5. OnePlace'
        BY <1>1, <1>2, CurrentExecutes DEF ListsInv, OnePlace, monitors
    <1>6. (QueueTellsWaitObj /\ NoDuplicates /\ ChainTellsWaiters /\ LocksHeld /\ WaitersImplyLocked)'
        BY <1>1 DEF ListsInv, QueueTellsWaitObj, NoDuplicates, ChainTellsWaiters, LocksHeld,
           WaitersImplyLocked, monitors
    <1>. QED BY <1>3, <1>4, <1>5, <1>6 DEF ListsInv

\* Throwing, a native method that returns, a call of yield, a wake-up time reached.
LEMMA QuietProgramKeeps ==
    ASSUME SchedulerInv,
           RedoNativeMethod \/ ThrowPendingException \/ Yield \/ \E t \in Threads : Expire(t)
    PROVE  SchedulerInv'
    <1>. USE DEF SchedulerInv
    <1>1. UNCHANGED <<status, current, life, lists, monitors>>
        BY DEF RedoNativeMethod, ThrowPendingException, Yield, Expire
    <1>2. ListsInv'
        BY <1>1, QuietLists
    <1>3. CASE RedoNativeMethod \/ ThrowPendingException \/ Yield
        <2>1. /\ frames' \in {frames, <<NewFrame>>} /\ Running /\ timer' = timer
              /\ async_redo' \in SUBSET Threads
              /\ pending_exception' \in SUBSET Threads
              /\ pending_interrupt' \in SUBSET Threads
            BY <1>3 DEF RedoNativeMethod, ThrowPendingException, Yield, TypeOK, signals
        <2>2. frames' \in Seq(FrameType) /\ OneNestedYield'
            BY <2>1, ProgramFrames
        <2>3. TypeOK'
            BY <1>1, <2>1, <2>2 DEF TypeOK, lists, monitors
        <2>. QED BY <1>2, <2>2, <2>3
    <1>4. CASE \E t \in Threads : Expire(t)
        <2>1. /\ timer' \in [Threads -> TimerValues]
              /\ UNCHANGED <<async_redo, signals, frames>>
            BY <1>4 DEF Expire, TypeOK, TimerValues
        <2>2. TypeOK'
            BY <1>1, <2>1 DEF TypeOK, lists, monitors, signals
        <2>3. OneNestedYield'
            BY <1>1, <2>1 DEF OneNestedYield, Waiting, lists
        <2>. QED BY <1>2, <2>2, <2>3
    <1>. QED BY <1>3, <1>4

-----------------------------------------------------------------------------
(* Inside Scheduler::yield. *)

\* How deep calls of yield nest.
LEMMA CallDepths ==
    /\ 0 <= 2 /\ 0 # 2
    /\ \A n \in Nat : n <= 2 => n - 1 <= 2 /\ n - 1 # 2
    /\ \A n \in Nat \ {0} : n <= 2 /\ n # 2 => n = 1
    OBVIOUS

\* Steps of the wake-up loop that wake nobody.
LEMMA QuietYieldKeeps ==
    ASSUME SchedulerInv, UNCHANGED <<life, lists, async_redo, monitors, timer, signals>>,
           status' \in {"up", "guarantee failed", "exited", "asleep for ever"},
           current' \in Threads,
           \/ frames' = <<>>
           \/ frames # <<>> /\ frames' = Front(frames) /\ current' = current
           \/ frames' = frames /\ current' = current
           \/ frames # <<>> /\ current' = current /\ \E f \in FrameType : frames' = SetTop(f)
    PROVE  SchedulerInv'
    <1>. USE DEF SchedulerInv
    <1>1. ListsInv'
        BY QuietLists
    <1>2. frames \in Seq(FrameType) /\ Len(frames) \in Nat /\ Len(frames) <= 2
        <2>1. frames \in Seq(FrameType) BY DEF TypeOK
        <2>2. Len(frames) \in Nat BY <2>1, LenProperties
        <2>. QED BY <2>1, <2>2 DEF OneNestedYield
    <1>3. Waiting' = Waiting
        BY DEF Waiting, lists
    <1>4. frames' \in Seq(FrameType) /\ OneNestedYield'
        <2>1. CASE frames' = <<>>
            <3>1. frames' \in Seq(FrameType) /\ Len(frames') = 0
                BY <2>1, EmptyList
            <3>. QED BY <3>1, CallDepths DEF OneNestedYield
        <2>2. CASE frames # <<>> /\ frames' = Front(frames) /\ current' = current
            <3>1. frames' \in Seq(FrameType) /\ Len(frames') = Len(frames) - 1
                BY <1>2, <2>2, LastMember
            <3>2. Len(frames') <= 2 /\ Len(frames') # 2
                BY <1>2, <3>1, CallDepths
            <3>. QED BY <3>1, <3>2 DEF OneNestedYield
        <2>3. CASE frames' = frames /\ current' = current
            BY <1>2, <1>3, <2>3 DEF OneNestedYield
        <2>4. CASE frames # <<>> /\ current' = current /\ \E f \in FrameType : frames' = SetTop(f)
            <3>1. PICK f \in FrameType : frames' = SetTop(f)
                BY <2>4
            <3>2. SetTop(f) \in Seq(FrameType) /\ Len(SetTop(f)) = Len(frames)
                BY <1>2, <2>4, SetTopType
            <3>. QED BY <1>3, <2>4, <3>1, <3>2 DEF OneNestedYield
        <2>. QED BY <2>1, <2>2, <2>3, <2>4
    <1>5. TypeOK'
        BY <1>4 DEF TypeOK, lists, monitors, signals
    <1>. QED BY <1>1, <1>4, <1>5

\* The wake-up loop keeps the invariant when it wakes a thread, also when that calls yield again.
LEMMA WakeThreadKeeps ==
    ASSUME SchedulerInv, WakeThread
    PROVE  SchedulerInv'
    <1>. USE DEF SchedulerInv
    <1>. DEFINE t == top.this
    <1>1. /\ frames # <<>> /\ t # NoThread /\ Removable(t) /\ RemoveAndWakeUp(t)
          /\ UNCHANGED <<status, current, life, async_redo, signals>>
        BY DEF WakeThread, YieldAt
    <1>2. frames \in Seq(FrameType) /\ top \in FrameType /\ Len(frames) \in Nat \ {0}
        <2>1. frames \in Seq(FrameType) BY DEF TypeOK
        <2>2. NewFrame \in FrameType BY DEF NewFrame, FrameType
        <2>. QED BY <1>1, <2>1, <2>2, SetTopType
    <1>3. t \in Threads
        BY <1>1, <1>2 DEF FrameType
    <1>4. PICK next \in NextLinks(t) :
             LET outer == SetTop([top EXCEPT !.this = next])
             IN  frames' = IF BlocksCurrent(t) THEN Append(outer, NewFrame) ELSE outer
        BY DEF WakeThread
    <1>. HIDE DEF t
    <1>5. next \in Threads \cup {NoThread}
        BY <1>3, LinkTypes DEF ListsInv
    <1>6. [top EXCEPT !.this = next] \in FrameType
        BY <1>2, <1>5 DEF FrameType
    <1>. DEFINE outer == SetTop([top EXCEPT !.this = next])
    <1>7. outer \in Seq(FrameType) /\ Len(outer) = Len(frames)
        BY <1>1, <1>2, <1>6, SetTopType
    <1>8. frames' = IF BlocksCurrent(t) THEN Append(outer, NewFrame) ELSE outer
        BY <1>4
    <1>. HIDE DEF outer
    <1>9. /\ active' \in SUBSET Threads /\ sleeping' \in Seq(Threads)
          /\ waiters' \in [Objects -> Seq(Threads)] /\ entry' \in [Objects -> Seq(Threads)]
          /\ chain' \in Seq(Objects) /\ timer' \in [Threads -> TimerValues]
          /\ owner' \in [Objects -> Threads \cup {NoThread}]
          /\ wait_obj' \in [Threads -> Objects \cup {NoObject}]
          /\ locks' = locks /\ async' = async
          /\ ListsInv'
          /\ t \notin Waiting'
          /\ Waiting' \subseteq Waiting
        BY <1>1, <1>3, RemoveAndWakeUpKeeps
    <1>10. CASE BlocksCurrent(t)
        <2>1. t = current /\ t \in Waiting
            <3>1. t = current /\ wait_obj[t] # NoObject
                BY <1>10 DEF BlocksCurrent
            <3>2. wait_obj[t] \in Objects
                BY <1>3, <3>1 DEF TypeOK
            <3>. QED BY <1>1, <3>1, <3>2 DEF Removable, Waiting
        <2>2. Len(frames) = 1
            <3>1. Len(frames) <= 2 /\ Len(frames) # 2
                BY <2>1 DEF OneNestedYield
            <3>. QED BY <1>2, <3>1, CallDepths
        <2>3. NewFrame \in FrameType
            BY DEF NewFrame, FrameType
        <2>4. frames' = Append(outer, NewFrame)
            BY <1>8, <1>10
        <2>5. frames' \in Seq(FrameType) /\ Len(frames') = 2
            <3>1. /\ Append(outer, NewFrame) \in Seq(FrameType)
                  /\ Len(Append(outer, NewFrame)) = Len(outer) + 1
                BY <1>7, <2>3, AppendProperties
            <3>2. Len(outer) + 1 = 2
                BY <1>7, <2>2
            <3>. QED BY <2>4, <3>1, <3>2
        <2>6. OneNestedYield'
            BY <1>1, <1>9, <2>1, <2>5 DEF OneNestedYield
        <2>7. TypeOK'
            BY <1>1, <1>9, <2>5 DEF TypeOK, signals
        <2>. QED BY <1>9, <2>6, <2>7
    <1>11. CASE ~ BlocksCurrent(t)
        <2>1. frames' = outer
            BY <1>8, <1>11
        <2>2. frames' \in Seq(FrameType) /\ Len(frames') = Len(frames)
            BY <1>7, <2>1
        <2>3. OneNestedYield'
            BY <1>1, <1>9, <2>2 DEF OneNestedYield
        <2>4. TypeOK'
            BY <1>1, <1>9, <2>2 DEF TypeOK, signals
        <2>. QED BY <1>9, <2>3, <2>4
    <1>. QED BY <1>10, <1>11

\* Every step of Scheduler::yield keeps the invariant.
LEMMA YieldStepKeeps ==
    ASSUME SchedulerInv, YieldStep
    PROVE  SchedulerInv'
    <1>. USE DEF SchedulerInv
    <1>0. TypeOK /\ ChainTellsWaiters /\ active \subseteq Threads
        BY DEF ListsInv, TypeOK
    <1>top. ASSUME frames # <<>> PROVE top \in FrameType
        <2>1. NewFrame \in FrameType BY DEF NewFrame, FrameType
        <2>. QED BY <1>0, <1>top, <2>1, SetTopType DEF TypeOK
    <1>1. CASE StartWakeUps
        <2>1. [pc |-> "wake", due |-> {t \in Threads : timer[t] = "expired"},
               this |-> First(sleeping), next_waiting |-> ChainHead(1)] \in FrameType
            BY <1>0, ListHeads DEF FrameType
        <2>. QED BY <1>0, <1>1, <2>1, QuietYieldKeeps DEF StartWakeUps, YieldAt, TypeOK
    <1>2. CASE NextList
        <2>1. top \in FrameType /\ top.next_waiting \in Threads
            BY <1>2, <1>top DEF NextList, YieldAt, FrameType
        <2>2. NextWaiting(top.next_waiting) \in Threads \cup {NoThread}
            BY <1>0, <2>1, LinkTypes
        <2>3. [top EXCEPT !.this = top.next_waiting,
                          !.next_waiting = NextWaiting(top.next_waiting)] \in FrameType
            BY <2>1, <2>2 DEF FrameType
        <2>. QED BY <1>0, <1>2, <2>3, QuietYieldKeeps DEF NextList, YieldAt, TypeOK
    <1>3. CASE SkipThread
        <2>1. PICK next \in NextLinks(top.this) : frames' = SetTop([top EXCEPT !.this = next])
            BY <1>3 DEF SkipThread
        <2>2. top \in FrameType /\ top.this \in Threads
            BY <1>3, <1>top DEF SkipThread, YieldAt, FrameType
        <2>3. next \in Threads \cup {NoThread}
            BY <1>0, <2>2, LinkTypes
        <2>4. [top EXCEPT !.this = next] \in FrameType
            BY <2>2, <2>3 DEF FrameType
        <2>. QED BY <1>0, <1>3, <2>1, <2>4, QuietYieldKeeps DEF SkipThread, YieldAt, TypeOK
    <1>4. CASE WakeThread
        BY <1>4, WakeThreadKeeps
    <1>5. CASE GuaranteeFails
        BY <1>0, <1>5, QuietYieldKeeps DEF GuaranteeFails, TypeOK
    <1>6. CASE GoIdle
        <2>1. frames # <<>> /\ [top EXCEPT !.pc = "idle"] \in FrameType
            BY <1>6, <1>top DEF GoIdle, WalkDone, YieldAt, FrameType
        <2>. QED BY <1>0, <1>6, <2>1, QuietYieldKeeps DEF GoIdle, WalkDone, YieldAt, TypeOK
    <1>7. CASE WakeFromIdle
        <2>1. NewFrame \in FrameType
            BY DEF NewFrame, FrameType
        <2>. QED BY <1>0, <1>7, <2>1, QuietYieldKeeps DEF WakeFromIdle, YieldAt, TypeOK
    <1>8. CASE ReturnToLoop
        <2>1. frames # <<>>
            BY <1>8 DEF ReturnToLoop, YieldReturns, WalkDone, NothingToWaitFor, YieldAt
        <2>. QED BY <1>0, <1>8, <2>1, QuietYieldKeeps DEF ReturnToLoop, TypeOK
    <1>9. CASE SwitchThread
        BY <1>0, <1>9, QuietYieldKeeps DEF SwitchThread, TypeOK
    <1>10. CASE StopForEver
        BY <1>0, <1>10, QuietYieldKeeps DEF StopForEver, TypeOK
    <1>. QED BY <1>1, <1>2, <1>3, <1>4, <1>5, <1>6, <1>7, <1>8, <1>9, <1>10 DEF YieldStep

-----------------------------------------------------------------------------
(* The theorems. *)

\* The invariant holds when the main thread starts.
LEMMA InitInv == Init => SchedulerInv
    <1>. SUFFICES ASSUME Init PROVE SchedulerInv
        OBVIOUS
    <1>1. current \in Threads /\ active = {current} /\ frames = <<>> /\ async = {}
        BY DEF Init
    <1>2. /\ sleeping = <<>> /\ chain = <<>>
          /\ \A o \in Objects : waiters[o] = <<>> /\ entry[o] = <<>>
          /\ \A t \in Threads : locks[t] = <<>> /\ wait_obj[t] = NoObject
          /\ \A t \in Threads : life[t] = IF t = current THEN "alive" ELSE "unstarted"
        BY DEF Init
    <1>3. TypeOK
        <2>1. /\ sleeping \in Seq(Threads) /\ chain \in Seq(Objects) /\ frames \in Seq(FrameType)
              /\ waiters \in [Objects -> Seq(Threads)] /\ entry \in [Objects -> Seq(Threads)]
              /\ locks \in [Threads -> Seq(Objects)]
            BY EmptyList DEF Init
        <2>2. /\ life \in [Threads -> {"unstarted", "alive", "terminated", "gone"}]
              /\ timer \in [Threads -> TimerValues]
              /\ owner \in [Objects -> Threads \cup {NoThread}]
              /\ wait_obj \in [Threads -> Objects \cup {NoObject}]
            BY DEF Init, TimerValues
        <2>. QED BY <1>1, <2>1, <2>2 DEF TypeOK, Init
    <1>4. ListsInv
        <2>1. \A t : t \notin ToSet(<<>>)
            BY EmptyList
        <2>2. QueueTellsWaitObj
            BY <1>2, <2>1, ConstantsAssumption DEF QueueTellsWaitObj
        <2>3. NoDuplicates
            BY <1>2, <2>1, EmptyList DEF NoDuplicates
        <2>4. OnePlace
            BY <1>1, <1>2, <2>1 DEF OnePlace
        <2>5. ChainTellsWaiters
            BY <1>2, <2>1, EmptyList DEF ChainTellsWaiters
        <2>6. LocksHeld
            BY <1>2, <2>1 DEF LocksHeld
        <2>7. WaitersImplyLocked
            BY <1>2 DEF WaitersImplyLocked
        <2>. QED BY <2>2, <2>3, <2>4, <2>5, <2>6, <2>7 DEF ListsInv
    <1>5. OneNestedYield
        BY <1>1, EmptyList, CallDepths DEF OneNestedYield
    <1>. QED BY <1>3, <1>4, <1>5 DEF SchedulerInv

\* Every step of the VM keeps the invariant.
LEMMA NextKeeps == SchedulerInv /\ [Next]_vars => SchedulerInv'
    <1>. SUFFICES ASSUME SchedulerInv, [Next]_vars PROVE SchedulerInv'
        OBVIOUS
    <1>1. CASE ProgramStep
        <2>1. CASE \E o \in Objects : MonitorEnter(o)
            BY <2>1, MonitorEnterKeeps
        <2>2. CASE MonitorExit
            BY <2>2, MonitorExitKeeps
        <2>3. CASE \E o \in Objects, timeout \in {"none", "armed"} : ObjectWait(o, timeout)
            BY <2>3, ObjectWaitKeeps
        <2>4. CASE \E o \in Objects : Notify(o) \/ NotifyAll(o)
            BY <2>4, NotifyKeeps
        <2>5. CASE \E t \in Threads : StartThread(t)
            BY <2>5, StartThreadKeeps
        <2>6. CASE Sleep
            BY <2>6, SleepKeeps
        <2>7. CASE BlockCurrentThread
            BY <2>7, BlockCurrentThreadKeeps
        <2>8. CASE RedoNativeMethod \/ ThrowPendingException
            BY <2>8, QuietProgramKeeps
        <2>9. CASE \E t \in Threads : Interrupt(t)
            BY <2>9, InterruptKeeps
        <2>10. CASE FinishThread
            BY <2>10, FinishThreadKeeps
        <2>11. CASE TerminateThread
            BY <2>11, TerminateThreadKeeps
        <2>. QED BY <1>1, <2>1, <2>2, <2>3, <2>4, <2>5, <2>6, <2>7, <2>8, <2>9, <2>10, <2>11
                 DEF ProgramStep
    <1>2. CASE Yield
        BY <1>2, QuietProgramKeeps
    <1>3. CASE YieldStep
        BY <1>3, YieldStepKeeps
    <1>4. CASE \E t \in Threads : UnblockThread(t)
        BY <1>4, UnblockThreadKeeps
    <1>5. CASE \E t \in Threads : Expire(t)
        BY <1>5, QuietProgramKeeps
    <1>6. CASE Stopped \/ UNCHANGED vars
        <2>1. current \in Threads
              /\ status \in {"up", "guarantee failed", "exited", "asleep for ever"}
            BY DEF SchedulerInv, TypeOK
        <2>2. /\ UNCHANGED <<life, lists, async_redo, monitors, timer, signals>>
              /\ status' = status /\ current' = current /\ frames' = frames
            BY <1>6 DEF Stopped, vars
        <2>. QED BY <2>1, <2>2, QuietYieldKeeps
    <1>. QED BY <1>1, <1>2, <1>3, <1>4, <1>5, <1>6 DEF Next

\* Every reachable state of the scheduler satisfies the invariant, whatever the threads, objects
\* and programs.
THEOREM Invariance == Spec => []SchedulerInv
    <1>. QED BY InitInv, NextKeeps, PTL DEF Spec

\* The state of Scheduler and Synchronizer keeps its types; yield nests no deeper than twice.
THEOREM TypeCorrect == Spec => [](TypeOK /\ Len(frames) <= 2)
    <1>1. SchedulerInv => TypeOK /\ Len(frames) <= 2
        BY DEF SchedulerInv, OneNestedYield
    <1>. QED BY Invariance, <1>1, PTL

\* A thread the scheduler may run owns every monitor it has locked, also when it was woken from
\* Object.wait by notify, timeout or interrupt (Synchronizer::enter, signal_waiters).
THEOREM LockOwnership == Spec => []RunnableOwnsItsLocks
    <1>1. SchedulerInv => RunnableOwnsItsLocks
        <2>. SUFFICES ASSUME SchedulerInv, NEW t \in active, NEW o \in ToSet(locks[t])
                      PROVE  owner[o] = t
            BY DEF RunnableOwnsItsLocks
        <2>1. t \in Threads /\ o \in Objects
            BY MembersType DEF SchedulerInv, TypeOK
        <2>2. wait_obj[t] = NoObject
            BY <2>1 DEF SchedulerInv, ListsInv, OnePlace
        <2>. QED BY <2>1, <2>2, ConstantsAssumption DEF SchedulerInv, ListsInv, LocksHeld
    <1>. QED BY Invariance, <1>1, PTL

\* No monitor stays free while threads queue for it (signal_waiters hands it over).
THEOREM NoFreeLockQueuedFor == Spec => []WaitersImplyLocked
    <1>1. SchedulerInv => WaitersImplyLocked
        BY DEF SchedulerInv, ListsInv
    <1>. QED BY Invariance, <1>1, PTL

\* Every live thread is in exactly one of the scheduler's lists, once: none is lost and none is
\* linked twice (add_to_list, remove_from_list, add_waiting_thread, remove_waiting_thread).
THEOREM NoThreadLost == Spec => []OneListPerThread
    <1>1. SchedulerInv => OneListPerThread
        <2>. SUFFICES ASSUME SchedulerInv PROVE OneListPerThread
            OBVIOUS
        <2>1. /\ active \subseteq Threads /\ async \subseteq Threads
              /\ ToSet(sleeping) \subseteq Threads
              /\ \A o \in Objects : ToSet(waiters[o]) \subseteq Threads /\ ToSet(entry[o]) \subseteq Threads
            BY MembersType DEF SchedulerInv, TypeOK
        <2>2. \A t : t \in Queued <=> t \in Threads /\ wait_obj[t] # NoObject
            <3>1. ASSUME NEW t \in Queued PROVE t \in Threads /\ wait_obj[t] # NoObject
                <4>1. PICK o \in Objects : t \in ToSet(waiters[o]) \cup ToSet(entry[o])
                    BY DEF Queued
                <4>2. t \in Threads
                    BY <2>1, <4>1
                <4>. QED BY <4>1, <4>2, ConstantsAssumption
                         DEF SchedulerInv, ListsInv, QueueTellsWaitObj
            <3>2. ASSUME NEW t \in Threads, wait_obj[t] # NoObject PROVE t \in Queued
                <4>1. wait_obj[t] \in Objects
                    BY <3>2 DEF SchedulerInv, TypeOK
                <4>2. t \in ToSet(waiters[wait_obj[t]]) \/ t \in ToSet(entry[wait_obj[t]])
                    BY <4>1 DEF SchedulerInv, ListsInv, QueueTellsWaitObj
                <4>. QED BY <4>1, <4>2 DEF Queued
            <3>. QED BY <3>1, <3>2
        <2>3. active \cup async \cup ToSet(sleeping) \cup Queued
                 = {t \in Threads : life[t] \in {"alive", "terminated"}}
            BY <2>1, <2>2 DEF SchedulerInv, ListsInv, OnePlace
        <2>4. /\ Disjoint(active, async)
              /\ Disjoint(active \cup async, ToSet(sleeping))
              /\ Disjoint(active \cup async \cup ToSet(sleeping), Queued)
            BY <2>1, <2>2 DEF SchedulerInv, ListsInv, OnePlace, Disjoint
        <2>5. /\ IsInjective(sleeping)
              /\ \A o \in Objects : /\ IsInjective(waiters[o])
                                    /\ IsInjective(entry[o])
                                    /\ Disjoint(ToSet(waiters[o]), ToSet(entry[o]))
            BY <2>1 DEF SchedulerInv, ListsInv, NoDuplicates, Disjoint
        <2>. QED BY <2>3, <2>4, <2>5 DEF OneListPerThread
    <1>. QED BY Invariance, <1>1, PTL

\* find_waiting_thread finds the waiters of an object, and only those: the chain of wait lists
\* is complete, and a thread is in the queues of the object its wait_obj names.
THEOREM WaitersAreFound == Spec => []WaitListsFound
    <1>1. SchedulerInv => WaitListsFound
        <2>. SUFFICES ASSUME SchedulerInv PROVE WaitListsFound
            OBVIOUS
        <2>1. /\ ToSet(chain) \subseteq Objects
              /\ \A o \in Objects : ToSet(waiters[o]) \subseteq Threads /\ ToSet(entry[o]) \subseteq Threads
            BY MembersType DEF SchedulerInv, TypeOK
        <2>2. IsInjective(chain) /\ ToSet(chain) = {o \in Objects : waiters[o] # <<>>}
            BY <2>1 DEF SchedulerInv, ListsInv, ChainTellsWaiters
        <2>3. \A o \in Objects : \A t \in ToSet(waiters[o]) \cup ToSet(entry[o]) : wait_obj[t] = o
            BY <2>1 DEF SchedulerInv, ListsInv, QueueTellsWaitObj
        <2>. QED BY <2>2, <2>3 DEF WaitListsFound
    <1>. QED BY Invariance, <1>1, PTL

-----------------------------------------------------------------------------
(* Running, sleeping, owning and stopping. *)

\* What a step must leave as it is, and what it may do, to keep what is said of locks held.
LEMMA SameLocks ==
    ASSUME OwnersHaveLocked, UNCHANGED <<locks, owner, wait_obj>>
    PROVE  OwnersHaveLocked'
    BY DEF OwnersHaveLocked

\* signal_waiters makes a thread the owner that had locked the object before it blocked.
LEMMA HandOverKeepsLocked ==
    ASSUME SchedulerInv, OwnersHaveLocked, NEW o \in Objects,
           \A u \in Objects : owner'[u] = IF u = o THEN Heir(o) ELSE owner[u],
           \A u \in Objects : owner'[u] # NoThread =>
              \A v \in ToSet(locks[owner'[u]]) : v = u => v \in ToSet(locks'[owner'[u]]),
           \A t \in Threads : wait_obj'[t] # NoObject =>
              wait_obj'[t] = wait_obj[t] /\ wait_obj[t] \in ToSet(locks'[t])
    PROVE  OwnersHaveLocked'
    <1>1. Heir(o) \in Threads => o \in ToSet(locks[Heir(o)])
        BY HandOver, ConstantsAssumption DEF SchedulerInv, OwnersHaveLocked
    <1>2. Heir(o) \in Threads \cup {NoThread}
        BY HandOver DEF SchedulerInv
    <1>. QED BY <1>1, <1>2 DEF OwnersHaveLocked

\* Locking, releasing and waiting keep the stack locks of owners and of waiting threads.
LEMMA MonitorsKeepLocked ==
    ASSUME SchedulerInv, OwnersHaveLocked,
           \/ \E o \in Objects : MonitorEnter(o)
           \/ MonitorExit
           \/ \E o \in Objects, timeout \in {"none", "armed"} : ObjectWait(o, timeout)
    PROVE  OwnersHaveLocked'
    <1>1. /\ current \in Threads /\ CanExecute /\ life' = life
          /\ wait_obj[current] = NoObject
          /\ life[current] \in {"alive", "terminated"}
          /\ \A u \in ToSet(locks[current]) : owner[u] = current
        BY CurrentExecutes DEF SchedulerInv, MonitorEnter, MonitorExit, ObjectWait
    <1>2. /\ locks \in [Threads -> Seq(Objects)] /\ locks[current] \in Seq(Objects)
          /\ owner \in [Objects -> Threads \cup {NoThread}]
          /\ wait_obj \in [Threads -> Objects \cup {NoObject}]
        BY <1>1 DEF SchedulerInv, TypeOK
    <1>3. ASSUME NEW o \in Objects, MonitorEnter(o)
          PROVE  OwnersHaveLocked'
        <2>1. locks' = [locks EXCEPT ![current] = Append(@, o)]
            BY <1>3 DEF MonitorEnter
        <2>2. ToSet(Append(locks[current], o)) = ToSet(locks[current]) \cup {o}
            BY <1>2, AppendMember
        <2>3. \A t \in Threads : \A u : u \in ToSet(locks'[t]) <=>
                 u \in ToSet(locks[t]) \/ (t = current /\ u = o)
            BY <1>1, <1>2, <2>1, <2>2
        <2>4. /\ \A u \in Objects : owner'[u] = owner[u] \/ (u = o /\ owner'[u] = current)
              /\ \A t \in Threads : wait_obj'[t] = wait_obj[t] \/ (t = current /\ wait_obj'[t] = o)
            BY <1>2, <1>3 DEF MonitorEnter, LockObject, LockAgain, BlockOnObject
        <2>5. OwnersHaveLocked'
            BY <1>1, <1>2, <2>3, <2>4 DEF OwnersHaveLocked
        <2>. QED BY <2>5
    <1>4. CASE MonitorExit
        <2>. DEFINE o == Last(locks[current])
        <2>1. /\ locks[current] # <<>> /\ locks' = [locks EXCEPT ![current] = Front(@)]
              /\ UnlockAgain(o) \/ UnlockObject(o)
            BY <1>4 DEF MonitorExit
        <2>2. /\ o \in Objects /\ o \in ToSet(locks[current])
              /\ ToSet(locks[current]) = ToSet(Front(locks[current])) \cup {o}
            BY <1>2, <2>1, LastMember
        <2>. HIDE DEF o
        <2>4. \A t \in Threads : \A u : u \in ToSet(locks'[t]) <=>
                 u \in ToSet(locks[t]) /\ ~ (t = current /\ u \notin ToSet(Front(locks[current])))
            BY <1>1, <1>2, <2>1, <2>2
        <2>5. CASE UnlockAgain(o)
            <3>1. \A t \in Threads : ToSet(locks'[t]) = ToSet(locks[t])
                BY <2>2, <2>4, <2>5 DEF UnlockAgain, IsRecursive
            <3>. QED BY <1>2, <2>5, <3>1 DEF UnlockAgain, OwnersHaveLocked
        <2>6. CASE UnlockObject(o)
            <3>1. \A u \in Objects : owner'[u] = IF u = o THEN Heir(o) ELSE owner[u]
                BY <1>2, <2>6 DEF UnlockObject
            <3>2. \A t \in Threads : wait_obj'[t] = IF t = Heir(o) THEN NoObject ELSE wait_obj[t]
                BY <2>6 DEF UnlockObject
            <3>3. /\ Heir(o) \in Threads \cup {NoThread}
                  /\ Heir(o) \in Threads => wait_obj[Heir(o)] = o
                BY <2>2, HandOver DEF SchedulerInv
            <3>4. \A t \in Threads : wait_obj'[t] # NoObject =>
                     wait_obj'[t] = wait_obj[t] /\ wait_obj[t] \in ToSet(locks'[t])
                BY <1>1, <2>4, <3>2 DEF OwnersHaveLocked
            <3>5. \A u \in Objects : owner'[u] # NoThread =>
                     \A v \in ToSet(locks[owner'[u]]) : v = u => v \in ToSet(locks'[owner'[u]])
                <4>1. Heir(o) # current
                    BY <1>1, <2>2, <3>3, ConstantsAssumption
                <4>. QED BY <1>2, <2>2, <2>4, <3>1, <3>3, <4>1
            <3>. QED BY <2>2, <3>1, <3>4, <3>5, HandOverKeepsLocked
        <2>. QED BY <2>1, <2>5, <2>6
    <1>5. ASSUME NEW o \in Objects, NEW timeout \in {"none", "armed"}, ObjectWait(o, timeout)
          PROVE  OwnersHaveLocked'
        <2>1. CASE HandlePendingInterrupt
            BY <1>1, <2>1, SameLocks DEF HandlePendingInterrupt, monitors
        <2>2. CASE ReleaseAndWait(o, timeout)
            <3>1. /\ locks' = locks /\ owner[o] = current
                  /\ \A u \in Objects : owner'[u] = IF u = o THEN Heir(o) ELSE owner[u]
                  /\ \A t \in Threads : wait_obj'[t] = IF t = current THEN o
                                          ELSE IF t = Heir(o) THEN NoObject ELSE wait_obj[t]
                BY <1>2, <1>5, <2>2 DEF ObjectWait, ReleaseAndWait
            <3>2. o \in ToSet(locks[current])
                BY <1>1, <3>1, ConstantsAssumption DEF OwnersHaveLocked
            <3>3. /\ Heir(o) \in Threads \cup {NoThread}
                  /\ Heir(o) \in Threads => o \in ToSet(locks[Heir(o)])
                BY HandOver, ConstantsAssumption DEF SchedulerInv, OwnersHaveLocked
            <3>4. OwnersHaveLocked'
                BY <3>1, <3>2, <3>3 DEF OwnersHaveLocked
            <3>. QED BY <3>4
        <2>. QED BY <1>5, <2>1, <2>2 DEF ObjectWait
    <1>. QED BY <1>3, <1>4, <1>5

\* A thread woken by time-out or interrupt has locked the object whose lock it is given.
LEMMA WakeUpKeepsLocked ==
    ASSUME SchedulerInv, OwnersHaveLocked,
           NEW t \in Threads, RemoveAndWakeUp(t), life' = life
    PROVE  OwnersHaveLocked'
    <1>1. /\ owner \in [Objects -> Threads \cup {NoThread}]
          /\ wait_obj \in [Threads -> Objects \cup {NoObject}]
        BY DEF SchedulerInv, TypeOK
    <1>2. locks' = locks
        BY DEF RemoveAndWakeUp, monitors
    <1>3. \/ owner' = owner /\ wait_obj' = wait_obj
          \/ /\ wait_obj[t] \in Objects
             /\ owner' = [owner EXCEPT ![wait_obj[t]] = t]
             /\ wait_obj' = [wait_obj EXCEPT ![t] = NoObject]
        BY DEF RemoveAndWakeUp, monitors
    <1>4. OwnersHaveLocked'
        BY <1>1, <1>2, <1>3, ConstantsAssumption DEF OwnersHaveLocked
    <1>. QED BY <1>4

\* So has a thread that is given the free lock of the Thread object whose thread has ended.
LEMMA FreeLockKeepsLocked ==
    ASSUME SchedulerInv, OwnersHaveLocked, NEW o \in Objects, WakeOnFreeLock(o)
    PROVE  OwnersHaveLocked'
    <1>1. /\ wait_obj[Head(waiters[o])] = o /\ Head(waiters[o]) \in Threads
          /\ \A u \in Objects : owner'[u] = IF u = o THEN Head(waiters[o]) ELSE owner[u]
          /\ \A t \in Threads : wait_obj'[t] = IF t = Head(waiters[o]) THEN NoObject ELSE wait_obj[t]
        BY FreeLockTaken DEF SchedulerInv
    <1>2. locks' = locks
        BY DEF WakeOnFreeLock
    <1>. QED BY <1>1, <1>2, ConstantsAssumption DEF OwnersHaveLocked

\* The thread the wake-up loop looks at is a thread.
LEMMA ThisIsThread ==
    ASSUME SchedulerInv, WakeThread
    PROVE  top.this \in Threads
    <1>1. frames \in Seq(FrameType) /\ frames # <<>> /\ top.this # NoThread
        BY DEF WakeThread, YieldAt, SchedulerInv, TypeOK
    <1>2. NewFrame \in FrameType
        BY DEF NewFrame, FrameType
    <1>3. top \in FrameType
        BY <1>1, <1>2, SetTopType
    <1>. QED BY <1>1, <1>3 DEF FrameType

\* Every step keeps the stack locks of owners and of waiting threads.
LEMMA StepKeepsLocked ==
    ASSUME SchedulerInv, OwnersHaveLocked, [Next]_vars
    PROVE  OwnersHaveLocked'
    <1>1. CASE \/ \E o \in Objects : MonitorEnter(o)
               \/ MonitorExit
               \/ \E o \in Objects, timeout \in {"none", "armed"} : ObjectWait(o, timeout)
        BY <1>1, MonitorsKeepLocked
    <1>2. CASE \E t \in Threads : Interrupt(t)
        <2>1. PICK t \in Threads : Interrupt(t)
            BY <1>2
        <2>2. CASE InterruptWaiting(t)
            BY <2>1, <2>2, WakeUpKeepsLocked DEF Interrupt, InterruptWaiting
        <2>3. CASE InterruptLater(t)
            BY <2>1, <2>3, SameLocks DEF Interrupt, InterruptLater, monitors
        <2>. QED BY <2>1, <2>2, <2>3 DEF Interrupt
    <1>3. CASE WakeThread
        BY <1>3, ThisIsThread, WakeUpKeepsLocked DEF WakeThread
    <1>4. CASE Sleep
        <2>1. wait_obj[current] = NoObject /\ current \in Threads
            BY <1>4, CurrentExecutes DEF Sleep, SchedulerInv
        <2>2. UNCHANGED <<locks, owner, wait_obj, life>>
            BY <1>4, <2>1
            DEF Sleep, HandlePendingInterrupt, FallAsleep, monitors, SchedulerInv, TypeOK
        <2>. QED BY <2>2, SameLocks
    <1>5. CASE FinishThread
        <2>1. CASE UNCHANGED <<locks, owner, wait_obj>>
            BY <2>1, SameLocks
        <2>2. CASE \E o \in Objects : WakeOnFreeLock(o)
            BY <2>2, FreeLockKeepsLocked
        <2>3. current \in Threads
            BY DEF SchedulerInv, TypeOK
        <2>. QED BY <1>5, <2>1, <2>2, <2>3, ConstantsAssumption
                 DEF FinishThread, WakeJoining, Wake, monitors
    <1>6. CASE \/ \E o \in Objects : Notify(o) \/ NotifyAll(o)
               \/ \E t \in Threads : StartThread(t) \/ UnblockThread(t) \/ Expire(t)
               \/ BlockCurrentThread \/ RedoNativeMethod \/ ThrowPendingException
               \/ TerminateThread \/ Yield
        <2>1. UNCHANGED <<locks, owner, wait_obj>>
            BY <1>6 DEF Notify, NotifyAll, Wake, StartThread, UnblockThread, Expire,
                        BlockCurrentThread, RedoNativeMethod, ThrowPendingException,
                        TerminateThread, Yield, monitors
        <2>. QED BY <2>1, SameLocks
    <1>7. CASE \/ StartWakeUps \/ NextList \/ SkipThread \/ GuaranteeFails \/ GoIdle \/ WakeFromIdle
               \/ ReturnToLoop \/ SwitchThread \/ StopForEver \/ Stopped \/ UNCHANGED vars
        <2>1. UNCHANGED <<locks, owner, wait_obj, life>>
            BY <1>7 DEF StartWakeUps, NextList, SkipThread, GuaranteeFails, GoIdle, WakeFromIdle,
                        ReturnToLoop, SwitchThread, StopForEver, Stopped, vars, monitors
        <2>. QED BY <2>1, SameLocks
    <1>. QED BY <1>1, <1>2, <1>3, <1>4, <1>5, <1>6, <1>7 DEF Next, ProgramStep, YieldStep

\* A thread locks, or is told to throw, while it is alive, and has done with both when it ends.
LEMMA LivingStep ==
    ASSUME OnlyLiveThreadsAct,
           \A t \in Threads : locks'[t] # <<>> => locks[t] # <<>> \/ life[t] = "alive",
           \A t \in pending_exception' : t \in pending_exception \/ life[t] = "alive",
           \A t \in Threads : life[t] = "alive" =>
              life'[t] = "alive" \/ (locks'[t] = <<>> /\ t \notin pending_exception')
    PROVE  OnlyLiveThreadsAct'
    BY DEF OnlyLiveThreadsAct

\* Every step leaves stack locks and exceptions to throw to live threads only.
LEMMA StepKeepsLiving ==
    ASSUME SchedulerInv, OnlyLiveThreadsAct, [Next]_vars
    PROVE  OnlyLiveThreadsAct'
    <1>1. /\ current \in Threads /\ locks \in [Threads -> Seq(Objects)]
          /\ life \in [Threads -> {"unstarted", "alive", "terminated", "gone"}]
        BY DEF SchedulerInv, TypeOK
    <1>2. CASE \E o \in Objects : MonitorEnter(o)
        <2>1. /\ life[current] = "alive" /\ UNCHANGED <<life, pending_exception>>
              /\ \A t \in Threads \ {current} : locks'[t] = locks[t]
            BY <1>1, <1>2 DEF MonitorEnter, signals
        <2>. QED BY <2>1, LivingStep
    <1>3. CASE MonitorExit
        <2>1. /\ locks[current] # <<>> /\ UNCHANGED <<life, pending_exception>>
              /\ \A t \in Threads \ {current} : locks'[t] = locks[t]
            BY <1>1, <1>3 DEF MonitorExit, signals
        <2>. QED BY <2>1, LivingStep
    <1>4. CASE Sleep \/ \E o \in Objects, timeout \in {"none", "armed"} : ObjectWait(o, timeout)
        <2>1. /\ life[current] = "alive" /\ UNCHANGED <<life, locks>>
              /\ pending_exception' \subseteq pending_exception \cup {current}
            BY <1>4 DEF Sleep, ObjectWait, HandlePendingInterrupt, FallAsleep, ReleaseAndWait,
                        monitors, signals
        <2>. QED BY <2>1, LivingStep
    <1>5. CASE \E t \in Threads : Interrupt(t)
        <2>1. PICK t \in Threads : Interrupt(t)
            BY <1>5
        <2>2. /\ life[t] = "alive" /\ UNCHANGED <<life, locks>>
              /\ pending_exception' \subseteq pending_exception \cup {t}
            BY <2>1 DEF Interrupt, InterruptWaiting, InterruptLater, RemoveAndWakeUp, monitors
        <2>. QED BY <2>2, LivingStep
    <1>6. CASE FinishThread \/ TerminateThread
        <2>1. UNCHANGED <<locks, pending_exception>>
            BY <1>1, <1>6 DEF FinishThread, TerminateThread, WakeJoining, WakeOnFreeLock, Wake,
                        monitors, signals
        <2>2. /\ \A t \in Threads \ {current} : life'[t] = life[t]
              /\ life[current] = "alive" => locks[current] = <<>> /\ current \notin pending_exception
            BY <1>1, <1>6 DEF FinishThread, TerminateThread, CanExecute
        <2>. QED BY <2>1, <2>2, LivingStep
    <1>7. CASE \E t \in Threads : StartThread(t)
        <2>1. UNCHANGED <<locks, pending_exception>>
            BY <1>7 DEF StartThread, monitors, signals
        <2>2. \A t \in Threads : life[t] = "alive" => life'[t] = "alive"
            BY <1>1, <1>7 DEF StartThread
        <2>. QED BY <2>1, <2>2, LivingStep
    <1>8. CASE \/ \E o \in Objects : Notify(o) \/ NotifyAll(o)
               \/ \E t \in Threads : UnblockThread(t) \/ Expire(t)
               \/ BlockCurrentThread \/ RedoNativeMethod \/ ThrowPendingException \/ Yield
        <2>1. UNCHANGED <<locks, life>> /\ pending_exception' \subseteq pending_exception
            BY <1>8 DEF Notify, NotifyAll, Wake, UnblockThread, Expire, BlockCurrentThread,
                        RedoNativeMethod, ThrowPendingException, Yield, monitors, signals
        <2>. QED BY <2>1, LivingStep
    <1>9. CASE \/ StartWakeUps \/ NextList \/ SkipThread \/ WakeThread \/ GuaranteeFails \/ GoIdle
               \/ WakeFromIdle \/ ReturnToLoop \/ SwitchThread \/ StopForEver \/ Stopped
               \/ UNCHANGED vars
        <2>1. UNCHANGED <<locks, life, pending_exception>>
            BY <1>9 DEF StartWakeUps, NextList, SkipThread, WakeThread, RemoveAndWakeUp,
                        GuaranteeFails, GoIdle, WakeFromIdle, ReturnToLoop, SwitchThread,
                        StopForEver, Stopped, vars, monitors, signals
        <2>. QED BY <2>1, LivingStep
    <1>. QED BY <1>2, <1>3, <1>4, <1>5, <1>6, <1>7, <1>8, <1>9 DEF Next, ProgramStep, YieldStep

\* A wake-up time is taken from no sleeping thread: only from threads that wait for an object.
LEMMA SleepersKeepTimes ==
    ASSUME SchedulerInv, SleepersHaveTimes,
           \A t \in ToSet(sleeping') : t \in ToSet(sleeping) \/ timer'[t] # "none",
           \A t \in Threads : timer'[t] = "none" => timer[t] = "none" \/ t \notin ToSet(sleeping)
    PROVE  SleepersHaveTimes'
    BY MembersType DEF SleepersHaveTimes, SchedulerInv, TypeOK

\* Threads woken by time-out or interrupt keep the sleepers' times.
LEMMA WakeUpKeepsTimes ==
    ASSUME SchedulerInv, SleepersHaveTimes,
           NEW t \in Threads, Removable(t), RemoveAndWakeUp(t)
    PROVE  SleepersHaveTimes'
    <1>1. timer \in [Threads -> TimerValues] /\ sleeping \in Seq(Threads) /\ IsInjective(sleeping)
        BY DEF SchedulerInv, TypeOK, ListsInv, NoDuplicates
    <1>2. CASE wait_obj[t] = NoObject
        <2>1. sleeping' = Unlink(sleeping, t) /\ timer' = timer /\ t \in ToSet(sleeping)
            BY <1>2, ConstantsAssumption DEF RemoveAndWakeUp, Removable
        <2>2. ToSet(Unlink(sleeping, t)) = ToSet(sleeping) \ {t}
            BY <1>1, <2>1, UnlinkOne
        <2>. QED BY <2>1, <2>2, SleepersKeepTimes
    <1>3. CASE wait_obj[t] # NoObject
        <2>1. /\ sleeping' = sleeping
              /\ timer' = timer \/ timer' = [timer EXCEPT ![t] = "none"]
            BY <1>3 DEF RemoveAndWakeUp
        <2>2. t \notin ToSet(sleeping)
            BY <1>3 DEF SchedulerInv, ListsInv, OnePlace
        <2>. QED BY <1>1, <2>1, <2>2, SleepersKeepTimes
    <1>. QED BY <1>2, <1>3

\* Every step leaves each sleeping thread a wake-up time.
LEMMA StepKeepsTimes ==
    ASSUME SchedulerInv, SleepersHaveTimes, [Next]_vars
    PROVE  SleepersHaveTimes'
    <1>1. /\ timer \in [Threads -> TimerValues] /\ sleeping \in Seq(Threads)
          /\ waiters \in [Objects -> Seq(Threads)] /\ current \in Threads
        BY DEF SchedulerInv, TypeOK
    <1>2. CASE \E t \in Threads : Interrupt(t)
        <2>1. PICK t \in Threads : Interrupt(t)
            BY <1>2
        <2>2. CASE InterruptWaiting(t)
            BY <2>2, WaitingIsRemovable, WakeUpKeepsTimes DEF InterruptWaiting, SchedulerInv
        <2>3. CASE InterruptLater(t)
            BY <2>3, SleepersKeepTimes DEF InterruptLater, lists
        <2>. QED BY <2>1, <2>2, <2>3 DEF Interrupt
    <1>3. CASE WakeThread
        BY <1>3, ThisIsThread, WakeUpKeepsTimes DEF WakeThread
    <1>4. CASE \/ \E o \in Objects : MonitorEnter(o)
               \/ \E o \in Objects, timeout \in {"none", "armed"} : ObjectWait(o, timeout)
        <2>1. current \notin ToSet(sleeping)
            BY <1>4, CurrentExecutes DEF MonitorEnter, ObjectWait, SchedulerInv
        <2>2. sleeping' = sleeping /\ \A t \in Threads \ {current} : timer'[t] = timer[t]
            BY <1>1, <1>4
            DEF MonitorEnter, LockObject, LockAgain, BlockOnObject, ObjectWait,
                HandlePendingInterrupt, ReleaseAndWait, lists
        <2>. QED BY <2>1, <2>2, SleepersKeepTimes
    <1>5. CASE Sleep
        <2>1. CASE HandlePendingInterrupt
            BY <2>1, SleepersKeepTimes DEF HandlePendingInterrupt, lists
        <2>2. CASE FallAsleep
            <3>1. /\ sleeping' = Append(sleeping, current)
                  /\ timer' = [timer EXCEPT ![current] = "armed"]
                BY <2>2 DEF FallAsleep
            <3>2. ToSet(sleeping') = ToSet(sleeping) \cup {current}
                BY <1>1, <3>1, AppendMember
            <3>. QED BY <1>1, <3>1, <3>2, SleepersKeepTimes
        <2>. QED BY <1>5, <2>1, <2>2 DEF Sleep
    <1>6. CASE \/ \E o \in Objects : Notify(o) \/ NotifyAll(o)
               \/ FinishThread
        <2>1. \/ UNCHANGED <<sleeping, timer>>
              \/ \E o \in Objects : \E ws \in {<<Head(waiters[o])>>, waiters[o]} :
                    Wake(o, ws) /\ (ws = waiters[o] \/ waiters[o] # <<>>)
              \/ \E o \in Objects : WakeOnFreeLock(o)
            BY <1>1, <1>6, ConstantsAssumption
            DEF Notify, NotifyAll, FinishThread, WakeJoining, lists
        <2>2. ASSUME NEW o \in Objects, NEW ws \in {<<Head(waiters[o])>>, waiters[o]},
                     Wake(o, ws), ws = waiters[o] \/ waiters[o] # <<>>
              PROVE  /\ sleeping' = sleeping
                     /\ \A t \in Threads : timer'[t] = timer[t] \/ t \notin ToSet(sleeping)
            <3>1. /\ sleeping' = sleeping
                  /\ \A t \in Threads : t \notin ToSet(ws) => timer'[t] = timer[t]
                BY <2>2 DEF Wake
            <3>2. IsInjective(waiters[o])
                BY DEF SchedulerInv, ListsInv, NoDuplicates
            <3>3. \A t : t \in ToSet(ws) => t \in ToSet(waiters[o])
                BY <1>1, <2>2, <3>2, WokenPrefix
            <3>4. \A t \in Threads : t \in ToSet(waiters[o]) => t \notin ToSet(sleeping)
                BY ConstantsAssumption DEF SchedulerInv, ListsInv, QueueTellsWaitObj, OnePlace
            <3>. QED BY <3>1, <3>3, <3>4
        <2>3. ASSUME NEW o \in Objects, WakeOnFreeLock(o)
              PROVE  /\ sleeping' = sleeping
                     /\ \A t \in Threads : timer'[t] = timer[t] \/ t \notin ToSet(sleeping)
            <3>1. /\ sleeping' = sleeping
                  /\ \A t \in Threads : t \notin ToSet(Tail(waiters[o])) => timer'[t] = timer[t]
                BY <2>3 DEF WakeOnFreeLock
            <3>2. \A t : t \in ToSet(Tail(waiters[o])) => t \in ToSet(waiters[o])
                <4>1. ToSet(waiters[o]) = ToSet(Tail(waiters[o])) \cup {Head(waiters[o])}
                    BY <2>3, FreeLockTaken DEF SchedulerInv
                <4>. QED BY <4>1
            <3>3. \A t \in Threads : t \in ToSet(waiters[o]) => t \notin ToSet(sleeping)
                BY ConstantsAssumption DEF SchedulerInv, ListsInv, QueueTellsWaitObj, OnePlace
            <3>. QED BY <3>1, <3>2, <3>3
        <2>. QED BY <2>1, <2>2, <2>3, SleepersKeepTimes
    <1>7. CASE \E t \in Threads : Expire(t)
        BY <1>1, <1>7, SleepersKeepTimes DEF Expire, lists
    <1>8. CASE \/ \E t \in Threads : StartThread(t) \/ UnblockThread(t)
               \/ MonitorExit \/ BlockCurrentThread \/ RedoNativeMethod \/ ThrowPendingException
               \/ TerminateThread \/ Yield
        BY <1>8, SleepersKeepTimes
        DEF StartThread, UnblockThread, MonitorExit, BlockCurrentThread, RedoNativeMethod,
            ThrowPendingException, TerminateThread, Yield, lists
    <1>9. CASE \/ StartWakeUps \/ NextList \/ SkipThread \/ GuaranteeFails \/ GoIdle \/ WakeFromIdle
               \/ ReturnToLoop \/ SwitchThread \/ StopForEver \/ Stopped \/ UNCHANGED vars
        BY <1>9, SleepersKeepTimes
        DEF StartWakeUps, NextList, SkipThread, GuaranteeFails, GoIdle, WakeFromIdle,
            ReturnToLoop, SwitchThread, StopForEver, Stopped, vars, lists
    <1>. QED BY <1>2, <1>3, <1>4, <1>5, <1>6, <1>7, <1>8, <1>9 DEF Next, ProgramStep, YieldStep

\* The thread that executes bytecodes stays active until it calls yield, and yield returns to one.
LEMMA StepKeepsRunning ==
    ASSUME SchedulerInv, RunningThreadIsActive, [Next]_vars
    PROVE  RunningThreadIsActive'
    <1>1. frames \in Seq(FrameType)
        BY DEF SchedulerInv, TypeOK
    <1>2. CASE Running
        <2>1. frames' # <<>> \/ current' \in active'
            <3>1. current \in active
                BY <1>2 DEF RunningThreadIsActive
            <3>2. ~ YieldStep /\ ~ \E t \in Threads : UnblockThread(t)
                BY <1>2 DEF Running, YieldStep, StartWakeUps, NextList, SkipThread, WakeThread,
                   GuaranteeFails, GoIdle, WakeFromIdle, ReturnToLoop, SwitchThread, StopForEver,
                   YieldReturns, WalkDone, NothingToWaitFor, YieldAt, UnblockThread
            <3>3. CASE ProgramStep
                <4>1. CASE \E o \in Objects, timeout \in {"none", "armed"} : ObjectWait(o, timeout)
                    BY <3>1, <4>1 DEF ObjectWait, HandlePendingInterrupt, ReleaseAndWait, lists
                <4>2. CASE \E o \in Objects : MonitorEnter(o)
                    <5>1. current' = current /\ (active' = active \/ frames' = <<NewFrame>>)
                        BY <4>2 DEF MonitorEnter, LockObject, LockAgain, BlockOnObject
                    <5>. QED BY <3>1, <5>1
                <4>3. CASE \E t \in Threads : Interrupt(t)
                    BY <3>1, <4>3 DEF Interrupt, InterruptWaiting, InterruptLater, RemoveAndWakeUp,
                       lists
                <4>4. CASE MonitorExit \/ Sleep
                    <5>1. current' = current /\ (active \subseteq active' \/ frames' = <<NewFrame>>)
                        BY <4>4 DEF MonitorExit, UnlockAgain, UnlockObject, Sleep,
                           HandlePendingInterrupt, FallAsleep, lists
                    <5>. QED BY <3>1, <5>1
                <4>5. CASE FinishThread \/ \E o \in Objects : Notify(o) \/ NotifyAll(o)
                    <5>1. current' = current /\ active \subseteq active'
                        <6>1. CASE FinishThread
                            BY <6>1 DEF FinishThread, WakeJoining, WakeOnFreeLock, Wake, lists
                        <6>2. CASE \E o \in Objects : Notify(o) \/ NotifyAll(o)
                            BY <6>2 DEF Notify, NotifyAll, Wake
                        <6>. QED BY <4>5, <6>1, <6>2
                    <5>. QED BY <3>1, <5>1
                <4>6. CASE \/ BlockCurrentThread \/ RedoNativeMethod \/ ThrowPendingException
                           \/ TerminateThread \/ \E t \in Threads : StartThread(t)
                    BY <3>1, <4>6 DEF BlockCurrentThread, RedoNativeMethod, ThrowPendingException,
                       TerminateThread, StartThread, lists
                <4>. QED BY <3>3, <4>1, <4>2, <4>3, <4>4, <4>5, <4>6 DEF ProgramStep
            <3>4. CASE \/ Yield \/ \E t \in Threads : Expire(t)
                       \/ Stopped \/ UNCHANGED vars
                BY <3>1, <3>4 DEF Yield, Expire, Stopped, vars, lists
            <3>. QED BY <3>2, <3>3, <3>4 DEF Next
        <2>. QED BY <2>1 DEF RunningThreadIsActive, Running
    <1>3. CASE status = "up" /\ frames # <<>>
        <2>1. \A f : SetTop(f) # <<>> /\ \A g : Append(SetTop(f), g) # <<>>
            BY <1>1, <1>3 DEF SetTop
        <2>2. ReturnToLoop => frames' # <<>>
            <3>1. SUFFICES ASSUME ReturnToLoop PROVE frames' # <<>>
                OBVIOUS
            <3>2. Len(frames) > 1 /\ frames' = Front(frames)
                BY <3>1 DEF ReturnToLoop
            <3>3. Len(Front(frames)) = Len(frames) - 1
                BY <1>1, <1>3, LastMember
            <3>. QED BY <1>1, <3>2, <3>3, EmptyList
        <2>3. ~ ProgramStep /\ ~ Yield
            BY <1>3 DEF ProgramStep, CanExecute, Running, MonitorEnter, MonitorExit, ObjectWait,
               Notify, NotifyAll, StartThread, Sleep, BlockCurrentThread, RedoNativeMethod,
               Interrupt, ThrowPendingException, FinishThread, TerminateThread, Yield
        <2>4. CASE \/ StartWakeUps \/ NextList \/ SkipThread \/ WakeThread \/ GoIdle \/ WakeFromIdle
            BY <2>1, <2>4 DEF StartWakeUps, NextList, SkipThread, WakeThread, GoIdle, WakeFromIdle,
               RunningThreadIsActive, Running
        <2>5. CASE GuaranteeFails \/ SwitchThread \/ StopForEver
            BY <2>5 DEF GuaranteeFails, SwitchThread, StopForEver, RunningThreadIsActive, Running,
               lists
        <2>6. CASE \/ \E t \in Threads : UnblockThread(t) \/ Expire(t)
                   \/ Stopped \/ UNCHANGED vars
            BY <1>3, <2>6 DEF UnblockThread, Expire, Stopped, vars, RunningThreadIsActive, Running
        <2>. QED BY <2>2, <2>3, <2>4, <2>5, <2>6
                 DEF Next, YieldStep, RunningThreadIsActive, Running
    <1>4. CASE status # "up"
        <2>1. UNCHANGED vars
            BY <1>4
            DEF Next, ProgramStep, CanExecute, Running, MonitorEnter, MonitorExit, ObjectWait,
                Notify, NotifyAll, StartThread, Sleep, BlockCurrentThread, RedoNativeMethod,
                Interrupt, ThrowPendingException, FinishThread, TerminateThread, Yield, Stopped,
                YieldStep, StartWakeUps, NextList, SkipThread, WakeThread, GuaranteeFails, GoIdle,
                WakeFromIdle, ReturnToLoop, SwitchThread, StopForEver, YieldReturns, WalkDone,
                NothingToWaitFor, YieldAt, UnblockThread, Expire
        <2>. QED BY <1>4, <2>1 DEF vars, RunningThreadIsActive, Running
    <1>. QED BY <1>2, <1>3, <1>4 DEF Running

\* A VM that has stopped does nothing, and it stops only from an idle yield with nothing to wait for.
LEMMA StepKeepsStopped ==
    ASSUME SchedulerInv, StoppedWithNothingToDo, [Next]_vars
    PROVE  StoppedWithNothingToDo'
    <1>1. CASE status' = "up" \/ status' = "guarantee failed"
        BY <1>1 DEF StoppedWithNothingToDo
    <1>2. CASE status' # "up" /\ status' # "guarantee failed" /\ status = "up"
        <2>1. StopForEver
            BY <1>2
            DEF Next, ProgramStep, MonitorEnter, MonitorExit, ObjectWait, Notify, NotifyAll,
                StartThread, Sleep, BlockCurrentThread, RedoNativeMethod, Interrupt,
                ThrowPendingException, FinishThread, TerminateThread, Yield, Stopped, YieldStep,
                StartWakeUps, NextList, SkipThread, WakeThread, GuaranteeFails, GoIdle, WakeFromIdle,
                ReturnToLoop, SwitchThread, UnblockThread, Expire, vars
        <2>2. NothingToWaitFor
            BY <2>1 DEF StopForEver, YieldReturns
        <2>3. UNCHANGED <<lists, timer>>
            BY <2>1 DEF StopForEver
        <2>4. active = {} /\ async = {} /\ \A t \in Waiting : timer[t] = "none"
            BY <2>2 DEF NothingToWaitFor
        <2>. QED BY <2>3, <2>4 DEF StoppedWithNothingToDo, Waiting, lists
    <1>3. CASE status # "up"
        <2>1. UNCHANGED vars
            BY <1>3
            DEF Next, ProgramStep, CanExecute, Running, MonitorEnter, MonitorExit, ObjectWait,
                Notify, NotifyAll, StartThread, Sleep, BlockCurrentThread, RedoNativeMethod,
                Interrupt, ThrowPendingException, FinishThread, TerminateThread, Yield, Stopped,
                YieldStep, StartWakeUps, NextList, SkipThread, WakeThread, GuaranteeFails, GoIdle,
                WakeFromIdle, ReturnToLoop, SwitchThread, StopForEver, YieldReturns, WalkDone,
                NothingToWaitFor, YieldAt, UnblockThread, Expire
        <2>. QED BY <2>1 DEF vars, lists, StoppedWithNothingToDo, Waiting
    <1>. QED BY <1>1, <1>2, <1>3

\* At the start one thread is active, nothing is locked and nobody sleeps.
LEMMA InitStopping == Init => StoppingInv
    <1>. SUFFICES ASSUME Init PROVE StoppingInv
        OBVIOUS
    <1>1. RunningThreadIsActive /\ StoppedWithNothingToDo
        BY DEF Init, RunningThreadIsActive, StoppedWithNothingToDo
    <1>2. SleepersHaveTimes
        BY EmptyList DEF Init, SleepersHaveTimes
    <1>3. OwnersHaveLocked /\ OnlyLiveThreadsAct
        BY DEF Init, OwnersHaveLocked, OnlyLiveThreadsAct
    <1>. QED BY <1>1, <1>2, <1>3 DEF StoppingInv

\* What is said of running, sleeping, owning and stopping holds in every reachable state.
THEOREM StoppingInvariance == Spec => [](SchedulerInv /\ StoppingInv)
    <1>1. Init => SchedulerInv /\ StoppingInv
        BY InitInv, InitStopping
    <1>2. SchedulerInv /\ StoppingInv /\ [Next]_vars => (SchedulerInv /\ StoppingInv)'
        BY NextKeeps, StepKeepsLocked, StepKeepsLiving, StepKeepsTimes, StepKeepsRunning, StepKeepsStopped
        DEF StoppingInv
    <1>. QED BY <1>1, <1>2, PTL DEF Spec

\* The VM exits or sleeps for ever only when no thread can run, no native event and no wake-up time
\* is awaited, and the owner of every lock queued for is itself in a queue (wait_for_event_or_timer
\* with no timeout and nothing to wait for, switch_thread).
THEOREM StopsStuck == Spec => []StopsOnlyWhenStuck
    <1>1. SchedulerInv /\ StoppingInv => StopsOnlyWhenStuck
        <2>. SUFFICES ASSUME SchedulerInv, StoppingInv, status \in {"exited", "asleep for ever"}
                      PROVE  /\ active = {} /\ async = {} /\ sleeping = <<>>
                             /\ \A t \in Waiting : timer[t] = "none"
                             /\ \A o \in Objects : entry[o] # <<>> =>
                                   \E u \in Objects : owner[o] \in ToSet(entry[u]) \cup ToSet(waiters[u])
            BY DEF StopsOnlyWhenStuck
        <2>1. active = {} /\ async = {} /\ \A t \in Waiting : timer[t] = "none"
            BY DEF StoppingInv, StoppedWithNothingToDo
        <2>2. sleeping = <<>>
            <3>1. ToSet(sleeping) = {}
                BY <2>1 DEF StoppingInv, SleepersHaveTimes, Waiting
            <3>. QED BY <3>1, NoMembers DEF SchedulerInv, TypeOK
        <2>3. ASSUME NEW o \in Objects, entry[o] # <<>>
              PROVE  \E u \in Objects : owner[o] \in ToSet(entry[u]) \cup ToSet(waiters[u])
            <3>. DEFINE t == owner[o]
            <3>1. t \in Threads /\ o \in ToSet(locks[t])
                BY <2>3 DEF SchedulerInv, ListsInv, WaitersImplyLocked, TypeOK, StoppingInv,
                   OwnersHaveLocked
            <3>. HIDE DEF t
            <3>2. locks[t] # <<>>
                BY <3>1, EmptyList
            <3>3. life[t] \in {"alive", "terminated"}
                BY <3>1, <3>2 DEF StoppingInv, OnlyLiveThreadsAct
            <3>4. wait_obj[t] \in Objects
                BY <2>1, <2>2, <3>1, <3>3, EmptyList DEF SchedulerInv, ListsInv, OnePlace, TypeOK
            <3>5. t \in ToSet(waiters[wait_obj[t]]) \/ t \in ToSet(entry[wait_obj[t]])
                BY <3>1, <3>4 DEF SchedulerInv, ListsInv, QueueTellsWaitObj
            <3>. QED BY <3>4, <3>5 DEF t
        <2>. QED BY <2>1, <2>2, <2>3
    <1>. QED BY <1>1, StoppingInvariance, PTL
=============================================================================
