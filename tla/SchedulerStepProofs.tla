----------------------- MODULE SchedulerStepProofs -----------------------
(***************************************************************************)
(* What the steps of the scheduler are and what they may never do: let a   *)
(* thread get past the queue for a monitor, let a thread return from       *)
(* Object.wait for no reason, take a step the contract of Java monitors    *)
(* does not allow, or lose the place of the wake-up loop in its lists.     *)
(***************************************************************************)
EXTENDS SchedulerProofs, MonitorRefinement, FiniteSetTheorems

-----------------------------------------------------------------------------
(* Who gets a released lock. *)

\* The lock of o is handed to its oldest waiter: Synchronizer::signal_waiters.
HandedOver(o) ==
    /\ owner' = [owner EXCEPT ![o] = Heir(o)]
    /\ entry' = [entry EXCEPT ![o] = LaterWaiters(o)]

\* The owner of a lock changes when it is free, and when it is handed over.
LEMMA OwnerChanges ==
    ASSUME SchedulerInv, [Next]_vars
    PROVE  \/ owner' = owner
           \/ \E u \in Objects : HandedOver(u)
           \/ \E u \in Objects, t \in Threads :
                 owner[u] = NoThread /\ owner' = [owner EXCEPT ![u] = t]
    <1>1. CASE \E u \in Objects : MonitorEnter(u)
        BY <1>1 DEF MonitorEnter, LockObject, LockAgain, BlockOnObject, SchedulerInv, TypeOK
    <1>2. CASE MonitorExit
        <2>1. Last(locks[current]) \in Objects
            BY <1>2, LastMember DEF MonitorExit, SchedulerInv, TypeOK
        <2>. QED BY <1>2, <2>1 DEF MonitorExit, UnlockAgain, UnlockObject, HandedOver
    <1>3. CASE \E u \in Objects, timeout \in {"none", "armed"} : ObjectWait(u, timeout)
        BY <1>3 DEF ObjectWait, HandlePendingInterrupt, ReleaseAndWait, monitors, HandedOver
    <1>4. CASE \E t \in Threads : Interrupt(t)
        BY <1>4 DEF Interrupt, InterruptWaiting, InterruptLater, RemoveAndWakeUp, monitors
    <1>5. CASE WakeThread
        <2>1. top.this \in Threads
            <3>1. top \in FrameType
                <4>1. frames \in Seq(FrameType) /\ frames # <<>>
                    BY <1>5 DEF WakeThread, YieldAt, SchedulerInv, TypeOK
                <4>2. NewFrame \in FrameType BY DEF NewFrame, FrameType
                <4>. QED BY <4>1, <4>2, SetTopType
            <3>. QED BY <1>5, <3>1 DEF WakeThread, FrameType
        <2>2. RemoveAndWakeUp(top.this)
            BY <1>5 DEF WakeThread
        <2>. QED BY <2>1, <2>2 DEF RemoveAndWakeUp, monitors
    <1>6. CASE \/ \E o \in Objects : Notify(o) \/ NotifyAll(o)
               \/ FinishThread
        <2>1. ThreadObj[current] \in Objects \cup {NoObject}
            BY ConstantsAssumption DEF SchedulerInv, TypeOK
        <2>2. CASE \E o \in Objects : Notify(o) \/ NotifyAll(o)
            BY <2>2 DEF Notify, NotifyAll, Wake
        <2>3. CASE FinishThread /\ ThreadObj[current] = NoObject
            BY <2>3 DEF FinishThread, monitors
        <2>4. CASE FinishThread /\ ThreadObj[current] \in Objects
            <3>1. WakeJoining(ThreadObj[current])
                BY <2>4, ConstantsAssumption DEF FinishThread
            <3>2. WakeOnFreeLock(ThreadObj[current]) => Head(waiters[ThreadObj[current]]) \in Threads
                BY <2>4, FreeLockTaken DEF SchedulerInv
            <3>. QED BY <2>4, <3>1, <3>2 DEF WakeJoining, WakeOnFreeLock, Wake
        <2>. QED BY <1>6, <2>1, <2>2, <2>3, <2>4
    <1>7. CASE \/ \E t \in Threads : StartThread(t) \/ UnblockThread(t) \/ Expire(t)
               \/ Sleep \/ BlockCurrentThread \/ RedoNativeMethod \/ ThrowPendingException
               \/ TerminateThread \/ Yield
        BY <1>7 DEF StartThread, UnblockThread, Expire, Sleep, HandlePendingInterrupt, FallAsleep,
                    BlockCurrentThread, RedoNativeMethod, ThrowPendingException, TerminateThread,
                    Yield, monitors
    <1>8. CASE \/ StartWakeUps \/ NextList \/ SkipThread \/ GuaranteeFails \/ GoIdle \/ WakeFromIdle
               \/ ReturnToLoop \/ SwitchThread \/ StopForEver \/ Stopped \/ UNCHANGED vars
        BY <1>8 DEF StartWakeUps, NextList, SkipThread, GuaranteeFails, GoIdle, WakeFromIdle,
                    ReturnToLoop, SwitchThread, StopForEver, Stopped, vars, monitors
    <1>. QED BY <1>1, <1>2, <1>3, <1>4, <1>5, <1>6, <1>7, <1>8 DEF Next, ProgramStep, YieldStep

\* A monitor with a queue changes hands in the order of the queue: nobody gets it who came later,
\* whether a thread enters it or returns from Object.wait (Synchronizer::enter, signal_waiters).
THEOREM QueueOrder == Spec => FifoHandOver
    <1>1. SchedulerInv /\ [Next]_vars =>
             [\A o \in Objects : entry[o] # <<>> /\ owner'[o] # owner[o] =>
                 /\ owner'[o] = Head(entry[o])
                 /\ IsPrefix(Tail(entry[o]), entry'[o])]_vars
        <2>. SUFFICES ASSUME SchedulerInv, [Next]_vars, NEW o \in Objects,
                             entry[o] # <<>>, owner'[o] # owner[o]
                      PROVE  owner'[o] = Head(entry[o]) /\ IsPrefix(Tail(entry[o]), entry'[o])
            OBVIOUS
        <2>1. /\ owner[o] # NoThread
              /\ owner \in [Objects -> Threads \cup {NoThread}]
              /\ entry \in [Objects -> Seq(Threads)]
            BY DEF SchedulerInv, ListsInv, WaitersImplyLocked, TypeOK
        <2>2. PICK u \in Objects : HandedOver(u)
            BY <2>1, OwnerChanges
        <2>3. HandedOver(o)
            BY <2>1, <2>2 DEF HandedOver
        <2>4. owner'[o] = Head(entry[o]) /\ entry'[o] = Tail(entry[o])
            BY <2>1, <2>3 DEF HandedOver, Heir, LaterWaiters, First
        <2>5. Tail(entry[o]) \in Seq(Threads) /\ Len(Tail(entry[o])) \in Nat
            BY <2>1
        <2>6. IsPrefix(Tail(entry[o]), Tail(entry[o]))
            BY <2>5 DEF IsPrefix
        <2>. QED BY <2>4, <2>6
    <1>. QED BY <1>1, Invariance, PTL DEF Spec, FifoHandOver

-----------------------------------------------------------------------------
(* Why a thread returns from Object.wait. *)

\* A call of yield that starts, ends or goes on remembers no thread whose time is in the future.
LEMMA DueStep ==
    ASSUME TypeOK, DueTimersReached,
           \A t \in Threads : timer'[t] = "armed" => timer[t] = "armed",
           \A j \in DOMAIN frames' :
              \/ \E i \in DOMAIN frames : frames'[j].due = frames[i].due
              \/ \A t \in frames'[j].due : timer'[t] # "armed"
    PROVE  DueTimersReached'
    <1>1. frames \in Seq(FrameType)
        BY DEF TypeOK
    <1>2. \A i \in DOMAIN frames : frames[i].due \subseteq Threads
        <2>1. \A i \in DOMAIN frames : frames[i] \in FrameType
            BY <1>1
        <2>. QED BY <2>1 DEF FrameType
    <1>. QED BY <1>2 DEF DueTimersReached

\* A change of the innermost call of yield leaves the others.
LEMMA TopChange ==
    ASSUME frames \in Seq(FrameType), frames # <<>>, NEW f \in FrameType
    PROVE  /\ DOMAIN SetTop(f) = DOMAIN frames
           /\ \A j \in DOMAIN frames : SetTop(f)[j] = IF j = Len(frames) THEN f ELSE frames[j]
           /\ Len(frames) \in DOMAIN frames
    BY DEF SetTop

\* The innermost call of yield goes on with the clock it has read, and may call yield again.
LEMMA TopGoesOn ==
    ASSUME TypeOK, DueTimersReached, frames # <<>>,
           NEW f \in FrameType, f.due = top.due,
           frames' = SetTop(f) \/ frames' = Append(SetTop(f), NewFrame),
           \A t \in Threads : timer'[t] = "armed" => timer[t] = "armed"
    PROVE  DueTimersReached'
    <1>1. frames \in Seq(FrameType)
        BY DEF TypeOK
    <1>2. \A j \in DOMAIN SetTop(f) : j \in DOMAIN frames /\ SetTop(f)[j].due = frames[j].due
        BY <1>1, TopChange DEF top
    <1>3. CASE frames' = SetTop(f)
        BY <1>2, <1>3, DueStep
    <1>4. CASE frames' = Append(SetTop(f), NewFrame)
        <2>1. SetTop(f) \in Seq(FrameType) /\ NewFrame \in FrameType
            BY <1>1, SetTopType DEF NewFrame, FrameType
        <2>2. \A j \in DOMAIN frames' : \/ j \in DOMAIN SetTop(f) /\ frames'[j] = SetTop(f)[j]
                                        \/ frames'[j] = NewFrame
            BY <1>4, <2>1
        <2>. QED BY <1>2, <2>2, DueStep DEF NewFrame
    <1>. QED BY <1>3, <1>4

\* The steps of a program, of the clock and of native events keep the wake-up times right: no
\* call of yield is in progress when a thread is given a new one.
LEMMA ProgramKeepsDue ==
    ASSUME WakeUpInv,
           \/ ProgramStep \/ Yield
           \/ \E t \in Threads : UnblockThread(t) \/ Expire(t)
           \/ Stopped \/ UNCHANGED vars
    PROVE  DueTimersReached'
    <1>. USE DEF WakeUpInv, SchedulerInv
    <1>1. CASE ProgramStep \/ Yield
        <2>1. frames = <<>> /\ (frames' = <<>> \/ frames' = <<NewFrame>>)
            BY <1>1
            DEF ProgramStep, CanExecute, Running, MonitorEnter, LockObject, LockAgain, BlockOnObject,
                MonitorExit, ObjectWait, HandlePendingInterrupt, ReleaseAndWait, Notify, NotifyAll,
                StartThread, Sleep, FallAsleep, BlockCurrentThread, RedoNativeMethod, Interrupt,
                ThrowPendingException, FinishThread, TerminateThread, Yield
        <2>2. \A j \in DOMAIN frames' : frames'[j].due = {}
            BY <2>1 DEF NewFrame
        <2>. QED BY <2>2 DEF DueTimersReached
    <1>2. CASE \E t \in Threads : Expire(t)
        BY <1>2, DueStep DEF Expire, TypeOK
    <1>3. CASE (\E t \in Threads : UnblockThread(t)) \/ Stopped \/ UNCHANGED vars
        BY <1>3 DEF UnblockThread, Stopped, vars, DueTimersReached
    <1>. QED BY <1>1, <1>2, <1>3

\* The steps of yield keep the wake-up times right: they set none, and read the clock again only
\* when they start a walk.
LEMMA YieldKeepsDue ==
    ASSUME WakeUpInv, YieldStep
    PROVE  DueTimersReached'
    <1>. USE DEF WakeUpInv, SchedulerInv
    <1>1. frames \in Seq(FrameType)
        BY DEF TypeOK
    <1>2. frames # <<>> => top \in FrameType
        BY <1>1, TopChange DEF top
    <1>3. CASE StartWakeUps
        <2>. DEFINE f == [pc |-> "wake", due |-> {t \in Threads : timer[t] = "expired"},
                          this |-> First(sleeping), next_waiting |-> ChainHead(1)]
        <2>1. f \in FrameType
            BY ListHeads DEF FrameType, ListsInv
        <2>2. frames # <<>> /\ frames' = SetTop(f) /\ timer' = timer
            BY <1>3 DEF StartWakeUps, YieldAt
        <2>3. \A t \in f.due : timer[t] # "armed"
            OBVIOUS
        <2>. HIDE DEF f
        <2>4. \A j \in DOMAIN frames' : \/ j \in DOMAIN frames /\ frames'[j] = frames[j]
                                        \/ frames'[j] = f
            BY <1>1, <2>1, <2>2, TopChange
        <2>. QED BY <2>2, <2>3, <2>4, DueStep
    <1>4. CASE NextList \/ SkipThread \/ GoIdle
        <2>1. frames # <<>> /\ timer' = timer
            BY <1>4 DEF NextList, SkipThread, GoIdle, WalkDone, YieldAt
        <2>2. \E f \in FrameType : f.due = top.due /\ frames' = SetTop(f)
            <3>1. CASE NextList
                <4>1. top.next_waiting \in Threads
                    BY <1>2, <2>1, <3>1 DEF NextList, FrameType
                <4>2. NextWaiting(top.next_waiting) \in Threads \cup {NoThread}
                    BY <4>1, LinkTypes DEF ListsInv
                <4>. QED BY <1>2, <2>1, <3>1, <4>1, <4>2 DEF NextList, FrameType
            <3>2. CASE SkipThread
                <4>1. top.this \in Threads
                    BY <1>2, <2>1, <3>2 DEF SkipThread, FrameType
                <4>2. NextLinks(top.this) \subseteq Threads \cup {NoThread}
                    BY <4>1, LinkTypes DEF ListsInv
                <4>. QED BY <1>2, <2>1, <3>2, <4>2 DEF SkipThread, FrameType
            <3>3. CASE GoIdle
                BY <1>2, <2>1, <3>3 DEF GoIdle, FrameType
            <3>. QED BY <1>4, <3>1, <3>2, <3>3
        <2>. QED BY <2>1, <2>2, TopGoesOn
    <1>5. CASE WakeThread
        <2>1. frames # <<>> /\ top.this \in Threads
            BY <1>2, <1>5 DEF WakeThread, YieldAt, FrameType
        <2>2. \A t \in Threads : timer'[t] = "armed" => timer[t] = "armed"
            BY <1>5 DEF WakeThread, RemoveAndWakeUp, TypeOK
        <2>3. PICK next \in NextLinks(top.this) :
                 LET outer == SetTop([top EXCEPT !.this = next])
                 IN  frames' = IF BlocksCurrent(top.this) THEN Append(outer, NewFrame) ELSE outer
            BY <1>5 DEF WakeThread
        <2>4. next \in Threads \cup {NoThread}
            BY <2>1, LinkTypes DEF ListsInv
        <2>. DEFINE f == [top EXCEPT !.this = next]
        <2>5. f \in FrameType /\ f.due = top.due
            BY <1>2, <2>1, <2>4 DEF FrameType
        <2>6. frames' = SetTop(f) \/ frames' = Append(SetTop(f), NewFrame)
            BY <2>3
        <2>. HIDE DEF f
        <2>. QED BY <2>1, <2>2, <2>5, <2>6, TopGoesOn
    <1>6. CASE WakeFromIdle
        <2>1. frames # <<>> /\ frames' = SetTop(NewFrame) /\ timer' = timer
            BY <1>6 DEF WakeFromIdle, YieldAt
        <2>2. NewFrame \in FrameType
            BY DEF NewFrame, FrameType
        <2>3. \A j \in DOMAIN frames' : \/ j \in DOMAIN frames /\ frames'[j] = frames[j]
                                        \/ frames'[j] = NewFrame
            BY <1>1, <2>1, <2>2, TopChange
        <2>4. NewFrame.due = {}
            BY DEF NewFrame
        <2>. QED BY <2>1, <2>3, <2>4, DueStep
    <1>7. CASE ReturnToLoop
        <2>1. frames' = Front(frames) /\ timer' = timer /\ frames # <<>>
            BY <1>7, <1>1 DEF ReturnToLoop
        <2>2. \A j \in DOMAIN frames' : j \in DOMAIN frames /\ frames'[j] = frames[j]
            BY <1>1, <2>1 DEF Front
        <2>. QED BY <2>1, <2>2, DueStep
    <1>8. CASE SwitchThread \/ StopForEver
        <2>1. frames' = <<>>
            BY <1>8 DEF SwitchThread, StopForEver
        <2>. QED BY <2>1 DEF DueTimersReached
    <1>9. CASE GuaranteeFails
        BY <1>9 DEF GuaranteeFails, DueTimersReached
    <1>. QED BY <1>3, <1>4, <1>5, <1>6, <1>7, <1>8, <1>9 DEF YieldStep

\* The invariant with what yield remembers of the clock, in every reachable state.
THEOREM WakeUpInvariance == Spec => []WakeUpInv
    <1>1. Init => WakeUpInv
        BY InitInv DEF Init, WakeUpInv, DueTimersReached
    <1>2. WakeUpInv /\ [Next]_vars => WakeUpInv'
        BY NextKeeps, ProgramKeepsDue, YieldKeepsDue DEF WakeUpInv, Next
    <1>. QED BY <1>1, <1>2, PTL DEF Spec

\* All that every step keeps: lists, locks, wake-up times, and what a VM that stops has come to.
THEOREM WholeInvariance == Spec => []WholeInv
    <1>. QED BY WakeUpInvariance, StoppingInvariance, PTL DEF WholeInv

\* A thread leaves a wait list by notify or notifyAll of the owner of the object, at the end of the
\* thread whose object it is, by an interrupt or when its time is reached; no other thread's wake-up
\* takes it along.
LEMMA WaiterLeaves ==
    ASSUME WakeUpInv, [Next]_vars, NEW o \in Objects,
           NEW t \in ToSet(waiters[o]), t \notin ToSet(waiters'[o])
    PROVE  \/ Running /\ owner[o] = current
           \/ \E u \in Threads :
                 ThreadObj[u] = o /\ life[u] = "alive" /\ life'[u] = "terminated"
           \/ t \in pending_exception'
           \/ timer[t] = "expired"
    <1>. USE DEF WakeUpInv, SchedulerInv
    <1>1. waiters \in [Objects -> Seq(Threads)] /\ frames \in Seq(FrameType) /\ t \in Threads
        BY MembersType DEF TypeOK
    <1>2. waiters'[o] # waiters[o]
        OBVIOUS
    <1>removed. \A u \in Threads : Removable(u) /\ RemoveAndWakeUp(u) => u = t
        <2>. SUFFICES ASSUME NEW u \in Threads, Removable(u), RemoveAndWakeUp(u) PROVE u = t
            OBVIOUS
        <2>1. wait_obj[u] = o
            BY <1>1, <1>2, ConstantsAssumption DEF RemoveAndWakeUp
        <2>2. u \in ToSet(waiters[o]) /\ waiters'[o] = Unlink(waiters[o], u)
            BY <1>1, <2>1, ConstantsAssumption DEF RemoveAndWakeUp, Removable
        <2>3. ToSet(Unlink(waiters[o], u)) = ToSet(waiters[o]) \ {u}
            BY <1>1, <2>2, UnlinkOne DEF ListsInv, NoDuplicates
        <2>. QED BY <2>2, <2>3
    <1>3. CASE \E u \in Objects : Notify(u) \/ NotifyAll(u)
        BY <1>1, <1>2, <1>3 DEF Notify, NotifyAll, CanExecute, Wake
    <1>4. CASE FinishThread
        <2>1. current \in Threads /\ ThreadObj[current] \in Objects \cup {NoObject}
            BY ConstantsAssumption DEF TypeOK
        <2>2. ThreadObj[current] = o
            BY <1>1, <1>2, <1>4, <2>1 DEF FinishThread, WakeJoining, WakeOnFreeLock, Wake, lists
        <2>3. life[current] = "alive" /\ life'[current] = "terminated"
            BY <1>4, <2>1 DEF FinishThread, TypeOK
        <2>. QED BY <2>1, <2>2, <2>3
    <1>5. CASE \E u \in Threads : Interrupt(u)
        <2>1. PICK u \in Threads : InterruptWaiting(u)
            BY <1>2, <1>5 DEF Interrupt, InterruptLater, lists
        <2>2. u = t
            BY <2>1, <1>removed, WaitingIsRemovable DEF InterruptWaiting
        <2>. QED BY <2>1, <2>2 DEF InterruptWaiting
    <1>6. CASE WakeThread
        <2>1. frames # <<>> /\ top \in FrameType /\ Len(frames) \in DOMAIN frames
            BY <1>1, <1>6, TopChange DEF WakeThread, YieldAt, top
        <2>2. top.this = t
            BY <1>6, <1>removed, <2>1 DEF WakeThread, FrameType
        <2>3. t \in top.due /\ timer[t] # "none"
            BY <1>6, <2>2 DEF WakeThread, Due
        <2>4. timer[t] # "armed"
            BY <2>1, <2>3 DEF DueTimersReached, top
        <2>. QED BY <1>1, <2>3, <2>4 DEF TypeOK, TimerValues
    <1>7. CASE \E u \in Objects, timeout \in {"none", "armed"} : ObjectWait(u, timeout)
        <2>1. PICK u \in Objects : waiters' = [waiters EXCEPT ![u] = Append(@, current)]
            BY <1>2, <1>7 DEF ObjectWait, HandlePendingInterrupt, ReleaseAndWait, lists
        <2>2. waiters'[o] = Append(waiters[o], current) /\ current \in Threads
            BY <1>1, <1>2, <2>1 DEF TypeOK
        <2>. QED BY <1>1, <2>2, AppendMember
    <1>8. CASE \/ \E u \in Objects : MonitorEnter(u)
               \/ \E u \in Threads : StartThread(u) \/ UnblockThread(u) \/ Expire(u)
               \/ MonitorExit \/ Sleep \/ BlockCurrentThread \/ RedoNativeMethod
               \/ ThrowPendingException \/ TerminateThread \/ Yield
        BY <1>2, <1>8
        DEF MonitorEnter, StartThread, UnblockThread, Expire, MonitorExit, Sleep, FallAsleep,
            HandlePendingInterrupt, BlockCurrentThread, RedoNativeMethod, ThrowPendingException,
            TerminateThread, Yield, lists
    <1>9. CASE \/ StartWakeUps \/ NextList \/ SkipThread \/ GuaranteeFails \/ GoIdle \/ WakeFromIdle
               \/ ReturnToLoop \/ SwitchThread \/ StopForEver \/ Stopped \/ UNCHANGED vars
        BY <1>2, <1>9
        DEF StartWakeUps, NextList, SkipThread, GuaranteeFails, GoIdle, WakeFromIdle,
            ReturnToLoop, SwitchThread, StopForEver, Stopped, vars, lists
    <1>. QED BY <1>3, <1>4, <1>5, <1>6, <1>7, <1>8, <1>9 DEF Next, ProgramStep, YieldStep

\* Object.wait returns for a reason: notify by the owner of the object, the end of the thread whose
\* object it is, an interrupt that is then thrown, or its time reached (Scheduler::notify,
\* Thread::finish, interrupt_thread, wake_up_timed_out_sleepers).
THEOREM WaitsEndForAReason == Spec => NoSpuriousWakeUp
    <1>1. WakeUpInv /\ [Next]_vars =>
             [\A o \in Objects : \A t \in ToSet(waiters[o]) \ ToSet(waiters'[o]) :
                 \/ Running /\ owner[o] = current
                 \/ \E u \in Threads :
                       ThreadObj[u] = o /\ life[u] = "alive" /\ life'[u] = "terminated"
                 \/ t \in pending_exception'
                 \/ timer[t] = "expired"]_vars
        BY WaiterLeaves
    <1>. QED BY <1>1, WakeUpInvariance, PTL DEF Spec, NoSpuriousWakeUp

-----------------------------------------------------------------------------
(* The contract of Java monitors: how often a thread has entered a monitor. *)

\* The places of an element in a list are finitely many; there are some exactly when it is a member.
LEMMA OccurrencesType ==
    ASSUME NEW S, NEW s \in Seq(S), NEW u
    PROVE  /\ IsFiniteSet({i \in DOMAIN s : s[i] = u})
           /\ Occurrences(u, s) \in Nat
           /\ Occurrences(u, s) > 0 <=> u \in ToSet(s)
    <1>. DEFINE P == {i \in DOMAIN s : s[i] = u}
    <1>1. IsFiniteSet(P)
        <2>1. IsFiniteSet(1..Len(s))
            BY FS_Interval
        <2>2. P \subseteq 1..Len(s)
            OBVIOUS
        <2>. QED BY <2>1, <2>2, FS_Subset
    <1>2. Cardinality(P) \in Nat /\ (Cardinality(P) = 0 <=> P = {})
        BY <1>1, FS_CardinalityType, FS_EmptySet
    <1>3. P = {} <=> u \notin ToSet(s)
        BY DEF ToSet
    <1>. QED BY <1>1, <1>2, <1>3 DEF Occurrences

\* A stack lock more on an object is one entry more of it.
LEMMA OccurrencesAppended ==
    ASSUME NEW S, NEW s \in Seq(S), NEW e \in S, NEW u
    PROVE  Occurrences(u, Append(s, e)) = IF u = e THEN Occurrences(u, s) + 1
                                                   ELSE Occurrences(u, s)
    <1>. DEFINE P == {i \in DOMAIN s : s[i] = u}
                Q == {i \in DOMAIN Append(s, e) : Append(s, e)[i] = u}
    <1>1. IsFiniteSet(P)
        BY OccurrencesType
    <1>2. Q = IF u = e THEN P \cup {Len(s) + 1} ELSE P
        OBVIOUS
    <1>3. Len(s) + 1 \notin P
        OBVIOUS
    <1>. HIDE DEF P
    <1>4. Cardinality(P \cup {Len(s) + 1}) = Cardinality(P) + 1
        BY <1>1, <1>3, FS_AddElement
    <1>. QED BY <1>2, <1>4 DEF Occurrences, P

\* A stack lock popped is one entry less of its object.
LEMMA OccurrencesPopped ==
    ASSUME NEW S, NEW s \in Seq(S), s # <<>>, NEW u
    PROVE  Occurrences(u, s) = IF u = Last(s) THEN Occurrences(u, Front(s)) + 1
                                              ELSE Occurrences(u, Front(s))
    <1>1. Last(s) \in S /\ Front(s) \in Seq(S) /\ Len(Front(s)) = Len(s) - 1
        BY LastMember
    <1>2. s = Append(Front(s), Last(s))
        <2>. DEFINE r == Append(Front(s), Last(s))
        <2>1. \A i \in 1..(Len(s) - 1) : Front(s)[i] = s[i]
            BY DEF Front
        <2>2. r \in Seq(S) /\ Len(r) = Len(s)
            BY <1>1
        <2>3. \A i \in 1..Len(s) : s[i] = r[i]
            BY <1>1, <2>1 DEF Last
        <2>. HIDE DEF r
        <2>4. s = r
            BY <2>2, <2>3, SeqEqual
        <2>. QED BY <2>4 DEF r
    <1>3. Occurrences(u, Append(Front(s), Last(s))) =
             IF u = Last(s) THEN Occurrences(u, Front(s)) + 1 ELSE Occurrences(u, Front(s))
        BY <1>1, OccurrencesAppended
    <1>. QED BY <1>2, <1>3, Zenon

-----------------------------------------------------------------------------
(* What the steps do to the monitors a Java program can tell. *)

\* A live thread in no queue of an object is free to act.
LEMMA FreeThread ==
    ASSUME SchedulerInv, NEW t \in Threads, wait_obj[t] = NoObject, life[t] = "alive"
    PROVE  Monitor!Free(t)
    BY ConstantsAssumption
    DEF Monitor!Free, EndedThreads, BlockedThreads, WaitSets, SchedulerInv, ListsInv, QueueTellsWaitObj

\* The types of the state a Java program sees, and its values at one object and thread.
LEMMA MonitorTypes ==
    ASSUME SchedulerInv
    PROVE  /\ current \in Threads
           /\ owner \in [Objects -> Threads \cup {NoThread}]
           /\ \A o \in Objects : BlockedThreads[o] = ToSet(entry[o]) /\ BlockedThreads[o] \subseteq Threads
           /\ \A o \in Objects : WaitSets[o] = ToSet(waiters[o]) /\ WaitSets[o] \subseteq Threads
           /\ DOMAIN BlockedThreads = Objects /\ DOMAIN WaitSets = Objects
           /\ \A t \in Threads, o \in Objects : EntryCounts[t][o] = Occurrences(o, locks[t])
    BY MembersType DEF SchedulerInv, TypeOK, BlockedThreads, WaitSets, EntryCounts

\* Steps that touch no monitor, no wait list and no exception, and end no thread, are not seen by a
\* Java program; nor is the wake-up time of a thread that waits for no object.
LEMMA UnseenStep ==
    ASSUME UNCHANGED <<locks, owner, entry, waiters, pending_exception, EndedThreads>>,
           \A t \in Threads : (\E o \in Objects : t \in ToSet(waiters[o])) =>
              (timer'[t] = "none" <=> timer[t] = "none")
    PROVE  UNCHANGED Monitor!monitor
    BY DEF Monitor!monitor, EntryCounts, BlockedThreads, WaitSets, TimedThreads

\* monitorenter is Enter of the contract, whether it locks, locks again or blocks.
LEMMA EnterMaps ==
    ASSUME SchedulerInv, NEW o \in Objects, MonitorEnter(o)
    PROVE  Monitor!Enter(current, o)
    <1>1. /\ CanExecute /\ life[current] = "alive"
          /\ UNCHANGED <<waiters, pending_exception, EndedThreads>>
          /\ locks' = [locks EXCEPT ![current] = Append(@, o)]
        BY DEF MonitorEnter, signals, EndedThreads
    <1>2. /\ current \in Threads /\ wait_obj[current] = NoObject
          /\ \A u \in Objects : current \notin ToSet(waiters[u])
        BY <1>1, CurrentExecutes DEF SchedulerInv
    <1>3. locks \in [Threads -> Seq(Objects)] /\ entry \in [Objects -> Seq(Threads)]
        BY DEF SchedulerInv, TypeOK
    <1>4. EntryCounts' = [EntryCounts EXCEPT ![current][o] = @ + 1]
        <2>1. \A u \in Objects : Occurrences(u, Append(locks[current], o)) =
                 IF u = o THEN Occurrences(u, locks[current]) + 1 ELSE Occurrences(u, locks[current])
            BY <1>2, <1>3, OccurrencesAppended
        <2>. QED BY <1>1, <1>2, <1>3, <2>1 DEF EntryCounts
    <1>5. UNCHANGED <<WaitSets, TimedThreads, pending_exception, EndedThreads>>
        <2>1. \A t \in Threads \ {current} : timer'[t] = timer[t]
            BY DEF MonitorEnter, LockObject, LockAgain, BlockOnObject, SchedulerInv, TypeOK
        <2>. QED BY <1>1, <1>2, <2>1 DEF WaitSets, TimedThreads
    <1>6. Monitor!Free(current)
        BY <1>1, <1>2, FreeThread
    <1>7. CASE LockObject(o) \/ LockAgain(o)
        <2>1. /\ owner[o] \in {NoThread, current}
              /\ owner' = [owner EXCEPT ![o] = current]
              /\ entry' = entry
            BY <1>7, MonitorTypes DEF LockObject, LockAgain
        <2>2. UNCHANGED BlockedThreads
            BY <2>1 DEF BlockedThreads
        <2>. QED BY <1>4, <1>5, <1>6, <2>1, <2>2 DEF Monitor!Enter
    <1>8. CASE BlockOnObject(o)
        <2>1. /\ owner[o] \notin {NoThread, current} /\ owner' = owner
              /\ entry' = [entry EXCEPT ![o] = Append(@, current)]
            BY <1>8, ConstantsAssumption DEF BlockOnObject
        <2>2. ToSet(Append(entry[o], current)) = ToSet(entry[o]) \cup {current}
            BY <1>2, <1>3, AppendMember
        <2>3. BlockedThreads' = [BlockedThreads EXCEPT ![o] = @ \cup {current}]
            BY <1>3, <2>1, <2>2 DEF BlockedThreads
        <2>. QED BY <1>4, <1>5, <1>6, <2>1, <2>3 DEF Monitor!Enter
    <1>. QED BY <1>7, <1>8 DEF MonitorEnter

\* signal_waiters is Release of the contract: the lock gets free or goes to one of the blocked.
LEMMA ReleaseMaps ==
    ASSUME SchedulerInv, NEW o \in Objects,
           owner' = [owner EXCEPT ![o] = Heir(o)],
           entry' = [entry EXCEPT ![o] = LaterWaiters(o)]
    PROVE  Monitor!Release(o)
    <1>1. entry \in [Objects -> Seq(Threads)]
        BY DEF SchedulerInv, TypeOK
    <1>2. CASE entry[o] = <<>>
        <2>1. Heir(o) = NoThread /\ LaterWaiters(o) = <<>>
            BY <1>2 DEF Heir, LaterWaiters, First
        <2>2. entry' = entry
            BY <1>1, <1>2, <2>1
        <2>3. BlockedThreads[o] = {} /\ UNCHANGED BlockedThreads
            BY <1>2, <2>2, EmptyList DEF BlockedThreads
        <2>. QED BY <2>1, <2>3 DEF Monitor!Release
    <1>3. CASE entry[o] # <<>>
        <2>1. Heir(o) = Head(entry[o]) /\ LaterWaiters(o) = Tail(entry[o])
            BY <1>3 DEF Heir, LaterWaiters, First
        <2>2. /\ ToSet(entry[o]) = ToSet(Tail(entry[o])) \cup {Heir(o)}
              /\ Heir(o) \notin ToSet(Tail(entry[o]))
            BY <1>1, <1>3, <2>1, HeadMember DEF SchedulerInv, ListsInv, NoDuplicates
        <2>3. Heir(o) \in BlockedThreads[o]
            BY <2>2 DEF BlockedThreads
        <2>4. BlockedThreads' = [BlockedThreads EXCEPT ![o] = @ \ {Heir(o)}]
            BY <1>1, <2>1, <2>2 DEF BlockedThreads
        <2>. QED BY <2>3, <2>4 DEF Monitor!Release
    <1>. QED BY <1>2, <1>3

\* monitorexit is Exit of the contract; the lock is released with the last entry.
LEMMA ExitMaps ==
    ASSUME SchedulerInv, OnlyLiveThreadsAct, MonitorExit
    PROVE  \E o \in Objects : Monitor!Exit(current, o)
    <1>. DEFINE o == Last(locks[current])
    <1>1. /\ CanExecute /\ UNCHANGED <<waiters, timer, pending_exception, EndedThreads>>
          /\ locks[current] # <<>> /\ locks' = [locks EXCEPT ![current] = Front(@)]
          /\ UnlockAgain(o) \/ UnlockObject(o)
        BY DEF MonitorExit, signals, EndedThreads
    <1>2. /\ current \in Threads /\ wait_obj[current] = NoObject
          /\ \A u \in ToSet(locks[current]) : owner[u] = current
        BY <1>1, CurrentExecutes DEF SchedulerInv
    <1>alive. life[current] = "alive"
        BY <1>1, <1>2 DEF OnlyLiveThreadsAct
    <1>3. locks \in [Threads -> Seq(Objects)] /\ locks[current] \in Seq(Objects)
        BY <1>2 DEF SchedulerInv, TypeOK
    <1>4. /\ o \in Objects /\ o \in ToSet(locks[current])
          /\ Front(locks[current]) \in Seq(Objects)
        BY <1>1, <1>3, LastMember
    <1>5. \A u \in Objects : Occurrences(u, locks[current]) =
             IF u = o THEN Occurrences(u, Front(locks[current])) + 1
                      ELSE Occurrences(u, Front(locks[current]))
        BY <1>1, <1>3, OccurrencesPopped
    <1>6. \A u \in Objects : /\ Occurrences(u, Front(locks[current])) \in Nat
                             /\ Occurrences(u, Front(locks[current])) > 0
                                   <=> u \in ToSet(Front(locks[current]))
        BY <1>4, OccurrencesType
    <1>. HIDE DEF o
    <1>7. EntryCounts' = [EntryCounts EXCEPT ![current][o] = @ - 1]
        <2>1. \A u \in Objects : Occurrences(u, Front(locks[current])) =
                 IF u = o THEN Occurrences(u, locks[current]) - 1 ELSE Occurrences(u, locks[current])
            BY <1>5, <1>6
        <2>. QED BY <1>1, <1>2, <1>3, <1>4, <2>1 DEF EntryCounts
    <1>8. EntryCounts[current][o] > 0 /\ (EntryCounts[current][o] = 1 <=> ~ IsRecursive(o))
        BY <1>2, <1>4, <1>5, <1>6 DEF EntryCounts, IsRecursive
    <1>9. UNCHANGED <<WaitSets, TimedThreads, pending_exception, EndedThreads>>
        BY <1>1 DEF WaitSets, TimedThreads
    <1>10. Monitor!Free(current) /\ owner[o] = current
        BY <1>2, <1>4, <1>alive, FreeThread
    <1>11. CASE UnlockAgain(o)
        <2>1. IsRecursive(o) /\ UNCHANGED <<owner, BlockedThreads>>
            BY <1>11 DEF UnlockAgain, BlockedThreads
        <2>. QED BY <1>4, <1>7, <1>8, <1>9, <1>10, <2>1 DEF Monitor!Exit
    <1>12. CASE UnlockObject(o)
        <2>1. ~ IsRecursive(o) /\ Monitor!Release(o)
            BY <1>4, <1>12, ReleaseMaps DEF UnlockObject
        <2>. QED BY <1>4, <1>7, <1>8, <1>9, <1>10, <2>1 DEF Monitor!Exit
    <1>. QED BY <1>1, <1>11, <1>12

\* Object.wait releases the lock and joins the wait set, for a time or not (Scheduler::wait).
LEMMA WaitMaps ==
    ASSUME SchedulerInv, CanExecute, life[current] = "alive", life' = life,
           NEW o \in Objects, NEW timeout \in {"none", "armed"},
           owner[o] = current, ReleaseAndWait(o, timeout)
    PROVE  Monitor!Wait(current, o)
    <1>1. /\ current \in Threads /\ wait_obj[current] = NoObject
          /\ \A u \in Objects : current \notin ToSet(waiters[u])
        BY CurrentExecutes DEF SchedulerInv
    <1>2. waiters \in [Objects -> Seq(Threads)] /\ timer \in [Threads -> TimerValues]
        BY DEF SchedulerInv, TypeOK
    <1>3. /\ UNCHANGED <<locks, pending_exception>>
          /\ waiters' = [waiters EXCEPT ![o] = Append(@, current)]
          /\ timer' = [timer EXCEPT ![current] = timeout]
        BY DEF ReleaseAndWait, signals
    <1>4. ToSet(Append(waiters[o], current)) = ToSet(waiters[o]) \cup {current}
        BY <1>1, <1>2, AppendMember
    <1>5. WaitSets' = [WaitSets EXCEPT ![o] = @ \cup {current}]
        BY <1>2, <1>3, <1>4 DEF WaitSets
    <1>6. TimedThreads' \in {TimedThreads, TimedThreads \cup {current}}
        <2>1. \A u \in Objects : \A t \in Threads :
                 t \in ToSet(waiters'[u]) <=> t \in ToSet(waiters[u]) \/ (u = o /\ t = current)
            BY <1>2, <1>3, <1>4
        <2>2. \A t \in Threads : timer'[t] = IF t = current THEN timeout ELSE timer[t]
            BY <1>2, <1>3
        <2>3. TimedThreads' = IF timeout = "none" THEN TimedThreads ELSE TimedThreads \cup {current}
            BY <1>1, <2>1, <2>2 DEF TimedThreads
        <2>. QED BY <2>3
    <1>7. Monitor!Free(current)
        BY <1>1, FreeThread
    <1>8. Monitor!Release(o)
        BY ReleaseMaps DEF ReleaseAndWait
    <1>9. UNCHANGED <<EntryCounts, EndedThreads>>
        BY <1>3 DEF EntryCounts, EndedThreads
    <1>. QED BY <1>3, <1>5, <1>6, <1>7, <1>8, <1>9 DEF Monitor!Wait

\* Scheduler::notify makes waiters of an object that is locked block on its lock.
LEMMA NotifyMaps ==
    ASSUME SchedulerInv, NEW o \in Objects, owner[o] # NoThread, waiters[o] # <<>>,
           NEW ws, ws = waiters[o] \/ ws = <<Head(waiters[o])>>, Wake(o, ws)
    PROVE  ToSet(ws) \subseteq WaitSets[o] /\ Monitor!Wake(ToSet(ws), o)
    <1>1. /\ waiters \in [Objects -> Seq(Threads)] /\ entry \in [Objects -> Seq(Threads)]
          /\ IsInjective(waiters[o]) /\ current \in Threads
        BY DEF SchedulerInv, TypeOK, ListsInv, NoDuplicates
    <1>. DEFINE rest == SubSeq(waiters[o], Len(ws) + 1, Len(waiters[o]))
    <1>2. /\ ws \in Seq(Threads) /\ rest \in Seq(Threads)
          /\ \A t : t \in ToSet(ws) => t \in ToSet(waiters[o])
          /\ \A t : t \in ToSet(rest) <=> t \in ToSet(waiters[o]) /\ t \notin ToSet(ws)
        BY <1>1, WokenPrefix
    <1>3. ToSet(ws) # {}
        BY <1>1, <1>2, NoMembers, OneMember
    <1>4. waiters' = [waiters EXCEPT ![o] = rest] /\ UNCHANGED <<owner, locks>>
        BY DEF Wake
    <1>. HIDE DEF rest
    <1>5. WaitSets' = [WaitSets EXCEPT ![o] = @ \ ToSet(ws)]
        BY <1>1, <1>2, <1>4 DEF WaitSets
    <1>6. BlockedThreads' = [BlockedThreads EXCEPT ![o] = @ \cup ToSet(ws)]
        <2>1. ToSet(entry[o] \o ws) = ToSet(entry[o]) \cup ToSet(ws)
            BY <1>1, <1>2, SplicedMembers
        <2>2. entry' = [entry EXCEPT ![o] = @ \o ws]
            BY DEF Wake
        <2>. QED BY <1>1, <2>1, <2>2 DEF BlockedThreads
    <1>7. TimedThreads' = TimedThreads \ ToSet(ws)
        <2>1. \A t \in Threads : timer'[t] = IF t \in ToSet(ws) THEN "none" ELSE timer[t]
            BY DEF Wake
        <2>2. \A u \in Objects : \A t \in Threads :
                 t \in ToSet(waiters'[u]) <=> t \in ToSet(waiters[u]) /\ ~ (u = o /\ t \in ToSet(ws))
            BY <1>1, <1>2, <1>4
        <2>. QED BY <2>1, <2>2 DEF TimedThreads
    <1>8. owner[o] # NoThread /\ UNCHANGED EntryCounts
        BY <1>1, <1>4, ConstantsAssumption DEF EntryCounts
    <1>9. ToSet(ws) \subseteq WaitSets[o]
        BY <1>2 DEF WaitSets
    <1>. QED BY <1>3, <1>4, <1>5, <1>6, <1>7, <1>8, <1>9 DEF Monitor!Wake

\* Time-out and interrupt: a waiting thread gets the lock when it is free and blocks when not.
LEMMA WakeUpMaps ==
    ASSUME SchedulerInv, NEW t \in Threads, Removable(t), RemoveAndWakeUp(t)
    PROVE  \/ /\ wait_obj[t] = NoObject
              /\ UNCHANGED <<owner, EntryCounts, BlockedThreads, WaitSets, TimedThreads>>
           \/ \E o \in Objects : Monitor!Wake({t}, o) /\ t \in WaitSets[o]
    <1>1. CASE wait_obj[t] = NoObject
        BY <1>1, ConstantsAssumption
        DEF RemoveAndWakeUp, monitors, EntryCounts, BlockedThreads, WaitSets, TimedThreads
    <1>2. CASE wait_obj[t] # NoObject
        <2>. DEFINE o == wait_obj[t]
        <2>1. /\ o \in Objects /\ t \in ToSet(waiters[o])
              /\ waiters' = [waiters EXCEPT ![o] = Unlink(@, t)]
              /\ UNCHANGED locks
              /\ \/ /\ owner[o] = NoThread
                    /\ owner' = [owner EXCEPT ![o] = t]
                    /\ UNCHANGED <<entry, timer>>
                 \/ /\ owner[o] # NoThread
                    /\ entry' = [entry EXCEPT ![o] = Append(@, t)]
                    /\ timer' = [timer EXCEPT ![t] = "none"]
                    /\ UNCHANGED owner
            BY <1>2 DEF RemoveAndWakeUp, Removable, SchedulerInv, TypeOK
        <2>. HIDE DEF o
        <2>2. /\ waiters \in [Objects -> Seq(Threads)] /\ entry \in [Objects -> Seq(Threads)]
              /\ timer \in [Threads -> TimerValues]
              /\ IsInjective(waiters[o])
              /\ \A u \in Objects : t \in ToSet(waiters[u]) => u = o
            BY <2>1 DEF o, SchedulerInv, TypeOK, ListsInv, NoDuplicates, QueueTellsWaitObj
        <2>3. ToSet(Unlink(waiters[o], t)) = ToSet(waiters[o]) \ {t}
            BY <2>1, <2>2, UnlinkOne
        <2>4. t \in WaitSets[o] /\ WaitSets' = [WaitSets EXCEPT ![o] = @ \ {t}]
            BY <2>1, <2>2, <2>3 DEF WaitSets
        <2>5. UNCHANGED EntryCounts
            BY <2>1 DEF EntryCounts
        <2>6. TimedThreads' = TimedThreads \ {t}
            <3>1. \A u \in Objects : \A v \in Threads :
                     v \in ToSet(waiters'[u]) <=> v \in ToSet(waiters[u]) /\ v # t
                BY <2>1, <2>2, <2>3
            <3>2. \A v \in Threads \ {t} : timer'[v] = timer[v]
                BY <2>1, <2>2
            <3>. QED BY <3>1, <3>2 DEF TimedThreads
        <2>7. CASE owner[o] = NoThread
            <3>1. BlockedThreads' = BlockedThreads
                BY <2>1, <2>7 DEF BlockedThreads
            <3>2. BlockedThreads = [BlockedThreads EXCEPT ![o] = @ \cup ({t} \ {t})]
                BY DEF BlockedThreads
            <3>. QED BY <2>1, <2>4, <2>5, <2>6, <2>7, <3>1, <3>2 DEF Monitor!Wake
        <2>8. CASE owner[o] # NoThread
            <3>1. ToSet(Append(entry[o], t)) = ToSet(entry[o]) \cup {t}
                BY <2>1, <2>2, AppendMember
            <3>2. BlockedThreads' = [BlockedThreads EXCEPT ![o] = @ \cup {t}]
                BY <2>1, <2>2, <2>8, <3>1 DEF BlockedThreads
            <3>. QED BY <2>1, <2>4, <2>5, <2>6, <2>8, <3>2 DEF Monitor!Wake
        <2>. QED BY <2>1, <2>4, <2>7, <2>8
    <1>. QED BY <1>1, <1>2

\* What every step of the scheduler is for the Java program: a step of the contract, or none.
MonitorStep == Monitor!Next \/ UNCHANGED Monitor!monitor

\* Scheduler::notify of an object nobody has locked: one of the threads woken has it, the others
\* block.
LEMMA FreeLockMaps ==
    ASSUME SchedulerInv, NEW o \in Objects, WakeOnFreeLock(o)
    PROVE  Monitor!Wake(WaitSets[o], o)
    <1>. DEFINE first == Head(waiters[o])
    <1>. DEFINE others == Tail(waiters[o])
    <1>1. /\ ToSet(waiters[o]) = ToSet(others) \cup {first} /\ first \notin ToSet(others)
          /\ first \in Threads /\ wait_obj[first] = o /\ entry[o] = <<>>
          /\ \A u \in Objects : waiters'[u] = IF u = o THEN <<>> ELSE waiters[u]
          /\ \A u \in Objects : entry'[u] = IF u = o THEN others ELSE entry[u]
        BY FreeLockTaken DEF SchedulerInv
    <1>2. /\ owner[o] = NoThread /\ owner' = [owner EXCEPT ![o] = first]
          /\ timer' = [t \in Threads |-> IF t \in ToSet(others) THEN "none" ELSE timer[t]]
          /\ UNCHANGED locks
        BY DEF WakeOnFreeLock
    <1>. HIDE DEF first, others
    <1>3. WaitSets[o] = ToSet(others) \cup {first}
        BY <1>1 DEF WaitSets
    <1>4. WaitSets' = [WaitSets EXCEPT ![o] = @ \ WaitSets[o]]
        BY <1>1, EmptyList DEF WaitSets
    <1>5. BlockedThreads' = [BlockedThreads EXCEPT ![o] = @ \cup (WaitSets[o] \ {first})]
        BY <1>1, <1>3, EmptyList DEF BlockedThreads
    <1>6. TimedThreads' = TimedThreads \ WaitSets[o]
        <2>1. \A u \in Objects : \A t : t \in ToSet(waiters'[u]) <=> t \in ToSet(waiters[u]) /\ u # o
            BY <1>1, EmptyList
        <2>2. \A u \in Objects : \A t \in Threads :
                 t \in ToSet(waiters[u]) /\ t \in ToSet(waiters[o]) => u = o
            BY DEF SchedulerInv, ListsInv, QueueTellsWaitObj
        <2>3. \A t \in Threads : t \notin ToSet(waiters[o]) => timer'[t] = timer[t]
            BY <1>1, <1>2
        <2>. QED BY <1>1, <1>3, <2>1, <2>2, <2>3 DEF TimedThreads
    <1>7. UNCHANGED EntryCounts
        BY <1>2 DEF EntryCounts
    <1>. QED BY <1>2, <1>3, <1>4, <1>5, <1>6, <1>7 DEF Monitor!Wake

\* Thread::finish is Finish of the contract: the joiners return, whoever has locked the object.
LEMMA FinishMaps ==
    ASSUME SchedulerInv, OwnersHaveLocked, FinishThread
    PROVE  Monitor!Finish(current)
    <1>. DEFINE o == ThreadObj[current]
    <1>1. /\ CanExecute /\ current \in Threads /\ life[current] = "alive"
          /\ UNCHANGED pending_exception /\ locks[current] = <<>>
          /\ life' = [life EXCEPT ![current] = "terminated"]
          /\ IF o = NoObject THEN UNCHANGED <<lists, monitors, timer>> ELSE WakeJoining(o)
        BY DEF FinishThread, signals, SchedulerInv, TypeOK
    <1>2. o \in Objects \cup {NoObject}
        BY <1>1, ConstantsAssumption
    <1>3. Monitor!Free(current)
        BY <1>1, CurrentExecutes, FreeThread DEF SchedulerInv
    <1>4. \A u \in Objects : owner[u] # current
        BY <1>1, EmptyList, ConstantsAssumption DEF OwnersHaveLocked
    <1>5. EndedThreads' = EndedThreads \cup {current}
        BY <1>1 DEF EndedThreads, SchedulerInv, TypeOK
    <1>. HIDE DEF o
    <1>6. CASE o = NoObject
        <2>1. UNCHANGED <<owner, EntryCounts, BlockedThreads, WaitSets, TimedThreads>>
            BY <1>1, <1>6
            DEF lists, monitors, EntryCounts, BlockedThreads, WaitSets, TimedThreads
        <2>2. \A u \in Objects : u = ThreadObj[current] => WaitSets[u] = {}
            BY <1>6, ConstantsAssumption DEF o
        <2>. QED BY <1>1, <1>3, <1>4, <1>5, <2>1, <2>2 DEF Monitor!Finish
    <1>7. CASE o \in Objects /\ waiters[o] = <<>>
        <2>1. Wake(o, waiters[o])
            BY <1>1, <1>7, ConstantsAssumption DEF WakeJoining, WakeOnFreeLock
        <2>2. waiters \in [Objects -> Seq(Threads)] /\ entry \in [Objects -> Seq(Threads)]
            BY DEF SchedulerInv, TypeOK
        <2>3. waiters' = waiters /\ entry' = entry
            <3>1. /\ waiters' = [waiters EXCEPT ![o] = SubSeq(waiters[o], Len(waiters[o]) + 1, Len(waiters[o]))]
                  /\ entry' = [entry EXCEPT ![o] = entry[o] \o <<>>]
                BY <1>7, <2>1, <2>2 DEF Wake
            <3>2. /\ SubSeq(waiters[o], Len(waiters[o]) + 1, Len(waiters[o])) = <<>>
                  /\ entry[o] \o <<>> = entry[o]
                BY <1>7, <2>2
            <3>. QED BY <1>7, <2>2, <3>1, <3>2
        <2>4. timer' = timer /\ UNCHANGED <<owner, locks>>
            BY <1>7, <2>1, EmptyList DEF Wake, SchedulerInv, TypeOK
        <2>5. UNCHANGED <<owner, EntryCounts, BlockedThreads, WaitSets, TimedThreads>>
            BY <2>3, <2>4 DEF EntryCounts, BlockedThreads, WaitSets, TimedThreads
        <2>6. \A u \in Objects : u = ThreadObj[current] => WaitSets[u] = {}
            BY <1>7, EmptyList DEF o, WaitSets
        <2>. QED BY <1>1, <1>3, <1>4, <1>5, <2>5, <2>6 DEF Monitor!Finish
    <1>8. CASE o \in Objects /\ waiters[o] # <<>>
        <2>1. Monitor!Wake(WaitSets[o], o)
            <3>1. CASE WakeOnFreeLock(o)
                BY <1>8, <3>1, FreeLockMaps
            <3>2. CASE owner[o] # NoThread /\ Wake(o, waiters[o])
                <4>1. WaitSets[o] = ToSet(waiters[o])
                    BY <1>8 DEF WaitSets
                <4>. QED BY <1>8, <3>2, <4>1, NotifyMaps
            <3>. QED BY <1>1, <1>8, <3>1, <3>2, ConstantsAssumption DEF WakeJoining
        <2>. QED BY <1>1, <1>3, <1>4, <1>5, <1>8, <2>1 DEF o, Monitor!Finish
    <1>. QED BY <1>2, <1>6, <1>7, <1>8

\* The steps of the program the VM executes.
LEMMA ProgramMaps ==
    ASSUME SchedulerInv, StoppingInv, ProgramStep
    PROVE  MonitorStep
    <1>1. current \in Threads
        BY DEF SchedulerInv, TypeOK
    <1>2. CASE \E o \in Objects : MonitorEnter(o)
        BY <1>1, <1>2, EnterMaps DEF MonitorStep, Monitor!Next
    <1>3. CASE MonitorExit
        BY <1>1, <1>3, ExitMaps DEF MonitorStep, Monitor!Next, StoppingInv
    <1>4. ASSUME CanExecute, life[current] = "alive", life' = life, HandlePendingInterrupt
          PROVE  Monitor!InterruptFree(current)
        <2>1. Monitor!Free(current)
            BY <1>1, <1>4, CurrentExecutes, FreeThread DEF SchedulerInv
        <2>. QED BY <1>4, <2>1
                 DEF HandlePendingInterrupt, lists, monitors, Monitor!InterruptFree, EntryCounts,
                     BlockedThreads, WaitSets, TimedThreads, EndedThreads
    <1>5. CASE \E o \in Objects, timeout \in {"none", "armed"} : ObjectWait(o, timeout)
        <2>1. PICK o \in Objects, timeout \in {"none", "armed"} : ObjectWait(o, timeout)
            BY <1>5
        <2>2. CASE HandlePendingInterrupt
            BY <1>1, <1>4, <2>1, <2>2 DEF ObjectWait, MonitorStep, Monitor!Next
        <2>3. CASE ReleaseAndWait(o, timeout)
            BY <1>1, <2>1, <2>3, WaitMaps DEF ObjectWait, MonitorStep, Monitor!Next
        <2>. QED BY <2>1, <2>2, <2>3 DEF ObjectWait
    <1>6. ASSUME CanExecute, life[current] = "alive" PROVE Monitor!Free(current)
        BY <1>1, <1>6, CurrentExecutes, FreeThread DEF SchedulerInv
    <1>held. current # NoThread
        BY <1>1, ConstantsAssumption
    <1>7. CASE \E o \in Objects : Notify(o)
        <2>1. PICK o \in Objects : Notify(o)
            BY <1>7
        <2>. DEFINE t == Head(waiters[o])
        <2>2. /\ CanExecute /\ life[current] = "alive" /\ owner[o] = current /\ waiters[o] # <<>>
              /\ Wake(o, <<t>>) /\ UNCHANGED <<pending_exception, EndedThreads>>
            BY <2>1 DEF Notify, signals, EndedThreads
        <2>3. t \in Threads
            <3>1. waiters[o] \in Seq(Threads)
                BY DEF SchedulerInv, TypeOK
            <3>. QED BY <2>2, <3>1
        <2>4. ToSet(<<t>>) = {t}
            BY <2>3, OneMember
        <2>5. t \in WaitSets[o] /\ Monitor!Wake({t}, o)
            BY <1>held, <2>2, <2>4, NotifyMaps
        <2>6. Monitor!NotifyOne(current, o)
            BY <1>6, <2>2, <2>5 DEF Monitor!NotifyOne
        <2>. QED BY <1>1, <2>6 DEF MonitorStep, Monitor!Next
    <1>8. ASSUME NEW o \in Objects, CanExecute, life[current] = "alive", owner[o] = current,
                 waiters[o] # <<>>, Wake(o, waiters[o]),
                 UNCHANGED <<pending_exception, EndedThreads>>
          PROVE  Monitor!NotifyAll(current, o)
        <2>1. Monitor!Wake(ToSet(waiters[o]), o)
            BY <1>held, <1>8, NotifyMaps
        <2>2. WaitSets[o] = ToSet(waiters[o])
            BY DEF WaitSets
        <2>. QED BY <1>6, <1>8, <2>1, <2>2 DEF Monitor!NotifyAll
    <1>9. CASE \E o \in Objects : NotifyAll(o)
        BY <1>1, <1>8, <1>9 DEF NotifyAll, signals, EndedThreads, MonitorStep, Monitor!Next
    <1>10. CASE FinishThread
        BY <1>1, <1>10, FinishMaps DEF MonitorStep, Monitor!Next, StoppingInv
    <1>11. CASE \E t \in Threads : Interrupt(t)
        <2>1. PICK t \in Threads : Interrupt(t)
            BY <1>11
        <2>2. CASE InterruptLater(t)
            BY <2>1, <2>2, UnseenStep
            DEF Interrupt, InterruptLater, lists, monitors, MonitorStep, EndedThreads
        <2>3. CASE InterruptWaiting(t)
            <3>1. /\ Removable(t) /\ RemoveAndWakeUp(t)
                  /\ pending_exception' = pending_exception \cup {t}
                  /\ life[t] = "alive" /\ UNCHANGED EndedThreads
                BY <2>1, <2>3, WaitingIsRemovable
                DEF Interrupt, InterruptWaiting, SchedulerInv, EndedThreads
            <3>2. CASE /\ wait_obj[t] = NoObject
                       /\ UNCHANGED <<owner, EntryCounts, BlockedThreads, WaitSets, TimedThreads>>
                <4>1. Monitor!InterruptFree(t)
                    BY <3>1, <3>2, FreeThread DEF Monitor!InterruptFree
                <4>. QED BY <4>1 DEF MonitorStep, Monitor!Next
            <3>3. CASE \E o \in Objects : Monitor!Wake({t}, o) /\ t \in WaitSets[o]
                BY <3>1, <3>3 DEF MonitorStep, Monitor!Next, Monitor!InterruptWaiter
            <3>. QED BY <3>1, <3>2, <3>3, WakeUpMaps
        <2>. QED BY <2>1, <2>2, <2>3 DEF Interrupt
    <1>12. CASE ThrowPendingException
        <2>1. /\ current \in pending_exception
              /\ pending_exception' = pending_exception \ {current}
              /\ UNCHANGED <<owner, locks, entry, waiters, timer, life>>
            BY <1>12 DEF ThrowPendingException, lists, monitors
        <2>2. wait_obj[current] = NoObject /\ life[current] = "alive"
            BY <1>1, <1>12
            DEF ThrowPendingException, StoppingInv, RunningThreadIsActive, OnlyLiveThreadsAct,
                SchedulerInv, ListsInv, OnePlace
        <2>3. Monitor!Free(current)
            BY <1>1, <2>2, FreeThread
        <2>4. Monitor!Throw(current)
            BY <2>1, <2>3
            DEF Monitor!Throw, EntryCounts, BlockedThreads, WaitSets, TimedThreads, EndedThreads
        <2>. QED BY <1>1, <2>4 DEF MonitorStep, Monitor!Next
    <1>13. CASE Sleep
        <2>1. CASE HandlePendingInterrupt
            BY <1>1, <1>4, <1>13, <2>1 DEF Sleep, MonitorStep, Monitor!Next
        <2>2. CASE FallAsleep
            <3>1. \A u \in Objects : current \notin ToSet(waiters[u])
                BY <1>13, CurrentExecutes DEF Sleep, SchedulerInv
            <3>2. \A t \in Threads \ {current} : timer'[t] = timer[t]
                BY <2>2 DEF FallAsleep, SchedulerInv, TypeOK
            <3>3. UNCHANGED EndedThreads
                BY <1>13 DEF Sleep, EndedThreads
            <3>. QED BY <2>2, <3>1, <3>2, <3>3, UnseenStep DEF FallAsleep, signals, MonitorStep
        <2>. QED BY <1>13, <2>1, <2>2 DEF Sleep
    <1>14. CASE \/ \E t \in Threads : StartThread(t)
                \/ BlockCurrentThread \/ RedoNativeMethod \/ TerminateThread
        <2>1. UNCHANGED EndedThreads
            BY <1>1, <1>14 DEF StartThread, BlockCurrentThread, RedoNativeMethod, TerminateThread,
                               EndedThreads, SchedulerInv, TypeOK
        <2>. QED BY <1>14, <2>1, UnseenStep
                 DEF StartThread, BlockCurrentThread, RedoNativeMethod, TerminateThread, lists,
                     monitors, signals, MonitorStep
    <1>. QED BY <1>2, <1>3, <1>5, <1>7, <1>9, <1>10, <1>11, <1>12, <1>13, <1>14 DEF ProgramStep

\* The steps inside yield, of the clock and of native events: a time-out, or none.
LEMMA YieldMaps ==
    ASSUME SchedulerInv,
           \/ Yield \/ YieldStep \/ Stopped \/ UNCHANGED vars
           \/ \E t \in Threads : UnblockThread(t) \/ Expire(t)
    PROVE  MonitorStep
    <1>1. CASE WakeThread
        <2>. DEFINE t == top.this
        <2>1. t \in Threads
            BY <1>1, ThisIsThread
        <2>2. /\ Removable(t) /\ RemoveAndWakeUp(t) /\ timer[t] # "none"
              /\ UNCHANGED <<pending_exception, EndedThreads>>
            BY <1>1 DEF WakeThread, Due, signals, EndedThreads
        <2>. HIDE DEF t
        <2>3. CASE UNCHANGED <<owner, EntryCounts, BlockedThreads, WaitSets, TimedThreads>>
            BY <2>2, <2>3 DEF MonitorStep, Monitor!monitor
        <2>4. CASE \E o \in Objects : Monitor!Wake({t}, o) /\ t \in WaitSets[o]
            <3>1. PICK o \in Objects : Monitor!Wake({t}, o) /\ t \in WaitSets[o]
                BY <2>4
            <3>2. t \in TimedThreads
                BY <2>1, <2>2, <3>1 DEF TimedThreads, WaitSets
            <3>3. Monitor!TimeOut(t, o)
                BY <2>2, <3>1, <3>2 DEF Monitor!TimeOut
            <3>. QED BY <2>1, <3>3 DEF MonitorStep, Monitor!Next
        <2>. QED BY <2>1, <2>2, <2>3, <2>4, WakeUpMaps
    <1>2. CASE \E t \in Threads : Expire(t)
        BY <1>2, UnseenStep
        DEF Expire, lists, monitors, signals, MonitorStep, SchedulerInv, TypeOK, EndedThreads
    <1>3. CASE \/ Yield \/ StartWakeUps \/ NextList \/ SkipThread \/ GuaranteeFails \/ GoIdle
               \/ WakeFromIdle \/ ReturnToLoop \/ SwitchThread \/ StopForEver
               \/ Stopped \/ UNCHANGED vars \/ \E t \in Threads : UnblockThread(t)
        BY <1>3, UnseenStep
        DEF Yield, StartWakeUps, NextList, SkipThread, GuaranteeFails, GoIdle, WakeFromIdle,
            ReturnToLoop, SwitchThread, StopForEver, Stopped, UnblockThread, vars, lists, monitors,
            signals, MonitorStep, EndedThreads
    <1>. QED BY <1>1, <1>2, <1>3 DEF YieldStep

\* At the start no monitor is entered, nobody waits and no exception is pending.
LEMMA InitMaps == Init => Monitor!Init
    <1>. SUFFICES ASSUME Init PROVE Monitor!Init
        OBVIOUS
    <1>1. \A o \in Objects : ToSet(waiters[o]) = {} /\ ToSet(entry[o]) = {}
        BY EmptyList DEF Init
    <1>2. \A t \in Threads, o \in Objects : Occurrences(o, locks[t]) = 0
        <2>1. \A o \in Objects : Occurrences(o, <<>>) = 0
            BY FS_EmptySet DEF Occurrences
        <2>. QED BY <2>1 DEF Init
    <1>. QED BY <1>1, <1>2
             DEF Init, Monitor!Init, EntryCounts, BlockedThreads, WaitSets, TimedThreads, EndedThreads

\* The scheduler implements the contract of Java monitors: a lock passes only by release, a waiter
\* returns only by notify of the holder, time-out, interrupt or the end of the thread whose object it
\* waits for, and it has its entry count again (Synchronizer::enter, unlock_stack_lock,
\* signal_waiters, Scheduler::wait, notify, Thread::finish).
THEOREM MonitorsImplemented == Spec => ImplementsJavaMonitor
    <1>1. SchedulerInv /\ StoppingInv /\ [Next]_vars => [Monitor!Next]_(Monitor!monitor)
        BY ProgramMaps, YieldMaps DEF StoppingInv, MonitorStep, Next
    <1>. QED BY InitMaps, <1>1, StoppingInvariance, PTL
             DEF Spec, ImplementsJavaMonitor, Monitor!Spec

-----------------------------------------------------------------------------
(* The place of the wake-up loop. *)

\* The element after a member of a list without duplicates is another member, or there is none.
LEMMA SuccessorMember ==
    ASSUME NEW s \in Seq(Threads), IsInjective(s), NEW e \in ToSet(s)
    PROVE  Successor(s, e) = NoThread \/ Successor(s, e) \in ToSet(s) \ {e}
    <1>. DEFINE i == CHOOSE j \in DOMAIN s : s[j] = e
    <1>1. i \in DOMAIN s /\ s[i] = e
        BY DEF ToSet
    <1>. HIDE DEF i
    <1>2. i < Len(s) => i + 1 \in DOMAIN s /\ s[i + 1] # e
        BY <1>1 DEF IsInjective
    <1>3. i < Len(s) => s[i + 1] \in ToSet(s) \ {e}
        BY <1>2 DEF ToSet
    <1>. QED BY <1>3 DEF Successor, i

\* The chain leads to the first waiters of its objects.
LEMMA ChainHeadWaits ==
    ASSUME SchedulerInv, NEW i \in DOMAIN chain
    PROVE  /\ ChainHead(i) \in Threads /\ InWaitList(ChainHead(i))
           /\ wait_obj[ChainHead(i)] = chain[i]
    <1>1. chain[i] \in Objects /\ chain[i] \in ToSet(chain)
        BY MembersType DEF SchedulerInv, TypeOK, ToSet
    <1>2. waiters[chain[i]] \in Seq(Threads) /\ waiters[chain[i]] # <<>>
        BY <1>1 DEF SchedulerInv, TypeOK, ListsInv, ChainTellsWaiters
    <1>3. /\ Head(waiters[chain[i]]) \in Threads
          /\ Head(waiters[chain[i]]) \in ToSet(waiters[chain[i]])
        BY <1>2, HeadMember
    <1>4. wait_obj[Head(waiters[chain[i]])] = chain[i]
        BY <1>1, <1>3 DEF SchedulerInv, ListsInv, QueueTellsWaitObj
    <1>. QED BY <1>1, <1>3, <1>4, ConstantsAssumption DEF ChainHead, InWaitList

\* Thread::next_waiting of a waiter leads into the wait list of another object, or nowhere.
LEMMA NextWaitingList ==
    ASSUME SchedulerInv, NEW t \in Threads, InWaitList(t), NextWaiting(t) # NoThread
    PROVE  InWaitList(NextWaiting(t)) /\ wait_obj[NextWaiting(t)] # wait_obj[t]
    <1>1. wait_obj[t] \in Objects /\ t \notin ToSet(entry[wait_obj[t]])
        BY DEF InWaitList, SchedulerInv, TypeOK, ListsInv, NoDuplicates
    <1>2. \E i \in DOMAIN chain : ChainHead(i) = t
        BY <1>1 DEF NextWaiting
    <1>. DEFINE k == CHOOSE i \in DOMAIN chain : ChainHead(i) = t
    <1>3. k \in DOMAIN chain /\ ChainHead(k) = t
        BY <1>2
    <1>4. NextWaiting(t) = ChainHead(1 + k)
        BY <1>2 DEF NextWaiting
    <1>. HIDE DEF k
    <1>5. chain \in Seq(Objects) /\ IsInjective(chain)
        BY DEF SchedulerInv, TypeOK, ListsInv, ChainTellsWaiters
    <1>6. 1 + k \in DOMAIN chain
        BY <1>4 DEF ChainHead
    <1>7. chain[1 + k] # chain[k]
        BY <1>3, <1>5, <1>6 DEF IsInjective
    <1>. QED BY <1>3, <1>4, <1>6, <1>7, ChainHeadWaits

\* Where a thread the loop has come to may be.
LEMMA WhereWaiting ==
    ASSUME SchedulerInv, NEW t \in Threads
    PROVE  /\ t \in ToSet(sleeping) => wait_obj[t] = NoObject /\ t \notin active
           /\ InWaitList(t) => /\ wait_obj[t] \in Objects /\ ~ InLockQueue(t)
                               /\ t \notin ToSet(sleeping) /\ t \notin active
           /\ InLockQueue(t) => /\ wait_obj[t] \in Objects
                                /\ t \notin ToSet(sleeping) /\ t \notin active
    BY DEF SchedulerInv, TypeOK, ListsInv, OnePlace, NoDuplicates, InWaitList, InLockQueue

\* Thread::next of the thread the loop has come to leads on in the same list, or nowhere.
LEMMA NextLinksOn ==
    ASSUME SchedulerInv, NEW t \in Threads, NEW next \in NextLinks(t), next # NoThread,
           t \in ToSet(sleeping) \/ InWaitList(t) \/ InLockQueue(t)
    PROVE  /\ next \in Threads \ {t}
           /\ \/ t \in ToSet(sleeping) /\ next \in ToSet(sleeping)
              \/ InWaitList(t) /\ InWaitList(next) /\ wait_obj[next] = wait_obj[t]
    <1>1. /\ sleeping \in Seq(Threads) /\ waiters \in [Objects -> Seq(Threads)]
          /\ IsInjective(sleeping) /\ \A o \in Objects : IsInjective(waiters[o])
        BY DEF SchedulerInv, TypeOK, ListsInv, NoDuplicates
    <1>2. CASE t \in ToSet(sleeping)
        <2>1. next = Successor(sleeping, t)
            BY <1>2 DEF NextLinks
        <2>. QED BY <1>1, <1>2, <2>1, SuccessorMember, MembersType
    <1>3. CASE InWaitList(t)
        <2>. DEFINE o == wait_obj[t]
        <2>1. o \in Objects /\ t \in ToSet(waiters[o]) /\ t \notin ToSet(sleeping) /\ t \notin active
            BY <1>3, WhereWaiting DEF InWaitList
        <2>2. next = Successor(waiters[o], t)
            BY <2>1 DEF NextLinks
        <2>. HIDE DEF o
        <2>3. next \in ToSet(waiters[o]) \ {t} /\ next \in Threads
            BY <1>1, <2>1, <2>2, SuccessorMember, MembersType
        <2>4. wait_obj[next] = o
            BY <2>1, <2>3 DEF SchedulerInv, ListsInv, QueueTellsWaitObj
        <2>. QED BY <1>3, <2>1, <2>3, <2>4, ConstantsAssumption DEF InWaitList, o
    <1>4. CASE InLockQueue(t)
        <2>1. /\ wait_obj[t] \in Objects /\ t \notin ToSet(sleeping) /\ t \notin active
              /\ t \notin ToSet(waiters[wait_obj[t]])
            BY <1>4, WhereWaiting DEF InWaitList, InLockQueue
        <2>. QED BY <2>1 DEF NextLinks
    <1>. QED BY <1>2, <1>3, <1>4

\* What must be shown of the calls of yield after a step.
LEMMA CursorsNext ==
    ASSUME \A j \in DOMAIN frames' :
              \E f : /\ f = frames'[j]
                     /\ CursorOnList(f)'
                     /\ j < Len(frames') => Suspended(f)'
    PROVE  CursorsOnLists'
    <1>. SUFFICES ASSUME NEW j \in DOMAIN frames'
                  PROVE  CursorOnList(frames[j])' /\ (j < Len(frames') => Suspended(frames[j])')
        BY DEF CursorsOnLists
    <1>1. PICK f : /\ f = frames'[j]
                   /\ CursorOnList(f)'
                   /\ j < Len(frames') => Suspended(f)'
        OBVIOUS
    <1>. QED BY <1>1 DEF CursorOnList, Suspended, InWaitList, InLockQueue

\* A loop stays where it is when lists, locks and wake-up times stay.
LEMMA QuietCursor ==
    ASSUME NEW f, UNCHANGED <<sleeping, waiters, entry, wait_obj, timer, owner>>
    PROVE  /\ CursorOnList(f) => CursorOnList(f)'
           /\ Suspended(f) => Suspended(f)'
    BY DEF CursorOnList, Suspended, InWaitList, InLockQueue

\* A step that only changes the innermost call of yield, or ends it.
LEMMA QuietYieldCursors ==
    ASSUME SchedulerInv, CursorsOnLists, frames # <<>>,
           UNCHANGED <<sleeping, waiters, entry, wait_obj, timer, owner>>,
           \/ frames' \in {frames, <<>>, Front(frames)}
           \/ \E f : CursorOnList(f) /\ frames' = SetTop(f)
    PROVE  CursorsOnLists'
    <1>1. frames \in Seq(FrameType)
        BY DEF SchedulerInv, TypeOK
    <1>2. ASSUME NEW j \in DOMAIN frames'
          PROVE  \E f : /\ f = frames'[j]
                        /\ CursorOnList(f)
                        /\ j < Len(frames') => Suspended(f)
        <2>1. CASE frames' = frames \/ frames' = <<>>
            BY <1>2, <2>1 DEF CursorsOnLists
        <2>2. CASE frames' = Front(frames)
            BY <1>1, <1>2, <2>2 DEF CursorsOnLists, Front
        <2>3. CASE \E f : CursorOnList(f) /\ frames' = SetTop(f)
            <3>1. PICK f : CursorOnList(f) /\ frames' = SetTop(f)
                BY <2>3
            <3>2. /\ j \in DOMAIN frames /\ Len(frames') = Len(frames)
                  /\ frames'[j] = IF j = Len(frames) THEN f ELSE frames[j]
                BY <1>1, <1>2, <3>1 DEF SetTop
            <3>. QED BY <1>1, <3>1, <3>2 DEF CursorsOnLists
        <2>. QED BY <2>1, <2>2, <2>3
    <1>3. ASSUME NEW j \in DOMAIN frames'
          PROVE  \E f : /\ f = frames'[j]
                        /\ CursorOnList(f)'
                        /\ j < Len(frames') => Suspended(f)'
        BY <1>2, <1>3, QuietCursor
    <1>. QED BY <1>3, CursorsNext

\* Waking the thread the loop has come to leaves every other loop on its list; a suspended loop
\* that had come to the same thread finds it in the queue for the lock.
LEMMA WakeUpKeepsCursor ==
    ASSUME SchedulerInv, QueuedHaveNoTimes, NEW t \in Threads, RemoveAndWakeUp(t), Removable(t),
           NEW f \in FrameType, CursorOnList(f), f.next_waiting = NoThread, Suspended(f)
    PROVE  CursorOnList(f)' /\ Suspended(f)'
    <1>1. /\ f.this \in Threads \cup {NoThread}
          /\ wait_obj \in [Threads -> Objects \cup {NoObject}]
          /\ waiters \in [Objects -> Seq(Threads)] /\ entry \in [Objects -> Seq(Threads)]
          /\ timer \in [Threads -> TimerValues] /\ sleeping \in Seq(Threads)
          /\ owner \in [Objects -> Threads \cup {NoThread}]
        BY DEF FrameType, SchedulerInv, TypeOK
    <1>2. /\ IsInjective(sleeping) /\ \A o \in Objects : IsInjective(waiters[o])
        BY DEF SchedulerInv, ListsInv, NoDuplicates
    <1>3. CASE f.this = NoThread
        <2>1. \A u \in Threads : u # NoThread
            BY ConstantsAssumption
        <2>2. NoThread \notin ToSet(sleeping')
            <3>1. sleeping' = sleeping \/ (sleeping' = Unlink(sleeping, t) /\ t \in ToSet(sleeping))
                BY ConstantsAssumption DEF RemoveAndWakeUp, Removable
            <3>2. t \in ToSet(sleeping) => ToSet(Unlink(sleeping, t)) \subseteq ToSet(sleeping)
                BY <1>1, <1>2, UnlinkOne
            <3>. QED BY <1>1, <3>1, <3>2, MembersType, ConstantsAssumption
        <2>. QED BY <1>3, <2>2 DEF CursorOnList, Suspended
    <1>4. CASE f.this \in Threads
        <2>. DEFINE u == f.this
        <2>0. u \in Threads /\ u # NoThread
            BY <1>4, ConstantsAssumption
        <2>1. /\ InWaitList(u) \/ InLockQueue(u)
              /\ wait_obj[u] \in Objects /\ u \notin ToSet(sleeping)
              /\ InWaitList(u) => owner[wait_obj[u]] # NoThread
            BY <2>0, WhereWaiting DEF CursorOnList, Suspended
        <2>. SUFFICES /\ u \notin ToSet(sleeping')
                      /\ InWaitList(u)' \/ InLockQueue(u)'
                      /\ InWaitList(u)' => owner'[wait_obj'[u]] # NoThread
            BY DEF CursorOnList, Suspended, InWaitList, InLockQueue
        <2>. HIDE DEF u
        <2>2. CASE wait_obj[t] = NoObject
            <3>1. /\ UNCHANGED <<waiters, entry, wait_obj, owner>>
                  /\ sleeping' = Unlink(sleeping, t) /\ t \in ToSet(sleeping)
                BY <2>2, ConstantsAssumption DEF RemoveAndWakeUp, Removable, monitors
            <3>2. u \notin ToSet(sleeping')
                BY <1>1, <1>2, <2>1, <3>1, UnlinkOne
            <3>. QED BY <2>1, <3>1, <3>2 DEF InWaitList, InLockQueue
        <2>3. CASE wait_obj[t] # NoObject
            <3>. DEFINE o == wait_obj[t]
            <3>1. /\ o \in Objects /\ t \in ToSet(waiters[o])
                  /\ sleeping' = sleeping
                  /\ waiters' = [waiters EXCEPT ![o] = Unlink(@, t)]
                  /\ \/ /\ owner[o] = NoThread
                        /\ owner' = [owner EXCEPT ![o] = t]
                        /\ wait_obj' = [wait_obj EXCEPT ![t] = NoObject]
                        /\ entry' = entry
                     \/ /\ owner[o] # NoThread
                        /\ entry' = [entry EXCEPT ![o] = Append(@, t)]
                        /\ UNCHANGED <<owner, wait_obj>>
                BY <1>1, <2>3 DEF RemoveAndWakeUp, Removable
            <3>2. ToSet(Unlink(waiters[o], t)) = ToSet(waiters[o]) \ {t}
                BY <1>1, <1>2, <3>1, UnlinkOne
            <3>3. ToSet(Append(entry[o], t)) = ToSet(entry[o]) \cup {t}
                BY <1>1, <3>1, AppendMember
            <3>4. InWaitList(t) /\ ~ InLockQueue(t)
                BY <2>3, <3>1, WhereWaiting DEF InWaitList
            <3>5. CASE u = t
                <4>1. owner[o] # NoThread
                    BY <2>1, <3>4, <3>5
                <4>. QED BY <1>1, <2>1, <2>3, <3>1, <3>2, <3>3, <3>5, <4>1
                         DEF InWaitList, InLockQueue
            <3>6. CASE u # t
                <4>1. wait_obj'[u] = wait_obj[u]
                    BY <1>1, <2>0, <3>1, <3>6
                <4>2. InWaitList(u) => InWaitList(u)' /\ owner'[wait_obj[u]] # NoThread
                    <5>. SUFFICES ASSUME InWaitList(u)
                                  PROVE  InWaitList(u)' /\ owner'[wait_obj[u]] # NoThread
                        OBVIOUS
                    <5>1. u \in ToSet(waiters'[wait_obj[u]])
                        BY <1>1, <2>1, <3>1, <3>2, <3>6 DEF InWaitList
                    <5>2. owner'[wait_obj[u]] # NoThread
                        BY <1>1, <2>1, <3>1, ConstantsAssumption
                    <5>. QED BY <4>1, <5>1, <5>2 DEF InWaitList
                <4>3. InLockQueue(u) => InLockQueue(u)' /\ ~ InWaitList(u)'
                    <5>. SUFFICES ASSUME InLockQueue(u)
                                  PROVE  InLockQueue(u)' /\ ~ InWaitList(u)'
                        OBVIOUS
                    <5>1. u \in ToSet(entry'[wait_obj[u]])
                        BY <1>1, <2>1, <3>1, <3>3 DEF InLockQueue
                    <5>2. ~ InWaitList(u)
                        BY <2>0, WhereWaiting
                    <5>3. u \notin ToSet(waiters'[wait_obj[u]])
                        BY <1>1, <2>1, <3>1, <3>2, <5>2, ConstantsAssumption DEF InWaitList
                    <5>. QED BY <4>1, <5>1, <5>3 DEF InLockQueue, InWaitList
                <4>. QED BY <2>1, <3>1, <4>1, <4>2, <4>3
            <3>. QED BY <3>5, <3>6
        <2>. QED BY <2>2, <2>3
    <1>. QED BY <1>1, <1>3, <1>4

\* The loop that wakes the thread it has come to goes on in the same list.
LEMMA WakeUpGoesOn ==
    ASSUME SchedulerInv, QueuedHaveNoTimes, NEW f \in FrameType, CursorOnList(f),
           f.this # NoThread, timer[f.this] # "none",
           Removable(f.this), RemoveAndWakeUp(f.this),
           NEW next \in NextLinks(f.this)
    PROVE  /\ CursorOnList([f EXCEPT !.this = next])'
           /\ BlocksCurrent(f.this) => Suspended([f EXCEPT !.this = next])'
           /\ wait_obj[f.this] # NoObject /\ f.next_waiting # NoThread =>
                 wait_obj[f.next_waiting] # wait_obj[f.this]
    <1>. DEFINE t == f.this
                g == [f EXCEPT !.this = next]
                n == f.next_waiting
    <1>1. /\ t \in Threads /\ n \in Threads \cup {NoThread}
          /\ wait_obj \in [Threads -> Objects \cup {NoObject}]
          /\ waiters \in [Objects -> Seq(Threads)] /\ sleeping \in Seq(Threads)
          /\ owner \in [Objects -> Threads \cup {NoThread}]
          /\ IsInjective(sleeping) /\ \A o \in Objects : IsInjective(waiters[o])
        BY DEF FrameType, SchedulerInv, TypeOK, ListsInv, NoDuplicates
    <1>2. g.this = next /\ g.next_waiting = n
        BY DEF FrameType
    <1>3. ~ InLockQueue(t)
        BY <1>1 DEF InLockQueue, QueuedHaveNoTimes, SchedulerInv, TypeOK
    <1>4. /\ n # NoThread => InWaitList(n)
          /\ \/ t \in ToSet(sleeping)
             \/ InWaitList(t) /\ (n # NoThread => wait_obj[n] # wait_obj[t])
        BY <1>3 DEF CursorOnList
    <1>5. next # NoThread =>
             /\ next \in Threads \ {t}
             /\ \/ t \in ToSet(sleeping) /\ next \in ToSet(sleeping)
                \/ InWaitList(t) /\ InWaitList(next) /\ wait_obj[next] = wait_obj[t]
        BY <1>1, <1>4, NextLinksOn
    <1>6. n \in Threads => wait_obj[n] \in Objects
        BY <1>1, <1>4, ConstantsAssumption, WhereWaiting
    <1>7. RemoveAndWakeUp(t) /\ Removable(t)
        OBVIOUS
    <1>. HIDE DEF g, t, n
    <1>8. CASE t \in ToSet(sleeping)
        <2>1. wait_obj[t] = NoObject
            BY <1>1, <1>8, WhereWaiting
        <2>2. /\ UNCHANGED <<waiters, entry, wait_obj, owner>>
              /\ sleeping' = Unlink(sleeping, t)
            BY <1>7, <2>1, ConstantsAssumption DEF RemoveAndWakeUp, monitors
        <2>3. ToSet(sleeping') = ToSet(sleeping) \ {t}
            BY <1>1, <1>8, <2>2, UnlinkOne
        <2>4. n # NoThread => InWaitList(n)'
            BY <1>4, <2>2 DEF InWaitList
        <2>5. next # NoThread => next \in ToSet(sleeping')
            BY <1>5, <2>1, <2>3 DEF InWaitList
        <2>6. CursorOnList(g)'
            BY <1>2, <2>4, <2>5 DEF CursorOnList, InWaitList
        <2>7. ~ BlocksCurrent(t)
            BY <2>1 DEF BlocksCurrent
        <2>. QED BY <2>1, <2>6, <2>7 DEF g, t
    <1>9. CASE t \notin ToSet(sleeping)
        <2>. DEFINE o == wait_obj[t]
        <2>1. o \in Objects /\ t \in ToSet(waiters[o])
            BY <1>1, <1>4, <1>9, WhereWaiting DEF InWaitList
        <2>2. /\ waiters' = [waiters EXCEPT ![o] = Unlink(@, t)]
              /\ sleeping' = sleeping
              /\ owner' = [owner EXCEPT ![o] = t] \/ owner' = owner
              /\ wait_obj' = wait_obj \/ wait_obj' = [wait_obj EXCEPT ![t] = NoObject]
            BY <1>7, <2>1, ConstantsAssumption DEF RemoveAndWakeUp
        <2>. HIDE DEF o
        <2>3. ToSet(Unlink(waiters[o], t)) = ToSet(waiters[o]) \ {t}
            BY <1>1, <2>1, UnlinkOne
        <2>4. \A u \in Threads \ {t} : InWaitList(u) =>
                 InWaitList(u)' /\ wait_obj'[u] = wait_obj[u] /\ wait_obj[u] \in Objects
            <3>. SUFFICES ASSUME NEW u \in Threads \ {t}, InWaitList(u)
                          PROVE  InWaitList(u)' /\ wait_obj'[u] = wait_obj[u] /\ wait_obj[u] \in Objects
                OBVIOUS
            <3>1. wait_obj'[u] = wait_obj[u] /\ wait_obj[u] \in Objects
                BY <1>1, <2>2, WhereWaiting
            <3>2. u \in ToSet(waiters'[wait_obj[u]])
                BY <1>1, <2>1, <2>2, <2>3, <3>1 DEF InWaitList
            <3>. QED BY <3>1, <3>2, ConstantsAssumption DEF InWaitList
        <2>5. n # NoThread => /\ n \in Threads \ {t} /\ InWaitList(n) /\ wait_obj[n] # o
            BY <1>1, <1>4, <1>9 DEF o
        <2>6. next # NoThread => /\ next \in Threads \ {t} /\ InWaitList(next) /\ wait_obj[next] = o
            BY <1>5, <1>9 DEF o
        <2>7. CursorOnList(g)'
            BY <1>2, <2>4, <2>5, <2>6 DEF CursorOnList, InWaitList
        <2>8. BlocksCurrent(t) => Suspended(g)'
            <3>. SUFFICES ASSUME BlocksCurrent(t) PROVE Suspended(g)'
                OBVIOUS
            <3>1. owner[o] # NoThread
                BY DEF BlocksCurrent, o
            <3>2. owner'[o] # NoThread
                BY <1>1, <2>1, <2>2, <3>1, ConstantsAssumption
            <3>3. next # NoThread => next \notin ToSet(sleeping')
                BY <2>2, <2>6, WhereWaiting
            <3>4. NoThread \notin ToSet(sleeping')
                BY <1>1, <2>2, MembersType, ConstantsAssumption
            <3>5. next # NoThread => wait_obj'[next] = o
                BY <2>4, <2>6
            <3>. QED BY <1>2, <3>2, <3>3, <3>4, <3>5 DEF Suspended, InWaitList
        <2>. QED BY <2>5, <2>7, <2>8 DEF g, t, n, o
    <1>. QED BY <1>8, <1>9

\* A thread that joins the queue of a lock has its wake-up time cleared.
LEMMA QueuedStep ==
    ASSUME QueuedHaveNoTimes,
           \A o \in Objects : \A t \in ToSet(entry'[o]) :
              timer'[t] = "none" \/ (t \in ToSet(entry[o]) /\ timer'[t] = timer[t])
    PROVE  QueuedHaveNoTimes'
    BY DEF QueuedHaveNoTimes

\* Time-out and interrupt clear the wake-up time of a thread they put in the queue of a lock.
LEMMA WakeUpKeepsQueued ==
    ASSUME SchedulerInv, QueuedHaveNoTimes, NEW t \in Threads, RemoveAndWakeUp(t)
    PROVE  QueuedHaveNoTimes'
    <1>1. /\ entry \in [Objects -> Seq(Threads)] /\ timer \in [Threads -> TimerValues]
          /\ \A o \in Objects : ToSet(entry[o]) \subseteq Threads
        BY MembersType DEF SchedulerInv, TypeOK
    <1>2. CASE UNCHANGED <<entry, timer>>
        BY <1>2, QueuedStep
    <1>3. CASE \E o \in Objects : entry' = [entry EXCEPT ![o] = Append(@, t)]
                                  /\ timer' = [timer EXCEPT ![t] = "none"]
        <2>1. PICK o \in Objects : entry' = [entry EXCEPT ![o] = Append(@, t)]
                                   /\ timer' = [timer EXCEPT ![t] = "none"]
            BY <1>3
        <2>2. ToSet(Append(entry[o], t)) = ToSet(entry[o]) \cup {t}
            BY <1>1, AppendMember
        <2>. QED BY <1>1, <2>1, <2>2, QueuedStep
    <1>. QED BY <1>2, <1>3 DEF RemoveAndWakeUp, monitors

\* Every step leaves the threads that queue for a lock without a wake-up time.
LEMMA StepKeepsQueued ==
    ASSUME SchedulerInv, QueuedHaveNoTimes, [Next]_vars
    PROVE  QueuedHaveNoTimes'
    <1>1. /\ timer \in [Threads -> TimerValues] /\ entry \in [Objects -> Seq(Threads)]
          /\ waiters \in [Objects -> Seq(Threads)] /\ current \in Threads
          /\ locks \in [Threads -> Seq(Objects)]
          /\ \A o \in Objects : ToSet(entry[o]) \subseteq Threads
        BY MembersType DEF SchedulerInv, TypeOK
    <1>free. ASSUME CanExecute PROVE \A o \in Objects : current \notin ToSet(entry[o])
        BY <1>free, CurrentExecutes DEF SchedulerInv
    <1>heir. ASSUME NEW o \in Objects, entry' = [entry EXCEPT ![o] = LaterWaiters(o)]
             PROVE  \A u \in Objects : ToSet(entry'[u]) \subseteq ToSet(entry[u])
        <2>1. LaterWaiters(o) \in Seq(Threads)
              /\ \A t \in Threads : t \in ToSet(LaterWaiters(o)) => t \in ToSet(entry[o])
            BY HandOver DEF SchedulerInv
        <2>2. ToSet(LaterWaiters(o)) \subseteq ToSet(entry[o])
            BY <2>1, MembersType
        <2>. QED BY <1>1, <1>heir, <2>2
    <1>2. CASE \E o \in Objects : MonitorEnter(o)
        <2>1. PICK o \in Objects : MonitorEnter(o)
            BY <1>2
        <2>2. CASE LockObject(o) \/ LockAgain(o)
            BY <2>2, QueuedStep DEF LockObject, LockAgain
        <2>3. CASE BlockOnObject(o)
            <3>1. /\ entry' = [entry EXCEPT ![o] = Append(@, current)]
                  /\ timer' = [timer EXCEPT ![current] = "none"]
                BY <2>3 DEF BlockOnObject
            <3>2. ToSet(Append(entry[o], current)) = ToSet(entry[o]) \cup {current}
                BY <1>1, AppendMember
            <3>. QED BY <1>1, <3>1, <3>2, QueuedStep
        <2>. QED BY <2>1, <2>2, <2>3 DEF MonitorEnter
    <1>3. CASE MonitorExit
        <2>. DEFINE o == Last(locks[current])
        <2>1. o \in Objects
            BY <1>1, <1>3, LastMember DEF MonitorExit
        <2>2. timer' = timer /\ (UnlockAgain(o) \/ UnlockObject(o))
            BY <1>3 DEF MonitorExit
        <2>. HIDE DEF o
        <2>3. CASE UnlockAgain(o)
            BY <2>2, <2>3, QueuedStep DEF UnlockAgain
        <2>4. CASE UnlockObject(o)
            BY <1>heir, <2>1, <2>2, <2>4, QueuedStep DEF UnlockObject
        <2>. QED BY <2>2, <2>3, <2>4
    <1>4. CASE \E o \in Objects, timeout \in {"none", "armed"} : ObjectWait(o, timeout)
        <2>1. PICK o \in Objects, timeout \in {"none", "armed"} : ObjectWait(o, timeout)
            BY <1>4
        <2>2. CASE HandlePendingInterrupt
            BY <2>2, QueuedStep DEF HandlePendingInterrupt, monitors
        <2>3. CASE ReleaseAndWait(o, timeout)
            <3>1. /\ entry' = [entry EXCEPT ![o] = LaterWaiters(o)]
                  /\ timer' = [timer EXCEPT ![current] = timeout]
                BY <2>3 DEF ReleaseAndWait
            <3>. QED BY <1>1, <1>free, <1>heir, <2>1, <3>1, QueuedStep DEF ObjectWait
        <2>. QED BY <2>1, <2>2, <2>3 DEF ObjectWait
    <1>5. CASE FinishThread \/ \E o \in Objects : Notify(o) \/ NotifyAll(o)
        <2>1. \/ UNCHANGED <<entry, timer>>
              \/ \E o \in Objects : \E ws \in {<<Head(waiters[o])>>, waiters[o]} :
                    Wake(o, ws) /\ (ws = waiters[o] \/ waiters[o] # <<>>)
              \/ \E o \in Objects : WakeOnFreeLock(o)
            BY <1>1, <1>5, ConstantsAssumption
            DEF Notify, NotifyAll, FinishThread, WakeJoining, monitors
        <2>2. ASSUME NEW o \in Objects, NEW ws \in {<<Head(waiters[o])>>, waiters[o]},
                     Wake(o, ws), ws = waiters[o] \/ waiters[o] # <<>>
              PROVE  QueuedHaveNoTimes'
            <3>1. /\ entry' = [entry EXCEPT ![o] = @ \o ws]
                  /\ \A t \in Threads : timer'[t] = IF t \in ToSet(ws) THEN "none" ELSE timer[t]
                BY <2>2 DEF Wake
            <3>2. ws \in Seq(Threads)
                <4>1. IsInjective(waiters[o])
                    BY DEF SchedulerInv, ListsInv, NoDuplicates
                <4>. QED BY <1>1, <2>2, <4>1, WokenPrefix
            <3>3. ToSet(entry[o] \o ws) = ToSet(entry[o]) \cup ToSet(ws) /\ ToSet(ws) \subseteq Threads
                BY <1>1, <3>2, SplicedMembers, MembersType
            <3>. QED BY <1>1, <3>1, <3>3, QueuedStep
        <2>3. ASSUME NEW o \in Objects, WakeOnFreeLock(o)
              PROVE  QueuedHaveNoTimes'
            <3>1. \A t \in Threads : timer'[t] = IF t \in ToSet(Tail(waiters[o])) THEN "none" ELSE timer[t]
                BY <2>3 DEF WakeOnFreeLock
            <3>2. /\ \A u \in Objects : entry'[u] = IF u = o THEN Tail(waiters[o]) ELSE entry[u]
                  /\ Tail(waiters[o]) \in Seq(Threads)
                BY <2>3, FreeLockTaken DEF SchedulerInv
            <3>3. ToSet(Tail(waiters[o])) \subseteq Threads
                BY <3>2, MembersType
            <3>. QED BY <1>1, <3>1, <3>2, <3>3 DEF QueuedHaveNoTimes
        <2>. QED BY <2>1, <2>2, <2>3, QueuedStep
    <1>6. CASE \E t \in Threads : Interrupt(t)
        BY <1>6, WakeUpKeepsQueued, QueuedStep
        DEF Interrupt, InterruptWaiting, InterruptLater, monitors
    <1>7. CASE WakeThread
        BY <1>7, ThisIsThread, WakeUpKeepsQueued DEF WakeThread
    <1>8. CASE Sleep
        <2>1. entry' = entry /\ \A t \in Threads \ {current} : timer'[t] = timer[t]
            BY <1>1, <1>8 DEF Sleep, HandlePendingInterrupt, FallAsleep, monitors
        <2>. QED BY <1>1, <1>8, <1>free, <2>1, QueuedStep DEF Sleep
    <1>9. CASE \E t \in Threads : Expire(t)
        <2>1. PICK t \in Threads : Expire(t)
            BY <1>9
        <2>2. \A o \in Objects : t \notin ToSet(entry[o])
            BY <2>1 DEF Expire, QueuedHaveNoTimes
        <2>3. entry' = entry /\ \A u \in Threads \ {t} : timer'[u] = timer[u]
            BY <1>1, <2>1 DEF Expire, monitors
        <2>. QED BY <1>1, <2>2, <2>3, QueuedStep
    <1>10. CASE \/ \E t \in Threads : StartThread(t) \/ UnblockThread(t)
                \/ BlockCurrentThread \/ RedoNativeMethod \/ ThrowPendingException
                \/ TerminateThread \/ Yield
        BY <1>10, QueuedStep
        DEF StartThread, UnblockThread, BlockCurrentThread, RedoNativeMethod,
            ThrowPendingException, TerminateThread, Yield, monitors
    <1>11. CASE \/ StartWakeUps \/ NextList \/ SkipThread \/ GuaranteeFails \/ GoIdle \/ WakeFromIdle
                \/ ReturnToLoop \/ SwitchThread \/ StopForEver \/ Stopped \/ UNCHANGED vars
        BY <1>11, QueuedStep
        DEF StartWakeUps, NextList, SkipThread, GuaranteeFails, GoIdle, WakeFromIdle,
            ReturnToLoop, SwitchThread, StopForEver, Stopped, vars, monitors
    <1>. QED BY <1>2, <1>3, <1>4, <1>5, <1>6, <1>7, <1>8, <1>9, <1>10, <1>11
             DEF Next, ProgramStep, YieldStep

\* A call of yield that has not started its walk is on no list, and no program step happens in one.
LEMMA ProgramCursors ==
    ASSUME SchedulerInv, CursorsOnLists,
           ProgramStep \/ Yield \/ SwitchThread \/ StopForEver
    PROVE  CursorsOnLists' /\ NothingPending'
    <1>1. frames' = <<>> \/ frames' = <<NewFrame>>
        BY DEF ProgramStep, CanExecute, Running, MonitorEnter, LockObject, LockAgain, BlockOnObject,
            MonitorExit, ObjectWait, HandlePendingInterrupt, ReleaseAndWait, Notify, NotifyAll,
            StartThread, Sleep, FallAsleep, BlockCurrentThread, RedoNativeMethod, Interrupt,
            ThrowPendingException, FinishThread, TerminateThread, Yield, SwitchThread, StopForEver
    <1>2. CASE frames' = <<>>
        BY <1>2 DEF CursorsOnLists, NothingPending
    <1>3. CASE frames' = <<NewFrame>>
        <2>1. CursorOnList(NewFrame)'
            BY DEF NewFrame, CursorOnList
        <2>2. \A j \in DOMAIN frames' : frames'[j] = NewFrame /\ ~ j < Len(frames')
            BY <1>3
        <2>. QED BY <2>1, <2>2 DEF CursorsOnLists, NothingPending, NewFrame, CursorOnList
    <1>. QED BY <1>1, <1>2, <1>3

\* Waking the thread the loop has come to keeps every call of yield on its list, when no other wait
\* list is to come for a loop that is suspended by it.
LEMMA WakeThreadCursors ==
    ASSUME CursorInv, WakeThread, NothingPending'
    PROVE  CursorsOnLists'
    <1>. USE DEF CursorInv
    <1>1. frames \in Seq(FrameType) /\ frames # <<>> /\ Len(frames) \in DOMAIN frames
          /\ \A j \in DOMAIN frames : frames[j] \in FrameType
        BY DEF SchedulerInv, TypeOK, WakeThread, YieldAt
    <1>2. top \in FrameType /\ CursorOnList(top)
        BY <1>1 DEF top, CursorsOnLists
    <1>3. /\ top.this # NoThread /\ timer[top.this] # "none"
          /\ Removable(top.this) /\ RemoveAndWakeUp(top.this)
          /\ top.this \in Threads
        BY ThisIsThread DEF WakeThread, Due
    <1>4. PICK next \in NextLinks(top.this) :
             frames' = IF BlocksCurrent(top.this)
                       THEN Append(SetTop([top EXCEPT !.this = next]), NewFrame)
                       ELSE SetTop([top EXCEPT !.this = next])
        BY DEF WakeThread
    <1>5. PICK g \in FrameType :
             /\ g = [top EXCEPT !.this = next]
             /\ CursorOnList(g)'
             /\ BlocksCurrent(top.this) => Suspended(g)'
        <2>1. PICK f \in FrameType : f = top
            BY <1>2
        <2>2. /\ CursorOnList([f EXCEPT !.this = next])'
              /\ BlocksCurrent(f.this) => Suspended([f EXCEPT !.this = next])'
            BY <1>2, <1>3, <2>1, WakeUpGoesOn
        <2>3. next \in Threads \cup {NoThread}
            BY <1>3, LinkTypes DEF SchedulerInv, ListsInv
        <2>4. [f EXCEPT !.this = next] \in FrameType
            BY <2>3 DEF FrameType
        <2>. QED BY <2>1, <2>2, <2>4
    <1>6. /\ DOMAIN SetTop(g) = DOMAIN frames /\ SetTop(g) \in Seq(FrameType)
          /\ Len(SetTop(g)) = Len(frames)
          /\ \A j \in DOMAIN frames : SetTop(g)[j] = IF j = Len(frames) THEN g ELSE frames[j]
        BY <1>1, <1>5, TopChange, SetTopType
    <1>7. ASSUME NEW j \in DOMAIN frames, j < Len(frames)
          PROVE  \E f : f = frames[j] /\ CursorOnList(f)' /\ Suspended(f)'
        <2>1. PICK f \in FrameType : f = frames[j]
            BY <1>1
        <2>2. CursorOnList(f) /\ Suspended(f) /\ f.next_waiting = NoThread
            BY <1>7, <2>1 DEF CursorsOnLists, NothingPending
        <2>3. CursorOnList(f)' /\ Suspended(f)'
            BY <1>3, <2>2, WakeUpKeepsCursor
        <2>. QED BY <2>1, <2>3
    <1>8. CASE frames' = SetTop(g)
        <2>1. ASSUME NEW j \in DOMAIN frames'
              PROVE  \E f : f = frames'[j] /\ CursorOnList(f)' /\ (j < Len(frames') => Suspended(f)')
            <3>1. j \in DOMAIN frames /\ Len(frames') = Len(frames) /\ frames'[j] = SetTop(g)[j]
                BY <1>6, <1>8, <2>1
            <3>2. CASE j = Len(frames)
                <4>1. frames'[j] = g /\ ~ j < Len(frames')
                    BY <1>1, <1>6, <3>1, <3>2
                <4>. QED BY <1>5, <4>1
            <3>3. CASE j # Len(frames)
                <4>1. frames'[j] = frames[j] /\ j < Len(frames)
                    BY <1>1, <1>6, <3>1, <3>3
                <4>. QED BY <1>7, <3>1, <4>1
            <3>. QED BY <3>2, <3>3
        <2>. QED BY <2>1, CursorsNext
    <1>9. CASE BlocksCurrent(top.this) /\ frames' = Append(SetTop(g), NewFrame)
        <2>1. CursorOnList(NewFrame)'
            BY DEF NewFrame, CursorOnList
        <2>2. /\ Len(frames') = Len(frames) + 1 /\ Len(frames) \in Nat
              /\ DOMAIN frames' = 1..(Len(frames) + 1) /\ DOMAIN frames = 1..Len(frames)
              /\ frames'[Len(frames) + 1] = NewFrame
              /\ \A j \in DOMAIN frames : frames'[j] = SetTop(g)[j]
            BY <1>1, <1>6, <1>9
        <2>3. ASSUME NEW j \in DOMAIN frames'
              PROVE  \E f : f = frames'[j] /\ CursorOnList(f)' /\ (j < Len(frames') => Suspended(f)')
            <3>1. CASE j = Len(frames) + 1
                <4>1. frames'[j] = NewFrame /\ ~ j < Len(frames')
                    BY <2>2, <3>1
                <4>2. \A f : f = NewFrame => CursorOnList(f)'
                    BY DEF NewFrame, CursorOnList
                <4>. QED BY <4>1, <4>2
            <3>2. CASE j = Len(frames)
                <4>1. frames'[j] = g
                    BY <1>1, <1>6, <2>2, <3>2
                <4>. QED BY <1>5, <1>9, <4>1
            <3>3. CASE j < Len(frames)
                <4>1. j \in DOMAIN frames /\ frames'[j] = frames[j]
                    BY <1>1, <1>6, <2>2, <2>3, <3>3
                <4>. QED BY <1>7, <3>3, <4>1
            <3>. QED BY <2>2, <2>3, <3>1, <3>2, <3>3
        <2>. QED BY <2>3, CursorsNext
    <1>. QED BY <1>4, <1>5, <1>8, <1>9

\* Every step keeps every call of yield on its list, as long as no other wait list is to come for
\* a suspended one.
LEMMA StepKeepsCursors ==
    ASSUME CursorInv, [Next]_vars, NothingPending'
    PROVE  CursorsOnLists'
    <1>. USE DEF CursorInv
    <1>1. frames \in Seq(FrameType)
        BY DEF SchedulerInv, TypeOK
    <1>top. ASSUME frames # <<>>
            PROVE  top \in FrameType /\ CursorOnList(top)
        BY <1>1, <1>top DEF top, CursorsOnLists
    <1>2. CASE ProgramStep \/ Yield \/ SwitchThread \/ StopForEver
        BY <1>2, ProgramCursors
    <1>3. CASE WakeThread
        BY <1>3, WakeThreadCursors
    <1>4. CASE StartWakeUps
        <2>. DEFINE f == [pc |-> "wake", due |-> {t \in Threads : timer[t] = "expired"},
                          this |-> First(sleeping), next_waiting |-> ChainHead(1)]
        <2>1. First(sleeping) # NoThread => First(sleeping) \in ToSet(sleeping)
            BY HeadMember DEF First, SchedulerInv, TypeOK
        <2>2. ChainHead(1) # NoThread => InWaitList(ChainHead(1))
            BY ChainHeadWaits DEF ChainHead
        <2>3. CursorOnList(f)
            BY <2>1, <2>2 DEF CursorOnList
        <2>4. /\ frames # <<>> /\ frames' = SetTop(f)
              /\ UNCHANGED <<sleeping, waiters, entry, wait_obj, timer, owner>>
            BY <1>4 DEF StartWakeUps, YieldAt, lists, monitors
        <2>. QED BY <2>3, <2>4, QuietYieldCursors
    <1>5. CASE NextList
        <2>. DEFINE n == top.next_waiting
                    f == [top EXCEPT !.this = n, !.next_waiting = NextWaiting(n)]
        <2>1. /\ frames # <<>> /\ n # NoThread /\ frames' = SetTop(f)
              /\ UNCHANGED <<sleeping, waiters, entry, wait_obj, timer, owner>>
            BY <1>5 DEF NextList, YieldAt, lists, monitors
        <2>2. n \in Threads /\ InWaitList(n)
            BY <1>top, <2>1 DEF FrameType, CursorOnList
        <2>3. f.this = n /\ f.next_waiting = NextWaiting(n)
            BY <1>top, <2>1 DEF FrameType
        <2>4. CursorOnList(f)
            BY <2>2, <2>3, NextWaitingList DEF CursorOnList
        <2>. QED BY <2>1, <2>4, QuietYieldCursors
    <1>6. CASE SkipThread
        <2>1. PICK next \in NextLinks(top.this) : frames' = SetTop([top EXCEPT !.this = next])
            BY <1>6 DEF SkipThread
        <2>. DEFINE t == top.this
                    f == [top EXCEPT !.this = next]
        <2>2. /\ frames # <<>> /\ t # NoThread
              /\ UNCHANGED <<sleeping, waiters, entry, wait_obj, timer, owner>>
            BY <1>6 DEF SkipThread, YieldAt, lists, monitors
        <2>3. t \in Threads /\ CursorOnList(top) /\ (t \in ToSet(sleeping) \/ InWaitList(t) \/ InLockQueue(t))
            BY <1>top, <2>2 DEF FrameType, CursorOnList
        <2>4. f.this = next /\ f.next_waiting = top.next_waiting
            BY <1>top, <2>2 DEF FrameType
        <2>5. next # NoThread =>
                 \/ t \in ToSet(sleeping) /\ next \in ToSet(sleeping)
                 \/ InWaitList(t) /\ InWaitList(next) /\ wait_obj[next] = wait_obj[t]
            BY <2>3, NextLinksOn
        <2>6. InWaitList(t) => t \notin ToSet(sleeping) /\ ~ InLockQueue(t)
            BY <2>3, WhereWaiting
        <2>7. /\ top.next_waiting # NoThread => InWaitList(top.next_waiting)
              /\ InWaitList(t) /\ top.next_waiting # NoThread =>
                    wait_obj[top.next_waiting] # wait_obj[t]
            BY <2>2, <2>3, <2>6 DEF CursorOnList
        <2>8. CursorOnList(f)
            <3>. HIDE DEF f, t
            <3>1. CASE next = NoThread \/ next \in ToSet(sleeping)
                BY <2>4, <2>7, <3>1 DEF CursorOnList
            <3>2. CASE InWaitList(t) /\ InWaitList(next) /\ wait_obj[next] = wait_obj[t]
                BY <2>4, <2>7, <3>2 DEF CursorOnList
            <3>. QED BY <2>5, <3>1, <3>2
        <2>. QED BY <2>1, <2>2, <2>8, QuietYieldCursors
    <1>7. CASE GoIdle
        <2>. DEFINE f == [top EXCEPT !.pc = "idle"]
        <2>1. /\ frames # <<>> /\ frames' = SetTop(f)
              /\ UNCHANGED <<sleeping, waiters, entry, wait_obj, timer, owner>>
            BY <1>7 DEF GoIdle, WalkDone, YieldAt, lists, monitors
        <2>2. f.this = top.this /\ f.next_waiting = top.next_waiting
            BY <1>top, <2>1 DEF FrameType
        <2>3. CursorOnList(f)
            BY <1>top, <2>1, <2>2 DEF CursorOnList
        <2>. QED BY <2>1, <2>3, QuietYieldCursors
    <1>8. CASE WakeFromIdle
        <2>1. CursorOnList(NewFrame)
            BY DEF CursorOnList, NewFrame
        <2>. QED BY <1>8, <2>1, QuietYieldCursors DEF WakeFromIdle, YieldAt, lists, monitors
    <1>9. CASE ReturnToLoop
        BY <1>1, <1>9, QuietYieldCursors DEF ReturnToLoop, lists, monitors
    <1>10. CASE \/ GuaranteeFails \/ Stopped \/ UNCHANGED vars
                \/ \E t \in Threads : UnblockThread(t)
        <2>1. UNCHANGED <<frames, sleeping, waiters, entry, wait_obj, timer, owner>>
            BY <1>10 DEF GuaranteeFails, Stopped, UnblockThread, vars, lists, monitors
        <2>2. CASE frames # <<>>
            BY <2>1, <2>2, QuietYieldCursors
        <2>3. CASE frames = <<>>
            BY <2>1, <2>3 DEF CursorsOnLists
        <2>. QED BY <2>2, <2>3
    <1>11. CASE \E t \in Threads : Expire(t)
        <2>1. PICK t \in Threads : Expire(t)
            BY <1>11
        <2>2. /\ UNCHANGED <<frames, sleeping, waiters, entry, wait_obj, owner>>
              /\ \A u \in Threads : timer'[u] = "none" <=> timer[u] = "none"
            BY <2>1 DEF Expire, lists, monitors, SchedulerInv, TypeOK
        <2>3. ASSUME NEW j \in DOMAIN frames'
              PROVE  \E f : f = frames'[j] /\ CursorOnList(f)' /\ (j < Len(frames') => Suspended(f)')
            <3>1. PICK f \in FrameType : f = frames[j] /\ frames'[j] = frames[j] /\ j \in DOMAIN frames
                BY <1>1, <2>2
            <3>2. CursorOnList(f) /\ (j < Len(frames') => Suspended(f))
                BY <2>2, <3>1 DEF CursorsOnLists
            <3>3. f.this \in Threads \cup {NoThread}
                BY DEF FrameType
            <3>4. CursorOnList(f)' /\ (Suspended(f) => Suspended(f)')
                BY <2>2, <3>2, <3>3 DEF CursorOnList, Suspended, InWaitList, InLockQueue
            <3>. QED BY <3>1, <3>2, <3>4
        <2>. QED BY <2>3, CursorsNext
    <1>. QED BY <1>2, <1>3, <1>4, <1>5, <1>6, <1>7, <1>8, <1>9, <1>10, <1>11 DEF Next, YieldStep

\* With all threads on one object, a loop that is suspended has no other wait list to come.
LEMMA OneObjectNothingPending ==
    ASSUME NEW obj, Objects = {obj}, CursorInv, [Next]_vars
    PROVE  NothingPending'
    <1>. USE DEF CursorInv
    <1>1. frames \in Seq(FrameType)
        BY DEF SchedulerInv, TypeOK
    <1>top. ASSUME frames # <<>>
            PROVE  top \in FrameType /\ CursorOnList(top)
        BY <1>1, <1>top DEF top, CursorsOnLists
    <1>2. CASE ProgramStep \/ Yield \/ SwitchThread \/ StopForEver
        BY <1>2, ProgramCursors
    <1>3. CASE WakeThread
        <2>1. frames # <<>> /\ top \in FrameType /\ CursorOnList(top)
            BY <1>3, <1>top DEF WakeThread, YieldAt
        <2>2. /\ top.this # NoThread /\ timer[top.this] # "none" /\ top.this \in Threads
              /\ Removable(top.this) /\ RemoveAndWakeUp(top.this)
            BY <1>3, ThisIsThread DEF WakeThread, Due
        <2>3. PICK next \in NextLinks(top.this) :
                 frames' = IF BlocksCurrent(top.this)
                           THEN Append(SetTop([top EXCEPT !.this = next]), NewFrame)
                           ELSE SetTop([top EXCEPT !.this = next])
            BY <1>3 DEF WakeThread
        <2>4. BlocksCurrent(top.this) => top.next_waiting = NoThread
            <3>. SUFFICES ASSUME BlocksCurrent(top.this), top.next_waiting # NoThread PROVE FALSE
                OBVIOUS
            <3>1. wait_obj[top.this] # NoObject
                BY DEF BlocksCurrent
            <3>2. wait_obj[top.next_waiting] # wait_obj[top.this]
                BY <2>1, <2>2, <3>1, WhereWaiting DEF CursorOnList
            <3>3. InWaitList(top.next_waiting) /\ top.next_waiting \in Threads
                BY <2>1 DEF CursorOnList, FrameType
            <3>4. wait_obj[top.next_waiting] \in Objects /\ wait_obj[top.this] \in Objects
                BY <2>2, <3>1, <3>3, WhereWaiting DEF SchedulerInv, TypeOK
            <3>. QED BY <3>2, <3>4
        <2>. DEFINE g == [top EXCEPT !.this = next]
        <2>5. g \in FrameType /\ g.next_waiting = top.next_waiting
            <3>1. next \in Threads \cup {NoThread}
                BY <2>2, LinkTypes DEF SchedulerInv, ListsInv
            <3>. QED BY <2>1, <3>1 DEF FrameType
        <2>. HIDE DEF g
        <2>6. /\ DOMAIN SetTop(g) = DOMAIN frames /\ SetTop(g) \in Seq(FrameType)
              /\ Len(SetTop(g)) = Len(frames)
              /\ \A j \in DOMAIN frames : SetTop(g)[j] = IF j = Len(frames) THEN g ELSE frames[j]
            BY <1>1, <2>1, <2>5, TopChange, SetTopType
        <2>7. CASE frames' = SetTop(g)
            BY <2>6, <2>7 DEF NothingPending
        <2>8. CASE BlocksCurrent(top.this) /\ frames' = Append(SetTop(g), NewFrame)
            <3>1. /\ Len(frames') = Len(frames) + 1 /\ Len(frames) \in Nat
                  /\ DOMAIN frames' = 1..(Len(frames) + 1) /\ DOMAIN frames = 1..Len(frames)
                  /\ \A j \in DOMAIN frames : frames'[j] = SetTop(g)[j]
                BY <1>1, <2>6, <2>8
            <3>2. ASSUME NEW j \in DOMAIN frames', j < Len(frames')
                  PROVE  frames'[j].next_waiting = NoThread
                <4>1. j \in DOMAIN frames
                    BY <3>1, <3>2
                <4>2. CASE j = Len(frames)
                    BY <2>4, <2>5, <2>6, <2>8, <3>1, <4>1, <4>2
                <4>3. CASE j < Len(frames)
                    BY <2>6, <3>1, <4>1, <4>3 DEF NothingPending
                <4>. QED BY <3>1, <4>1, <4>2, <4>3
            <3>. QED BY <3>2 DEF NothingPending
        <2>. QED BY <2>3, <2>7, <2>8 DEF g
    <1>4. CASE StartWakeUps \/ NextList \/ SkipThread \/ GoIdle \/ WakeFromIdle
        <2>1. frames # <<>> /\ \E f : frames' = SetTop(f)
            BY <1>4 DEF StartWakeUps, NextList, SkipThread, GoIdle, WakeFromIdle, WalkDone, YieldAt
        <2>2. PICK f : frames' = SetTop(f)
            BY <2>1
        <2>3. /\ DOMAIN frames' = DOMAIN frames /\ Len(frames') = Len(frames)
              /\ \A j \in DOMAIN frames : j < Len(frames) => frames'[j] = frames[j]
            BY <1>1, <2>1, <2>2 DEF SetTop
        <2>. QED BY <2>3 DEF NothingPending
    <1>5. CASE ReturnToLoop
        <2>1. /\ \A j \in DOMAIN frames' : j \in DOMAIN frames /\ frames'[j] = frames[j]
              /\ Len(frames') < Len(frames)
            BY <1>1, <1>5 DEF ReturnToLoop, Front
        <2>. QED BY <1>1, <2>1 DEF NothingPending
    <1>6. CASE \/ GuaranteeFails \/ Stopped \/ UNCHANGED vars
               \/ \E t \in Threads : UnblockThread(t) \/ Expire(t)
        BY <1>6 DEF GuaranteeFails, Stopped, UnblockThread, Expire, vars, NothingPending
    <1>. QED BY <1>2, <1>3, <1>4, <1>5, <1>6 DEF Next, YieldStep

\* remove_waiting_thread finds the thread the loop has come to: no GUARANTEE fails.
LEMMA CursorIsRemovable ==
    ASSUME CursorInv, [Next]_vars, NoGuaranteeFails
    PROVE  NoGuaranteeFails'
    <1>. USE DEF CursorInv
    <1>1. ~ GuaranteeFails
        <2>. SUFFICES ASSUME GuaranteeFails PROVE FALSE
            OBVIOUS
        <2>1. frames \in Seq(FrameType) /\ frames # <<>>
            BY DEF SchedulerInv, TypeOK, GuaranteeFails, YieldAt
        <2>2. top \in FrameType /\ CursorOnList(top)
            BY <2>1 DEF top, CursorsOnLists
        <2>3. /\ top.this \in Threads /\ timer[top.this] # "none" /\ ~ Removable(top.this)
            BY <2>2, ConstantsAssumption DEF GuaranteeFails, Due, FrameType
        <2>4. ~ InLockQueue(top.this)
            BY <2>3 DEF InLockQueue, QueuedHaveNoTimes, SchedulerInv, TypeOK
        <2>. QED BY <2>2, <2>3, <2>4, WhereWaiting, ConstantsAssumption
                 DEF CursorOnList, InWaitList, Removable
    <1>. QED BY <1>1
         DEF Next, ProgramStep, MonitorEnter, MonitorExit, ObjectWait, Notify, NotifyAll,
             StartThread, Sleep, BlockCurrentThread, RedoNativeMethod, Interrupt,
             ThrowPendingException, FinishThread, TerminateThread, Yield, Stopped, YieldStep,
             StartWakeUps, NextList, SkipThread, WakeThread, GoIdle, WakeFromIdle,
             ReturnToLoop, SwitchThread, StopForEver, UnblockThread, Expire, vars, NoGuaranteeFails

\* At the start no call of yield is in progress.
LEMMA InitCursors == Init => CursorInv /\ NoGuaranteeFails
    <1>. SUFFICES ASSUME Init PROVE CursorInv /\ NoGuaranteeFails
        OBVIOUS
    <1>1. CursorsOnLists /\ NothingPending /\ NoGuaranteeFails
        BY DEF Init, CursorsOnLists, NothingPending, NoGuaranteeFails
    <1>2. QueuedHaveNoTimes
        BY EmptyList DEF Init, QueuedHaveNoTimes
    <1>. QED BY <1>1, <1>2, InitInv DEF CursorInv

\* As long as no loop that yield has suspended has another wait list to come, the thread the loop
\* has come to is where its wait_obj leads, for any threads and objects: the fault of the wake-up
\* loop needs a stale next_waiting_thread (Scheduler::wake_up_timed_out_sleepers).
THEOREM GuaranteesHoldUnlessPending == Spec /\ []NothingPending => []NoGuaranteeFails
    <1>1. CursorInv /\ NoGuaranteeFails /\ [Next]_vars /\ NothingPending' =>
             (CursorInv /\ NoGuaranteeFails)'
        BY NextKeeps, StepKeepsQueued, StepKeepsCursors, CursorIsRemovable DEF CursorInv
    <1>. QED BY InitCursors, <1>1, PTL DEF Spec

\* Threads that wait for one object only never make a GUARANTEE of the wake-up loop fail, however
\* many they are and however time-outs, interrupts and nested calls of yield follow each other.
THEOREM GuaranteesHoldForOneObject ==
    ASSUME NEW obj, Objects = {obj}
    PROVE  Spec => []NoGuaranteeFails
    <1>1. CursorInv /\ NoGuaranteeFails /\ [Next]_vars => (CursorInv /\ NoGuaranteeFails)'
        <2>. SUFFICES ASSUME CursorInv, NoGuaranteeFails, [Next]_vars
                      PROVE  (CursorInv /\ NoGuaranteeFails)'
            OBVIOUS
        <2>1. NothingPending'
            BY OneObjectNothingPending
        <2>. QED BY <2>1, NextKeeps, StepKeepsQueued, StepKeepsCursors, CursorIsRemovable DEF CursorInv
    <1>. QED BY InitCursors, <1>1, PTL DEF Spec
=============================================================================
