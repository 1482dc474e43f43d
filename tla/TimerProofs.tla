---------------------------- MODULE TimerProofs ----------------------------
(***************************************************************************)
(* Theorems about Timer, for any tasks, periods and clocks: at most one    *)
(* timer thread is alive, the queue of a cancelled timer is empty, the     *)
(* tasks on the user clock are counted, and no wait for the first task     *)
(* ends late.  A correction of the user clock moves no task of a heap; all *)
(* other steps keep the queue a heap, and while it is one, the task that   *)
(* runs is the earliest due.                                               *)
(*                                                                         *)
(* The loops of the heap are recursive functions.  That such a function    *)
(* exists, and that what holds before the loop and after each turn holds   *)
(* at its end, follows by induction over the natural numbers, which        *)
(* LeastNumber states for sets.                                            *)
(***************************************************************************)
EXTENDS Timer, FiniteSetTheorems, SequenceTheorems, WellFoundedInduction, TLAPS

Places == {"top", "idle", "idle_woken", "asleep", "run", "killed", "exit",
           "dead"}

\* The thread that is alive is the one Timer.thread refers to.
AliveIsThread == \A w \in TimerThreads : Alive(w) => w = thread

\* Where the threads are, and which of them is alive.
ThreadInv ==
    /\ pc \in [TimerThreads -> Places]
    /\ thread \in TimerThreads \cup {NoThread}
    /\ AliveIsThread

-----------------------------------------------------------------------------
(* The timer thread.                                                       *)

\* A thread that gets a new place, and was alive, changes nothing.
LEMMA MovesKeepThread ==
    ASSUME ThreadInv, NEW w \in TimerThreads, pc[w] # "dead",
           NEW place \in Places, pc' = [pc EXCEPT ![w] = place],
           UNCHANGED thread
    PROVE  ThreadInv'
BY TimerAssumption DEF ThreadInv, AliveIsThread, Alive, Places

\* notify moves a waiting thread, which is alive.
LEMMA NotifyKeepsAlive ==
    ASSUME NEW at \in [TimerThreads -> Places], Notify(at)
    PROVE  /\ pc' \in [TimerThreads -> Places]
           /\ \A w \in TimerThreads : pc'[w] = "dead" <=> at[w] = "dead"
<1>1. CASE Waiting(at) = {} /\ pc' = at
  BY <1>1
<1>2. ASSUME NEW w \in Waiting(at), EndWait(at, w, WaitEnds(at[w]))
      PROVE  /\ pc' \in [TimerThreads -> Places]
             /\ \A v \in TimerThreads : pc'[v] = "dead" <=> at[v] = "dead"
  <2>1. w \in TimerThreads /\ at[w] # "dead"
    BY DEF Waiting
  <2>2. WaitEnds(at[w]) \in {"top", "idle_woken"}
    BY DEF WaitEnds
  <2>3. pc' = [at EXCEPT ![w] = WaitEnds(at[w])]
    BY <1>2 DEF EndWait
  <2>4. QED
    BY <2>1, <2>2, <2>3 DEF Places
<1>3. QED
  BY <1>1, <1>2 DEF Notify

\* sched starts a thread only when none is alive.
LEMMA SchedKeepsThread ==
    ASSUME ThreadInv, NEW t \in Tasks, NEW time \in Times, Sched(t, time)
    PROVE  ThreadInv'
<1> DEFINE at(w) == [pc EXCEPT ![w] = IF @ = "dead" THEN "top" ELSE @]
<1>1. PICK w \in Server : /\ thread' = w
                          /\ Enqueue(t, time, at(w)) \/ Refuse(t, at(w))
  BY DEF Sched
<1>2. w \in TimerThreads /\ \A v \in TimerThreads : Alive(v) => v = w
  BY TimerAssumption DEF Server, Alive, ThreadInv, AliveIsThread
<1>3. at(w) \in [TimerThreads -> Places]
  BY <1>2 DEF ThreadInv, Places
<1>4. \A v \in TimerThreads : at(w)[v] # "dead" => v = w
  BY <1>2, TimerAssumption DEF ThreadInv, Alive, Places
<1> HIDE DEF at
<1>5. Notify(at(w)) \/ pc' = at(w)
  BY <1>1 DEF Enqueue, Refuse, Announce
<1>6. /\ pc' \in [TimerThreads -> Places]
      /\ \A v \in TimerThreads : pc'[v] = "dead" <=> at(w)[v] = "dead"
  BY <1>3, <1>5, NotifyKeepsAlive
<1>7. QED
  BY <1>1, <1>2, <1>4, <1>6 DEF ThreadInv, AliveIsThread, Alive

\* Every step keeps at most one timer thread alive, the one Timer.thread refers to.
LEMMA ThreadInvStep ==
    ASSUME ThreadInv, [Next]_vars
    PROVE  ThreadInv'
<1>0. pc \in [TimerThreads -> Places]
  BY DEF ThreadInv
<1>1. ASSUME NEW t \in Tasks, NEW time \in Times, Sched(t, time)
      PROVE  ThreadInv'
  BY <1>1, SchedKeepsThread
<1>2. CASE UNCHANGED <<pc, thread>>
  BY <1>2 DEF ThreadInv, AliveIsThread, Alive
<1>3. CASE Cancel
  <2>1. Notify(pc) /\ UNCHANGED thread
    BY <1>3 DEF Cancel
  <2>2. QED
    BY <1>0, <2>1, NotifyKeepsAlive DEF ThreadInv, AliveIsThread, Alive
<1>4. ASSUME NEW w \in TimerThreads, ThreadStep(w) \/ Interrupt(w)
      PROVE  ThreadInv'
  <2>1. /\ pc[w] # "dead"
        /\ UNCHANGED thread
        /\ \E place \in Places : pc' = [pc EXCEPT ![w] = place]
    <3>1. CASE Look(w)
      BY <3>1 DEF Look, MeetEmptyQueue, MeetTask, DropCancelled, Fire, Sleep,
         Places
    <3>2. CASE RunEnds(w) \/ ActAsCancelled(w) \/ Die(w)
      BY <3>2 DEF RunEnds, ActAsCancelled, Die, Places
    <3>3. CASE WaitTimesOut(w) \/ Interrupt(w)
      BY <3>3 DEF WaitTimesOut, Interrupt, EndWait, WaitEnds, Waiting, Places
    <3>4. QED
      BY <1>4, <3>1, <3>2, <3>3 DEF ThreadStep
  <2>2. QED
    BY <2>1, MovesKeepThread
<1>5. ASSUME NEW t \in Tasks, CancelTask(t)
      PROVE  ThreadInv'
  BY <1>2, <1>5 DEF CancelTask
<1>6. CASE Tick
  BY <1>2, <1>6 DEF Tick
<1>7. ASSUME NEW d \in 0..MaxDeviation, SetUserClock(d)
      PROVE  ThreadInv'
  BY <1>2, <1>7 DEF SetUserClock
<1>8. CASE UNCHANGED vars
  BY <1>2, <1>8 DEF vars
<1>9. QED
  BY <1>1, <1>3, <1>4, <1>5, <1>6, <1>7, <1>8 DEF Next

\* However calls of sched, time-outs and deaths of threads alternate, two
\* timer threads never serve one queue.
THEOREM OneThread == Spec => []OneThreadServes
<1>1. Init => ThreadInv
  BY DEF Init, ThreadInv, AliveIsThread, Alive, Places
<1>2. ThreadInv /\ [Next]_vars => ThreadInv'
  BY ThreadInvStep
<1>3. ThreadInv => OneThreadServes
  <2> SUFFICES ASSUME ThreadInv
               PROVE  OneThreadServes
    OBVIOUS
  <2> DEFINE living == {w \in TimerThreads : Alive(w)}
  <2>1. living \in SUBSET {thread}
    BY DEF ThreadInv, AliveIsThread
  <2>2. IsFiniteSet({thread}) /\ Cardinality({thread}) = 1
    BY FS_Singleton
  <2> HIDE DEF living
  <2>3. Cardinality(living) <= Cardinality({thread})
    BY <2>1, <2>2, FS_Subset
  <2>4. QED
    BY <2>2, <2>3 DEF OneThreadServes, living
<1>4. QED
  BY <1>1, <1>2, <1>3, PTL DEF Spec

-----------------------------------------------------------------------------
(* A cancelled timer.                                                      *)

\* The queue changes in a pass that has met a task and in Enqueue, which a
\* cancelled timer refuses, and Clear empties it when the flag is reset.
LEMMA CancelledStep ==
    ASSUME CancelledTimerIsEmpty, [Next]_vars
    PROVE  CancelledTimerIsEmpty'
<1>1. ASSUME NEW t \in Tasks, NEW time \in Times, Sched(t, time)
      PROVE  CancelledTimerIsEmpty'
  BY <1>1 DEF Sched, CancelledTimerIsEmpty
<1>2. CASE UNCHANGED <<queue, newTasksMayBeScheduled>>
  BY <1>2 DEF CancelledTimerIsEmpty
<1>3. CASE Clear
  BY <1>3 DEF Clear, CancelledTimerIsEmpty
<1>4. ASSUME NEW w \in TimerThreads, ThreadStep(w) \/ Interrupt(w)
      PROVE  CancelledTimerIsEmpty'
  <2>1. CASE Look(w)
    <3>1. UNCHANGED newTasksMayBeScheduled
      BY <2>1 DEF Look
    <3>2. CASE MeetEmptyQueue(w)
      BY <1>2, <3>1, <3>2 DEF MeetEmptyQueue
    <3>3. CASE MeetTask(w)
      BY <3>1, <3>3 DEF MeetTask, CancelledTimerIsEmpty
    <3>4. QED
      BY <2>1, <3>2, <3>3 DEF Look
  <2>2. CASE ActAsCancelled(w)
    BY <1>3, <2>2 DEF ActAsCancelled
  <2>3. CASE RunEnds(w) \/ Die(w) \/ WaitTimesOut(w) \/ Interrupt(w)
    BY <1>2, <2>3 DEF RunEnds, Die, WaitTimesOut, Interrupt
  <2>4. QED
    BY <1>4, <2>1, <2>2, <2>3 DEF ThreadStep
<1>5. ASSUME NEW t \in Tasks, CancelTask(t)
      PROVE  CancelledTimerIsEmpty'
  BY <1>2, <1>5 DEF CancelTask
<1>6. ASSUME NEW d \in 0..MaxDeviation, SetUserClock(d)
      PROVE  CancelledTimerIsEmpty'
  BY <1>2, <1>6 DEF SetUserClock
<1>7. CASE Cancel
  BY <1>3, <1>7 DEF Cancel
<1>8. CASE Tick
  BY <1>2, <1>8 DEF Tick
<1>9. CASE UNCHANGED vars
  BY <1>2, <1>9 DEF vars
<1>10. QED
  BY <1>1, <1>4, <1>5, <1>6, <1>7, <1>8, <1>9 DEF Next

\* After Timer.cancel, or after the timer thread has died of a Throwable, no
\* task is left to run and none is accepted.
THEOREM CancelledIsEmpty == Spec => []CancelledTimerIsEmpty
<1>1. Init => CancelledTimerIsEmpty
  BY DEF Init, CancelledTimerIsEmpty
<1>2. CancelledTimerIsEmpty /\ [Next]_vars => CancelledTimerIsEmpty'
  BY CancelledStep
<1>3. QED
  BY <1>1, <1>2, PTL DEF Spec

-----------------------------------------------------------------------------
(* Induction, and functions defined by recursion.                          *)

\* A set of natural numbers that is not empty has a least element.
LEMMA LeastNumber ==
    ASSUME NEW T, T \subseteq Nat, T # {}
    PROVE  \E x \in T : \A y \in T : x <= y
<1> DEFINE R == OpToRel(<, Nat)
<1>1. IsWellFoundedOn(R, Nat)
  BY NatLessThanWellFounded
<1>2. \A x, y \in Nat : y < x => <<y, x>> \in R
  BY DEF OpToRel
<1> HIDE DEF R
<1>3. PICK x \in T : \A y \in T : ~(<<y, x>> \in R)
  BY <1>1, WFMin
<1>4. \A y \in T : ~(y < x)
  BY <1>2, <1>3
<1>5. QED
  BY <1>4

\* Induction over a measure: what holds of an element when it holds of all
\* that measure less holds of every element.
LEMMA MeasureInduction ==
    ASSUME NEW D, NEW m \in [D -> Nat], NEW Good,
           \A p \in D : (\A q \in D : m[q] < m[p] => q \in Good) => p \in Good
    PROVE  D \subseteq Good
<1> SUFFICES ASSUME NEW q \in D, q \notin Good
             PROVE  FALSE
  OBVIOUS
<1> DEFINE T == {m[p] : p \in D \ Good}
<1>0. T \subseteq Nat /\ T # {}
  OBVIOUS
<1>1. PICK x \in T : \A y \in T : x <= y
  <2> HIDE DEF T
  <2>1. QED
    BY <1>0, LeastNumber
<1>2. PICK p \in D \ Good : x = m[p]
  BY <1>1
<1>3. \A r \in D : m[r] < m[p] => r \in Good
  <2> SUFFICES ASSUME NEW r \in D, r \notin Good, m[r] < m[p]
               PROVE  FALSE
    OBVIOUS
  <2>1. m[r] \in T
    OBVIOUS
  <2>2. QED
    BY <1>1, <1>2, <2>1
<1>4. QED
  BY <1>2, <1>3

\* Outside Stop a step from p leads to next[p], which measures less.
Descends(D, m, N, Stop, next) ==
    /\ N \in Nat
    /\ m \in [D -> 0..N]
    /\ \A p \in D : p \notin Stop => next[p] \in D /\ m[next[p]] < m[p]

\* f is defined by recursion: A where Stop holds, and elsewhere B of f at the next argument.
Recurs(f, D, Stop, next, A, B) ==
    \A p \in D : f[p] = IF p \in Stop THEN A[p] ELSE B[<<f[next[p]], p>>]

\* A function whose value at p refers to its value at next[p] only exists when
\* next[p] measures less.
LEMMA RecursionIsDefined ==
    ASSUME NEW D, NEW V, NEW m, NEW N, NEW Stop, NEW next, NEW A, NEW B,
           Descends(D, m, N, Stop, next), A \in [D -> V], B \in [V \X D -> V]
    PROVE  \E f \in [D -> V] : Recurs(f, D, Stop, next, A, B)
<1>0. /\ N \in Nat
      /\ m \in [D -> Nat] /\ \A p \in D : m[p] <= N
      /\ \A p \in D : p \notin Stop => next[p] \in D /\ m[next[p]] < m[p]
  BY DEF Descends
<1> DEFINE Solves(f, p) ==
              f[p] = IF p \in Stop THEN A[p] ELSE B[<<f[next[p]], p>>]
           Partly(n) == \E f \in [D -> V] : \A p \in D : m[p] < n => Solves(f, p)
<1>1. \A n \in Nat : n \in {i \in Nat : Partly(i)}
  <2> DEFINE S == {i \in Nat : Partly(i)}
             id == [i \in Nat |-> i]
  <2>1. 0 \in S
    <3>1. \A p \in D : ~(m[p] < 0)
      BY <1>0
    <3>2. QED
      BY <3>1
  <2>2. ASSUME NEW n \in Nat, n \in S
        PROVE  n + 1 \in S
    <3>1. PICK f \in [D -> V] : \A p \in D : m[p] < n => Solves(f, p)
      BY <2>2
    <3> DEFINE g == [p \in D |-> IF p \in Stop THEN A[p]
                                 ELSE B[<<f[next[p]], p>>]]
    <3>2. g \in [D -> V]
      BY <1>0
    <3>3. ASSUME NEW p \in D, m[p] < n + 1, p \notin Stop
          PROVE  g[next[p]] = f[next[p]]
      <4>1. next[p] \in D /\ m[next[p]] < n
        BY <1>0, <3>3
      <4>2. QED
        BY <3>1, <4>1
    <3>4. \A p \in D : m[p] < n + 1 => Solves(g, p)
      BY <3>3
    <3> HIDE DEF g, Solves
    <3>5. QED
      BY <3>2, <3>4
  <2>3. ASSUME NEW n \in Nat, \A q \in Nat : q < n => q \in S
        PROVE  n \in S
    <3>1. CASE n = 0
      BY <2>1, <3>1
    <3>2. CASE n # 0
      <4>1. n - 1 \in Nat /\ n - 1 < n /\ n = (n - 1) + 1
        BY <3>2
      <4> HIDE DEF S
      <4>2. QED
        BY <2>2, <2>3, <4>1
    <3>3. QED
      BY <3>1, <3>2
  <2> HIDE DEF S
  <2>4. id \in [Nat -> Nat] /\ \A n \in Nat : id[n] = n
    OBVIOUS
  <2> HIDE DEF id
  <2>5. Nat \subseteq S
    BY <2>3, <2>4, MeasureInduction
  <2>6. QED
    BY <2>5 DEF S
<1>2. N + 1 \in Nat /\ \A p \in D : m[p] < N + 1
  BY <1>0
<1>3. PICK f \in [D -> V] : \A p \in D : m[p] < N + 1 => Solves(f, p)
  BY <1>1, <1>2
<1>4. QED
  BY <1>2, <1>3 DEF Recurs

\* f is the result of a loop: A where it is left, and elsewhere what the next turn yields.
Runs(f, D, Stop, next, A) ==
    \A p \in D : f[p] = IF p \in Stop THEN A[p] ELSE f[next[p]]

\* The same for a function that only calls itself, as a loop does.
LEMMA LoopIsDefined ==
    ASSUME NEW D, NEW V, NEW m, NEW N, NEW Stop, NEW next, NEW A,
           Descends(D, m, N, Stop, next), A \in [D -> V]
    PROVE  \E f \in [D -> V] : Runs(f, D, Stop, next, A)
<1> DEFINE B == [x \in V \X D |-> x[1]]
<1>1. B \in [V \X D -> V]
  OBVIOUS
<1>2. \A v \in V, p \in D : B[<<v, p>>] = v
  OBVIOUS
<1> HIDE DEF B
<1>3. PICK f \in [D -> V] : Recurs(f, D, Stop, next, A, B)
  BY <1>1, RecursionIsDefined
<1>4. \A p \in D : p \notin Stop => f[next[p]] \in V
  BY DEF Descends
<1>5. \A p \in D : p \notin Stop => B[<<f[next[p]], p>>] = f[next[p]]
  BY <1>2, <1>4
<1>6. QED
  BY <1>3, <1>5 DEF Recurs, Runs

\* A loop that starts in a set it does not leave ends in that set.
LEMMA LoopEnds ==
    ASSUME NEW D, NEW m, NEW N, NEW Stop, NEW next, NEW A, NEW f,
           Descends(D, m, N, Stop, next), Runs(f, D, Stop, next, A),
           NEW Inv, Inv \subseteq D,
           \A p \in Inv : p \notin Stop => next[p] \in Inv,
           NEW start \in Inv
    PROVE  \E p \in Inv : p \in Stop /\ f[start] = A[p]
<1> DEFINE Good == {p \in Inv : \E q \in Inv : q \in Stop /\ f[p] = A[q]}
<1>1. m \in [D -> Nat]
  BY DEF Descends
<1> DEFINE mInv == [p \in Inv |-> m[p]]
<1>2. mInv \in [Inv -> Nat]
  BY <1>1
<1>3. ASSUME NEW p \in Inv, \A q \in Inv : mInv[q] < mInv[p] => q \in Good
      PROVE  p \in Good
  <2>1. CASE p \in Stop
    BY <2>1 DEF Runs
  <2>2. CASE p \notin Stop
    <3>1. next[p] \in Inv /\ m[next[p]] < m[p] /\ f[p] = f[next[p]]
      BY <2>2 DEF Descends, Runs
    <3>2. next[p] \in Good
      BY <1>3, <3>1
    <3>3. QED
      BY <3>1, <3>2
  <2>3. QED
    BY <2>1, <2>2
<1> HIDE DEF Good, mInv
<1>4. Inv \subseteq Good
  BY <1>2, <1>3, MeasureInduction
<1>5. QED
  BY <1>4 DEF Good

-----------------------------------------------------------------------------
(* The loops of the heap.                                                  *)

\* The heaps of n tasks.
Heaps(n) == [1..n -> Tasks]

\* A heap seen as a queue.
LEMMA HeapAsQueue ==
    ASSUME NEW n \in Nat, NEW h \in Heaps(n)
    PROVE  /\ h \in Seq(Tasks)
           /\ Len(h) = n
BY SeqDef DEF Heaps

\* When t is due.
Due(tasks, t) == tasks[t].nextExecutionTime

\* The loop of fixUp is left at node k.
UpStops(tasks, h, k) == k <= 1 \/ Due(tasks, h[k \div 2]) <= Due(tasks, h[k])

\* A swap yields a heap.
LEMMA SwapType ==
    ASSUME NEW n \in Nat, NEW h \in Heaps(n), NEW i \in 1..n, NEW j \in 1..n
    PROVE  Swap(h, i, j) \in Heaps(n)
BY DEF Heaps, Swap

\* Each turn of the loop of fixUp leads from Inv into Inv.
KeptByPromotion(tasks, n, Inv) ==
    /\ Inv \subseteq Heaps(n) \X (1..n)
    /\ \A h \in Heaps(n), k \in 1..n :
          <<h, k>> \in Inv /\ ~UpStops(tasks, h, k)
             => <<Swap(h, k \div 2, k), k \div 2>> \in Inv

\* h is a heap with which a loop of fixUp that keeps Inv may end.
PromotionEnds(tasks, n, Inv, h) ==
    /\ h \in Heaps(n)
    /\ \E k \in 1..n : <<h, k>> \in Inv /\ UpStops(tasks, h, k)

\* fixUp ends at a node where its loop stops, with what holds before the loop
\* and after each turn.
LEMMA FixUpEnds ==
    ASSUME NEW tasks, NEW n \in Nat, NEW heap \in Heaps(n), Len(heap) = n,
           NEW node \in 1..n,
           NEW Inv, KeptByPromotion(tasks, n, Inv), <<heap, node>> \in Inv
    PROVE  PromotionEnds(tasks, n, Inv, FixUp(tasks, heap, node))
<1> DEFINE D == Heaps(n) \X (1..n)
           Is(f) == f = [at \in D |->
                           IF UpStops(tasks, at[1], at[2]) THEN at[1]
                           ELSE f[<<Swap(at[1], at[2] \div 2, at[2]), at[2] \div 2>>]]
           m == [at \in D |-> at[2]]
           Stop == {at \in D : UpStops(tasks, at[1], at[2])}
           next == [at \in D |-> <<Swap(at[1], at[2] \div 2, at[2]), at[2] \div 2>>]
           A == [at \in D |-> at[1]]
<1>1. Descends(D, m, n, Stop, next)
  <2>1. m \in [D -> 0..n]
    OBVIOUS
  <2>2. ASSUME NEW at \in D, at \notin Stop
        PROVE  next[at] \in D /\ m[next[at]] < m[at]
    <3>1. PICK h \in Heaps(n), k \in 1..n : at = <<h, k>>
      OBVIOUS
    <3>2. k > 1
      BY <2>2, <3>1 DEF UpStops
    <3>3. k \div 2 \in 1..n /\ k \div 2 < k
      BY <3>2
    <3>4. next[at] = <<Swap(h, k \div 2, k), k \div 2>>
      BY <3>1
    <3>5. next[at] \in D
      BY <3>3, <3>4, SwapType
    <3>6. m[next[at]] = k \div 2 /\ m[at] = k
      BY <3>1, <3>4, <3>5
    <3>7. QED
      BY <3>3, <3>5, <3>6
  <2> HIDE DEF D, m, Stop, next
  <2>3. QED
    BY <2>1, <2>2 DEF Descends
<1>2. \E f : Is(f)
  <2>1. A \in [D -> Heaps(n)]
    OBVIOUS
  <2>2. PICK f \in [D -> Heaps(n)] : Runs(f, D, Stop, next, A)
    <3> HIDE DEF D, m, Stop, next, A
    <3>1. QED
      BY <1>1, <2>1, LoopIsDefined
  <2>3. \A p \in D : f[p] = IF UpStops(tasks, p[1], p[2]) THEN p[1]
                            ELSE f[<<Swap(p[1], p[2] \div 2, p[2]), p[2] \div 2>>]
    BY <2>2 DEF Runs
  <2>4. QED
    BY <2>3
<1> DEFINE up == CHOOSE f : Is(f)
<1>3. Is(up)
  <2> HIDE DEF Is
  <2>1. QED
    BY <1>2
<1>4. FixUp(tasks, heap, node) = up[<<heap, node>>]
  BY DEF FixUp, UpStops, Due, Heaps
<1> HIDE DEF up
<1>5. Runs(up, D, Stop, next, A)
  BY <1>3 DEF Runs
<1>6. \A p \in Inv : p \notin Stop => next[p] \in Inv
  BY DEF KeptByPromotion
<1>7. \E p \in Inv : p \in Stop /\ up[<<heap, node>>] = A[p]
  <2> HIDE DEF D, m, Stop, next, A
  <2>1. Inv \subseteq D
    BY DEF D, KeptByPromotion
  <2>2. QED
    BY <1>1, <1>5, <1>6, <2>1, LoopEnds
<1>8. QED
  BY <1>4, <1>7 DEF KeptByPromotion, PromotionEnds

\* The nodes of a heap; node k has the children 2k and 2k+1.
Nodes == Nat \ {0}

\* The child of node k that is due first.
Smallest(tasks, n, h, k) ==
    IF 2*k < n /\ Due(tasks, h[2*k]) > Due(tasks, h[2*k + 1])
    THEN 2*k + 1 ELSE 2*k

\* The loop of fixDown is left at node k.
DownStops(tasks, n, h, k) ==
    2*k > n \/ Due(tasks, h[k]) <= Due(tasks, h[Smallest(tasks, n, h, k)])

\* Each turn of the loop of fixDown leads from Inv into Inv.
KeptByDemotion(tasks, n, Inv) ==
    /\ Inv \subseteq Heaps(n) \X Nodes
    /\ \A h \in Heaps(n), k \in Nodes :
          <<h, k>> \in Inv /\ ~DownStops(tasks, n, h, k)
             => LET s == Smallest(tasks, n, h, k)
                IN  <<Swap(h, k, s), s>> \in Inv

\* h is a heap with which a loop of fixDown that keeps Inv may end.
DemotionEnds(tasks, n, Inv, h) ==
    /\ h \in Heaps(n)
    /\ \E k \in Nodes : <<h, k>> \in Inv /\ DownStops(tasks, n, h, k)

\* fixDown ends at a node where its loop stops, with what holds before the loop
\* and after each turn.
LEMMA FixDownEnds ==
    ASSUME NEW tasks, NEW n \in Nat, NEW heap \in Heaps(n), Len(heap) = n,
           NEW node \in Nodes,
           NEW Inv, KeptByDemotion(tasks, n, Inv), <<heap, node>> \in Inv
    PROVE  DemotionEnds(tasks, n, Inv, FixDown(tasks, heap, node))
<1> DEFINE D == Heaps(n) \X Nodes
           s(at) == Smallest(tasks, n, at[1], at[2])
           Is(f) == f = [at \in D |->
                           IF DownStops(tasks, n, at[1], at[2]) THEN at[1]
                           ELSE f[<<Swap(at[1], at[2], s(at)), s(at)>>]]
           m == [at \in D |-> IF at[2] <= n THEN n - at[2] ELSE 0]
           Stop == {at \in D : DownStops(tasks, n, at[1], at[2])}
           next == [at \in D |-> <<Swap(at[1], at[2], s(at)), s(at)>>]
           A == [at \in D |-> at[1]]
<1>1. Descends(D, m, n, Stop, next)
  <2>1. m \in [D -> 0..n]
    BY DEF Nodes
  <2>2. ASSUME NEW at \in D, at \notin Stop
        PROVE  next[at] \in D /\ m[next[at]] < m[at]
    <3>1. PICK h \in Heaps(n), k \in Nodes : at = <<h, k>>
      OBVIOUS
    <3>2. k \in 1..n /\ 2*k <= n
      BY <2>2, <3>1 DEF DownStops, Nodes
    <3>3. s(at) \in 1..n /\ s(at) > k /\ s(at) \in Nodes
      BY <3>1, <3>2 DEF Smallest, Nodes
    <3>4. next[at] = <<Swap(h, k, s(at)), s(at)>>
      BY <3>1
    <3> HIDE DEF s
    <3>5. next[at] \in D
      BY <3>2, <3>3, <3>4, SwapType
    <3>6. m[next[at]] = n - s(at) /\ m[at] = n - k
      BY <3>1, <3>2, <3>3, <3>4, <3>5
    <3>7. QED
      BY <3>2, <3>3, <3>5, <3>6
  <2> HIDE DEF D, m, Stop, next
  <2>3. QED
    BY <2>1, <2>2 DEF Descends
<1>2. \E f : Is(f)
  <2>1. A \in [D -> Heaps(n)]
    OBVIOUS
  <2>2. PICK f \in [D -> Heaps(n)] : Runs(f, D, Stop, next, A)
    <3> HIDE DEF D, m, Stop, next, A
    <3>1. QED
      BY <1>1, <2>1, LoopIsDefined
  <2>3. \A p \in D : f[p] = IF DownStops(tasks, n, p[1], p[2]) THEN p[1]
                            ELSE f[<<Swap(p[1], p[2], s(p)), s(p)>>]
    BY <2>2 DEF Runs
  <2>4. QED
    BY <2>3
<1> DEFINE down == CHOOSE f : Is(f)
<1>3. Is(down)
  <2> HIDE DEF Is
  <2>1. QED
    BY <1>2
<1>4. FixDown(tasks, heap, node) = down[<<heap, node>>]
  BY DEF FixDown, DownStops, Smallest, Due, Heaps, Nodes
<1> HIDE DEF down
<1>5. Runs(down, D, Stop, next, A)
  BY <1>3 DEF Runs
<1>6. \A p \in Inv : p \notin Stop => next[p] \in Inv
  BY DEF KeptByDemotion
<1>7. \E p \in Inv : p \in Stop /\ down[<<heap, node>>] = A[p]
  <2> HIDE DEF D, m, Stop, next, A
  <2>1. Inv \subseteq D
    BY DEF D, KeptByDemotion
  <2>2. QED
    BY <1>1, <1>5, <1>6, <2>1, LoopEnds
<1>8. QED
  BY <1>4, <1>7 DEF KeptByDemotion, DemotionEnds

-----------------------------------------------------------------------------
(* What the loops do.                                                      *)

\* The times at which the tasks are due are numbers.
Timed(tasks) == \A t \in Tasks : Due(tasks, t) \in Int

\* The task at node i is due no earlier than its parent.
InOrder(tasks, h, i) == Due(tasks, h[i \div 2]) <= Due(tasks, h[i])

\* No task is at two nodes.
NoneTwice(n, h) == \A i, j \in 1..n : h[i] = h[j] => i = j

\* g holds the tasks of h, at other nodes.
Rearranged(n, h, g) ==
    /\ \A i \in 1..n : \E j \in 1..n : g[i] = h[j]
    /\ \A i \in 1..n : \E j \in 1..n : h[i] = g[j]
    /\ NoneTwice(n, h) => NoneTwice(n, g)

\* What a swap leaves at each node.
LEMMA SwapNodes ==
    ASSUME NEW n \in Nat, NEW h \in Heaps(n), NEW i \in 1..n, NEW j \in 1..n
    PROVE  /\ Swap(h, i, j) \in Heaps(n)
           /\ Swap(h, i, j)[i] = h[j]
           /\ Swap(h, i, j)[j] = h[i]
           /\ \A k \in 1..n : k # i /\ k # j => Swap(h, i, j)[k] = h[k]
BY DEF Heaps, Swap

\* A swap keeps the tasks.
LEMMA SwapRearranges ==
    ASSUME NEW n \in Nat, NEW h0 \in Heaps(n), NEW h \in Heaps(n),
           Rearranged(n, h0, h), NEW i \in 1..n, NEW j \in 1..n
    PROVE  Rearranged(n, h0, Swap(h, i, j))
<1> DEFINE g == Swap(h, i, j)
<1>1. /\ g[i] = h[j] /\ g[j] = h[i]
      /\ \A k \in 1..n : k # i /\ k # j => g[k] = h[k]
  BY SwapNodes
<1> HIDE DEF g
<1>2. \A k \in 1..n : \E l \in 1..n : g[k] = h[l]
  BY <1>1
<1>3. \A k \in 1..n : \E l \in 1..n : h[k] = g[l]
  BY <1>1
<1>4. NoneTwice(n, h) => NoneTwice(n, g)
  BY <1>1 DEF NoneTwice
<1>5. \A k \in 1..n : \E l \in 1..n : g[k] = h0[l]
  BY <1>2 DEF Rearranged
<1>6. \A k \in 1..n : \E l \in 1..n : h0[k] = g[l]
  BY <1>3 DEF Rearranged
<1>7. Rearranged(n, h0, g)
  BY <1>4, <1>5, <1>6 DEF Rearranged
<1>8. QED
  BY <1>7 DEF g

\* fixUp moves tasks whatever the heap is like; only its own may become first.
LEMMA FixUpMoves ==
    ASSUME NEW tasks, NEW n \in Nat, NEW heap \in Heaps(n), NEW node \in 1..n
    PROVE  LET g == FixUp(tasks, heap, node)
           IN  /\ g \in Heaps(n)
               /\ Rearranged(n, heap, g)
               /\ g[1] \in {heap[1], heap[node]}
<1> DEFINE Loop(h, k) == /\ Rearranged(n, heap, h)
                         /\ h[k] = heap[node]
                         /\ h[1] = heap[1] \/ k = 1
           Inv == {at \in Heaps(n) \X (1..n) : Loop(at[1], at[2])}
<1>1. Loop(heap, node)
  BY DEF Rearranged
<1>2. ASSUME NEW h \in Heaps(n), NEW k \in 1..n, Loop(h, k),
             ~UpStops(tasks, h, k)
      PROVE  <<Swap(h, k \div 2, k), k \div 2>> \in Inv
  <2> DEFINE p == k \div 2
             g == Swap(h, p, k)
  <2>1. k # 1 /\ p \in 1..n /\ 1 \in 1..n
    BY <1>2 DEF UpStops
  <2> HIDE DEF p
  <2>2. /\ g \in Heaps(n) /\ g[p] = h[k]
        /\ \A i \in 1..n : i # p /\ i # k => g[i] = h[i]
    BY <2>1, SwapNodes
  <2>3. Rearranged(n, heap, g)
    BY <1>2, <2>1, SwapRearranges
  <2> HIDE DEF g
  <2>4. Loop(g, p)
    BY <1>2, <2>1, <2>2, <2>3
  <2>5. QED
    BY <2>1, <2>2, <2>4 DEF g, p
<1> DEFINE g == FixUp(tasks, heap, node)
<1>3. PromotionEnds(tasks, n, Inv, g)
  <2>1. <<heap, node>> \in Inv /\ Inv \subseteq Heaps(n) \X (1..n)
    BY <1>1
  <2>2. \A h \in Heaps(n), k \in 1..n : <<h, k>> \in Inv => Loop(h, k)
    OBVIOUS
  <2> HIDE DEF Inv, Loop
  <2>3. KeptByPromotion(tasks, n, Inv)
    BY <1>2, <2>1, <2>2 DEF KeptByPromotion
  <2>4. QED
    BY <2>1, <2>3, HeapAsQueue, FixUpEnds
<1> HIDE DEF g
<1>4. g \in Heaps(n) /\ \E k \in 1..n : Loop(g, k)
  BY <1>3 DEF PromotionEnds
<1>5. QED
  BY <1>4 DEF g

\* So does fixDown.
LEMMA FixDownMoves ==
    ASSUME NEW tasks, NEW n \in Nat, NEW heap \in Heaps(n), NEW node \in Nodes
    PROVE  LET g == FixDown(tasks, heap, node)
           IN  g \in Heaps(n) /\ Rearranged(n, heap, g)
<1> DEFINE Inv == {at \in Heaps(n) \X Nodes : Rearranged(n, heap, at[1])}
<1>1. <<heap, node>> \in Inv /\ Inv \subseteq Heaps(n) \X Nodes
  BY DEF Rearranged
<1>2. ASSUME NEW h \in Heaps(n), NEW k \in Nodes, Rearranged(n, heap, h),
             ~DownStops(tasks, n, h, k),
             NEW s, s = Smallest(tasks, n, h, k)
      PROVE  <<Swap(h, k, s), s>> \in Inv
  <2>1. k \in 1..n /\ s \in 1..n /\ s \in Nodes
    BY <1>2 DEF DownStops, Nodes, Smallest
  <2>2. QED
    BY <1>2, <2>1, SwapType, SwapRearranges
<1> DEFINE g == FixDown(tasks, heap, node)
<1>3. DemotionEnds(tasks, n, Inv, g)
  <2>1. \A h \in Heaps(n), k \in Nodes : <<h, k>> \in Inv => Rearranged(n, heap, h)
    OBVIOUS
  <2> HIDE DEF Inv
  <2>2. KeptByDemotion(tasks, n, Inv)
    BY <1>1, <1>2, <2>1 DEF KeptByDemotion
  <2>3. QED
    BY <1>1, <2>2, HeapAsQueue, FixDownEnds
<1> HIDE DEF g
<1>4. g \in Heaps(n) /\ Rearranged(n, heap, g)
  BY <1>3 DEF DemotionEnds
<1>5. QED
  BY <1>4 DEF g

\* fixUp leaves a heap alone when its task is due no earlier than its parent.
LEMMA FixUpStays ==
    ASSUME NEW tasks, NEW n \in Nat, NEW heap \in Heaps(n), NEW node \in 1..n,
           UpStops(tasks, heap, node)
    PROVE  FixUp(tasks, heap, node) = heap
<1> DEFINE Inv == {<<heap, node>>}
<1>1. KeptByPromotion(tasks, n, Inv)
  BY DEF KeptByPromotion
<1>2. PromotionEnds(tasks, n, Inv, FixUp(tasks, heap, node))
  <2> HIDE DEF Inv
  <2>1. <<heap, node>> \in Inv
    BY DEF Inv
  <2>2. QED
    BY <1>1, <2>1, HeapAsQueue, FixUpEnds
<1>3. QED
  BY <1>2 DEF PromotionEnds

\* fixDown leaves it alone when its task is due no later than its children.
LEMMA FixDownStays ==
    ASSUME NEW tasks, NEW n \in Nat, NEW heap \in Heaps(n), NEW node \in Nodes,
           DownStops(tasks, n, heap, node)
    PROVE  FixDown(tasks, heap, node) = heap
<1> DEFINE Inv == {<<heap, node>>}
<1>1. KeptByDemotion(tasks, n, Inv)
  BY DEF KeptByDemotion
<1>2. DemotionEnds(tasks, n, Inv, FixDown(tasks, heap, node))
  <2> HIDE DEF Inv
  <2>1. <<heap, node>> \in Inv
    BY DEF Inv
  <2>2. QED
    BY <1>1, <2>1, HeapAsQueue, FixDownEnds
<1>3. QED
  BY <1>2 DEF DemotionEnds

\* fixUp puts the tasks of nodes 1 to node in order when all but the last are.
LEMMA FixUpPromotes ==
    ASSUME NEW tasks, Timed(tasks), NEW n \in Nat, NEW heap \in Heaps(n),
           Len(heap) = n, NEW node \in 1..n,
           \A i \in 2..node - 1 : InOrder(tasks, heap, i)
    PROVE  LET g == FixUp(tasks, heap, node)
           IN  /\ g \in Heaps(n)
               /\ \A i \in 2..node : InOrder(tasks, g, i)
<1> DEFINE Loop(h, k) ==
              /\ k <= node
              /\ \A i \in 2..node : i # k => InOrder(tasks, h, i)
              /\ k >= 2 => \A i \in 2..node : i \div 2 = k =>
                              Due(tasks, h[k \div 2]) <= Due(tasks, h[i])
           Inv == {at \in Heaps(n) \X (1..n) : Loop(at[1], at[2])}
<1>1. Loop(heap, node)
  OBVIOUS
<1>2. ASSUME NEW h \in Heaps(n), NEW k \in 1..n, Loop(h, k),
             ~UpStops(tasks, h, k)
      PROVE  Loop(Swap(h, k \div 2, k), k \div 2)
  <2> DEFINE p == k \div 2
             g == Swap(h, p, k)
             due(i) == Due(tasks, h[i])
  <2>1. k >= 2 /\ k <= node /\ p \in 1..n /\ p < k
    BY <1>2 DEF UpStops
  <2>2. \A i \in 1..n : due(i) \in Int
    BY DEF Timed, Heaps
  <2>3. due(p) > due(k)
    BY <1>2, <2>1, <2>2 DEF UpStops
  <2>4. /\ g \in Heaps(n) /\ g[p] = h[k] /\ g[k] = h[p]
        /\ \A i \in 1..n : i # p /\ i # k => g[i] = h[i]
    <3> HIDE DEF p
    <3>1. QED
      BY <2>1, SwapNodes
  <2>6. ASSUME NEW i \in 2..node, i # k
        PROVE  due(i \div 2) <= due(i)
    BY <1>2, <2>6 DEF InOrder
  <2>7. ASSUME NEW i \in 2..node, i \div 2 = k
        PROVE  due(p) <= due(i)
    BY <1>2, <2>1, <2>7
  <2> HIDE DEF g
  <2>8. ASSUME NEW i \in 2..node, i # p
        PROVE  InOrder(tasks, g, i)
    <3>1. i \in 1..n /\ i \div 2 \in 1..n /\ i \div 2 < i
      OBVIOUS
    <3>2. CASE i = k
      BY <2>2, <2>3, <2>4, <3>2, <2>1 DEF InOrder
    <3>3. CASE i # k /\ i \div 2 = p
      <4>1. g[i] = h[i] /\ g[i \div 2] = h[k]
        BY <2>4, <2>8, <3>1, <3>3
      <4>2. due(p) <= due(i)
        BY <2>6, <3>3
      <4>3. QED
        BY <2>1, <2>2, <2>3, <3>1, <4>1, <4>2 DEF InOrder
    <3>4. CASE i # k /\ i \div 2 = k
      <4>1. g[i] = h[i] /\ g[i \div 2] = h[p]
        BY <2>4, <2>8, <3>1, <3>4
      <4>2. due(p) <= due(i)
        BY <2>7, <3>4
      <4>3. QED
        BY <4>1, <4>2 DEF InOrder
    <3>5. CASE i # k /\ i \div 2 # k /\ i \div 2 # p
      <4>1. g[i] = h[i] /\ g[i \div 2] = h[i \div 2]
        BY <2>4, <2>8, <3>1, <3>5
      <4>2. QED
        BY <2>6, <3>5, <4>1 DEF InOrder
    <3>6. QED
      BY <3>2, <3>3, <3>4, <3>5
  <2>9. ASSUME p >= 2, NEW i \in 2..node, i \div 2 = p
        PROVE  Due(tasks, g[p \div 2]) <= Due(tasks, g[i])
    <3>1. p \div 2 \in 1..n /\ p \div 2 < p /\ p \in 2..node
      BY <2>1, <2>9
    <3>2. g[p \div 2] = h[p \div 2]
      BY <2>1, <2>4, <3>1
    <3>3. due(p \div 2) <= due(p)
      BY <2>1, <2>6, <3>1
    <3>4. CASE i = k
      BY <2>4, <3>2, <3>3, <3>4
    <3>5. CASE i # k
      <4>1. g[i] = h[i]
        BY <2>1, <2>4, <2>9, <3>5
      <4>2. due(p) <= due(i)
        BY <2>6, <2>9, <3>5
      <4>3. i \in 1..n
        OBVIOUS
      <4>4. QED
        BY <2>1, <2>2, <3>1, <3>2, <3>3, <4>1, <4>2, <4>3
    <3>6. QED
      BY <3>4, <3>5
  <2>10. p <= node
    BY <2>1
  <2>11. Loop(g, p)
    <3> HIDE DEF p
    <3>1. QED
      BY <2>8, <2>9, <2>10
  <2>12. QED
    BY <2>11 DEF g
<1> DEFINE g == FixUp(tasks, heap, node)
<1>3. PromotionEnds(tasks, n, Inv, g)
  <2> HIDE DEF Loop
  <2>1. Inv \subseteq Heaps(n) \X (1..n) /\ <<heap, node>> \in Inv
    BY <1>1
  <2>2. ASSUME NEW h \in Heaps(n), NEW k \in 1..n,
               <<h, k>> \in Inv, ~UpStops(tasks, h, k)
        PROVE  <<Swap(h, k \div 2, k), k \div 2>> \in Inv
    <3>1. k \div 2 \in 1..n
      BY <2>2 DEF UpStops
    <3>2. QED
      BY <1>2, <2>2, <3>1, SwapNodes
  <2> HIDE DEF Inv
  <2>3. KeptByPromotion(tasks, n, Inv)
    BY <2>1, <2>2 DEF KeptByPromotion
  <2>4. QED
    BY <2>1, <2>3, FixUpEnds
<1> HIDE DEF g
<1>4. g \in Heaps(n) /\ \E k \in 1..n : Loop(g, k) /\ UpStops(tasks, g, k)
  BY <1>3 DEF PromotionEnds
<1>5. \A i \in 2..node : InOrder(tasks, g, i)
  BY <1>4 DEF UpStops, InOrder
<1>6. QED
  BY <1>4, <1>5 DEF g

\* fixDown puts the subtree at node in order when all of it but node is.
LEMMA FixDownDemotes ==
    ASSUME NEW tasks, Timed(tasks), NEW n \in Nat, NEW heap \in Heaps(n),
           Len(heap) = n, NEW node \in Nodes,
           \A i \in 2..n : i \div 2 > node => InOrder(tasks, heap, i)
    PROVE  LET g == FixDown(tasks, heap, node)
           IN  /\ g \in Heaps(n)
               /\ \A i \in 2..n : i \div 2 >= node => InOrder(tasks, g, i)
<1> DEFINE Loop(h, k) ==
              /\ k >= node
              /\ \A i \in 2..n : i \div 2 >= node /\ i \div 2 # k
                                => InOrder(tasks, h, i)
              /\ k \div 2 >= node =>
                    \A i \in 2..n : i \div 2 = k =>
                       Due(tasks, h[k \div 2]) <= Due(tasks, h[i])
           Inv == {at \in Heaps(n) \X Nodes : Loop(at[1], at[2])}
<1>1. Loop(heap, node)
  BY DEF Nodes
<1>2. ASSUME NEW h \in Heaps(n), NEW k \in Nodes, Loop(h, k),
             ~DownStops(tasks, n, h, k),
             NEW s, s = Smallest(tasks, n, h, k)
      PROVE  Loop(Swap(h, k, s), s) /\ s \in Nodes /\ Swap(h, k, s) \in Heaps(n)
  <2> DEFINE g == Swap(h, k, s)
             due(i) == Due(tasks, h[i])
  <2>1. /\ k \in 1..n /\ k >= node
        /\ s \in 1..n /\ s \in Nodes /\ s \in 2..n /\ s \div 2 = k /\ s > k
    BY <1>2 DEF DownStops, Nodes, Smallest
  <2>2. \A i \in 1..n : due(i) \in Int
    BY DEF Timed, Heaps
  <2>3. due(k) > due(s)
    BY <1>2, <2>1, <2>2 DEF DownStops
  <2>4. \A i \in 2..n : i \div 2 = k => due(s) <= due(i)
    <3>1. SUFFICES ASSUME NEW i \in 2..n, i \div 2 = k
                   PROVE  due(s) <= due(i)
      OBVIOUS
    <3>2. i = 2*k \/ i = 2*k + 1
      BY <3>1 DEF Nodes
    <3>3. CASE i = 2*k
      <4>1. s = i \/ (s = 2*k + 1 /\ due(i) > due(s))
        BY <1>2, <3>3 DEF Smallest
      <4>2. i \in 1..n /\ due(i) \in Int /\ due(s) \in Int
        BY <2>1, <2>2
      <4>3. QED
        BY <4>1, <4>2
    <3>4. CASE i = 2*k + 1
      <4>1. i \in 1..n /\ 2*k \in 1..n /\ 2*k < n
        BY <3>4, <2>1
      <4>2. s = i \/ (s = 2*k /\ ~(due(2*k) > due(i)))
        BY <1>2, <3>4, <4>1 DEF Smallest
      <4>3. due(i) \in Int /\ due(2*k) \in Int
        BY <4>1, <2>2
      <4>4. QED
        BY <4>2, <4>3
    <3>5. QED
      BY <3>2, <3>3, <3>4
  <2>5. /\ g \in Heaps(n) /\ g[k] = h[s] /\ g[s] = h[k]
        /\ \A i \in 1..n : i # k /\ i # s => g[i] = h[i]
    <3>1. k \in 1..n /\ s \in 1..n
      BY <2>1
    <3>2. QED
      BY <3>1, SwapNodes
  <2>7. ASSUME NEW i \in 2..n, i \div 2 >= node, i \div 2 # k
        PROVE  due(i \div 2) <= due(i)
    BY <1>2, <2>7 DEF InOrder
  <2>8. ASSUME NEW i \in 2..n, i \div 2 = k, k \div 2 >= node
        PROVE  due(k \div 2) <= due(i)
    BY <1>2, <2>8
  <2> HIDE DEF g
  <2>9. ASSUME NEW i \in 2..n, i \div 2 >= node, i \div 2 # s
        PROVE  InOrder(tasks, g, i)
    <3>1. i \in 1..n /\ i \div 2 \in 1..n /\ i \div 2 < i
      OBVIOUS
    <3>2. CASE i = s
      BY <2>1, <2>2, <2>3, <2>5, <3>2 DEF InOrder
    <3>3. CASE i # s /\ i \div 2 = k
      <4>1. g[i] = h[i] /\ g[i \div 2] = h[s]
        BY <2>5, <3>1, <3>3
      <4>2. QED
        BY <2>4, <3>3, <4>1 DEF InOrder
    <3>4. CASE i = k
      <4>1. g[i] = h[s] /\ g[i \div 2] = h[i \div 2]
        BY <2>1, <2>5, <3>1, <3>4
      <4>2. due(k \div 2) <= due(s)
        BY <2>1, <2>8, <2>9, <3>4
      <4>3. QED
        BY <3>4, <4>1, <4>2 DEF InOrder
    <3>5. CASE i # s /\ i # k /\ i \div 2 # k
      <4>1. g[i] = h[i] /\ g[i \div 2] = h[i \div 2]
        BY <2>5, <2>9, <3>1, <3>5
      <4>2. QED
        BY <2>7, <2>9, <3>5, <4>1 DEF InOrder
    <3>6. QED
      BY <3>2, <3>3, <3>4, <3>5
  <2>10. ASSUME s \div 2 >= node, NEW i \in 2..n, i \div 2 = s
         PROVE  Due(tasks, g[s \div 2]) <= Due(tasks, g[i])
    <3>1. i \in 1..n /\ i # k /\ i # s
      BY <2>1, <2>10
    <3>2. g[i] = h[i] /\ g[s \div 2] = h[s]
      BY <2>1, <2>5, <3>1
    <3>3. due(s) <= due(i)
      BY <2>1, <2>7, <2>10
    <3>4. QED
      BY <3>2, <3>3
  <2>11. s >= node
    BY <2>1 DEF Nodes
  <2>12. Loop(g, s)
    BY <2>9, <2>10, <2>11
  <2>13. QED
    BY <2>1, <2>5, <2>12 DEF g
<1> DEFINE g == FixDown(tasks, heap, node)
<1>3. DemotionEnds(tasks, n, Inv, g)
  <2> HIDE DEF Loop
  <2>1. Inv \subseteq Heaps(n) \X Nodes /\ <<heap, node>> \in Inv
    BY <1>1
  <2>2. ASSUME NEW h \in Heaps(n), NEW k \in Nodes,
               <<h, k>> \in Inv, ~DownStops(tasks, n, h, k)
        PROVE  LET s == Smallest(tasks, n, h, k)
               IN  <<Swap(h, k, s), s>> \in Inv
    BY <1>2, <2>2
  <2> HIDE DEF Inv
  <2>3. KeptByDemotion(tasks, n, Inv)
    BY <2>1, <2>2 DEF KeptByDemotion
  <2>4. QED
    BY <2>1, <2>3, FixDownEnds
<1> HIDE DEF g
<1>4. g \in Heaps(n) /\ \E k \in Nodes : Loop(g, k) /\ DownStops(tasks, n, g, k)
  BY <1>3 DEF DemotionEnds
<1>5. \A i \in 2..n : i \div 2 >= node => InOrder(tasks, g, i)
  <2>1. PICK k \in Nodes : Loop(g, k) /\ DownStops(tasks, n, g, k)
    BY <1>4
  <2>2. \A i \in 1..n : Due(tasks, g[i]) \in Int
    BY <1>4 DEF Timed, Heaps
  <2>3. ASSUME NEW i \in 2..n, i \div 2 = k
        PROVE  InOrder(tasks, g, i)
    <3>1. i = 2*k \/ i = 2*k + 1
      BY <2>3 DEF Nodes
    <3>2. k \in 1..n /\ i \in 1..n /\ 2*k \in 1..n
      BY <3>1 DEF Nodes
    <3> DEFINE s == Smallest(tasks, n, g, k)
    <3>3. Due(tasks, g[k]) <= Due(tasks, g[s])
      BY <2>1, <3>2 DEF DownStops
    <3>4. s \in 1..n /\ Due(tasks, g[s]) <= Due(tasks, g[i])
      <4>1. Due(tasks, g[i]) \in Int /\ Due(tasks, g[2*k]) \in Int
        BY <2>2, <3>2
      <4>2. CASE i = 2*k
        <5>1. 2*k < n => 2*k + 1 \in 1..n /\ Due(tasks, g[2*k + 1]) \in Int
          BY <2>2, <3>2
        <5>2. QED
          BY <3>2, <4>1, <4>2, <5>1 DEF Smallest
      <4>3. CASE i = 2*k + 1
        BY <3>2, <4>1, <4>3 DEF Smallest
      <4>4. QED
        BY <3>1, <4>2, <4>3
    <3> HIDE DEF s
    <3>5. QED
      BY <2>2, <2>3, <3>2, <3>3, <3>4 DEF InOrder
  <2>4. QED
    BY <2>1, <2>3
<1>6. QED
  BY <1>4, <1>5 DEF g

-----------------------------------------------------------------------------
(* The queue as a heap.                                                    *)

\* q holds the tasks of S, each of them once.
QueueOf(q, S) ==
    /\ q \in Seq(Tasks)
    /\ IsInjective(q)
    /\ ToSet(q) = S

\* No task of q is due before its parent.
Ordered(tasks, q) == \A i \in 2..Len(q) : InOrder(tasks, q, i)

\* A queue seen as a heap.
LEMMA QueueAsHeap ==
    ASSUME NEW q \in Seq(Tasks)
    PROVE  /\ Len(q) \in Nat
           /\ q \in Heaps(Len(q))
           /\ IsInjective(q) <=> NoneTwice(Len(q), q)
           /\ \A t : t \in ToSet(q) <=> \E i \in 1..Len(q) : t = q[i]
BY DEF Heaps, IsInjective, NoneTwice, ToSet

\* Tasks at other nodes are the same tasks.
LEMMA RearrangedMembers ==
    ASSUME NEW q \in Seq(Tasks), NEW h \in Heaps(Len(q)),
           Rearranged(Len(q), q, h)
    PROVE  /\ h \in Seq(Tasks) /\ Len(h) = Len(q)
           /\ ToSet(h) = ToSet(q)
           /\ IsInjective(q) => IsInjective(h)
<1>1. h \in Seq(Tasks) /\ Len(h) = Len(q)
  BY QueueAsHeap, HeapAsQueue
<1>2. ToSet(h) = ToSet(q)
  <2>1. \A u : u \in ToSet(q) <=> \E i \in 1..Len(q) : u = q[i]
    BY QueueAsHeap
  <2>2. \A u : u \in ToSet(h) <=> \E i \in 1..Len(q) : u = h[i]
    BY <1>1, QueueAsHeap
  <2>3. \A u : u \in ToSet(h) <=> u \in ToSet(q)
    BY <2>1, <2>2 DEF Rearranged
  <2>4. QED
    BY <2>3
<1>3. IsInjective(q) => IsInjective(h)
  BY <1>1, QueueAsHeap DEF Rearranged
<1>4. QED
  BY <1>1, <1>2, <1>3

\* No task of a heap is due before the first.
LEMMA FirstIsEarliest ==
    ASSUME NEW tasks, Timed(tasks), NEW q \in Seq(Tasks),
           Ordered(tasks, q)
    PROVE  \A i \in 1..Len(q) : Due(tasks, q[1]) <= Due(tasks, q[i])
<1> DEFINE D == 1..Len(q)
           m == [i \in D |-> i]
           Good == {i \in D : Due(tasks, q[1]) <= Due(tasks, q[i])}
<1>1. m \in [D -> Nat]
  OBVIOUS
<1>2. \A i \in D : Due(tasks, q[i]) \in Int
  BY DEF Timed
<1>3. ASSUME NEW i \in D, \A j \in D : m[j] < m[i] => j \in Good
      PROVE  i \in Good
  <2>1. CASE i = 1
    BY <1>2, <2>1
  <2>2. CASE i # 1
    <3>1. i \div 2 \in D /\ i \div 2 < i /\ i \in 2..Len(q) /\ 1 \in D
      BY <2>2
    <3>2. i \div 2 \in Good
      BY <1>3, <3>1
    <3>3. InOrder(tasks, q, i)
      BY <3>1 DEF Ordered
    <3>4. QED
      BY <1>2, <3>1, <3>2, <3>3 DEF InOrder
  <2>3. QED
    BY <2>1, <2>2
<1> HIDE DEF m, Good, D
<1>4. D \subseteq Good
  BY <1>1, <1>3, MeasureInduction
<1>5. QED
  BY <1>4 DEF Good, D

\* TaskQueue.add.
LEMMA AddKeeps ==
    ASSUME NEW tasks, NEW q, QueueOf(q, ToSet(q)),
           NEW t \in Tasks, t \notin ToSet(q)
    PROVE  LET g == FixUp(tasks, Append(q, t), Len(q) + 1)
           IN  /\ QueueOf(g, ToSet(q) \cup {t})
               /\ q # <<>> => g[1] \in {q[1], t}
               /\ Timed(tasks) /\ Ordered(tasks, q) => Ordered(tasks, g)
<1> DEFINE h == Append(q, t)
           n == Len(q) + 1
           g == FixUp(tasks, h, n)
<1>1. /\ q \in Seq(Tasks) /\ Len(q) \in Nat
      /\ h \in Seq(Tasks) /\ Len(h) = n /\ h[n] = t
      /\ \A i \in 1..Len(q) : h[i] = q[i]
  BY DEF QueueOf
<1> HIDE DEF h
<1>2. h \in Heaps(n) /\ n \in Nat /\ n \in 1..n
  BY <1>1, QueueAsHeap
<1>3. ToSet(h) = ToSet(q) \cup {t}
  <2>1. \A u : u \in ToSet(h) <=> \E i \in 1..n : u = h[i]
    BY <1>1, QueueAsHeap
  <2>2. \A u : u \in ToSet(q) <=> \E i \in 1..Len(q) : u = q[i]
    BY <1>1, QueueAsHeap
  <2>3. QED
    BY <1>1, <2>1, <2>2
<1>4. IsInjective(h)
  <2>1. \A i, j \in 1..Len(q) : q[i] = q[j] => i = j
    BY <1>1 DEF QueueOf, IsInjective
  <2>2. \A i \in 1..Len(q) : q[i] # t
    BY <1>1 DEF ToSet
  <2>3. QED
    BY <1>1, <2>1, <2>2 DEF IsInjective
<1>5. g \in Heaps(n) /\ Rearranged(n, h, g) /\ g[1] \in {h[1], h[n]}
  <2> HIDE DEF n
  <2>1. QED
    BY <1>2, FixUpMoves
<1>6. QueueOf(g, ToSet(q) \cup {t})
  <2> HIDE DEF g
  <2>1. QED
    BY <1>1, <1>3, <1>4, <1>5, RearrangedMembers DEF QueueOf
<1>7. q # <<>> => g[1] \in {q[1], t}
  <2>1. q # <<>> => 1 \in 1..Len(q)
    BY <1>1
  <2> HIDE DEF g
  <2>2. QED
    BY <1>1, <1>5, <2>1
<1>8. ASSUME Timed(tasks), Ordered(tasks, q)
      PROVE  Ordered(tasks, g)
  <2>1. \A i \in 2..n - 1 : InOrder(tasks, h, i)
    BY <1>1, <1>8 DEF Ordered, InOrder
  <2>2. \A i \in 2..n : InOrder(tasks, g, i)
    <3> HIDE DEF n
    <3>1. QED
      BY <1>1, <1>2, <1>8, <2>1, FixUpPromotes
  <2>3. Len(g) = n
    <3> HIDE DEF g, n
    <3>1. QED
      BY <1>2, <1>5, HeapAsQueue
  <2>4. QED
    BY <2>2, <2>3 DEF Ordered
<1>9. QED
  BY <1>6, <1>7, <1>8 DEF g, h

\* fixDown(1) puts a heap in order when only the first task is out of it.
LEMMA FixFirst ==
    ASSUME NEW tasks, NEW q, QueueOf(q, ToSet(q))
    PROVE  LET g == FixDown(tasks, q, 1)
           IN  /\ QueueOf(g, ToSet(q))
               /\ /\ Timed(tasks)
                  /\ \A i \in 2..Len(q) : i \div 2 > 1 => InOrder(tasks, q, i)
                  => Ordered(tasks, g)
<1> DEFINE n == Len(q)
           g == FixDown(tasks, q, 1)
<1>1. n \in Nat /\ q \in Heaps(n) /\ 1 \in Nodes /\ q \in Seq(Tasks)
  BY QueueAsHeap DEF Nodes, QueueOf
<1>2. g \in Heaps(n) /\ Rearranged(n, q, g)
  <2> HIDE DEF n
  <2>1. QED
    BY <1>1, FixDownMoves
<1>3. /\ g \in Seq(Tasks) /\ Len(g) = n /\ ToSet(g) = ToSet(q)
      /\ IsInjective(g)
  <2> HIDE DEF g
  <2>1. QED
    BY <1>1, <1>2, RearrangedMembers DEF QueueOf
<1>4. ASSUME Timed(tasks),
             \A i \in 2..n : i \div 2 > 1 => InOrder(tasks, q, i)
      PROVE  Ordered(tasks, g)
  <2>1. \A i \in 2..n : i \div 2 >= 1 => InOrder(tasks, g, i)
    <3> HIDE DEF n
    <3>1. QED
      BY <1>1, <1>4, FixDownDemotes DEF n
  <2> HIDE DEF g
  <2>2. QED
    BY <1>1, <1>3, <2>1 DEF Ordered
<1> HIDE DEF g
<1>5. QueueOf(g, ToSet(q))
  BY <1>3 DEF QueueOf
<1>6. QED
  BY <1>4, <1>5 DEF g

\* TaskQueue.removeMin.
LEMMA RemoveMinKeeps ==
    ASSUME NEW tasks, NEW q, QueueOf(q, ToSet(q)), q # <<>>
    PROVE  LET g == RemoveMin(tasks, q)
           IN  /\ QueueOf(g, ToSet(q) \ {q[1]})
               /\ Timed(tasks) /\ Ordered(tasks, q) => Ordered(tasks, g)
<1> DEFINE n == Len(q)
           e == [q EXCEPT ![1] = q[n]]
           h == SubSeq(e, 1, n - 1)
<1>1. q \in Seq(Tasks) /\ n \in Nat \ {0} /\ IsInjective(q)
  BY DEF QueueOf
<1>2. \A i, j \in 1..n : q[i] = q[j] => i = j
  BY <1>1 DEF IsInjective
<1>3. \A i \in 1..n : e[i] = (IF i = 1 THEN q[n] ELSE q[i]) /\ e[i] \in Tasks
  BY <1>1
<1> HIDE DEF e
<1>4. /\ h \in Seq(Tasks) /\ Len(h) = n - 1
      /\ \A i \in 1..n - 1 : h[i] = e[i]
  <2>1. n - 1 \in Int /\ \A i \in 1..n - 1 : e[i] \in Tasks
    BY <1>1, <1>3
  <2>2. /\ h \in Seq(Tasks)
        /\ Len(h) = IF 1 <= n - 1 THEN (n - 1) - 1 + 1 ELSE 0
        /\ \A i \in 1..(n - 1) - 1 + 1 : h[i] = e[1 + i - 1]
    <3> HIDE DEF n
    <3>1. QED
      BY <2>1, SubSeqProperties
  <2> HIDE DEF n, h
  <2>3. \A i \in 1..n - 1 : i \in 1..(n - 1) - 1 + 1 /\ 1 + i - 1 = i
    BY <1>1
  <2>4. QED
    BY <1>1, <2>2, <2>3
<1> HIDE DEF h
<1>5. \A i \in 1..n - 1 : h[i] = IF i = 1 THEN q[n] ELSE q[i]
  BY <1>1, <1>3, <1>4
<1>6. \A u : u \in ToSet(h) <=> \E i \in 1..n - 1 : u = h[i]
  BY <1>1, <1>4, QueueAsHeap
<1>7. \A u : u \in ToSet(q) <=> \E i \in 1..n : u = q[i]
  BY <1>1, QueueAsHeap
<1> HIDE DEF n
<1>8. ToSet(h) \subseteq ToSet(q) \ {q[1]}
  <2>1. ASSUME NEW i \in 1..n - 1
        PROVE  h[i] \in ToSet(q) /\ h[i] # q[1]
    <3>1. i \in 1..n /\ n \in 1..n /\ 1 \in 1..n /\ 1 # n
      BY <1>1
    <3>2. CASE i = 1
      BY <1>2, <1>5, <1>7, <3>1, <3>2
    <3>3. CASE i # 1
      BY <1>2, <1>5, <1>7, <3>1, <3>3
    <3>4. QED
      BY <3>2, <3>3
  <2>2. QED
    BY <1>6, <2>1
<1>9. ToSet(q) \ {q[1]} \subseteq ToSet(h)
  <2>1. ASSUME NEW i \in 2..n
        PROVE  \E j \in 1..n - 1 : q[i] = h[j]
    <3>1. CASE i = n
      <4>1. 1 \in 1..n - 1 /\ h[1] = q[n]
        BY <1>1, <1>5, <3>1
      <4>2. QED
        BY <3>1, <4>1
    <3>2. CASE i # n
      <4>1. i \in 1..n - 1 /\ h[i] = q[i]
        BY <1>1, <1>5, <3>2
      <4>2. QED
        BY <4>1
    <3>3. QED
      BY <3>1, <3>2
  <2>2. ASSUME NEW i \in 1..n, q[i] # q[1]
        PROVE  i \in 2..n
    BY <1>1, <2>2
  <2>3. QED
    BY <1>6, <1>7, <2>1, <2>2
<1>10. IsInjective(h)
  <2>1. DOMAIN h = 1..n - 1
    BY <1>1, <1>4
  <2>2. ASSUME NEW i \in 1..n - 1, NEW j \in 1..n - 1, h[i] = h[j]
        PROVE  i = j
    <3>1. i \in 1..n /\ j \in 1..n /\ n \in 1..n /\ i # n /\ j # n
      BY <1>1
    <3>2. QED
      BY <1>2, <1>5, <2>2, <3>1
  <2>3. QED
    BY <2>1, <2>2 DEF IsInjective
<1>11. ASSUME Ordered(tasks, q), NEW i \in 2..Len(h), i \div 2 > 1
       PROVE  InOrder(tasks, h, i)
  <2>1. /\ i \in 1..n - 1 /\ i \div 2 \in 1..n - 1 /\ i # 1 /\ i \div 2 # 1
        /\ i \in 2..n
    BY <1>1, <1>4, <1>11
  <2>2. h[i] = q[i] /\ h[i \div 2] = q[i \div 2]
    BY <1>5, <2>1
  <2>3. InOrder(tasks, q, i)
    BY <1>11, <2>1 DEF Ordered, n
  <2>4. QED
    BY <2>2, <2>3 DEF InOrder
<1>12. QueueOf(h, ToSet(h))
  BY <1>4, <1>10 DEF QueueOf
<1>13. ToSet(h) = ToSet(q) \ {q[1]}
  BY <1>8, <1>9
<1>14. RemoveMin(tasks, q) = FixDown(tasks, h, 1)
  BY DEF RemoveMin, h, e, n
<1>15. QED
  BY <1>11, <1>12, <1>13, <1>14, FixFirst

-----------------------------------------------------------------------------
(* The correction of the user clock.                                       *)

\* Moving tasks twice is moving them.
LEMMA RearrangedTwice ==
    ASSUME NEW n \in Nat, NEW f, NEW g, NEW h,
           Rearranged(n, f, g), Rearranged(n, g, h)
    PROVE  Rearranged(n, f, h)
<1>1. \A i \in 1..n : \E j \in 1..n : h[i] = f[j]
  BY DEF Rearranged
<1>2. \A i \in 1..n : \E j \in 1..n : f[i] = h[j]
  BY DEF Rearranged
<1>3. QED
  BY <1>1, <1>2 DEF Rearranged

\* What a turn of the loops does: a task of the user clock may move others.
LEMMA UserMoves ==
    ASSUME NEW n \in Nat, NEW h \in Heaps(n), NEW i \in 1..n
    PROVE  /\ PromoteUser(h, i) \in Heaps(n) /\ Rearranged(n, h, PromoteUser(h, i))
           /\ DemoteUser(h, i) \in Heaps(n) /\ Rearranged(n, h, DemoteUser(h, i))
<1>1. Rearranged(n, h, h)
  BY DEF Rearranged
<1>2. i \in Nodes
  BY DEF Nodes
<1>3. QED
  BY <1>1, <1>2, FixUpMoves, FixDownMoves DEF PromoteUser, DemoteUser

\* The loop that promotes node after node.
PromotesAll(q, f) ==
    f = [i \in 0..Len(q) |-> IF i = 0 THEN q ELSE PromoteUser(f[i - 1], i)]

\* The loop that demotes node after node, the last first.
DemotesAll(q, f) ==
    f = [i \in 1..Len(q) + 1 |->
            IF i = Len(q) + 1 THEN q ELSE DemoteUser(f[i + 1], i)]

\* The loop over fixUp is well defined.
LEMMA PromotionOfAll ==
    ASSUME NEW q \in Seq(Tasks)
    PROVE  \E f : PromotesAll(q, f)
<1> DEFINE n == Len(q)
           D == 0..n
           V == Heaps(n)
           m == [i \in D |-> i]
           next == [i \in D |-> i - 1]
           A == [i \in D |-> q]
           B == [x \in V \X D |-> IF x[2] = 0 THEN x[1]
                                  ELSE PromoteUser(x[1], x[2])]
<1>1. n \in Nat /\ q \in V
  BY QueueAsHeap
<1>2. Descends(D, m, n, {0}, next)
  BY <1>1 DEF Descends
<1>3. A \in [D -> V]
  BY <1>1
<1>4. B \in [V \X D -> V]
  <2>1. ASSUME NEW h \in V, NEW i \in D, i # 0
        PROVE  PromoteUser(h, i) \in V
    <3>1. i \in 1..n
      BY <1>1, <2>1
    <3> HIDE DEF n
    <3>2. QED
      BY <1>1, <3>1, UserMoves
  <2>2. QED
    BY <2>1
<1>5. PICK f \in [D -> V] : Recurs(f, D, {0}, next, A, B)
  <2> HIDE DEF D, V, m, next, A, B
  <2>1. QED
    BY <1>2, <1>3, <1>4, RecursionIsDefined
<1>6. ASSUME NEW i \in D
      PROVE  f[i] = IF i = 0 THEN q ELSE PromoteUser(f[i - 1], i)
  <2>1. CASE i = 0
    BY <1>5, <2>1 DEF Recurs
  <2>2. CASE i # 0
    <3>1. i - 1 \in D
      BY <1>1, <2>2
    <3>2. f[i] = B[<<f[i - 1], i>>]
      BY <1>5, <2>2, <3>1 DEF Recurs
    <3>3. <<f[i - 1], i>> \in V \X D
      BY <1>5, <3>1
    <3> HIDE DEF V, D
    <3>4. QED
      BY <2>2, <3>2, <3>3
  <2>3. QED
    BY <2>1, <2>2
<1>7. f = [i \in D |-> f[i]]
  BY <1>5
<1>8. PromotesAll(q, f)
  BY <1>6, <1>7 DEF PromotesAll
<1>9. QED
  BY <1>8

\* The loop over fixDown is well defined.
LEMMA DemotionOfAll ==
    ASSUME NEW q \in Seq(Tasks)
    PROVE  \E f : DemotesAll(q, f)
<1> DEFINE n == Len(q)
           D == 1..n + 1
           V == Heaps(n)
           m == [i \in D |-> n + 1 - i]
           next == [i \in D |-> i + 1]
           A == [i \in D |-> q]
           B == [x \in V \X D |-> IF x[2] = n + 1 THEN x[1]
                                  ELSE DemoteUser(x[1], x[2])]
<1>1. n \in Nat /\ q \in V
  BY QueueAsHeap
<1>2. Descends(D, m, n, {n + 1}, next)
  BY <1>1 DEF Descends
<1>3. A \in [D -> V]
  BY <1>1
<1>4. B \in [V \X D -> V]
  <2>1. ASSUME NEW h \in V, NEW i \in D, i # n + 1
        PROVE  DemoteUser(h, i) \in V
    <3>1. i \in 1..n
      BY <1>1, <2>1
    <3> HIDE DEF n
    <3>2. QED
      BY <1>1, <3>1, UserMoves
  <2>2. QED
    BY <2>1
<1>5. PICK f \in [D -> V] : Recurs(f, D, {n + 1}, next, A, B)
  <2> HIDE DEF D, V, m, next, A, B
  <2>1. QED
    BY <1>2, <1>3, <1>4, RecursionIsDefined
<1>6. ASSUME NEW i \in D
      PROVE  f[i] = IF i = n + 1 THEN q ELSE DemoteUser(f[i + 1], i)
  <2>1. CASE i = n + 1
    BY <1>5, <2>1 DEF Recurs
  <2>2. CASE i # n + 1
    <3>1. i + 1 \in D
      BY <1>1, <2>2
    <3>2. f[i] = B[<<f[i + 1], i>>]
      BY <1>5, <2>2, <3>1 DEF Recurs
    <3>3. <<f[i + 1], i>> \in V \X D
      BY <1>5, <3>1
    <3> HIDE DEF V, D
    <3>4. QED
      BY <2>2, <3>2, <3>3
  <2>3. QED
    BY <2>1, <2>2
<1>7. f = [i \in D |-> f[i]]
  BY <1>5
<1>8. DemotesAll(q, f)
  BY <1>6, <1>7 DEF DemotesAll
<1>9. QED
  BY <1>8

\* A correction of the user clock keeps the tasks of the queue.
LEMMA CorrectionKeeps ==
    ASSUME QueueOf(queue, ToSet(queue)), SkewSeen \in Int
    PROVE  QueueOf(Reordered, ToSet(queue))
<1> DEFINE n == Len(queue)
           Good == {h \in Heaps(n) : Rearranged(n, queue, h)}
<1>0. n \in Nat /\ queue \in Seq(Tasks) /\ queue \in Heaps(n) /\ queue \in Good
  BY QueueAsHeap DEF QueueOf, Rearranged
<1>1. ASSUME NEW h \in Good, NEW i \in 1..n
      PROVE  PromoteUser(h, i) \in Good /\ DemoteUser(h, i) \in Good
  <2> HIDE DEF n
  <2>1. QED
    BY <1>0, UserMoves, RearrangedTwice
<1> SUFFICES Reordered \in Good
  BY <1>0, RearrangedMembers DEF QueueOf
<1> HIDE DEF Good
<1>2. CASE SkewSeen < 0
  <2> DEFINE f == CHOOSE f : PromotesAll(queue, f)
             D == 0..n
             m == [i \in D |-> i]
             GoodAt == {i \in D : f[i] \in Good}
  <2>1. PromotesAll(queue, f)
    BY <1>0, PromotionOfAll
  <2>2. Reordered = f[n]
    BY <1>2 DEF Reordered, PromotesAll
  <2> HIDE DEF f
  <2>3. ASSUME NEW i \in D, \A j \in D : m[j] < m[i] => j \in GoodAt
        PROVE  i \in GoodAt
    <3>1. CASE i = 0
      BY <1>0, <2>1, <3>1 DEF PromotesAll
    <3>2. CASE i # 0
      <4>1. i - 1 \in 0..n /\ i \in 1..n /\ f[i - 1] \in Good
        BY <1>0, <2>3, <3>2
      <4>2. f[i] = PromoteUser(f[i - 1], i)
        BY <2>1, <3>2 DEF PromotesAll
      <4>3. QED
        BY <1>1, <4>1, <4>2
    <3>3. QED
      BY <3>1, <3>2
  <2>4. n \in GoodAt
    <3>1. m \in [D -> Nat] /\ n \in D
      BY <1>0
    <3> HIDE DEF m, GoodAt, D
    <3>2. QED
      BY <2>3, <3>1, MeasureInduction
  <2>5. QED
    BY <2>2, <2>4
<1>3. CASE SkewSeen > 0
  <2> DEFINE f == CHOOSE f : DemotesAll(queue, f)
             D == 1..n + 1
             m == [i \in D |-> n + 1 - i]
             GoodAt == {i \in D : f[i] \in Good}
  <2>1. DemotesAll(queue, f)
    BY <1>0, DemotionOfAll
  <2>2. Reordered = f[1]
    BY <1>3 DEF Reordered, DemotesAll
  <2> HIDE DEF f
  <2>3. ASSUME NEW i \in D, \A j \in D : m[j] < m[i] => j \in GoodAt
        PROVE  i \in GoodAt
    <3>1. CASE i = n + 1
      BY <1>0, <2>1, <3>1 DEF DemotesAll
    <3>2. CASE i # n + 1
      <4>1. i + 1 \in 1..n + 1 /\ i \in 1..n /\ f[i + 1] \in Good
        BY <1>0, <2>3, <3>2
      <4>2. f[i] = DemoteUser(f[i + 1], i)
        BY <2>1, <3>2 DEF DemotesAll
      <4>3. QED
        BY <1>1, <4>1, <4>2
    <3>3. QED
      BY <3>1, <3>2
  <2>4. 1 \in GoodAt
    <3>1. m \in [D -> Nat] /\ 1 \in D
      BY <1>0
    <3> HIDE DEF m, GoodAt, D
    <3>2. QED
      BY <2>3, <3>1, MeasureInduction
  <2>5. QED
    BY <2>2, <2>4
<1>4. CASE SkewSeen = 0
  BY <1>0, <1>4 DEF Reordered
<1>5. QED
  BY <1>2, <1>3, <1>4

\* When the tasks of the user clock are due, and the others.
LEMMA ShiftedDue ==
    ASSUME NEW t \in ToSet(queue), t \in Tasks, SkewSeen \in Int,
           task[t].nextExecutionTime \in Int
    PROVE  Due(Shifted, t) = IF task[t].isUserClock THEN Due(task, t) - SkewSeen
                                                    ELSE Due(task, t)
BY DEF Shifted, Due

\* A correction leaves every task of a heap where it is: what is due later now
\* is promoted and meets a parent that is still due earlier, what is due earlier
\* is demoted and meets children that are still due later.
LEMMA CorrectionStays ==
    ASSUME queue \in Seq(Tasks), Ordered(task, queue), SkewSeen \in Int,
           Timed(task)
    PROVE  Reordered = queue
<1> DEFINE n == Len(queue)
           due(i) == Due(task, queue[i])
           new(i) == Due(Shifted, queue[i])
<1>0. n \in Nat /\ queue \in Heaps(n)
  BY QueueAsHeap
<1>1. ASSUME NEW i \in 1..n
      PROVE  /\ due(i) \in Int
             /\ new(i) = IF task[queue[i]].isUserClock THEN due(i) - SkewSeen
                                                       ELSE due(i)
  <2>1. queue[i] \in Tasks /\ queue[i] \in ToSet(queue)
    BY <1>0, QueueAsHeap DEF Heaps
  <2>2. QED
    BY <2>1, ShiftedDue DEF Timed, Due
<1>2. ASSUME NEW i \in 2..n
      PROVE  i \div 2 \in 1..n /\ i \in 1..n /\ due(i \div 2) <= due(i)
  BY <1>0 DEF Ordered, InOrder
<1> HIDE DEF due, new, n
<1>3. ASSUME SkewSeen < 0, NEW i \in 1..n, task[queue[i]].isUserClock
      PROVE  UpStops(Shifted, queue, i)
  <2>1. CASE i = 1
    BY <2>1 DEF UpStops
  <2>2. CASE i # 1
    <3>1. i \in 2..n
      BY <1>0, <2>2
    <3> DEFINE up == i \div 2
    <3>2. up \in 1..n /\ due(up) <= due(i)
      BY <1>2, <3>1
    <3> HIDE DEF up
    <3>3. /\ due(up) \in Int /\ due(i) \in Int
          /\ new(up) \in {due(up), due(up) - SkewSeen}
          /\ new(i) = due(i) - SkewSeen
      BY <1>1, <1>3, <3>2
    <3>4. new(up) <= new(i)
      BY <1>3, <3>2, <3>3
    <3>5. QED
      BY <3>4 DEF UpStops, new, up
  <2>3. QED
    BY <2>1, <2>2
<1>4. ASSUME SkewSeen > 0, NEW i \in 1..n, task[queue[i]].isUserClock
      PROVE  DownStops(Shifted, n, queue, i)
  <2>1. ASSUME 2*i <= n
        PROVE  new(i) <= new(Smallest(Shifted, n, queue, i))
    <3> DEFINE s == Smallest(Shifted, n, queue, i)
    <3>1. s \in 2..n /\ s \div 2 = i
      BY <1>0, <2>1 DEF Smallest
    <3> HIDE DEF s
    <3>2. s \in 1..n /\ due(i) <= due(s)
      BY <1>2, <3>1
    <3>3. /\ due(s) \in Int /\ due(i) \in Int
          /\ new(s) \in {due(s), due(s) - SkewSeen}
          /\ new(i) = due(i) - SkewSeen
      BY <1>1, <1>4, <3>2
    <3>4. new(i) <= new(s)
      BY <1>4, <3>2, <3>3
    <3>5. QED
      BY <3>4 DEF s
  <2>2. QED
    BY <1>0, <2>1 DEF DownStops, new
<1>5. ASSUME SkewSeen < 0, NEW i \in 1..n
      PROVE  PromoteUser(queue, i) = queue
  BY <1>0, <1>3, <1>5, FixUpStays DEF PromoteUser
<1>6. ASSUME SkewSeen > 0, NEW i \in 1..n
      PROVE  DemoteUser(queue, i) = queue
  <2>1. i \in Nodes
    BY <1>0 DEF Nodes
  <2>2. QED
    BY <1>0, <1>4, <1>6, <2>1, FixDownStays DEF DemoteUser
<1>7. CASE SkewSeen < 0
  <2> DEFINE f == CHOOSE f : PromotesAll(queue, f)
             D == 0..n
             m == [i \in D |-> i]
             Same == {i \in D : f[i] = queue}
  <2>1. PromotesAll(queue, f)
    BY PromotionOfAll
  <2>2. Reordered = f[n]
    BY <1>7 DEF Reordered, PromotesAll, n
  <2> HIDE DEF f
  <2>3. ASSUME NEW i \in D, \A j \in D : m[j] < m[i] => j \in Same
        PROVE  i \in Same
    <3>1. CASE i = 0
      BY <2>1, <3>1 DEF PromotesAll, n
    <3>2. CASE i # 0
      <4>1. i - 1 \in 0..n /\ i \in 1..n /\ f[i - 1] = queue
        BY <1>0, <2>3, <3>2
      <4>2. f[i] = PromoteUser(f[i - 1], i)
        BY <2>1, <3>2 DEF PromotesAll, n
      <4>3. QED
        BY <1>5, <1>7, <4>1, <4>2
    <3>3. QED
      BY <3>1, <3>2
  <2>4. n \in Same
    <3>1. m \in [D -> Nat] /\ n \in D
      BY <1>0
    <3> HIDE DEF m, Same, D
    <3>2. QED
      BY <2>3, <3>1, MeasureInduction
  <2>5. QED
    BY <2>2, <2>4
<1>8. CASE SkewSeen > 0
  <2> DEFINE f == CHOOSE f : DemotesAll(queue, f)
             D == 1..n + 1
             m == [i \in D |-> n + 1 - i]
             Same == {i \in D : f[i] = queue}
  <2>1. DemotesAll(queue, f)
    BY DemotionOfAll
  <2>2. Reordered = f[1]
    BY <1>8 DEF Reordered, DemotesAll, n
  <2> HIDE DEF f
  <2>3. ASSUME NEW i \in D, \A j \in D : m[j] < m[i] => j \in Same
        PROVE  i \in Same
    <3>1. CASE i = n + 1
      BY <2>1, <3>1 DEF DemotesAll, n
    <3>2. CASE i # n + 1
      <4>1. i + 1 \in 1..n + 1 /\ i \in 1..n /\ f[i + 1] = queue
        BY <1>0, <2>3, <3>2
      <4>2. f[i] = DemoteUser(f[i + 1], i)
        BY <2>1, <3>2 DEF DemotesAll, n
      <4>3. QED
        BY <1>6, <1>8, <4>1, <4>2
    <3>3. QED
      BY <3>1, <3>2
  <2>4. 1 \in Same
    <3>1. m \in [D -> Nat] /\ 1 \in D
      BY <1>0
    <3> HIDE DEF m, Same, D
    <3>2. QED
      BY <2>3, <3>1, MeasureInduction
  <2>5. QED
    BY <2>2, <2>4
<1>9. CASE SkewSeen = 0
  BY <1>9 DEF Reordered
<1>10. QED
  BY <1>7, <1>8, <1>9

-----------------------------------------------------------------------------
(* The inductive invariant.                                                *)

\* The fields of the tasks, without their bounds.
Fields == [state : {"virgin", "scheduled", "executed", "cancelled"},
           nextExecutionTime : Int,
           isUserClock : BOOLEAN]

\* What the queue holds are tasks that have been scheduled and have not been
\* executed for the last time.
QueueInv ==
    /\ QueueOf(queue, ToSet(queue))
    /\ \A t \in ToSet(queue) : task[t].state \in {"scheduled", "cancelled"}

\* The queued tasks that are due by the user clock.
OnClock == {t \in ToSet(queue) : task[t].isUserClock}

\* userClockTaskCount tells how many there are.
CountInv ==
    /\ IsFiniteSet(OnClock)
    /\ userClockTaskCount = Cardinality(OnClock)

\* A thread that waits for tasks has none, and one that waits for the first
\* task wakes up in time, heap or not.
WaitInv ==
    \A w \in TimerThreads :
        /\ pc[w] = "idle" => queue = <<>>
        /\ pc[w] = "asleep" /\ queue # <<>> =>
              deadline[w] <= task[queue[1]].nextExecutionTime

\* What every step keeps.
TimerInv ==
    /\ TypeOK
    /\ AliveIsThread
    /\ QueueInv
    /\ CountInv
    /\ WaitInv
    /\ CancelledTimerIsEmpty

\* What the proofs use of the invariant.
LEMMA InvParts ==
    ASSUME TimerInv
    PROVE  /\ ThreadInv
           /\ queue \in Seq(Tasks) /\ ToSet(queue) \subseteq Tasks
           /\ task \in [Tasks -> Fields] /\ Timed(task)
           /\ QueueOf(queue, ToSet(queue))
<1>1. ThreadInv
  BY DEF TimerInv, TypeOK, ThreadInv, Places
<1>2. queue \in Seq(Tasks) /\ task \in [Tasks -> Fields]
  BY DEF TimerInv, TypeOK, Fields
<1>3. ToSet(queue) \subseteq Tasks
  BY <1>2, QueueAsHeap DEF Heaps
<1>4. Timed(task)
  BY <1>2 DEF Timed, Due, Fields
<1>5. QED
  BY <1>1, <1>2, <1>3, <1>4 DEF TimerInv, QueueInv

\* A correction of the user clock changes nothing but times.
LEMMA ShiftedFields ==
    ASSUME TimerInv
    PROVE  /\ SkewSeen \in Int
           /\ Shifted \in [Tasks -> Fields] /\ Timed(Shifted)
           /\ \A t \in Tasks : /\ Shifted[t].state = task[t].state
                               /\ Shifted[t].isUserClock = task[t].isUserClock
<1>1. SkewSeen \in Int
  BY DEF TimerInv, TypeOK, SkewSeen, UserClockSkew
<1>2. ASSUME NEW t \in Tasks
      PROVE  /\ Shifted[t] \in Fields
             /\ Shifted[t].state = task[t].state
             /\ Shifted[t].isUserClock = task[t].isUserClock
  <2>1. task[t] \in Fields
    BY InvParts
  <2>2. Shifted[t] = IF t \in ToSet(queue) /\ task[t].isUserClock
                     THEN [task[t] EXCEPT !.nextExecutionTime = @ - SkewSeen]
                     ELSE task[t]
    BY DEF Shifted
  <2>3. QED
    BY <1>1, <2>1, <2>2 DEF Fields
<1>3. Shifted \in [Tasks -> Fields]
  BY <1>2 DEF Shifted
<1>4. Timed(Shifted)
  BY <1>3 DEF Timed, Due, Fields
<1>5. QED
  BY <1>1, <1>2, <1>3, <1>4

\* What mainLoop finds when it looks at a queue that is not empty.
LEMMA FirstTask ==
    ASSUME TimerInv, queue # <<>>
    PROVE  /\ QueueOf(Reordered, ToSet(queue))
           /\ Reordered # <<>>
           /\ Reordered[1] \in ToSet(queue)
<1>1. QueueOf(Reordered, ToSet(queue))
  BY InvParts, ShiftedFields, CorrectionKeeps
<1>2. queue[1] \in ToSet(queue)
  <2>1. queue \in Seq(Tasks) /\ 1 \in 1..Len(queue)
    BY InvParts
  <2>2. QED
    BY <2>1, QueueAsHeap
<1>3. Reordered \in Seq(Tasks) /\ ToSet(Reordered) = ToSet(queue)
  BY <1>1 DEF QueueOf
<1>4. \A t : t \in ToSet(Reordered) <=> \E i \in 1..Len(Reordered) : t = Reordered[i]
  BY <1>3, QueueAsHeap
<1>5. Reordered # <<>> /\ 1 \in 1..Len(Reordered)
  BY <1>2, <1>3, <1>4
<1>6. QED
  BY <1>1, <1>3, <1>4, <1>5

\* Tasks may be cancelled; the queue does not notice.
LEMMA TimesUnchanged ==
    ASSUME TimerInv, UNCHANGED <<queue, userClockTaskCount>>,
           \A t \in Tasks :
              /\ task'[t].nextExecutionTime = task[t].nextExecutionTime
              /\ task'[t].isUserClock = task[t].isUserClock
              /\ task'[t].state \in {task[t].state, "cancelled"}
    PROVE  QueueInv' /\ CountInv'
<1>1. queue \in Seq(Tasks) /\ ToSet(queue) \subseteq Tasks
  BY InvParts
<1>2. QueueInv'
  BY <1>1, InvParts DEF QueueInv, TimerInv
<1>3. OnClock' = OnClock
  BY <1>1 DEF OnClock
<1>4. QED
  BY <1>2, <1>3 DEF TimerInv, CountInv

\* An empty queue has nothing to count.
LEMMA QueueCleared ==
    ASSUME Clear
    PROVE  QueueInv' /\ CountInv' /\ queue' \in Seq(Tasks) /\ IsInjective(queue')
<1>1. queue' = <<>> /\ userClockTaskCount' = 0
  BY DEF Clear
<1>2. <<>> \in Seq(Tasks) /\ Len(<<>>) = 0 /\ ToSet(<<>>) = {} /\ IsInjective(<<>>)
  BY DEF ToSet, IsInjective
<1>3. QueueInv'
  BY <1>1, <1>2 DEF QueueInv, QueueOf
<1>4. OnClock' = {}
  BY <1>1, <1>2 DEF OnClock
<1>5. QED
  BY <1>1, <1>2, <1>3, <1>4, FS_EmptySet DEF CountInv

\* A new task joins the others and is counted if it is on the user clock.
LEMMA EnqueueKeeps ==
    ASSUME TimerInv, NEW t \in Tasks, NEW time \in Times, NEW at,
           Enqueue(t, time, at)
    PROVE  /\ QueueInv' /\ CountInv'
           /\ task' \in [Tasks -> Fields]
           /\ ToSet(queue') = ToSet(queue) \cup {t}
           /\ queue # <<>> => queue'[1] \in {queue[1], t}
           /\ \A u \in ToSet(queue) :
                 task'[u].nextExecutionTime = task[u].nextExecutionTime
<1> DEFINE fields == [state |-> "scheduled", nextExecutionTime |-> time,
                      isUserClock |-> t \in OnUserClock]
<1>1. /\ task[t].state = "virgin"
      /\ task' = [task EXCEPT ![t] = fields]
      /\ queue' = FixUp(task', Append(queue, t), Len(queue) + 1)
      /\ userClockTaskCount' = userClockTaskCount + UserClockShare(task', t)
  BY DEF Enqueue, Add
<1>2. fields \in Fields
  BY TimerAssumption DEF Fields
<1>3. /\ task' \in [Tasks -> Fields] /\ task'[t] = fields
      /\ \A u \in Tasks : u # t => task'[u] = task[u]
  BY <1>1, <1>2, InvParts
<1>4. t \notin ToSet(queue)
  BY <1>1 DEF TimerInv, QueueInv
<1>5. QueueOf(queue, ToSet(queue))
  BY InvParts
<1>7. /\ QueueOf(queue', ToSet(queue) \cup {t})
      /\ queue # <<>> => queue'[1] \in {queue[1], t}
  BY <1>1, <1>4, <1>5, AddKeeps
<1>8. ToSet(queue') = ToSet(queue) \cup {t}
  BY <1>7 DEF QueueOf
<1>9. QueueInv'
  <2>1. \A u \in ToSet(queue) : u \in Tasks /\ u # t
    BY <1>4, InvParts
  <2>2. \A u \in ToSet(queue') : task'[u].state \in {"scheduled", "cancelled"}
    BY <1>3, <1>8, <2>1 DEF TimerInv, QueueInv
  <2>3. QED
    BY <1>7, <1>8, <2>2 DEF QueueInv
<1>10. CountInv'
  <2>1. OnClock' = IF t \in OnUserClock THEN OnClock \cup {t} ELSE OnClock
    <3>1. \A u \in ToSet(queue) : task'[u] = task[u]
      BY <1>3, <1>4, InvParts
    <3>2. task'[t].isUserClock = (t \in OnUserClock)
      BY <1>3
    <3>3. QED
      BY <1>8, <3>1, <3>2 DEF OnClock
  <2>2. t \notin OnClock
    BY <1>4 DEF OnClock
  <2>3. UserClockShare(task', t) = IF t \in OnUserClock THEN 1 ELSE 0
    <3>1. task'[t].isUserClock = (t \in OnUserClock)
      BY <1>3
    <3>2. CASE t \in OnUserClock
      BY <3>1, <3>2 DEF UserClockShare
    <3>3. CASE t \notin OnUserClock
      BY <3>1, <3>3 DEF UserClockShare
    <3>4. QED
      BY <3>2, <3>3
  <2>4. IsFiniteSet(OnClock) /\ userClockTaskCount = Cardinality(OnClock)
    BY DEF TimerInv, CountInv
  <2>5. Cardinality(OnClock) \in Nat
    BY <2>4, FS_CardinalityType
  <2>6. /\ IsFiniteSet(OnClock \cup {t})
        /\ Cardinality(OnClock \cup {t}) = Cardinality(OnClock) + 1
    BY <2>2, <2>4, FS_AddElement
  <2> HIDE DEF OnClock
  <2>7. CASE t \in OnUserClock
    BY <1>1, <2>1, <2>3, <2>4, <2>6, <2>7 DEF CountInv
  <2>8. CASE t \notin OnUserClock
    BY <1>1, <2>1, <2>3, <2>4, <2>5, <2>8 DEF CountInv
  <2>9. QED
    BY <2>7, <2>8
<1>11. \A u \in ToSet(queue) :
          task'[u].nextExecutionTime = task[u].nextExecutionTime
  BY <1>3, <1>4, InvParts
<1>12. QED
  BY <1>3, <1>7, <1>8, <1>9, <1>10, <1>11

\* The first task, t, is no longer counted.
LEMMA UncountKeeps ==
    ASSUME TimerInv, NEW t \in ToSet(queue), Uncount(t),
           OnClock' = OnClock \ {t}
    PROVE  CountInv'
<1>1. IsFiniteSet(OnClock) /\ userClockTaskCount = Cardinality(OnClock)
  BY DEF TimerInv, CountInv
<1>2. Cardinality(OnClock) \in Nat
  BY <1>1, FS_CardinalityType
<1>3. /\ IsFiniteSet(OnClock \ {t})
      /\ Cardinality(OnClock \ {t}) = IF t \in OnClock THEN Cardinality(OnClock) - 1
                                      ELSE Cardinality(OnClock)
  BY <1>1, FS_RemoveElement
<1>4. t \in Tasks /\ Shifted[t].isUserClock = task[t].isUserClock
  BY InvParts, ShiftedFields
<1>5. UserClockShare(Shifted, t) = IF t \in OnClock THEN 1 ELSE 0
  BY <1>4 DEF UserClockShare, OnClock
<1>6. userClockTaskCount' = userClockTaskCount - UserClockShare(Shifted, t)
  BY DEF Uncount
<1>7. userClockTaskCount' = Cardinality(OnClock \ {t})
  BY <1>1, <1>2, <1>3, <1>5, <1>6
<1>8. QED
  BY <1>3, <1>7 DEF CountInv

\* The first task leaves the queue.
LEMMA RemovalKeeps ==
    ASSUME TimerInv, queue # <<>>, NEW t, t = Reordered[1], Uncount(t),
           queue' = RemoveMin(Shifted, Reordered),
           task' \in [Tasks -> Fields],
           \A u \in Tasks : u # t => task'[u] = Shifted[u]
    PROVE  QueueInv' /\ CountInv'
<1>1. /\ QueueOf(Reordered, ToSet(queue)) /\ Reordered # <<>>
      /\ t \in ToSet(queue)
  BY FirstTask
<1>2. ToSet(Reordered) = ToSet(queue)
  BY <1>1 DEF QueueOf
<1>3. QueueOf(queue', ToSet(queue) \ {t})
  BY <1>1, <1>2, RemoveMinKeeps
<1>4. ToSet(queue') = ToSet(queue) \ {t}
  BY <1>3 DEF QueueOf
<1>5. \A u \in ToSet(queue') :
         /\ task'[u].state = task[u].state
         /\ task'[u].isUserClock = task[u].isUserClock
  BY <1>4, InvParts, ShiftedFields
<1>6. QueueInv'
  BY <1>3, <1>4, <1>5 DEF QueueInv, TimerInv
<1>7. OnClock' = OnClock \ {t}
  BY <1>4, <1>5 DEF OnClock
<1>8. QED
  BY <1>1, <1>6, <1>7, UncountKeeps

\* The first task gets its next time, which is on the monotonic clock.
LEMMA RepetitionKeeps ==
    ASSUME TimerInv, queue # <<>>, NEW t, t = Reordered[1], Uncount(t),
           queue' = FixDown(task', Reordered, 1),
           task' \in [Tasks -> Fields],
           task'[t].state = Shifted[t].state, ~task'[t].isUserClock,
           \A u \in Tasks : u # t => task'[u] = Shifted[u]
    PROVE  QueueInv' /\ CountInv'
<1>1. QueueOf(Reordered, ToSet(queue)) /\ t \in ToSet(queue)
  BY FirstTask
<1>2. ToSet(Reordered) = ToSet(queue)
  BY <1>1 DEF QueueOf
<1>3. QueueOf(queue', ToSet(queue))
  BY <1>1, <1>2, FixFirst
<1>4. ToSet(queue') = ToSet(queue)
  BY <1>3 DEF QueueOf
<1>5. \A u \in ToSet(queue) :
         /\ task'[u].state = task[u].state
         /\ u # t => task'[u].isUserClock = task[u].isUserClock
  BY InvParts, ShiftedFields
<1>6. QueueInv'
  BY <1>3, <1>4, <1>5 DEF QueueInv, TimerInv
<1>7. OnClock' = OnClock \ {t}
  BY <1>4, <1>5 DEF OnClock
<1>8. QED
  BY <1>1, <1>6, <1>7, UncountKeeps

\* The queue is only corrected.
LEMMA ReorderingKeeps ==
    ASSUME TimerInv, queue # <<>>, queue' = Reordered, task' = Shifted,
           UNCHANGED userClockTaskCount
    PROVE  QueueInv' /\ CountInv'
<1>1. QueueOf(queue', ToSet(queue))
  BY FirstTask
<1>2. ToSet(queue') = ToSet(queue)
  BY <1>1 DEF QueueOf
<1>3. \A u \in ToSet(queue) :
         /\ task'[u].state = task[u].state
         /\ task'[u].isUserClock = task[u].isUserClock
  BY InvParts, ShiftedFields
<1>4. QueueInv'
  BY <1>1, <1>2, <1>3 DEF QueueInv, TimerInv
<1>5. OnClock' = OnClock
  BY <1>2, <1>3 DEF OnClock
<1>6. QED
  BY <1>4, <1>5 DEF TimerInv, CountInv

\* Only one thread is at work.
LEMMA OthersDead ==
    ASSUME TimerInv, NEW w \in TimerThreads, pc[w] # "dead"
    PROVE  \A v \in TimerThreads : v # w => pc[v] = "dead"
BY TimerAssumption DEF TimerInv, AliveIsThread, Alive

\* The places of the threads.
LEMMA PlacesType ==
    ASSUME TypeOK
    PROVE  pc \in [TimerThreads -> Places]
BY DEF TypeOK, Places

\* A pass of mainLoop that meets a task.
LEMMA MeetTaskKeeps ==
    ASSUME TimerInv, NEW w \in TimerThreads, Look(w), queue # <<>>,
           NEW t, t = Reordered[1],
           DropCancelled(w, t) \/ Fire(w, t) \/ Sleep(w, t)
    PROVE  /\ QueueInv' /\ CountInv'
           /\ task' \in [Tasks -> Fields]
           /\ firing' \in [TimerThreads -> Tasks \cup {NoTask}]
           /\ deadline' \in [TimerThreads -> Int]
           /\ pc'[w] = "asleep" => deadline'[w] <= task'[queue'[1]].nextExecutionTime
           /\ pc'[w] # "idle"
<1>0. /\ pc \in [TimerThreads -> Places]
      /\ firing \in [TimerThreads -> Tasks \cup {NoTask}]
      /\ deadline \in [TimerThreads -> Int]
      /\ now \in Int
  BY DEF TimerInv, TypeOK, Places
<1>1. t \in ToSet(queue) /\ t \in Tasks
  BY FirstTask, InvParts
<1>2. Shifted \in [Tasks -> Fields]
  BY ShiftedFields
<1>3. CASE DropCancelled(w, t)
  <2>1. /\ task' = Shifted /\ queue' = RemoveMin(Shifted, Reordered)
        /\ Uncount(t) /\ UNCHANGED <<deadline, firing>>
        /\ pc' = [pc EXCEPT ![w] = "top"]
    BY <1>3 DEF DropCancelled
  <2>2. QueueInv' /\ CountInv'
    BY <1>2, <2>1, RemovalKeeps
  <2>3. QED
    BY <1>0, <1>2, <2>1, <2>2
<1>4. CASE Fire(w, t)
  <2>1. /\ Uncount(t) /\ UNCHANGED deadline
        /\ firing' = [firing EXCEPT ![w] = t]
        /\ pc' = [pc EXCEPT ![w] = "run"]
    BY <1>4 DEF Fire
  <2>2. QueueInv' /\ CountInv' /\ task' \in [Tasks -> Fields]
    <3>1. CASE Period[t] = 0
      <4>1. /\ task' = [Shifted EXCEPT ![t].state = "executed"]
            /\ queue' = RemoveMin(Shifted, Reordered)
        BY <1>4, <3>1 DEF Fire
      <4>2. /\ task' \in [Tasks -> Fields]
            /\ \A u \in Tasks : u # t => task'[u] = Shifted[u]
        BY <1>1, <1>2, <4>1 DEF Fields
      <4>3. QED
        BY <2>1, <4>1, <4>2, RemovalKeeps
    <3>2. CASE Period[t] # 0
      <4> DEFINE next == IF Period[t] < 0
                         THEN now - Period[t]
                         ELSE Shifted[t].nextExecutionTime + Period[t]
      <4>1. /\ task' = [Shifted EXCEPT ![t].nextExecutionTime = next,
                                       ![t].isUserClock = FALSE]
            /\ queue' = FixDown(task', Reordered, 1)
        BY <1>4, <3>2 DEF Fire
      <4>2. next \in Int
        BY <1>0, <1>1, <1>2, TimerAssumption DEF Fields
      <4> HIDE DEF next
      <4>3. /\ task' \in [Tasks -> Fields]
            /\ task'[t].state = Shifted[t].state /\ ~task'[t].isUserClock
            /\ \A u \in Tasks : u # t => task'[u] = Shifted[u]
        BY <1>1, <1>2, <4>1, <4>2 DEF Fields
      <4>4. QED
        BY <2>1, <4>1, <4>3, RepetitionKeeps
    <3>3. QED
      BY <3>1, <3>2
  <2>3. firing' \in [TimerThreads -> Tasks \cup {NoTask}]
    BY <1>0, <1>1, <2>1
  <2>4. QED
    BY <1>0, <2>1, <2>2, <2>3
<1>5. CASE Sleep(w, t)
  <2>1. /\ deadline' = [deadline EXCEPT ![w] = now + SleepTime(t)]
        /\ task' = Shifted /\ queue' = Reordered
        /\ pc' = [pc EXCEPT ![w] = "asleep"]
        /\ UNCHANGED <<userClockTaskCount, firing>>
    BY <1>5 DEF Sleep
  <2>2. QueueInv' /\ CountInv'
    BY <2>1, ReorderingKeeps
  <2>3. Shifted[t].nextExecutionTime \in Int
    BY <1>1, <1>2 DEF Fields
  <2>4. /\ SleepTime(t) \in Int
        /\ now + SleepTime(t) <= Shifted[t].nextExecutionTime
    BY <1>0, <2>3, TimerAssumption DEF SleepTime
  <2>5. deadline' \in [TimerThreads -> Int]
    BY <1>0, <2>1, <2>4
  <2>6. deadline'[w] <= task'[queue'[1]].nextExecutionTime
    BY <1>0, <2>1, <2>4
  <2>7. QED
    BY <1>0, <1>2, <2>1, <2>2, <2>5, <2>6
<1>6. QED
  BY <1>3, <1>4, <1>5

\* A pass of mainLoop.
LEMMA LookKeeps ==
    ASSUME TimerInv, NEW w \in TimerThreads, Look(w)
    PROVE  TypeOK' /\ QueueInv' /\ CountInv' /\ WaitInv'
<1>0. TypeOK /\ pc \in [TimerThreads -> Places]
  BY PlacesType DEF TimerInv
<1>1. /\ pc[w] \in {"top", "idle_woken"}
      /\ UNCHANGED <<newTasksMayBeScheduled, thread, now, userClock>>
  BY DEF Look
<1>2. \A v \in TimerThreads : v # w => pc[v] = "dead"
  BY <1>1, OthersDead
<1>3. CASE MeetEmptyQueue(w)
  <2>1. /\ queue = <<>>
        /\ UNCHANGED <<queue, task, userClockTaskCount, firing, userClockOffset>>
    BY <1>3 DEF MeetEmptyQueue
  <2>2. QueueInv' /\ CountInv'
    BY <2>1, TimesUnchanged
  <2>3. \/ /\ pc' = [pc EXCEPT ![w] = "idle"]
           /\ deadline' = [deadline EXCEPT ![w] = now + ThreadTimeout]
        \/ pc' = [pc EXCEPT ![w] = "exit"] /\ UNCHANGED deadline
    BY <1>3 DEF MeetEmptyQueue
  <2>4. deadline' \in [TimerThreads -> Int] /\ pc' \in [TimerThreads -> Places]
    <3>1. /\ deadline \in [TimerThreads -> Int] /\ now + ThreadTimeout \in Int
          /\ "idle" \in Places /\ "exit" \in Places
      BY <1>0, TimerAssumption DEF TypeOK, Places
    <3>2. QED
      BY <1>0, <2>3, <3>1
  <2>5. TypeOK'
    BY <1>0, <1>1, <2>1, <2>4 DEF TypeOK, Places
  <2>6. WaitInv'
    BY <1>0, <1>2, <2>1, <2>3 DEF WaitInv
  <2>7. QED
    BY <2>2, <2>5, <2>6
<1>4. CASE MeetTask(w)
  <2> DEFINE t == Reordered[1]
  <2>1. /\ queue # <<>>
        /\ DropCancelled(w, t) \/ Fire(w, t) \/ Sleep(w, t)
        /\ userClockOffset' = userClockOffset + SkewSeen
    BY <1>4 DEF MeetTask
  <2>2. /\ QueueInv' /\ CountInv'
        /\ task' \in [Tasks -> Fields]
        /\ firing' \in [TimerThreads -> Tasks \cup {NoTask}]
        /\ deadline' \in [TimerThreads -> Int]
        /\ pc'[w] = "asleep" => deadline'[w] <= task'[queue'[1]].nextExecutionTime
        /\ pc'[w] # "idle"
    <3> HIDE DEF t
    <3>1. t = Reordered[1]
      BY DEF t
    <3>2. QED
      BY <2>1, <3>1, MeetTaskKeeps
  <2>3. \E place \in {"top", "run", "asleep"} : pc' = [pc EXCEPT ![w] = place]
    BY <2>1 DEF DropCancelled, Fire, Sleep
  <2>4. pc' \in [TimerThreads -> Places]
    BY <1>0, <2>3 DEF Places
  <2>5. userClockOffset' \in Int
    BY <1>0, <2>1, ShiftedFields DEF TypeOK
  <2>6. userClockTaskCount' \in Int
    BY <2>2, FS_CardinalityType DEF CountInv
  <2>7. queue' \in Seq(Tasks) /\ IsInjective(queue')
    BY <2>2 DEF QueueInv, QueueOf
  <2>8. TypeOK'
    BY <1>0, <1>1, <2>2, <2>4, <2>5, <2>6, <2>7 DEF TypeOK, Places, Fields
  <2>9. WaitInv'
    BY <1>0, <1>2, <2>2, <2>3 DEF WaitInv
  <2>10. QED
    BY <2>2, <2>8, <2>9
<1>5. QED
  BY <1>3, <1>4 DEF Look

\* When a thread that may be waiting is notified, none waits any more.
LEMMA NotifyWakes ==
    ASSUME NEW at \in [TimerThreads -> Places], NEW w,
           \A v \in TimerThreads : at[v] # "dead" => v = w,
           deadline \in [TimerThreads -> Int],
           Notify(at)
    PROVE  /\ pc' \in [TimerThreads -> Places]
           /\ deadline' \in [TimerThreads -> Int]
           /\ \A v \in TimerThreads : pc'[v] \notin {"idle", "asleep"}
           /\ WaitInv'
<1>1. CASE Waiting(at) = {} /\ pc' = at /\ UNCHANGED deadline
  BY <1>1 DEF Waiting, WaitInv
<1>2. ASSUME NEW v \in Waiting(at), EndWait(at, v, WaitEnds(at[v]))
      PROVE  /\ pc' \in [TimerThreads -> Places]
             /\ deadline' \in [TimerThreads -> Int]
             /\ \A u \in TimerThreads : pc'[u] \notin {"idle", "asleep"}
  <2>1. v \in TimerThreads /\ v = w
    BY DEF Waiting
  <2>2. \A u \in TimerThreads : u # v => at[u] = "dead"
    BY <2>1
  <2>3. WaitEnds(at[v]) \in {"idle_woken", "top"}
    BY DEF WaitEnds
  <2>4. pc' = [at EXCEPT ![v] = WaitEnds(at[v])] /\ deadline' = [deadline EXCEPT ![v] = 0]
    BY <1>2 DEF EndWait
  <2>5. QED
    BY <2>1, <2>2, <2>3, <2>4 DEF Places
<1>3. QED
  BY <1>1, <1>2 DEF Notify, WaitInv

\* sched: the thread that waits learns of a task that comes first.
LEMMA SchedKeeps ==
    ASSUME TimerInv, NEW t \in Tasks, NEW time \in Times, Sched(t, time)
    PROVE  TypeOK' /\ QueueInv' /\ CountInv' /\ WaitInv'
<1>0. /\ TypeOK /\ pc \in [TimerThreads -> Places]
      /\ deadline \in [TimerThreads -> Int]
  BY PlacesType DEF TimerInv, TypeOK
<1>1. UNCHANGED <<newTasksMayBeScheduled, firing, now, userClock, userClockOffset>>
  BY DEF Sched, clocks
<1> DEFINE started(w) == [pc EXCEPT ![w] = IF @ = "dead" THEN "top" ELSE @]
<1>2. PICK w \in Server : /\ thread' = w
                          /\ \/ Enqueue(t, time, started(w))
                             \/ Refuse(t, started(w))
  BY DEF Sched
<1> DEFINE at == started(w)
<1>3. w \in TimerThreads /\ \A v \in TimerThreads : Alive(v) => v = w
  BY TimerAssumption DEF Server, Alive, TimerInv, TypeOK, AliveIsThread
<1>4. /\ at \in [TimerThreads -> Places]
      /\ \A v \in TimerThreads : at[v] # "dead" => v = w
      /\ \A v \in TimerThreads : at[v] \in {"idle", "asleep"} => at[v] = pc[v]
  BY <1>0, <1>3, TimerAssumption DEF Alive, Places
<1> HIDE DEF at
<1>5. CASE Refuse(t, at)
  <2>1. pc' = at /\ UNCHANGED <<queue, task, userClockTaskCount, deadline>>
    BY <1>5 DEF Refuse
  <2>2. QueueInv' /\ CountInv'
    BY <2>1, TimesUnchanged
  <2>3. TypeOK'
    BY <1>0, <1>1, <1>2, <1>3, <1>4, <2>1 DEF TypeOK, Places
  <2>4. WaitInv'
    BY <1>4, <2>1 DEF WaitInv, TimerInv
  <2>5. QED
    BY <2>2, <2>3, <2>4
<1>6. CASE Enqueue(t, time, at)
  <2>1. /\ QueueInv' /\ CountInv'
        /\ task' \in [Tasks -> Fields]
        /\ ToSet(queue') = ToSet(queue) \cup {t}
        /\ queue # <<>> => queue'[1] \in {queue[1], t}
        /\ \A u \in ToSet(queue) :
              task'[u].nextExecutionTime = task[u].nextExecutionTime
    BY <1>6, EnqueueKeeps
  <2>2. /\ queue' \in Seq(Tasks) /\ IsInjective(queue')
        /\ userClockTaskCount' \in Int
    BY <2>1, FS_CardinalityType DEF QueueInv, QueueOf, CountInv
  <2>3. /\ pc' \in [TimerThreads -> Places]
        /\ deadline' \in [TimerThreads -> Int]
        /\ WaitInv'
    <3>1. CASE Notify(at)
      BY <1>0, <1>4, <3>1, NotifyWakes
    <3>2. CASE queue'[1] # t /\ pc' = at /\ UNCHANGED deadline
      <4>1. ASSUME NEW v \in TimerThreads, pc'[v] \in {"idle", "asleep"},
                   queue' # <<>>
            PROVE  /\ pc[v] = "asleep" /\ queue # <<>>
                   /\ deadline'[v] <= task'[queue'[1]].nextExecutionTime
        <5>1. queue'[1] \in ToSet(queue')
          BY <2>2, <4>1, QueueAsHeap
        <5>2. queue'[1] \in ToSet(queue)
          BY <2>1, <3>2, <5>1
        <5>3. queue # <<>>
          BY <5>2, InvParts, QueueAsHeap
        <5>4. queue'[1] = queue[1]
          BY <2>1, <3>2, <5>3
        <5>5. pc[v] = "asleep" /\ deadline[v] <= task[queue[1]].nextExecutionTime
          BY <1>4, <3>2, <4>1, <5>3 DEF WaitInv, TimerInv
        <5>6. task'[queue[1]].nextExecutionTime = task[queue[1]].nextExecutionTime
          BY <2>1, <5>2, <5>4
        <5>7. QED
          BY <3>2, <5>3, <5>4, <5>5, <5>6
      <4>2. WaitInv'
        BY <1>4, <3>2, <4>1 DEF WaitInv
      <4>3. QED
        BY <1>0, <1>4, <3>2, <4>2
    <3>3. QED
      BY <1>6, <3>1, <3>2 DEF Enqueue, Announce
  <2>4. TypeOK'
    BY <1>0, <1>1, <1>2, <1>3, <2>1, <2>2, <2>3 DEF TypeOK, Places, Fields
  <2>5. QED
    BY <2>1, <2>3, <2>4
<1>7. QED
  BY <1>2, <1>5, <1>6 DEF at

\* The other steps leave the queue alone, and at most end a wait.
LEMMA QuietKeeps ==
    ASSUME TimerInv, UNCHANGED <<queue, userClockTaskCount>>,
           task' \in [Tasks -> Fields],
           \A t \in Tasks :
              /\ task'[t].nextExecutionTime = task[t].nextExecutionTime
              /\ task'[t].isUserClock = task[t].isUserClock
              /\ task'[t].state \in {task[t].state, "cancelled"},
           \A v \in TimerThreads :
              pc'[v] \in {"idle", "asleep"} =>
                 pc'[v] = pc[v] /\ deadline'[v] = deadline[v]
    PROVE  QueueInv' /\ CountInv' /\ WaitInv'
<1>1. QueueInv' /\ CountInv'
  BY TimesUnchanged
<1>2. queue # <<>> => queue[1] \in Tasks
  BY InvParts
<1>3. WaitInv'
  BY <1>2 DEF WaitInv, TimerInv
<1>4. QED
  BY <1>1, <1>3

\* The steps of a timer thread.
LEMMA ThreadStepKeeps ==
    ASSUME TimerInv, NEW w \in TimerThreads, ThreadStep(w) \/ Interrupt(w)
    PROVE  TypeOK' /\ QueueInv' /\ CountInv' /\ WaitInv'
<1>0. /\ TypeOK /\ pc \in [TimerThreads -> Places]
      /\ task \in [Tasks -> Fields]
  BY PlacesType, InvParts DEF TimerInv
<1>1. CASE RunEnds(w)
  <2>1. /\ pc[w] = "run"
        /\ firing' = [firing EXCEPT ![w] = NoTask]
        /\ UNCHANGED <<queue, userClockTaskCount, newTasksMayBeScheduled,
                       thread, deadline, now, userClock, userClockOffset>>
        /\ \E place \in {"top", "killed"} : pc' = [pc EXCEPT ![w] = place]
        /\ task' = task \/ task' = [task EXCEPT ![firing[w]].state = "cancelled"]
    BY <1>1 DEF RunEnds, clocks
  <2>2. /\ task' \in [Tasks -> Fields]
        /\ \A t \in Tasks :
              /\ task'[t].nextExecutionTime = task[t].nextExecutionTime
              /\ task'[t].isUserClock = task[t].isUserClock
              /\ task'[t].state \in {task[t].state, "cancelled"}
    BY <1>0, <2>1 DEF Fields
  <2>3. /\ pc' \in [TimerThreads -> Places]
        /\ \A v \in TimerThreads : pc'[v] \in {"idle", "asleep"} => pc'[v] = pc[v]
    BY <1>0, <2>1 DEF Places
  <2>4. TypeOK'
    BY <1>0, <2>1, <2>2, <2>3 DEF TypeOK, Places, Fields
  <2>5. QED
    BY <2>1, <2>2, <2>3, <2>4, QuietKeeps
<1>2. CASE ActAsCancelled(w)
  <2>1. /\ Clear /\ pc[w] = "killed"
        /\ pc' = [pc EXCEPT ![w] = "exit"]
        /\ UNCHANGED <<task, thread, deadline, firing, now, userClock,
                       userClockOffset>>
    BY <1>2 DEF ActAsCancelled, clocks
  <2>2. /\ queue' = <<>> /\ userClockTaskCount' = 0
        /\ newTasksMayBeScheduled' \in BOOLEAN
    BY <2>1 DEF Clear
  <2>3. QueueInv' /\ CountInv' /\ queue' \in Seq(Tasks) /\ IsInjective(queue')
    BY <2>1, QueueCleared
  <2>4. TypeOK'
    <3>1. pc' \in [TimerThreads -> Places]
      BY <1>0, <2>1 DEF Places
    <3>2. QED
      BY <1>0, <2>1, <2>2, <2>3, <3>1 DEF TypeOK, Places
  <2>5. WaitInv'
    BY <2>2 DEF WaitInv
  <2>6. QED
    BY <2>3, <2>4, <2>5
<1>3. CASE Die(w)
  <2>1. /\ pc' = [pc EXCEPT ![w] = "dead"]
        /\ UNCHANGED <<queue, task, userClockTaskCount, newTasksMayBeScheduled,
                       thread, deadline, firing, now, userClock, userClockOffset>>
    BY <1>3 DEF Die, clocks
  <2>2. TypeOK'
    BY <1>0, <2>1 DEF TypeOK, Places
  <2>3. \A v \in TimerThreads : pc'[v] \in {"idle", "asleep"} => pc'[v] = pc[v]
    BY <1>0, <2>1
  <2>4. QED
    BY <1>0, <2>1, <2>2, <2>3, QuietKeeps
<1>4. CASE WaitTimesOut(w) \/ Interrupt(w)
  <2>1. /\ w \in Waiting(pc)
        /\ \E place \in {"idle_woken", "top"} : pc' = [pc EXCEPT ![w] = place]
        /\ deadline' = [deadline EXCEPT ![w] = 0]
        /\ UNCHANGED <<queue, task, userClockTaskCount, newTasksMayBeScheduled,
                       thread, firing, now, userClock, userClockOffset>>
    BY <1>4 DEF WaitTimesOut, Interrupt, EndWait, WaitEnds, clocks
  <2>2. TypeOK'
    <3>1. /\ pc' \in [TimerThreads -> Places]
          /\ deadline' \in [TimerThreads -> Int]
      BY <1>0, <2>1 DEF TypeOK, Places
    <3>2. QED
      BY <1>0, <2>1, <3>1 DEF TypeOK, Places
  <2>3. \A v \in TimerThreads : pc'[v] \in {"idle", "asleep"} =>
           pc'[v] = pc[v] /\ deadline'[v] = deadline[v]
    BY <1>0, <2>1 DEF TypeOK
  <2>4. QED
    BY <1>0, <2>1, <2>2, <2>3, QuietKeeps
<1>5. QED
  BY <1>1, <1>2, <1>3, <1>4, LookKeeps DEF ThreadStep

\* Every step.
LEMMA TimerInvStep ==
    ASSUME TimerInv, [Next]_vars
    PROVE  TimerInv'
<1>0. /\ TypeOK /\ pc \in [TimerThreads -> Places]
      /\ task \in [Tasks -> Fields]
  BY PlacesType, InvParts DEF TimerInv
<1>1. AliveIsThread' /\ CancelledTimerIsEmpty'
  <2>1. ThreadInv /\ CancelledTimerIsEmpty
    BY InvParts DEF TimerInv
  <2>2. QED
    BY <2>1, ThreadInvStep, CancelledStep DEF ThreadInv
<1> DEFINE Goal == TypeOK' /\ QueueInv' /\ CountInv' /\ WaitInv'
<1>2. ASSUME NEW t \in Tasks, NEW time \in Times, Sched(t, time)
      PROVE  Goal
  BY <1>2, SchedKeeps
<1>3. ASSUME NEW w \in TimerThreads, ThreadStep(w) \/ Interrupt(w)
      PROVE  Goal
  BY <1>3, ThreadStepKeeps
<1>4. ASSUME NEW t \in Tasks, CancelTask(t)
      PROVE  Goal
  <2>1. /\ task' = [task EXCEPT ![t].state = "cancelled"]
        /\ UNCHANGED <<queue, userClockTaskCount, newTasksMayBeScheduled, thread,
                       pc, deadline, firing, now, userClock, userClockOffset>>
    BY <1>4 DEF CancelTask, clocks
  <2>2. /\ task' \in [Tasks -> Fields]
        /\ \A u \in Tasks :
              /\ task'[u].nextExecutionTime = task[u].nextExecutionTime
              /\ task'[u].isUserClock = task[u].isUserClock
              /\ task'[u].state \in {task[u].state, "cancelled"}
    BY <1>0, <2>1 DEF Fields
  <2>3. TypeOK'
    BY <1>0, <2>1, <2>2 DEF TypeOK, Fields
  <2>4. QED
    BY <2>1, <2>2, <2>3, QuietKeeps
<1>5. ASSUME Cancel
      PROVE  Goal
  <2>1. /\ Clear /\ Notify(pc)
        /\ UNCHANGED <<task, thread, firing, now, userClock, userClockOffset>>
    BY <1>5 DEF Cancel, clocks
  <2>2. /\ queue' = <<>> /\ userClockTaskCount' = 0
        /\ newTasksMayBeScheduled' \in BOOLEAN
    BY <2>1 DEF Clear
  <2>3. QueueInv' /\ CountInv' /\ queue' \in Seq(Tasks) /\ IsInjective(queue')
    BY <2>1, QueueCleared
  <2>4. /\ pc' \in [TimerThreads -> Places]
        /\ deadline' \in [TimerThreads -> Int]
        /\ WaitInv'
    <3>1. \A v \in TimerThreads : pc[v] # "dead" => v = thread
      BY TimerAssumption DEF TimerInv, AliveIsThread, Alive
    <3>2. deadline \in [TimerThreads -> Int]
      BY <1>0 DEF TypeOK
    <3>3. QED
      BY <1>0, <2>1, <3>1, <3>2, NotifyWakes
  <2>5. TypeOK'
    BY <1>0, <2>1, <2>2, <2>3, <2>4 DEF TypeOK, Places
  <2>6. QED
    BY <2>3, <2>4, <2>5
<1>6. ASSUME \/ Tick
             \/ \E d \in 0..MaxDeviation : SetUserClock(d)
             \/ UNCHANGED vars
      PROVE  Goal
  <2>1. UNCHANGED <<queue, task, userClockTaskCount, newTasksMayBeScheduled,
                    thread, pc, deadline, firing, userClockOffset>>
    BY <1>6 DEF Tick, SetUserClock, vars
  <2>2. now' \in Nat /\ userClock' \in Int
    BY <1>0, <1>6 DEF Tick, SetUserClock, vars, TypeOK
  <2>3. TypeOK'
    BY <1>0, <2>1, <2>2 DEF TypeOK
  <2>4. QED
    BY <1>0, <2>1, <2>3, QuietKeeps
<1> HIDE DEF Goal
<1>7. Goal
  BY <1>2, <1>3, <1>4, <1>5, <1>6 DEF Next
<1>8. QED
  BY <1>1, <1>7 DEF Goal, TimerInv

\* The initial state.
LEMMA TimerInvInit == Init => TimerInv
<1> SUFFICES ASSUME Init
             PROVE  TimerInv
  OBVIOUS
<1>1. /\ <<>> \in Seq(Tasks) /\ Len(<<>>) = 0 /\ ToSet(<<>>) = {}
      /\ IsInjective(<<>>)
  BY DEF ToSet, IsInjective
<1>2. TypeOK
  BY <1>1 DEF Init, TypeOK
<1>3. QueueInv
  BY <1>1 DEF Init, QueueInv, QueueOf
<1>4. OnClock = {}
  BY <1>1 DEF Init, OnClock
<1>5. CountInv
  BY <1>4, FS_EmptySet DEF Init, CountInv
<1>6. AliveIsThread /\ WaitInv /\ CancelledTimerIsEmpty
  BY DEF Init, AliveIsThread, Alive, WaitInv, CancelledTimerIsEmpty
<1>7. QED
  BY <1>2, <1>3, <1>5, <1>6 DEF TimerInv

-----------------------------------------------------------------------------
(* Theorems.                                                               *)

\* Every reachable state satisfies the inductive invariant.
THEOREM TimerInvariance == Spec => []TimerInv
<1>1. TimerInv /\ [Next]_vars => TimerInv'
  BY TimerInvStep
<1>2. QED
  BY <1>1, TimerInvInit, PTL DEF Spec

\* The variables keep their types: what the loops of the heap leave in the
\* queue is a sequence of tasks, each of them once.
THEOREM TimerTypes == Spec => []TypeOK
<1>1. TimerInv => TypeOK
  BY DEF TimerInv
<1>2. QED
  BY <1>1, TimerInvariance, PTL

\* userClockTaskCount counts the tasks on the user clock, whatever comes, goes,
\* is cancelled or is repeated.
THEOREM CountOfUserClockTasks == Spec => []UserClockTasksCounted
<1>1. TimerInv => UserClockTasksCounted
  BY DEF TimerInv, CountInv, OnClock, UserClockTasksCounted
<1>2. QED
  BY <1>1, TimerInvariance, PTL

\* QueueIsHeap says of the queue what the lemmas say of heaps.
LEMMA HeapIsOrdered == QueueIsHeap <=> Ordered(task, queue)
BY DEF QueueIsHeap, Ordered, InOrder, Due

\* A thread that waits wakes up no later than the first task in the queue is
\* due, nor, when the queue is a heap, than any other task.
THEOREM WaitsEndInTime == Spec => []NoTaskIsOverslept
<1>1. TimerInv => NoTaskIsOverslept
  <2> SUFFICES ASSUME TimerInv, NEW w \in TimerThreads, pc[w] = "asleep",
                      NEW i \in 1..Len(queue), i = 1 \/ QueueIsHeap
               PROVE  deadline[w] <= task[queue[i]].nextExecutionTime
    BY DEF TimerInv, WaitInv, NoTaskIsOverslept
  <2>1. queue # <<>> /\ 1 \in 1..Len(queue) /\ queue \in Seq(Tasks)
    BY InvParts
  <2>2. deadline[w] <= task[queue[1]].nextExecutionTime
    BY <2>1 DEF TimerInv, WaitInv
  <2>3. CASE i = 1
    BY <2>2, <2>3
  <2>4. CASE QueueIsHeap
    <3>1. task[queue[1]].nextExecutionTime <= task[queue[i]].nextExecutionTime
      BY <2>1, <2>4, HeapIsOrdered, InvParts, FirstIsEarliest DEF Due
    <3>2. /\ deadline[w] \in Int
          /\ task[queue[1]].nextExecutionTime \in Int
          /\ task[queue[i]].nextExecutionTime \in Int
      BY <2>1, InvParts DEF TimerInv, TypeOK, Timed, Due
    <3>3. QED
      BY <2>2, <3>1, <3>2
  <2>5. QED
    BY <2>3, <2>4
<1>2. QED
  BY <1>1, TimerInvariance, PTL

\* A correction of the user clock leaves every task of a heap where it is: the
\* loop that promotes meets tasks that are due later now, and the loop that
\* demotes meets tasks that are due earlier.
THEOREM CorrectionMovesNothing == Spec => [](QueueIsHeap => Reordered = queue)
<1>1. TimerInv => (QueueIsHeap => Reordered = queue)
  BY HeapIsOrdered, InvParts, ShiftedFields, CorrectionStays
<1>2. QED
  BY <1>1, TimerInvariance, PTL

\* A correction that moves all tasks, or none, keeps a heap in order.
LEMMA CorrectionKeepsOrder ==
    ASSUME TimerInv, QueueIsHeap,
           SkewSeen = 0 \/ \A t \in ToSet(queue) : task[t].isUserClock
    PROVE  Reordered = queue /\ Ordered(Shifted, queue)
<1> DEFINE due(i) == Due(task, queue[i])
           new(i) == Due(Shifted, queue[i])
           by == SkewSeen
<1>1. /\ Reordered = queue /\ Ordered(task, queue) /\ queue \in Seq(Tasks)
      /\ by \in Int /\ Timed(task)
  BY HeapIsOrdered, InvParts, ShiftedFields, CorrectionStays
<1>2. ASSUME NEW i \in 1..Len(queue)
      PROVE  due(i) \in Int /\ new(i) = due(i) - by
  <2>1. queue[i] \in Tasks /\ queue[i] \in ToSet(queue)
    BY <1>1, QueueAsHeap DEF Heaps
  <2>2. due(i) \in Int
    BY <1>1, <2>1 DEF Timed
  <2>3. new(i) = IF task[queue[i]].isUserClock THEN due(i) - by ELSE due(i)
    BY <1>1, <2>1, <2>2, ShiftedDue DEF Due
  <2> HIDE DEF due, new
  <2>4. QED
    BY <1>1, <2>1, <2>2, <2>3
<1>3. ASSUME NEW i \in 2..Len(queue)
      PROVE  new(i \div 2) <= new(i)
  <2> DEFINE up == i \div 2
  <2>1. i \in 1..Len(queue) /\ up \in 1..Len(queue) /\ due(up) <= due(i)
    BY <1>1 DEF Ordered, InOrder
  <2> HIDE DEF up, due, new, by
  <2>2. new(up) <= new(i)
    BY <1>1, <1>2, <2>1
  <2>3. QED
    BY <2>2 DEF up
<1>4. QED
  BY <1>1, <1>3 DEF Ordered, InOrder

\* A pass of mainLoop that meets a task, and what it does to the user clock.
LEMMA CorrectionInStep ==
    ASSUME TimerInv, NEW w, MeetTask(w), QueueIsHeap, ~MixedCorrection
    PROVE  /\ Reordered = queue
           /\ Ordered(Shifted, queue)
<1>1. userClockOffset' = userClockOffset + SkewSeen
  BY DEF MeetTask
<1>2. userClockOffset \in Int /\ SkewSeen \in Int
  BY ShiftedFields DEF TimerInv, TypeOK
<1>3. SkewSeen # 0 => \A t \in ToSet(queue) : task[t].isUserClock
  BY <1>1, <1>2 DEF MixedCorrection
<1>4. QED
  BY <1>3, CorrectionKeepsOrder

\* A pass of mainLoop keeps a heap.
LEMMA LookKeepsHeap ==
    ASSUME TimerInv, NEW w \in TimerThreads, Look(w), QueueIsHeap,
           ~MixedCorrection
    PROVE  QueueIsHeap'
<1>1. CASE MeetEmptyQueue(w)
  BY <1>1 DEF MeetEmptyQueue, QueueIsHeap
<1>2. CASE MeetTask(w)
  <2> DEFINE t == Reordered[1]
  <2>1. /\ queue # <<>>
        /\ DropCancelled(w, t) \/ Fire(w, t) \/ Sleep(w, t)
    BY <1>2 DEF MeetTask
  <2>2. Reordered = queue /\ Ordered(Shifted, queue)
    BY <1>2, CorrectionInStep
  <2>3. /\ QueueOf(queue, ToSet(queue)) /\ queue \in Seq(Tasks)
        /\ ToSet(queue) \subseteq Tasks
        /\ t \in ToSet(queue)
        /\ Shifted \in [Tasks -> Fields] /\ Timed(Shifted)
        /\ now \in Int
    BY <2>1, FirstTask, InvParts, ShiftedFields DEF TimerInv, TypeOK
  <2>4. t = queue[1]
    BY <2>2
  <2> HIDE DEF t
  <2>5. /\ QueueOf(RemoveMin(Shifted, queue), ToSet(queue) \ {t})
        /\ Ordered(Shifted, RemoveMin(Shifted, queue))
    BY <2>1, <2>2, <2>3, <2>4, RemoveMinKeeps
  <2>6. ASSUME NEW tasks, \A u \in Tasks : u # t => Due(tasks, u) = Due(Shifted, u)
        PROVE  Ordered(tasks, RemoveMin(Shifted, queue))
    <3> DEFINE g == RemoveMin(Shifted, queue)
    <3>1. /\ g \in Seq(Tasks) /\ ToSet(g) = ToSet(queue) \ {t}
          /\ Ordered(Shifted, g)
      BY <2>5 DEF QueueOf
    <3> HIDE DEF g
    <3>2. \A i \in 1..Len(g) : g[i] \in Tasks /\ g[i] # t
      BY <3>1, QueueAsHeap DEF Heaps
    <3>3. \A i \in 2..Len(g) : i \in 1..Len(g) /\ i \div 2 \in 1..Len(g)
      BY <3>1
    <3>4. Ordered(tasks, g)
      BY <2>6, <3>1, <3>2, <3>3 DEF Ordered, InOrder
    <3>5. QED
      BY <3>4 DEF g
  <2>7. CASE DropCancelled(w, t)
    <3>1. task' = Shifted /\ queue' = RemoveMin(Shifted, queue)
      BY <2>2, <2>7 DEF DropCancelled
    <3>2. Ordered(task', queue')
      BY <2>5, <3>1
    <3>3. QED
      BY <3>2 DEF QueueIsHeap, Ordered, InOrder, Due
  <2>8. CASE Fire(w, t)
    <3>1. CASE Period[t] = 0
      <4>1. /\ task' = [Shifted EXCEPT ![t].state = "executed"]
            /\ queue' = RemoveMin(Shifted, queue)
        BY <2>2, <2>8, <3>1 DEF Fire
      <4>2. \A u \in Tasks : u # t => Due(task', u) = Due(Shifted, u)
        BY <2>3, <4>1 DEF Due
      <4>3. Ordered(task', queue')
        BY <2>6, <4>1, <4>2
      <4>4. QED
        BY <4>3 DEF QueueIsHeap, Ordered, InOrder, Due
    <3>2. CASE Period[t] # 0
      <4> DEFINE next == IF Period[t] < 0
                         THEN now - Period[t]
                         ELSE Shifted[t].nextExecutionTime + Period[t]
      <4>1. /\ task' = [Shifted EXCEPT ![t].nextExecutionTime = next,
                                       ![t].isUserClock = FALSE]
            /\ queue' = FixDown(task', queue, 1)
        BY <2>2, <2>8, <3>2 DEF Fire
      <4>2. next \in Int
        BY <2>3, TimerAssumption DEF Fields
      <4> HIDE DEF next
      <4>3. /\ Timed(task')
            /\ \A u \in Tasks : u # t => Due(task', u) = Due(Shifted, u)
        BY <2>3, <4>1, <4>2 DEF Timed, Due, Fields
      <4>4. ASSUME NEW i \in 2..Len(queue), i \div 2 > 1
            PROVE  InOrder(task', queue, i)
        <5>1. i \in 1..Len(queue) /\ i \div 2 \in 1..Len(queue) /\ 1 \in 1..Len(queue)
          BY <2>3, <4>4
        <5>2. /\ queue[i] \in Tasks /\ queue[i] # t
              /\ queue[i \div 2] \in Tasks /\ queue[i \div 2] # t
          BY <2>3, <2>4, <4>4, <5>1 DEF QueueOf, IsInjective
        <5>3. QED
          BY <2>2, <4>3, <5>2 DEF Ordered, InOrder
      <4>5. Ordered(task', queue')
        BY <2>3, <4>1, <4>3, <4>4, FixFirst
      <4>6. QED
        BY <4>5 DEF QueueIsHeap, Ordered, InOrder, Due
    <3>3. QED
      BY <3>1, <3>2
  <2>9. CASE Sleep(w, t)
    <3>1. task' = Shifted /\ queue' = queue
      BY <2>2, <2>9 DEF Sleep
    <3>2. QED
      BY <2>2, <3>1 DEF QueueIsHeap, Ordered, InOrder, Due
  <2>10. QED
    BY <2>1, <2>7, <2>8, <2>9
<1>3. QED
  BY <1>1, <1>2 DEF Look

\* sched keeps a heap.
LEMMA SchedKeepsHeap ==
    ASSUME TimerInv, NEW t \in Tasks, NEW time \in Times, Sched(t, time),
           QueueIsHeap
    PROVE  QueueIsHeap'
<1> DEFINE fields == [state |-> "scheduled", nextExecutionTime |-> time,
                      isUserClock |-> t \in OnUserClock]
<1>1. \/ UNCHANGED <<queue, task>>
      \/ /\ task[t].state = "virgin"
         /\ task' = [task EXCEPT ![t] = fields]
         /\ queue' = FixUp(task', Append(queue, t), Len(queue) + 1)
  BY DEF Sched, Refuse, Enqueue, Add
<1>2. CASE UNCHANGED <<queue, task>>
  BY <1>2 DEF QueueIsHeap
<1>3. CASE /\ task[t].state = "virgin"
           /\ task' = [task EXCEPT ![t] = fields]
           /\ queue' = FixUp(task', Append(queue, t), Len(queue) + 1)
  <2>1. t \notin ToSet(queue)
    BY <1>3 DEF TimerInv, QueueInv
  <2>2. /\ \A u \in Tasks : Due(task', u) = IF u = t THEN time ELSE Due(task, u)
        /\ Timed(task')
    BY <1>3, InvParts, TimerAssumption DEF Timed, Due, Fields
  <2>3. Ordered(task', queue)
    <3>1. \A i \in 1..Len(queue) : queue[i] \in Tasks /\ queue[i] # t
      BY <2>1, InvParts, QueueAsHeap DEF Heaps
    <3>2. \A i \in 2..Len(queue) : i \in 1..Len(queue) /\ i \div 2 \in 1..Len(queue)
      BY InvParts
    <3>3. Ordered(task, queue)
      BY HeapIsOrdered
    <3>4. QED
      BY <2>2, <3>1, <3>2, <3>3 DEF Ordered, InOrder
  <2>4. Ordered(task', queue')
    BY <1>3, <2>1, <2>2, <2>3, InvParts, AddKeeps
  <2>5. QED
    BY <2>4 DEF QueueIsHeap, Ordered, InOrder, Due
<1>4. QED
  BY <1>1, <1>2, <1>3

\* Every step but a correction that moves some tasks and not others.
LEMMA HeapKeptStep ==
    ASSUME TimerInv, [Next]_vars, QueueIsHeap, ~MixedCorrection
    PROVE  QueueIsHeap'
<1>1. ASSUME queue' = queue,
             \A t \in Tasks : task'[t].nextExecutionTime = task[t].nextExecutionTime
      PROVE  QueueIsHeap'
  <2>1. \A i \in 2..Len(queue) : queue[i] \in Tasks /\ queue[i \div 2] \in Tasks
    <3>1. \A i \in 1..Len(queue) : queue[i] \in Tasks
      BY InvParts
    <3>2. \A i \in 2..Len(queue) : i \in 1..Len(queue) /\ i \div 2 \in 1..Len(queue)
      BY InvParts
    <3>3. QED
      BY <3>1, <3>2
  <2>2. QED
    BY <1>1, <2>1 DEF QueueIsHeap
<1>2. ASSUME NEW w \in TimerThreads, RunEnds(w)
      PROVE  QueueIsHeap'
  <2>1. queue' = queue /\ \/ task' = task
                          \/ task' = [task EXCEPT ![firing[w]].state = "cancelled"]
    BY <1>2 DEF RunEnds
  <2>2. \A t \in Tasks : task'[t].nextExecutionTime = task[t].nextExecutionTime
    BY <2>1, InvParts DEF Fields
  <2>3. QED
    BY <1>1, <2>1, <2>2
<1>3. ASSUME NEW t \in Tasks, CancelTask(t)
      PROVE  QueueIsHeap'
  <2>1. queue' = queue /\ task' = [task EXCEPT ![t].state = "cancelled"]
    BY <1>3 DEF CancelTask
  <2>2. \A u \in Tasks : task'[u].nextExecutionTime = task[u].nextExecutionTime
    BY <2>1, InvParts DEF Fields
  <2>3. QED
    BY <1>1, <2>1, <2>2
<1>4. CASE Clear
  <2>1. queue' = <<>>
    BY <1>4 DEF Clear
  <2>2. QED
    BY <2>1 DEF QueueIsHeap
<1>5. CASE UNCHANGED <<queue, task>>
  BY <1>1, <1>5
<1>6. ASSUME NEW w \in TimerThreads, ThreadStep(w) \/ Interrupt(w)
      PROVE  QueueIsHeap'
  BY <1>2, <1>4, <1>5, <1>6, LookKeepsHeap
  DEF ThreadStep, ActAsCancelled, Die, WaitTimesOut, Interrupt
<1>7. CASE Cancel \/ Tick \/ (\E d \in 0..MaxDeviation : SetUserClock(d))
           \/ UNCHANGED vars
  BY <1>4, <1>5, <1>7 DEF Cancel, Tick, SetUserClock, vars
<1>8. QED
  BY <1>3, <1>6, <1>7, SchedKeepsHeap DEF Next

\* add, removeMin, rescheduleMin and clear keep a heap, for heaps of every size,
\* and so does a change of the user clock that concerns all queued tasks.
THEOREM HeapOrder == Spec => HeapKept
<1>1. TimerInv /\ [Next]_vars
         => [QueueIsHeap /\ ~MixedCorrection => QueueIsHeap']_vars
  BY HeapKeptStep
<1>2. QED
  BY <1>1, TimerInvariance, PTL DEF Spec, HeapKept

\* The class comment of TaskQueue holds as long as no change of the user clock
\* finds tasks of both clocks in the queue.
THEOREM HeapUntilMixed == Spec /\ [][~MixedCorrection]_vars => []QueueIsHeap
<1>1. Init => QueueIsHeap
  BY DEF Init, QueueIsHeap
<1>2. UNCHANGED vars => (QueueIsHeap <=> QueueIsHeap')
  BY DEF vars, QueueIsHeap
<1>3. QueueIsHeap /\ [~MixedCorrection]_vars
         /\ [QueueIsHeap /\ ~MixedCorrection => QueueIsHeap']_vars
         => QueueIsHeap'
  BY <1>2
<1>4. QED
  BY <1>1, <1>3, HeapOrder, PTL DEF Spec, HeapKept

\* What RunsTheEarliestDue says of a thread.
Chosen(w) ==
    LET t == firing'[w]
    IN  t # firing[w] /\ t # NoTask =>
          /\ newTasksMayBeScheduled
          /\ task[t].state = "scheduled"
          /\ Shifted[t].nextExecutionTime <= now
          /\ QueueIsHeap /\ ~MixedCorrection =>
                \A u \in ToSet(queue) :
                   Shifted[t].nextExecutionTime
                      <= Shifted[u].nextExecutionTime

\* A task begins only in a pass of mainLoop that has met it first.
LEMMA EarliestDueStep ==
    ASSUME TimerInv, [Next]_vars
    PROVE  [\A w \in TimerThreads : Chosen(w)]_vars
<1>1. ASSUME Next, NEW w \in TimerThreads
      PROVE  Chosen(w)
  <2>1. CASE UNCHANGED firing
    BY <2>1 DEF Chosen
  <2>2. firing \in [TimerThreads -> Tasks \cup {NoTask}]
    BY <1>1 DEF TimerInv, TypeOK
  <2>3. ASSUME NEW v \in TimerThreads, Look(v)
        PROVE  Chosen(w)
    <3>1. CASE MeetEmptyQueue(v)
      BY <2>1, <3>1 DEF MeetEmptyQueue
    <3>2. CASE MeetTask(v)
      <4> DEFINE t == Reordered[1]
      <4>1. queue # <<>> /\ (DropCancelled(v, t) \/ Fire(v, t) \/ Sleep(v, t))
        BY <3>2 DEF MeetTask
      <4>2. t \in ToSet(queue)
        BY <1>1, <4>1, FirstTask
      <4>3. ASSUME QueueIsHeap, ~MixedCorrection, NEW u \in ToSet(queue)
            PROVE  Shifted[t].nextExecutionTime <= Shifted[u].nextExecutionTime
        <5>1. Reordered = queue /\ Ordered(Shifted, queue)
          BY <1>1, <3>2, <4>3, CorrectionInStep
        <5>2. PICK i \in 1..Len(queue) : u = queue[i]
          BY <1>1, InvParts, QueueAsHeap
        <5>3. QED
          BY <1>1, <5>1, <5>2, InvParts, ShiftedFields, FirstIsEarliest DEF Due
      <4> HIDE DEF t
      <4>4. CASE DropCancelled(v, t) \/ Sleep(v, t)
        BY <2>1, <4>4 DEF DropCancelled, Sleep
      <4>5. CASE Fire(v, t)
        <5>1. /\ firing' = [firing EXCEPT ![v] = t]
              /\ Shifted[t].nextExecutionTime <= now
              /\ Shifted[t].state # "cancelled"
          BY <4>5 DEF Fire, IsCancelled
        <5>2. task[t].state = "scheduled"
          BY <1>1, <4>2, <5>1, InvParts, ShiftedFields DEF TimerInv, QueueInv
        <5>3. newTasksMayBeScheduled
          BY <1>1, <4>1 DEF TimerInv, CancelledTimerIsEmpty
        <5>4. QED
          BY <2>2, <4>3, <5>1, <5>2, <5>3 DEF Chosen
      <4>6. QED
        BY <4>1, <4>4, <4>5
    <3>3. QED
      BY <2>3, <3>1, <3>2 DEF Look
  <2>4. ASSUME NEW v \in TimerThreads, RunEnds(v)
        PROVE  Chosen(w)
    BY <2>2, <2>4 DEF RunEnds, Chosen
  <2>5. CASE \/ \E v \in TimerThreads : \/ ActAsCancelled(v) \/ Die(v)
                                       \/ WaitTimesOut(v) \/ Interrupt(v)
             \/ \E t \in Tasks, time \in Times : Sched(t, time)
             \/ \E t \in Tasks : CancelTask(t)
             \/ \E d \in 0..MaxDeviation : SetUserClock(d)
             \/ Cancel \/ Tick
    BY <2>1, <2>5 DEF ActAsCancelled, Die, WaitTimesOut, Interrupt, Sched,
       CancelTask, SetUserClock, Cancel, Tick
  <2>6. QED
    BY <1>1, <2>3, <2>4, <2>5 DEF Next, ThreadStep
<1>2. QED
  BY <1>1

\* The task that begins to run is due, its timer is not cancelled, nor is it;
\* and no other task of a queue that is a heap, and that the user clock leaves
\* in order, was due before it.
THEOREM EarliestDueFirst == Spec => RunsTheEarliestDue
<1>1. TimerInv /\ [Next]_vars => [\A w \in TimerThreads : Chosen(w)]_vars
  BY EarliestDueStep
<1>2. [][\A w \in TimerThreads : Chosen(w)]_vars => RunsTheEarliestDue
  BY PTL DEF Chosen, RunsTheEarliestDue
<1>3. QED
  BY <1>1, <1>2, TimerInvariance, PTL DEF Spec

\* Thread w begins to run a task in this step.
Begins(w) == firing'[w] # firing[w] /\ firing'[w] # NoTask

\* It does so only while new tasks may be scheduled.
BeginsUncancelled == \A w \in TimerThreads : Begins(w) => newTasksMayBeScheduled

\* A task that a thread begins to run belongs to a timer that has not been
\* cancelled.
THEOREM NoneRunsAfterCancel ==
    Spec => [][BeginsUncancelled]_vars
<1>1. (\A w \in TimerThreads : Chosen(w)) => BeginsUncancelled
  BY DEF Chosen, Begins, BeginsUncancelled
<1>2. TimerInv /\ [Next]_vars => [\A w \in TimerThreads : Chosen(w)]_vars
  BY EarliestDueStep
<1>3. QED
  BY <1>1, <1>2, TimerInvariance, PTL DEF Spec
=============================================================================
