---------------------------- MODULE TasksProofs ----------------------------
(***************************************************************************)
(* What Tasks keeps true for any tasks, threads and objects.  The          *)
(* inductive invariant says in which lists threads can be, which tasks     *)
(* they can belong to there, and where the threads of a task are in each   *)
(* status of the task.                                                     *)
(***************************************************************************)
EXTENDS Tasks, FiniteSetTheorems, TLAPS

USE TasksAssumption DEF ThreadsOf, LiveThreads, WaitersOn, Locked

\* Every live thread is in one list, and no other thread is in any.
Placed ==
    /\ \A t \in Threads : life[t] = "alive" <=>
          \/ t \in active \/ t \in suspendQueue \/ t \in asynchronous
          \/ t \in waiting \/ \E o \in Objects : t \in waiters[o]
    /\ \A t \in active :
          t \notin suspendQueue /\ t \notin asynchronous /\ t \notin waiting
    /\ \A t \in suspendQueue : t \notin asynchronous /\ t \notin waiting
    /\ \A t \in asynchronous : t \notin waiting
    /\ \A o \in Objects : \A t \in waiters[o] :
          /\ t \notin active /\ t \notin suspendQueue
          /\ t \notin asynchronous /\ t \notin waiting

\* Threads wait on, queue for and own objects of their own task.
AtHome ==
    /\ \A o \in Objects : \A t \in waiters[o] :
          waitObj[t] = o /\ owner[o] # NoThread
    /\ \A o \in Objects : owner[o] # NoThread => TaskOf[owner[o]] = HomeOf[o]
    /\ \A t \in Threads : waitObj[t] # NoObject =>
          /\ t \in waiting \/ t \in waiters[waitObj[t]]
          /\ TaskOf[t] = HomeOf[waitObj[t]]

\* A thread on its way out is still listed as active.
LeavesActive == exiting # "no" => current \in active

ListInv == ListsTyped /\ Placed /\ AtHome /\ LeavesActive

-----------------------------------------------------------------------------
(* The two ways in which a native method moves other threads.              *)

\* NotifyWakeup: each lock that changes hands was free and goes to a thread
\* that waited on its object; a thread that is not admitted finds it taken.
LEMMA WakeupEffect ==
    ASSUME ListsTyped, NEW W \in SUBSET Threads, GrantLocks(W)
    PROVE  /\ owner' \in [Objects -> Threads \cup {NoThread}]
           /\ \A o \in Objects :
                 \/ owner'[o] = owner[o]
                 \/ /\ owner[o] = NoThread
                    /\ owner'[o] \in W /\ waitObj[owner'[o]] = o
           /\ Admitted(W) \subseteq W
           /\ \A t \in W \ Admitted(W) :
                 /\ waitObj[t] \in Objects
                 /\ owner'[waitObj[t]] # NoThread
<1>1. PICK f \in [Objects -> Threads \cup {NoThread}] :
         /\ \A o \in Objects :
               IF owner[o] = NoThread /\ {t \in W : waitObj[t] = o} # {}
               THEN f[o] \in {t \in W : waitObj[t] = o}
               ELSE f[o] = owner[o]
         /\ owner' = f
  BY DEF GrantLocks
<1>2. \A o \in Objects :
         \/ owner'[o] = owner[o]
         \/ owner[o] = NoThread /\ owner'[o] \in W /\ waitObj[owner'[o]] = o
  BY <1>1
<1>3. ASSUME NEW t \in W \ Admitted(W)
      PROVE  waitObj[t] \in Objects /\ owner'[waitObj[t]] # NoThread
  <2>1. waitObj[t] \in Objects
    BY <1>3 DEF Admitted, ListsTyped
  <2>2. CASE owner[waitObj[t]] = NoThread
    BY <1>1, <1>3, <2>1, <2>2
  <2>3. CASE owner[waitObj[t]] # NoThread
    BY <1>1, <2>1, <2>3
  <2>4. QED
    BY <2>1, <2>2, <2>3
<1>4. QED
  BY <1>1, <1>2, <1>3 DEF Admitted

\* Release: the lock of each object in S is free and nobody queues for it, or
\* its owner has queued for it.
LEMMA ReleaseEffect ==
    ASSUME ListsTyped, NEW S \in SUBSET Objects, NEW out, Release(S, out)
    PROVE  /\ owner' \in [Objects -> Threads \cup {NoThread}]
           /\ \A o \in S : IF waiters[o] = {} THEN owner'[o] = NoThread
                                              ELSE owner'[o] \in waiters[o]
           /\ \A o \in Objects \ S : owner'[o] = owner[o]
           /\ Heirs(S) \subseteq Threads
           /\ \A t \in Heirs(S) : \E o \in S : t \in waiters[o] /\ owner'[o] = t
           /\ \A o \in S : waiters[o] # {} => owner'[o] \in Heirs(S)
<1>1. PICK f \in [S -> Threads \cup {NoThread}] :
         /\ \A o \in S : IF waiters[o] = {} THEN f[o] = NoThread
                                            ELSE f[o] \in waiters[o]
         /\ owner' = [o \in Objects |-> IF o \in S THEN f[o] ELSE owner[o]]
  BY DEF Release
<1>2. owner' \in [Objects -> Threads \cup {NoThread}]
  BY <1>1 DEF ListsTyped
<1>3. \A o \in S : IF waiters[o] = {} THEN owner'[o] = NoThread
                                      ELSE owner'[o] \in waiters[o]
  BY <1>1
<1>4. \A o \in Objects \ S : owner'[o] = owner[o]
  BY <1>1
<1>5. \A o \in S : waiters[o] \subseteq Threads
  BY DEF ListsTyped
<1>6. \A t \in Heirs(S) : \E o \in S : t \in waiters[o] /\ owner'[o] = t
  BY <1>3 DEF Heirs
<1>7. \A o \in S : waiters[o] # {} => owner'[o] \in Heirs(S)
  BY <1>3, <1>5 DEF Heirs
<1>8. QED
  BY <1>2, <1>3, <1>4, <1>5, <1>6, <1>7

-----------------------------------------------------------------------------
(* Lists.                                                                  *)

\* Waking the threads in W, when stay are to be the active ones besides, keeps
\* the lists in order.
LEMMA WakeupLists ==
    ASSUME ListInv, NEW W \in SUBSET waiting, NEW stay \in SUBSET Threads,
           NotifyWakeup(W, stay),
           \A t \in stay : /\ t \notin suspendQueue /\ t \notin asynchronous
                           /\ t \notin waiting
                           /\ \A o \in Objects : t \notin waiters[o],
           \A t \in Threads : life'[t] = "alive" <=>
              \/ t \in stay \/ t \in suspendQueue \/ t \in asynchronous
              \/ t \in waiting \/ \E o \in Objects : t \in waiters[o]
    PROVE  /\ active' \subseteq Threads /\ suspendQueue' \subseteq Threads
           /\ asynchronous' \subseteq Threads /\ waiting' \subseteq Threads
           /\ waitObj' \in [Threads -> Objects \cup {NoObject}]
           /\ owner' \in [Objects -> Threads \cup {NoThread}]
           /\ waiters' \in [Objects -> SUBSET Threads]
           /\ Placed' /\ AtHome'
           /\ stay \subseteq active'
<1> DEFINE A == Admitted(W)
           B == Suspended(A)
<1>1. W \subseteq Threads /\ W \in SUBSET Threads
  BY DEF ListInv, ListsTyped
<1>2. /\ waiting' = waiting \ W
      /\ waiters' = [o \in Objects |->
                        waiters[o] \cup {t \in W \ A : waitObj[t] = o}]
      /\ waitObj' = [t \in Threads |-> IF t \in A THEN NoObject ELSE waitObj[t]]
      /\ active' = stay \cup (A \ B)
      /\ suspendQueue' = suspendQueue \cup B
      /\ asynchronous' = asynchronous
  BY DEF NotifyWakeup, Queued
<1>3. /\ owner' \in [Objects -> Threads \cup {NoThread}]
      /\ \A o \in Objects :
            \/ owner'[o] = owner[o]
            \/ /\ owner[o] = NoThread
               /\ owner'[o] \in W /\ waitObj[owner'[o]] = o
      /\ A \subseteq W
      /\ \A t \in W \ A : waitObj[t] \in Objects /\ owner'[waitObj[t]] # NoThread
  <2>1. ListsTyped /\ GrantLocks(W)
    BY DEF ListInv, NotifyWakeup
  <2>2. QED
    BY <1>1, <2>1, WakeupEffect
<1>4. B \subseteq A
  BY DEF Suspended
<1> HIDE DEF A, B
<1>5. /\ waitObj' \in [Threads -> Objects \cup {NoObject}]
      /\ waiters' \in [Objects -> SUBSET Threads]
  BY <1>1, <1>2 DEF ListInv, ListsTyped
<1>6. /\ active' \subseteq Threads /\ suspendQueue' \subseteq Threads
      /\ asynchronous' \subseteq Threads /\ waiting' \subseteq Threads
  BY <1>1, <1>2, <1>3, <1>4 DEF ListInv, ListsTyped
<1>7. \A o \in Objects : \A t :
         t \in waiters'[o] <=> t \in waiters[o] \/ (t \in W /\ t \notin A /\ waitObj[t] = o)
  BY <1>2
<1>8. Placed'
  <2>1. \A t \in Threads : life'[t] = "alive" <=>
           \/ t \in active' \/ t \in suspendQueue' \/ t \in asynchronous'
           \/ t \in waiting' \/ \E o \in Objects : t \in waiters'[o]
    <3> SUFFICES ASSUME NEW t \in Threads
                 PROVE  life'[t] = "alive" <=>
                          \/ t \in active' \/ t \in suspendQueue'
                          \/ t \in asynchronous' \/ t \in waiting'
                          \/ \E o \in Objects : t \in waiters'[o]
      OBVIOUS
    <3>1. CASE t \in W
      <4>1. t \in waiting /\ life'[t] = "alive"
        BY <3>1
      <4>2. CASE t \in A
        BY <1>2, <4>1, <4>2
      <4>3. CASE t \notin A
        BY <1>3, <1>7, <3>1, <4>1, <4>3
      <4>4. QED
        BY <4>2, <4>3
    <3>2. CASE t \notin W
      BY <1>2, <1>3, <1>4, <1>7, <3>2
    <3>3. QED
      BY <3>1, <3>2
  <2>2. \A t \in active' :
           t \notin suspendQueue' /\ t \notin asynchronous' /\ t \notin waiting'
    BY <1>2, <1>3, <1>4 DEF ListInv, Placed
  <2>3. \A t \in suspendQueue' : t \notin asynchronous' /\ t \notin waiting'
    BY <1>2, <1>3, <1>4 DEF ListInv, Placed
  <2>4. \A t \in asynchronous' : t \notin waiting'
    BY <1>2 DEF ListInv, Placed
  <2>5. \A o \in Objects : \A t \in waiters'[o] :
           /\ t \notin active' /\ t \notin suspendQueue'
           /\ t \notin asynchronous' /\ t \notin waiting'
    <3> SUFFICES ASSUME NEW o \in Objects, NEW t \in waiters'[o]
                 PROVE  /\ t \notin active' /\ t \notin suspendQueue'
                        /\ t \notin asynchronous' /\ t \notin waiting'
      OBVIOUS
    <3>1. CASE t \in waiters[o]
      BY <1>2, <1>3, <1>4, <3>1 DEF ListInv, Placed
    <3>2. CASE t \in W /\ t \notin A
      BY <1>2, <1>3, <1>4, <3>2 DEF ListInv, Placed
    <3>3. QED
      BY <1>7, <3>1, <3>2
  <2>6. QED
    BY <2>1, <2>2, <2>3, <2>4, <2>5 DEF Placed
<1>9. AtHome'
  <2>1. ASSUME NEW o \in Objects, NEW t \in waiters'[o]
        PROVE  waitObj'[t] = o /\ owner'[o] # NoThread
    <3>1. CASE t \in waiters[o]
      <4>1. waitObj[t] = o /\ owner[o] # NoThread /\ t \notin waiting
        BY <3>1 DEF ListInv, AtHome, Placed
      <4>2. t \in Threads /\ t \notin A
        BY <1>3, <3>1, <4>1 DEF ListInv, ListsTyped
      <4>3. QED
        BY <1>2, <1>3, <4>1, <4>2
    <3>2. CASE t \in W /\ t \notin A /\ waitObj[t] = o
      BY <1>1, <1>2, <1>3, <3>2
    <3>3. QED
      BY <1>7, <2>1, <3>1, <3>2
  <2>2. ASSUME NEW o \in Objects, owner'[o] # NoThread
        PROVE  TaskOf[owner'[o]] = HomeOf[o]
    <3>1. CASE owner'[o] = owner[o]
      BY <2>2, <3>1 DEF ListInv, AtHome
    <3>2. CASE owner'[o] \in W /\ waitObj[owner'[o]] = o
      BY <1>1, <3>2 DEF ListInv, AtHome
    <3>3. QED
      BY <1>3, <3>1, <3>2
  <2>3. ASSUME NEW t \in Threads, waitObj'[t] # NoObject
        PROVE  /\ t \in waiting' \/ t \in waiters'[waitObj'[t]]
               /\ TaskOf[t] = HomeOf[waitObj'[t]]
    <3>1. t \notin A /\ waitObj'[t] = waitObj[t]
      BY <1>2, <2>3
    <3>2. waitObj[t] \in Objects /\ TaskOf[t] = HomeOf[waitObj[t]]
      BY <2>3, <3>1 DEF ListInv, AtHome, ListsTyped
    <3>3. t \in waiting \/ t \in waiters[waitObj[t]]
      BY <2>3, <3>1 DEF ListInv, AtHome
    <3>4. QED
      BY <1>2, <1>7, <3>1, <3>2, <3>3
  <2>4. QED
    BY <2>1, <2>2, <2>3 DEF AtHome
<1>10. QED
  BY <1>2, <1>3, <1>5, <1>6, <1>8, <1>9

\* Giving up the locks of the objects in S, while the threads in out begin to
\* wait, keeps the lists in order: each lock passes to a thread of its task.
LEMMA ReleaseLists ==
    ASSUME ListInv, NEW S \in SUBSET Objects, NEW out \in SUBSET active,
           Release(S, out), waiting' = waiting \cup out,
           UNCHANGED <<life, suspendQueue, asynchronous>>,
           waitObj' \in [Threads -> Objects \cup {NoObject}],
           \A t \in Heirs(S) : waitObj'[t] = NoObject,
           \A t \in Threads : t \notin Heirs(S) /\ t \notin out
                                 => waitObj'[t] = waitObj[t],
           \A t \in out : waitObj'[t] # NoObject => TaskOf[t] = HomeOf[waitObj'[t]]
    PROVE  /\ active' \subseteq Threads /\ waiting' \subseteq Threads
           /\ owner' \in [Objects -> Threads \cup {NoThread}]
           /\ waiters' \in [Objects -> SUBSET Threads]
           /\ Placed' /\ AtHome'
           /\ \A t \in active' : t \in active \/ t \in Heirs(S)
           /\ \A t \in active : t \notin out => t \in active'
<1> DEFINE H == Heirs(S)
<1>1. /\ owner' \in [Objects -> Threads \cup {NoThread}]
      /\ \A o \in S : IF waiters[o] = {} THEN owner'[o] = NoThread
                                         ELSE owner'[o] \in waiters[o]
      /\ \A o \in Objects \ S : owner'[o] = owner[o]
      /\ H \subseteq Threads
      /\ \A t \in H : \E o \in S : t \in waiters[o] /\ owner'[o] = t
  BY ReleaseEffect DEF ListInv
<1>2. /\ active' = (active \cup H) \ out
      /\ waiters' = [o \in Objects |-> waiters[o] \ H]
  BY DEF Release
<1> HIDE DEF H
<1>3. /\ active' \subseteq Threads /\ waiting' \subseteq Threads
      /\ waiters' \in [Objects -> SUBSET Threads]
  BY <1>1, <1>2 DEF ListInv, ListsTyped
<1>4. \A t \in H : /\ t \notin active /\ t \notin suspendQueue
                   /\ t \notin asynchronous /\ t \notin waiting
                   /\ \A o \in Objects : t \notin waiters'[o]
  BY <1>1, <1>2 DEF ListInv, Placed
<1>5. Placed'
  <2>1. \A t \in Threads : life'[t] = "alive" <=>
           \/ t \in active' \/ t \in suspendQueue' \/ t \in asynchronous'
           \/ t \in waiting' \/ \E o \in Objects : t \in waiters'[o]
    <3> SUFFICES ASSUME NEW t \in Threads
                 PROVE  life[t] = "alive" <=>
                          \/ t \in active' \/ t \in suspendQueue
                          \/ t \in asynchronous \/ t \in waiting'
                          \/ \E o \in Objects : t \in waiters'[o]
      OBVIOUS
    <3>1. CASE t \in H
      <4>1. t \in active' /\ \E o \in Objects : t \in waiters[o]
        BY <1>1, <1>2, <1>4, <3>1
      <4>2. QED
        BY <4>1 DEF ListInv, Placed
    <3>2. CASE t \notin H
      BY <1>2, <3>2 DEF ListInv, Placed
    <3>3. QED
      BY <3>1, <3>2
  <2>2. \A t \in active' :
           t \notin suspendQueue' /\ t \notin asynchronous' /\ t \notin waiting'
    BY <1>2, <1>4 DEF ListInv, Placed
  <2>3. \A t \in suspendQueue' : t \notin asynchronous' /\ t \notin waiting'
    BY DEF ListInv, Placed
  <2>4. \A t \in asynchronous' : t \notin waiting'
    BY DEF ListInv, Placed
  <2>5. \A o \in Objects : \A t \in waiters'[o] :
           /\ t \notin active' /\ t \notin suspendQueue'
           /\ t \notin asynchronous' /\ t \notin waiting'
    BY <1>2 DEF ListInv, Placed
  <2>6. QED
    BY <2>1, <2>2, <2>3, <2>4, <2>5 DEF Placed
<1>6. AtHome'
  <2>1. ASSUME NEW o \in Objects, NEW t \in waiters'[o]
        PROVE  waitObj'[t] = o /\ owner'[o] # NoThread
    <3>1. t \in waiters[o] /\ t \notin H /\ t \notin active
      BY <1>2 DEF ListInv, Placed
    <3>2. t \in Threads /\ waitObj[t] = o /\ owner[o] # NoThread
      BY <3>1 DEF ListInv, ListsTyped, AtHome
    <3>3. waitObj'[t] = o
      BY <3>1, <3>2 DEF H
    <3>4. owner'[o] # NoThread
      BY <1>1, <3>1, <3>2 DEF ListInv, ListsTyped
    <3>5. QED
      BY <3>3, <3>4
  <2>2. ASSUME NEW o \in Objects, owner'[o] # NoThread
        PROVE  TaskOf[owner'[o]] = HomeOf[o]
    <3>1. CASE o \in S
      <4>1. owner'[o] \in waiters[o] /\ owner'[o] \in Threads
        BY <1>1, <2>2, <3>1
      <4>2. waitObj[owner'[o]] = o /\ o # NoObject
        BY <4>1 DEF ListInv, AtHome
      <4>3. QED
        BY <4>1, <4>2 DEF ListInv, AtHome
    <3>2. CASE o \notin S
      BY <1>1, <2>2, <3>2 DEF ListInv, AtHome
    <3>3. QED
      BY <3>1, <3>2
  <2>3. ASSUME NEW t \in Threads, waitObj'[t] # NoObject
        PROVE  /\ t \in waiting' \/ t \in waiters'[waitObj'[t]]
               /\ TaskOf[t] = HomeOf[waitObj'[t]]
    <3>1. CASE t \in out
      BY <2>3, <3>1
    <3>2. CASE t \notin out
      <4>1. t \notin H /\ waitObj'[t] = waitObj[t]
        BY <2>3, <3>2 DEF H
      <4>2. waitObj[t] \in Objects
        BY <2>3, <4>1 DEF ListInv, ListsTyped
      <4>3. QED
        BY <1>2, <2>3, <4>1, <4>2 DEF ListInv, AtHome
    <3>3. QED
      BY <3>1, <3>2
  <2>4. QED
    BY <2>1, <2>2, <2>3 DEF AtHome
<1>7. QED
  BY <1>1, <1>2, <1>3, <1>5, <1>6 DEF H

\* Stopping a task leaves each of its live threads in active, and the threads
\* of other tasks where they are.
LEMMA StopLists ==
    ASSUME ListInv, NEW k \in Tasks, StopTask(k)
    PROVE  /\ active' \subseteq Threads /\ suspendQueue' \subseteq Threads
           /\ asynchronous' \subseteq Threads /\ waiting' \subseteq Threads
           /\ waitObj' \in [Threads -> Objects \cup {NoObject}]
           /\ owner' \in [Objects -> Threads \cup {NoThread}]
           /\ waiters' \in [Objects -> SUBSET Threads]
           /\ Placed' /\ AtHome'
           /\ active \subseteq active'
           /\ \A t \in Threads : TaskOf[t] = k =>
                 (life[t] = "alive" => t \in active')
           /\ \A t \in Threads : TaskOf[t] # k =>
                 /\ t \in active' <=> t \in active
                 /\ t \in suspendQueue' <=> t \in suspendQueue
                 /\ t \in waiting' <=> t \in waiting
                 /\ waitObj'[t] = waitObj[t]
           /\ \A t \in suspendQueue' \cup waiting' : TaskOf[t] # k
<1> DEFINE K == ThreadsOf(k)
           W == waiting \cap K
           A == Admitted(W)
           Q == {t \in K : waitObj[t] # NoObject} \ A
<1>1. /\ GrantLocks(W)
      /\ waiting' = waiting \ W
      /\ asynchronous' = asynchronous \ (asynchronous \cap K)
      /\ suspendQueue' = suspendQueue \ K
      /\ active' = active \cup A \cup (asynchronous \cap K)
                       \cup (suspendQueue \cap K) \cup Q
      /\ waiters' = [o \in Objects |-> IF \E t \in Q : waitObj[t] = o
                                       THEN {} ELSE waiters[o]]
      /\ waitObj' = [t \in Threads |-> IF t \in K THEN NoObject ELSE waitObj[t]]
      /\ life' = life
  BY DEF StopTask, ClearWaiters, WokenFromAsync
<1>2. \A t : t \in K <=> t \in Threads /\ TaskOf[t] = k
  OBVIOUS
<1>3. W \in SUBSET Threads
  OBVIOUS
<1>4. /\ owner' \in [Objects -> Threads \cup {NoThread}]
      /\ \A o \in Objects :
            \/ owner'[o] = owner[o]
            \/ /\ owner[o] = NoThread
               /\ owner'[o] \in W /\ waitObj[owner'[o]] = o
      /\ A \subseteq W
  BY <1>1, <1>3, WakeupEffect DEF ListInv
<1>5. \A t : t \in Q <=> t \in K /\ waitObj[t] # NoObject /\ t \notin A
  OBVIOUS
<1>6. \A t : t \in W <=> t \in waiting /\ t \in K
  OBVIOUS
<1>7. \A t \in W : t \notin A => waitObj[t] # NoObject
  BY DEF Admitted
<1> HIDE DEF K, W, A, Q
<1>8. \A t \in K : life[t] = "alive" <=>
         \/ t \in active \/ t \in A \/ t \in asynchronous
         \/ t \in suspendQueue \/ t \in Q
  <2> SUFFICES ASSUME NEW t \in K
               PROVE  life[t] = "alive" <=>
                         \/ t \in active \/ t \in A \/ t \in asynchronous
                         \/ t \in suspendQueue \/ t \in Q
    OBVIOUS
  <2>1. t \in Threads
    BY <1>2
  <2>2. ASSUME t \in Q PROVE t \in waiting \/ \E o \in Objects : t \in waiters[o]
    <3>1. waitObj[t] # NoObject
      BY <1>5, <2>2
    <3>2. waitObj[t] \in Objects
      BY <2>1, <3>1 DEF ListInv, ListsTyped
    <3>3. QED
      BY <2>1, <3>1, <3>2 DEF ListInv, AtHome
  <2>3. ASSUME t \in waiting PROVE t \in A \/ t \in Q
    BY <1>5, <1>6, <1>7, <2>3
  <2>4. ASSUME NEW o \in Objects, t \in waiters[o] PROVE t \in Q
    BY <1>4, <1>5, <1>6, <2>4 DEF ListInv, AtHome, Placed
  <2>5. t \in A => t \in waiting
    BY <1>4, <1>6
  <2>6. life[t] = "alive" <=>
           \/ t \in active \/ t \in suspendQueue \/ t \in asynchronous
           \/ t \in waiting \/ \E o \in Objects : t \in waiters[o]
    BY <2>1 DEF ListInv, Placed
  <2>7. QED
    BY <2>2, <2>3, <2>4, <2>5, <2>6
<1>9. \A o \in Objects : \A t :
         t \in waiters'[o] <=> t \in waiters[o] /\ t \notin K
  <2> SUFFICES ASSUME NEW o \in Objects, NEW t
               PROVE  t \in waiters'[o] <=> t \in waiters[o] /\ t \notin K
    OBVIOUS
  <2>1. waiters[o] \subseteq Threads
    BY DEF ListInv, ListsTyped
  <2>2. \A u \in waiters[o] : TaskOf[u] = HomeOf[o] /\ waitObj[u] = o
    BY <2>1 DEF ListInv, AtHome
  <2>3. CASE \E u \in Q : waitObj[u] = o
    <3>1. HomeOf[o] = k
      BY <1>2, <1>5, <2>3 DEF ListInv, AtHome
    <3>2. QED
      BY <1>1, <1>2, <2>1, <2>2, <2>3, <3>1
  <2>4. CASE ~\E u \in Q : waitObj[u] = o
    <3>1. \A u \in waiters[o] : u \notin waiting
      BY DEF ListInv, Placed
    <3>2. \A u \in waiters[o] : u \notin K
      BY <1>4, <1>5, <1>6, <2>2, <2>4, <3>1
    <3>3. QED
      BY <1>1, <2>4, <3>2
  <2>5. QED
    BY <2>3, <2>4
<1>10. \A t \in Threads : t \in K =>
          /\ t \in active' <=> life[t] = "alive"
          /\ t \notin suspendQueue' /\ t \notin asynchronous' /\ t \notin waiting'
          /\ \A o \in Objects : t \notin waiters'[o]
  BY <1>1, <1>6, <1>8, <1>9
<1>11. \A t : t \notin K =>
          /\ t \in active' <=> t \in active
          /\ t \in suspendQueue' <=> t \in suspendQueue
          /\ t \in asynchronous' <=> t \in asynchronous
          /\ t \in waiting' <=> t \in waiting
          /\ \A o \in Objects : t \in waiters'[o] <=> t \in waiters[o]
  BY <1>1, <1>4, <1>5, <1>6, <1>9
<1>12. /\ active' \subseteq Threads /\ suspendQueue' \subseteq Threads
       /\ asynchronous' \subseteq Threads /\ waiting' \subseteq Threads
  <2>1. A \subseteq Threads /\ Q \subseteq Threads
    BY <1>2, <1>4, <1>5, <1>6
  <2>2. QED
    BY <1>1, <2>1 DEF ListInv, ListsTyped
<1>13. /\ waitObj' \in [Threads -> Objects \cup {NoObject}]
       /\ waiters' \in [Objects -> SUBSET Threads]
  BY <1>1 DEF ListInv, ListsTyped
<1>14. Placed'
  <2>1. \A o \in Objects : waiters'[o] \subseteq Threads
    BY <1>13
  <2>2. \A t \in Threads : life'[t] = "alive" <=>
           \/ t \in active' \/ t \in suspendQueue' \/ t \in asynchronous'
           \/ t \in waiting' \/ \E o \in Objects : t \in waiters'[o]
    <3> SUFFICES ASSUME NEW t \in Threads
                 PROVE  life[t] = "alive" <=>
                          \/ t \in active' \/ t \in suspendQueue'
                          \/ t \in asynchronous' \/ t \in waiting'
                          \/ \E o \in Objects : t \in waiters'[o]
      BY <1>1
    <3>1. CASE t \in K
      BY <1>10, <3>1
    <3>2. CASE t \notin K
      BY <1>11, <3>2 DEF ListInv, Placed
    <3>3. QED
      BY <3>1, <3>2
  <2>3. \A t \in active' :
           t \notin suspendQueue' /\ t \notin asynchronous' /\ t \notin waiting'
    BY <1>10, <1>11, <1>12 DEF ListInv, Placed
  <2>4. \A t \in suspendQueue' : t \notin asynchronous' /\ t \notin waiting'
    BY <1>10, <1>11, <1>12 DEF ListInv, Placed
  <2>5. \A t \in asynchronous' : t \notin waiting'
    BY <1>10, <1>11, <1>12 DEF ListInv, Placed
  <2>6. \A o \in Objects : \A t \in waiters'[o] :
           /\ t \notin active' /\ t \notin suspendQueue'
           /\ t \notin asynchronous' /\ t \notin waiting'
    <3> SUFFICES ASSUME NEW o \in Objects, NEW t \in waiters'[o]
                 PROVE  /\ t \notin active' /\ t \notin suspendQueue'
                        /\ t \notin asynchronous' /\ t \notin waiting'
      OBVIOUS
    <3>1. t \in waiters[o] /\ t \notin K
      BY <1>9
    <3>2. /\ t \notin active /\ t \notin suspendQueue
          /\ t \notin asynchronous /\ t \notin waiting
      BY <3>1 DEF ListInv, Placed
    <3>3. QED
      BY <1>11, <3>1, <3>2
  <2>7. QED
    BY <2>2, <2>3, <2>4, <2>5, <2>6 DEF Placed
<1>15. AtHome'
  <2>1. ASSUME NEW o \in Objects, NEW t \in waiters'[o]
        PROVE  waitObj'[t] = o /\ owner'[o] # NoThread
    <3>1. t \in waiters[o] /\ t \notin K
      BY <1>9
    <3>2. t \in Threads /\ waitObj[t] = o /\ owner[o] # NoThread
      BY <3>1 DEF ListInv, ListsTyped, AtHome
    <3>3. QED
      BY <1>1, <1>4, <3>1, <3>2
  <2>2. ASSUME NEW o \in Objects, owner'[o] # NoThread
        PROVE  TaskOf[owner'[o]] = HomeOf[o]
    <3>1. CASE owner'[o] = owner[o]
      BY <2>2, <3>1 DEF ListInv, AtHome
    <3>2. CASE owner'[o] \in W /\ waitObj[owner'[o]] = o
      BY <1>2, <1>6, <3>2 DEF ListInv, AtHome
    <3>3. QED
      BY <1>4, <3>1, <3>2
  <2>3. ASSUME NEW t \in Threads, waitObj'[t] # NoObject
        PROVE  /\ t \in waiting' \/ t \in waiters'[waitObj'[t]]
               /\ TaskOf[t] = HomeOf[waitObj'[t]]
    <3>1. t \notin K /\ waitObj'[t] = waitObj[t]
      BY <1>1, <2>3
    <3>2. waitObj[t] \in Objects
      BY <2>3, <3>1 DEF ListInv, ListsTyped
    <3>3. QED
      BY <1>11, <2>3, <3>1, <3>2 DEF ListInv, AtHome
  <2>4. QED
    BY <2>1, <2>2, <2>3 DEF AtHome
<1>16. \A t \in Threads : t \notin K => waitObj'[t] = waitObj[t]
  BY <1>1
<1>17. active \subseteq active'
  BY <1>1
<1>18. QED
  BY <1>2, <1>4, <1>10, <1>11, <1>12, <1>13, <1>14, <1>15, <1>16, <1>17

-----------------------------------------------------------------------------
(* Each step keeps the lists in order.                                     *)

LEMMA LockSteps ==
    ASSUME ListInv, NEW o \in Objects, MonitorEnter(o) \/ MonitorExit(o) \/ Wait(o)
    PROVE  ListInv'
<1>1. /\ current \in active /\ current \in Threads /\ exiting = "no"
      /\ UNCHANGED <<life, suspendQueue, asynchronous, starting, current, exiting>>
  BY DEF MonitorEnter, MonitorExit, Wait, Running, ListInv, ListsTyped, lists
<1>2. LeavesActive'
  BY <1>1 DEF LeavesActive
<1>3. CASE MonitorEnter(o) /\ owner[o] = NoThread
  <2>1. /\ owner' = [owner EXCEPT ![o] = current]
        /\ UNCHANGED <<active, waiting, waitObj, waiters>>
        /\ HomeOf[o] = TaskOf[current]
    BY <1>3 DEF MonitorEnter, lists
  <2>2. ListsTyped'
    BY <1>1, <2>1 DEF ListInv, ListsTyped
  <2>3. Placed'
    BY <1>1, <2>1 DEF ListInv, Placed
  <2>4. AtHome'
    BY <1>1, <2>1 DEF ListInv, ListsTyped, AtHome
  <2>5. QED
    BY <1>2, <2>2, <2>3, <2>4 DEF ListInv
<1>4. CASE MonitorEnter(o) /\ owner[o] # NoThread
  <2>1. /\ active' = active \ {current}
        /\ waiters' = [waiters EXCEPT ![o] = @ \cup {current}]
        /\ waitObj' = [waitObj EXCEPT ![current] = o]
        /\ UNCHANGED <<waiting, owner>>
        /\ HomeOf[o] = TaskOf[current]
    BY <1>4 DEF MonitorEnter
  <2>2. ListsTyped'
    BY <1>1, <2>1 DEF ListInv, ListsTyped
  <2>3. \A p \in Objects : \A t :
           t \in waiters'[p] <=> t \in waiters[p] \/ (t = current /\ p = o)
    BY <2>1 DEF ListInv, ListsTyped
  <2>4. /\ current \notin suspendQueue /\ current \notin asynchronous
        /\ current \notin waiting /\ \A p \in Objects : current \notin waiters[p]
    BY <1>1 DEF ListInv, Placed
  <2>5. Placed'
    BY <1>1, <2>1, <2>3, <2>4 DEF ListInv, Placed
  <2>6. AtHome'
    <3>1. \A p \in Objects : \A t \in waiters'[p] :
             waitObj'[t] = p /\ owner'[p] # NoThread
      BY <1>1, <1>4, <2>1, <2>3, <2>4 DEF ListInv, ListsTyped, AtHome
    <3>2. \A t \in Threads : waitObj'[t] # NoObject =>
             /\ t \in waiting' \/ t \in waiters'[waitObj'[t]]
             /\ TaskOf[t] = HomeOf[waitObj'[t]]
      BY <1>1, <2>1, <2>3 DEF ListInv, ListsTyped, AtHome
    <3>3. QED
      BY <2>1, <3>1, <3>2 DEF ListInv, AtHome
  <2>7. QED
    BY <1>2, <2>2, <2>5, <2>6 DEF ListInv
<1>5. CASE MonitorExit(o)
  <2>1. /\ Release({o}, {})
        /\ waitObj' = [t \in Threads |->
                          IF t \in Heirs({o}) THEN NoObject ELSE waitObj[t]]
        /\ waiting' = waiting \cup {}
    BY <1>5 DEF MonitorExit
  <2>2. waitObj' \in [Threads -> Objects \cup {NoObject}]
    BY <2>1 DEF ListInv, ListsTyped
  <2>3. /\ Heirs({o}) \subseteq Threads
        /\ {o} \in SUBSET Objects /\ {} \in SUBSET active
    BY <2>1, ReleaseEffect DEF ListInv
  <2>4. /\ \A t \in Heirs({o}) : waitObj'[t] = NoObject
        /\ \A t \in Threads : t \notin Heirs({o}) => waitObj'[t] = waitObj[t]
    BY <2>1, <2>3
  <2>5. /\ active' \subseteq Threads /\ waiting' \subseteq Threads
        /\ owner' \in [Objects -> Threads \cup {NoThread}]
        /\ waiters' \in [Objects -> SUBSET Threads]
        /\ Placed' /\ AtHome'
    <3> DEFINE S == {o}
               out == {}
    <3>1. /\ Release(S, out) /\ S \in SUBSET Objects /\ out \in SUBSET active
          /\ waiting' = waiting \cup out
          /\ \A t \in Heirs(S) : waitObj'[t] = NoObject
          /\ \A t \in Threads : t \notin Heirs(S) /\ t \notin out
                => waitObj'[t] = waitObj[t]
          /\ \A t \in out : waitObj'[t] # NoObject => TaskOf[t] = HomeOf[waitObj'[t]]
      BY <2>1, <2>4
    <3>2. UNCHANGED <<life, suspendQueue, asynchronous>>
      BY <1>1
    <3> HIDE DEF S, out
    <3>3. QED
      BY <2>2, <3>1, <3>2, ReleaseLists
  <2>6. ListsTyped'
    BY <1>1, <2>2, <2>5 DEF ListInv, ListsTyped
  <2>7. QED
    BY <1>2, <2>5, <2>6 DEF ListInv
<1>6. CASE Wait(o)
  <2>1. /\ Release({o}, {current})
        /\ waiting' = waiting \cup {current}
        /\ owner[o] = current
    BY <1>6 DEF Wait
  <2>2. {o} \in SUBSET Objects /\ {current} \in SUBSET active
    BY <1>1
  <2>3. /\ Heirs({o}) \subseteq Threads
        /\ \A t \in Heirs({o}) : t \in waiters[o]
    <3> DEFINE S == {o}
    <3>1. /\ Heirs(S) \subseteq Threads
          /\ \A t \in Heirs(S) : \E p \in S : t \in waiters[p] /\ owner'[p] = t
      <4> HIDE DEF S
      <4>1. S \in SUBSET Objects /\ Release(S, {current})
        BY <2>1, <2>2 DEF S
      <4>2. QED
        BY <4>1, ReleaseEffect DEF ListInv
    <3>2. QED
      BY <3>1
  <2>4. current \notin Heirs({o})
    BY <1>1, <2>3 DEF ListInv, Placed
  <2>5. waitObj' = [[t \in Threads |->
                        IF t \in Heirs({o}) THEN NoObject ELSE waitObj[t]]
                        EXCEPT ![current] = o]
    BY <1>6 DEF Wait
  <2>6. /\ waitObj' \in [Threads -> Objects \cup {NoObject}]
        /\ \A t \in Heirs({o}) : waitObj'[t] = NoObject
        /\ \A t \in Threads : t \notin Heirs({o}) /\ t \notin {current}
              => waitObj'[t] = waitObj[t]
        /\ waitObj'[current] = o
    BY <1>1, <2>3, <2>4, <2>5 DEF ListInv, ListsTyped
  <2>7. \A t \in {current} : waitObj'[t] # NoObject => TaskOf[t] = HomeOf[waitObj'[t]]
    BY <1>1, <2>1, <2>6 DEF ListInv, AtHome
  <2>8. /\ active' \subseteq Threads /\ waiting' \subseteq Threads
        /\ owner' \in [Objects -> Threads \cup {NoThread}]
        /\ waiters' \in [Objects -> SUBSET Threads]
        /\ Placed' /\ AtHome'
    <3> DEFINE S == {o}
               out == {current}
    <3>1. /\ Release(S, out) /\ S \in SUBSET Objects /\ out \in SUBSET active
          /\ waiting' = waiting \cup out
          /\ \A t \in Heirs(S) : waitObj'[t] = NoObject
          /\ \A t \in Threads : t \notin Heirs(S) /\ t \notin out
                => waitObj'[t] = waitObj[t]
          /\ \A t \in out : waitObj'[t] # NoObject => TaskOf[t] = HomeOf[waitObj'[t]]
      BY <2>1, <2>2, <2>6, <2>7
    <3>2. UNCHANGED <<life, suspendQueue, asynchronous>>
      BY <1>1
    <3> HIDE DEF S, out
    <3>3. QED
      BY <2>6, <3>1, <3>2, ReleaseLists
  <2>9. ListsTyped'
    BY <1>1, <2>6, <2>8 DEF ListInv, ListsTyped
  <2>10. QED
    BY <1>2, <2>8, <2>9 DEF ListInv
<1>7. QED
  BY <1>3, <1>4, <1>5, <1>6

LEMMA UnwindLists ==
    ASSUME ListInv, current \in active, NEW as \in {"uncaught", "unwound"}, Unwind(as)
    PROVE  ListInv'
<1> DEFINE S == Locked(current)
<1>1. /\ Release(S, {})
      /\ waitObj' = [t \in Threads |->
                        IF t \in Heirs(S) THEN NoObject ELSE waitObj[t]]
      /\ starting' = starting \ S
      /\ exiting' = as
      /\ waiting' = waiting \cup {}
      /\ UNCHANGED <<life, suspendQueue, asynchronous, current>>
  BY DEF Unwind
<1>2. S \in SUBSET Objects /\ {} \in SUBSET active
  OBVIOUS
<1> HIDE DEF S
<1>3. waitObj' \in [Threads -> Objects \cup {NoObject}]
  BY <1>1 DEF ListInv, ListsTyped
<1>4. Heirs(S) \subseteq Threads
  BY <1>1, <1>2, ReleaseEffect DEF ListInv
<1>5. /\ \A t \in Heirs(S) : waitObj'[t] = NoObject
      /\ \A t \in Threads : t \notin Heirs(S) => waitObj'[t] = waitObj[t]
  BY <1>1, <1>4
<1>6. /\ active' \subseteq Threads /\ waiting' \subseteq Threads
      /\ owner' \in [Objects -> Threads \cup {NoThread}]
      /\ waiters' \in [Objects -> SUBSET Threads]
      /\ Placed' /\ AtHome'
      /\ \A t \in active : t \notin {} => t \in active'
  BY <1>1, <1>2, <1>3, <1>5, ReleaseLists
<1>7. ListsTyped'
  BY <1>1, <1>3, <1>6 DEF ListInv, ListsTyped
<1>8. LeavesActive'
  BY <1>1, <1>6 DEF LeavesActive
<1>9. QED
  BY <1>6, <1>7, <1>8 DEF ListInv

\* Steps that move threads between active, suspendQueue, asynchronous and
\* waiting, and leave locks alone.
LEMMA PlainSteps ==
    ASSUME ListInv,
           \/ Sleep \/ BlockCurrentThread
           \/ \E t \in Threads : UnblockThread(t) \/ StartThread(t) \/ Switch(t)
           \/ \E o \in Objects : StartIsolate(o)
           \/ \E k \in Tasks : Suspend(k) \/ Resume(k)
           \/ Return
    PROVE  ListInv'
<1>1. CASE Sleep
  <2>1. /\ current \in active /\ current \in Threads /\ exiting = "no"
        /\ active' = active \ {current} /\ waiting' = waiting \cup {current}
        /\ UNCHANGED <<life, suspendQueue, asynchronous, waitObj, waiters, owner,
                       starting, current, exiting>>
    BY <1>1 DEF Sleep, Running, ListInv, ListsTyped
  <2>2. ListsTyped'
    BY <2>1 DEF ListInv, ListsTyped
  <2>3. Placed' /\ AtHome' /\ LeavesActive'
    BY <2>1 DEF ListInv, Placed, AtHome, LeavesActive
  <2>4. QED
    BY <2>2, <2>3 DEF ListInv
<1>2. CASE BlockCurrentThread
  <2>1. /\ current \in active /\ current \in Threads /\ exiting = "no"
        /\ active' = active \ {current}
        /\ asynchronous' = asynchronous \cup {current}
        /\ UNCHANGED <<life, suspendQueue, waiting, waitObj, waiters, owner,
                       starting, current, exiting>>
    BY <1>2 DEF BlockCurrentThread, Running, ListInv, ListsTyped
  <2>2. ListsTyped'
    BY <2>1 DEF ListInv, ListsTyped
  <2>3. Placed' /\ AtHome' /\ LeavesActive'
    BY <2>1 DEF ListInv, Placed, AtHome, LeavesActive
  <2>4. QED
    BY <2>2, <2>3 DEF ListInv
<1>3. ASSUME NEW t \in Threads, UnblockThread(t) PROVE ListInv'
  <2>1. /\ t \in asynchronous
        /\ asynchronous' = asynchronous \ {t}
        /\ active' = active \cup ({t} \ Suspended({t}))
        /\ suspendQueue' = suspendQueue \cup Suspended({t})
        /\ Suspended({t}) = {} \/ Suspended({t}) = {t}
        /\ UNCHANGED <<life, waiting, waitObj, waiters, owner,
                       starting, current, exiting>>
    BY <1>3 DEF UnblockThread, Suspended
  <2>2. ListsTyped'
    BY <2>1 DEF ListInv, ListsTyped
  <2>3. Placed'
    <3>1. CASE Suspended({t}) = {}
      <4>1. /\ active' = active \cup {t} /\ suspendQueue' = suspendQueue
            /\ asynchronous' = asynchronous \ {t} /\ t \in asynchronous
            /\ UNCHANGED <<life, waiting, waiters>>
        BY <2>1, <3>1
      <4>2. QED
        BY <4>1 DEF ListInv, Placed
    <3>2. CASE Suspended({t}) = {t}
      <4>1. /\ active' = active /\ suspendQueue' = suspendQueue \cup {t}
            /\ asynchronous' = asynchronous \ {t} /\ t \in asynchronous
            /\ UNCHANGED <<life, waiting, waiters>>
        BY <2>1, <3>2
      <4>2. QED
        BY <4>1 DEF ListInv, Placed
    <3>3. QED
      BY <2>1, <3>1, <3>2
  <2>4. AtHome' /\ LeavesActive'
    BY <2>1 DEF ListInv, AtHome, LeavesActive
  <2>5. QED
    BY <2>2, <2>3, <2>4 DEF ListInv
<1>4. ASSUME NEW t \in Threads, StartThread(t) PROVE ListInv'
  <2>1. /\ life[t] = "unborn" /\ exiting = "no"
        /\ life' = [life EXCEPT ![t] = "alive"]
        /\ active' = active \cup {t}
        /\ UNCHANGED <<suspendQueue, asynchronous, waiting, waitObj, waiters,
                       owner, starting, current, exiting>>
    BY <1>4 DEF StartThread, Running
  <2>2. ListsTyped'
    BY <2>1 DEF ListInv, ListsTyped
  <2>3. /\ t \notin suspendQueue /\ t \notin asynchronous
        /\ t \notin waiting /\ \A p \in Objects : t \notin waiters[p]
    BY <2>1 DEF ListInv, Placed
  <2>4. \A u \in Threads : life'[u] = "alive" <=> life[u] = "alive" \/ u = t
    BY <2>1 DEF ListInv, ListsTyped
  <2>5. Placed'
    BY <2>1, <2>3, <2>4 DEF ListInv, Placed
  <2>6. AtHome' /\ LeavesActive'
    BY <2>1 DEF ListInv, AtHome, LeavesActive
  <2>7. QED
    BY <2>2, <2>5, <2>6 DEF ListInv
<1>5. ASSUME NEW t \in Threads, Switch(t) PROVE ListInv'
  BY <1>5 DEF Switch, ListInv, ListsTyped, Placed, AtHome, LeavesActive, lists
<1>6. ASSUME NEW o \in Objects, StartIsolate(o) PROVE ListInv'
  BY <1>6 DEF StartIsolate, ListInv, ListsTyped, Placed, AtHome, LeavesActive, lists
<1>7. ASSUME NEW k \in Tasks, Suspend(k) PROVE ListInv'
  <2>1. /\ exiting = "no"
        /\ active' = active \ ThreadsOf(k)
        /\ suspendQueue' = suspendQueue \cup (active \cap ThreadsOf(k))
        /\ UNCHANGED <<life, asynchronous, waiting, waitObj, waiters, owner,
                       starting, current, exiting>>
    BY <1>7 DEF Suspend, Running
  <2>2. ListsTyped'
    BY <2>1 DEF ListInv, ListsTyped
  <2>3. Placed'
    BY <2>1 DEF ListInv, Placed
  <2>4. AtHome' /\ LeavesActive'
    BY <2>1 DEF ListInv, AtHome, LeavesActive
  <2>5. QED
    BY <2>2, <2>3, <2>4 DEF ListInv
<1>8. ASSUME NEW k \in Tasks, Resume(k) PROVE ListInv'
  <2>1. /\ exiting = "no"
        /\ suspendQueue' = suspendQueue \ ThreadsOf(k)
        /\ active' = active \cup (suspendQueue \cap ThreadsOf(k))
        /\ UNCHANGED <<life, asynchronous, waiting, waitObj, waiters, owner,
                       starting, current, exiting>>
    BY <1>8 DEF Resume, Running
  <2>2. ListsTyped'
    BY <2>1 DEF ListInv, ListsTyped
  <2>3. Placed'
    BY <2>1 DEF ListInv, Placed
  <2>4. AtHome' /\ LeavesActive'
    BY <2>1 DEF ListInv, AtHome, LeavesActive
  <2>5. QED
    BY <2>2, <2>3, <2>4 DEF ListInv
<1>9. CASE Return
  BY <1>9 DEF Return, Running, ListInv, ListsTyped, Placed, AtHome, LeavesActive, lists
<1>10. QED
  BY <1>1, <1>2, <1>3, <1>4, <1>5, <1>6, <1>7, <1>8, <1>9

\* Steps that wake threads and do not end one.
LEMMA NotifySteps ==
    ASSUME ListInv,
           \/ \E o \in Objects, W \in SUBSET Threads : Notify(o, W)
           \/ \E t \in Threads : TimeOut(t)
           \/ \E o \in Objects : StopUnstarted(o)
    PROVE  ListInv'
<1>1. PICK W \in SUBSET waiting : NotifyWakeup(W, active)
  BY DEF Notify, TimeOut, StopUnstarted
<1>2. UNCHANGED <<life, starting, current, exiting>>
  BY DEF Notify, TimeOut, StopUnstarted
<1>3. active \in SUBSET Threads
  BY DEF ListInv, ListsTyped
<1>4. /\ \A t \in active : /\ t \notin suspendQueue /\ t \notin asynchronous
                           /\ t \notin waiting
                           /\ \A o \in Objects : t \notin waiters[o]
      /\ \A t \in Threads : life'[t] = "alive" <=>
            \/ t \in active \/ t \in suspendQueue \/ t \in asynchronous
            \/ t \in waiting \/ \E o \in Objects : t \in waiters[o]
  BY <1>2 DEF ListInv, Placed
<1>5. /\ active' \subseteq Threads /\ suspendQueue' \subseteq Threads
      /\ asynchronous' \subseteq Threads /\ waiting' \subseteq Threads
      /\ waitObj' \in [Threads -> Objects \cup {NoObject}]
      /\ owner' \in [Objects -> Threads \cup {NoThread}]
      /\ waiters' \in [Objects -> SUBSET Threads]
      /\ Placed' /\ AtHome'
      /\ active \subseteq active'
  BY <1>1, <1>3, <1>4, WakeupLists
<1>6. ListsTyped' /\ LeavesActive'
  BY <1>2, <1>5 DEF ListInv, ListsTyped, LeavesActive
<1>7. QED
  BY <1>5, <1>6 DEF ListInv

\* The main thread of a task without live threads is in no list.
LEMMA NativeStartLists ==
    ASSUME ListInv, NEW o \in Objects, NativeStart(o), Represents[o] \in Tasks,
           LiveThreads(Represents[o]) = {}
    PROVE  ListInv'
<1> DEFINE main == MainThread[Represents[o]]
<1>1. /\ main \in Threads /\ life[main] # "alive"
      /\ o \in starting /\ starting' = starting \ {o} /\ exiting = "no"
      /\ UNCHANGED <<current, exiting>>
  BY DEF NativeStart
<1>2. PICK stay \in {active, active \cup {main}} :
         /\ NotifyWakeup(WaitersOn({o}), stay)
         /\ life' = [life EXCEPT ![main] = IF stay = active THEN "dead" ELSE "alive"]
  <2>1. main \notin active
    BY <1>1 DEF ListInv, Placed
  <2>2. QED
    BY <2>1 DEF NativeStart
<1> HIDE DEF main
<1>3. /\ main \notin active /\ main \notin suspendQueue
      /\ main \notin asynchronous /\ main \notin waiting
      /\ \A p \in Objects : main \notin waiters[p]
  BY <1>1 DEF ListInv, Placed
<1>4. life' \in [Threads -> {"unborn", "alive", "dead"}]
  BY <1>1, <1>2 DEF ListInv, ListsTyped
<1>5. \A t \in Threads : life'[t] = "alive" <=>
         life[t] = "alive" \/ (t = main /\ stay # active)
  BY <1>1, <1>2 DEF ListInv, ListsTyped
<1>6. \A t \in stay : t \in active \/ (t = main /\ stay # active)
  BY <1>2
<1>7. stay # active => main \in stay
  BY <1>2
<1>8. stay \in SUBSET Threads /\ active \subseteq stay
  BY <1>1, <1>2 DEF ListInv, ListsTyped
<1>9. \A t \in stay : /\ t \notin suspendQueue /\ t \notin asynchronous
                      /\ t \notin waiting
                      /\ \A p \in Objects : t \notin waiters[p]
  BY <1>3, <1>6 DEF ListInv, Placed
<1>10. \A t \in Threads : life'[t] = "alive" <=>
          \/ t \in stay \/ t \in suspendQueue \/ t \in asynchronous
          \/ t \in waiting \/ \E p \in Objects : t \in waiters[p]
  BY <1>3, <1>5, <1>6, <1>7, <1>8 DEF ListInv, Placed
<1>11. WaitersOn({o}) \in SUBSET waiting
  OBVIOUS
<1>12. /\ active' \subseteq Threads /\ suspendQueue' \subseteq Threads
       /\ asynchronous' \subseteq Threads /\ waiting' \subseteq Threads
       /\ waitObj' \in [Threads -> Objects \cup {NoObject}]
       /\ owner' \in [Objects -> Threads \cup {NoThread}]
       /\ waiters' \in [Objects -> SUBSET Threads]
       /\ Placed' /\ AtHome'
  BY <1>2, <1>8, <1>9, <1>10, <1>11, WakeupLists
<1>13. ListsTyped' /\ LeavesActive'
  BY <1>1, <1>4, <1>12 DEF ListInv, ListsTyped, LeavesActive
<1>14. QED
  BY <1>12, <1>13 DEF ListInv

LEMMA EndThreadLists ==
    ASSUME ListInv, EndThread
    PROVE  ListInv'
<1> DEFINE W == NotifiedOfEnd(current)
           stay == active \ {current}
<1>1. /\ exiting # "no" /\ current \in active /\ current \in Threads
      /\ NotifyWakeup(W, stay)
      /\ life' = [life EXCEPT ![current] = "dead"]
      /\ current' = NoThread /\ exiting' = "no" /\ starting' = starting
  BY DEF EndThread, ListInv, ListsTyped, LeavesActive
<1>2. W \in SUBSET waiting /\ stay \in SUBSET Threads
  BY DEF NotifiedOfEnd, ListInv, ListsTyped
<1> HIDE DEF W
<1>3. \A t \in stay : /\ t \notin suspendQueue /\ t \notin asynchronous
                      /\ t \notin waiting
                      /\ \A p \in Objects : t \notin waiters[p]
  BY DEF ListInv, Placed
<1>4. \A t \in Threads : life'[t] = "alive" <=> life[t] = "alive" /\ t # current
  BY <1>1 DEF ListInv, ListsTyped
<1>5. \A t \in Threads : life'[t] = "alive" <=>
         \/ t \in stay \/ t \in suspendQueue \/ t \in asynchronous
         \/ t \in waiting \/ \E p \in Objects : t \in waiters[p]
  BY <1>1, <1>4 DEF ListInv, Placed
<1> HIDE DEF stay
<1>6. /\ active' \subseteq Threads /\ suspendQueue' \subseteq Threads
      /\ asynchronous' \subseteq Threads /\ waiting' \subseteq Threads
      /\ waitObj' \in [Threads -> Objects \cup {NoObject}]
      /\ owner' \in [Objects -> Threads \cup {NoThread}]
      /\ waiters' \in [Objects -> SUBSET Threads]
      /\ Placed' /\ AtHome'
  BY <1>1, <1>2, <1>3, <1>5, WakeupLists
<1>7. ListsTyped' /\ LeavesActive'
  BY <1>1, <1>6 DEF ListInv, ListsTyped, LeavesActive
<1>8. QED
  BY <1>6, <1>7 DEF ListInv

LEMMA StopStep ==
    ASSUME ListInv, NEW k \in Tasks, StopTask(k), UNCHANGED <<starting, current>>,
           exiting' \in {"no", "unwound"}, exiting' = exiting \/ exiting = "uncaught"
    PROVE  ListInv'
<1>1. /\ active' \subseteq Threads /\ suspendQueue' \subseteq Threads
      /\ asynchronous' \subseteq Threads /\ waiting' \subseteq Threads
      /\ waitObj' \in [Threads -> Objects \cup {NoObject}]
      /\ owner' \in [Objects -> Threads \cup {NoThread}]
      /\ waiters' \in [Objects -> SUBSET Threads]
      /\ Placed' /\ AtHome'
      /\ active \subseteq active'
  BY StopLists
<1>2. life' = life
  BY DEF StopTask
<1>3. ListsTyped' /\ LeavesActive'
  BY <1>1, <1>2 DEF ListInv, ListsTyped, LeavesActive
<1>4. QED
  BY <1>1, <1>3 DEF ListInv

LEMMA UncaughtStep ==
    ASSUME ListInv, HandleUncaught
    PROVE  ListInv'
<1> DEFINE k == TaskOf[current]
<1>1. /\ exiting = "uncaught" /\ exiting' = "unwound"
      /\ UNCHANGED <<starting, current>>
      /\ current \in active /\ current \in Threads /\ k \in Tasks
  BY DEF HandleUncaught, ListInv, ListsTyped, LeavesActive
<1>2. CASE UNCHANGED <<tasks, life, lists, owner>>
  BY <1>1, <1>2 DEF ListInv, ListsTyped, Placed, AtHome, LeavesActive, lists
<1>3. CASE StopTask(k)
  BY <1>1, <1>3, StopStep
<1>4. CASE ~(UNCHANGED <<tasks, life, lists, owner>>) /\ ~StopTask(k)
  <2>1. /\ active' = (active \ ThreadsOf(k)) \cup {current}
        /\ suspendQueue' = suspendQueue
                              \cup ((active \cap ThreadsOf(k)) \ {current})
        /\ UNCHANGED <<life, asynchronous, waiting, waitObj, waiters, owner>>
    BY <1>4 DEF HandleUncaught
  <2>2. ListsTyped'
    BY <1>1, <2>1 DEF ListInv, ListsTyped
  <2>3. Placed'
    BY <1>1, <2>1 DEF ListInv, Placed
  <2>4. AtHome' /\ LeavesActive'
    BY <1>1, <2>1 DEF ListInv, AtHome, LeavesActive
  <2>5. QED
    BY <2>2, <2>3, <2>4 DEF ListInv
<1>5. QED
  BY <1>2, <1>3, <1>4

-----------------------------------------------------------------------------
(* Tasks.                                                                  *)

Counted == \A k \in Tasks : threadCount[k] = Cardinality(LiveThreads(k))

\* A task has live threads only between its start and its end, and the signal
\* to end is posted only then.
Bounded ==
    \A k \in Tasks :
        /\ status[k] \in {"new", "stopped"} => \A t \in LiveThreads(k) : FALSE
        /\ terminating[k] = TRUE => status[k] \in {"stopping", "stopped"}

\* An isolate that is being started has had no threads.
Starts ==
    \A o \in starting :
        /\ Represents[o] # NoTask
        /\ status[Represents[o]] \in {"new", "stopped"}
        /\ terminating[Represents[o]] = FALSE

\* The suspend queue holds threads of suspended tasks only.
QueueSuspended == \A t \in suspendQueue : suspendBit[TaskOf[t]] = TRUE

\* The threads of a terminating task are active, or suspended once more.
Stopping ==
    \A t \in Threads : life[t] = "alive" /\ terminating[TaskOf[t]] = TRUE
        => t \in active \/ t \in suspendQueue

TaskInv ==
    /\ TasksTyped /\ Counted /\ Bounded /\ Starts
    /\ QueueSuspended /\ Stopping /\ SuspendedTasksRest /\ ExitIsSeen

IInv == ListInv /\ TaskInv

-----------------------------------------------------------------------------
(* Counting threads.                                                       *)

LEMMA OneMore ==
    ASSUME TasksTyped, ListsTyped, Counted, NEW t \in Threads, life[t] # "alive",
           life' = [life EXCEPT ![t] = "alive"], AddThread(TaskOf[t])
    PROVE  Counted'
<1>1. threadCount' = [threadCount EXCEPT ![TaskOf[t]] = @ + 1]
  BY DEF AddThread
<1>2. ASSUME NEW k \in Tasks
      PROVE  threadCount'[k] = Cardinality(LiveThreads(k)')
  <2> DEFINE L == LiveThreads(k)
             M == LiveThreads(k)'
  <2>1. IsFiniteSet(L)
    <3>1. L \subseteq Threads
      OBVIOUS
    <3>2. QED
      BY <3>1, FS_Subset
  <2>2. threadCount[k] = Cardinality(L) /\ threadCount[k] \in Nat
    BY DEF Counted, TasksTyped
  <2>3. CASE k = TaskOf[t]
    <3>1. M = L \cup {t} /\ t \notin L
      BY <2>3 DEF ListsTyped
    <3>2. Cardinality(M) = Cardinality(L) + 1
      BY <2>1, <3>1, FS_AddElement
    <3>3. threadCount'[k] = threadCount[k] + 1
      BY <1>1, <2>3 DEF TasksTyped
    <3>4. QED
      BY <2>2, <3>2, <3>3
  <2>4. CASE k # TaskOf[t]
    <3>1. M = L
      BY <2>4 DEF ListsTyped
    <3>2. threadCount'[k] = threadCount[k]
      BY <1>1, <2>4 DEF TasksTyped
    <3>3. QED
      BY <2>2, <3>1, <3>2
  <2>5. QED
    BY <2>3, <2>4
<1>3. QED
  BY <1>2 DEF Counted

LEMMA OneLess ==
    ASSUME TasksTyped, ListsTyped, Counted, NEW t \in Threads, life[t] = "alive",
           life' = [life EXCEPT ![t] = "dead"],
           threadCount' = [threadCount EXCEPT ![TaskOf[t]] = @ - 1]
    PROVE  /\ Counted' /\ threadCount' \in [Tasks -> Nat]
           /\ threadCount[TaskOf[t]] = 1 => LiveThreads(TaskOf[t]) = {t}
<1>1. ASSUME NEW k \in Tasks
      PROVE  /\ threadCount'[k] = Cardinality(LiveThreads(k)')
             /\ threadCount'[k] \in Nat
             /\ k = TaskOf[t] /\ threadCount[k] = 1 => LiveThreads(k) = {t}
  <2> DEFINE L == LiveThreads(k)
             M == LiveThreads(k)'
  <2>1. IsFiniteSet(L)
    <3>1. L \subseteq Threads
      OBVIOUS
    <3>2. QED
      BY <3>1, FS_Subset
  <2>2. threadCount[k] = Cardinality(L) /\ threadCount[k] \in Nat
    BY DEF Counted, TasksTyped
  <2>3. CASE k = TaskOf[t]
    <3>1. M = L \ {t} /\ t \in L
      BY <2>3 DEF ListsTyped
    <3>2. Cardinality(M) = Cardinality(L) - 1 /\ IsFiniteSet(M)
      <4> HIDE DEF M, L
      <4>1. /\ IsFiniteSet(L \ {t})
            /\ Cardinality(L \ {t}) = Cardinality(L) - 1
        BY <2>1, <3>1, FS_RemoveElement
      <4>2. QED
        BY <3>1, <4>1
    <3>3. threadCount'[k] = threadCount[k] - 1
      BY <2>3 DEF TasksTyped
    <3>4. threadCount'[k] \in Nat
      BY <2>2, <3>2, <3>3, FS_CardinalityType
    <3>5. ASSUME threadCount[k] = 1 PROVE L = {t}
      <4>1. Cardinality(L) = 1
        BY <2>2, <3>5
      <4>2. PICK x : L = {x}
        BY <2>1, <4>1, FS_Singleton
      <4>3. QED
        BY <3>1, <4>2
    <3>6. QED
      BY <2>2, <3>2, <3>3, <3>4, <3>5
  <2>4. CASE k # TaskOf[t]
    <3>1. M = L
      BY <2>4 DEF ListsTyped
    <3>2. threadCount'[k] = threadCount[k]
      BY <2>4 DEF TasksTyped
    <3>3. QED
      BY <2>2, <2>4, <3>1, <3>2
  <2>5. QED
    BY <2>3, <2>4
<1>2. Counted'
  BY <1>1 DEF Counted
<1>3. threadCount' \in [Tasks -> Nat]
  <2>1. /\ threadCount' = [k \in Tasks |-> threadCount'[k]]
    BY DEF TasksTyped
  <2>2. QED
    BY <1>1, <2>1
<1>4. QED
  BY <1>1, <1>2, <1>3

-----------------------------------------------------------------------------
(* Steps that start, suspend, stop and end nothing.                        *)

LEMMA QuietStep ==
    ASSUME IInv, ListInv', UNCHANGED <<tasks, life>>,
           \A o \in starting' : \/ o \in starting
                                \/ Represents[o] # NoTask /\ status[Represents[o]] = "new",
           \A t \in suspendQueue' : t \in suspendQueue \/ suspendBit[TaskOf[t]] = TRUE,
           \A t \in active : t \notin active' /\ t \notin suspendQueue'
               => terminating[TaskOf[t]] # TRUE,
           \A t \in suspendQueue : t \in suspendQueue',
           SuspendedTasksRest',
           \A t \in waiting' : waitObj'[t] # NoObject
               => \/ t \in waiting /\ waitObj[t] = waitObj'[t]
                  \/ MayWait(waitObj'[t])
    PROVE  IInv'
<1>1. UNCHANGED <<status, suspendBit, terminating, threadCount, life>>
  BY DEF tasks
<1>2. TasksTyped' /\ Counted'
  BY <1>1 DEF IInv, TaskInv, TasksTyped, Counted
<1>3. Bounded'
  BY <1>1 DEF IInv, TaskInv, Bounded
<1>4. Starts'
  <2> SUFFICES ASSUME NEW o \in starting'
               PROVE  /\ Represents[o] # NoTask
                      /\ status[Represents[o]] \in {"new", "stopped"}
                      /\ terminating[Represents[o]] = FALSE
    BY <1>1 DEF Starts
  <2>1. CASE o \in starting
    BY <2>1 DEF IInv, TaskInv, Starts
  <2>2. CASE Represents[o] # NoTask /\ status[Represents[o]] = "new"
    <3>1. Represents[o] \in Tasks
      BY <2>2 DEF ListInv, ListsTyped
    <3>2. terminating[Represents[o]] = FALSE
      BY <2>2, <3>1 DEF IInv, TaskInv, Bounded, TasksTyped
    <3>3. QED
      BY <2>2, <3>2
  <2>3. QED
    BY <2>1, <2>2
<1>5. QueueSuspended'
  BY <1>1 DEF IInv, TaskInv, QueueSuspended
<1>6. Stopping'
  BY <1>1 DEF IInv, TaskInv, Stopping
<1>7. ExitIsSeen'
  BY <1>1 DEF IInv, TaskInv, ExitIsSeen, MayWait
<1>8. QED
  BY <1>2, <1>3, <1>4, <1>5, <1>6, <1>7 DEF IInv, TaskInv

\* Only a thread on its way out is active though its task is suspended.
LEMMA OthersRest ==
    ASSUME IInv
    PROVE  \A t \in active : t # current \/ exiting = "no"
              => suspendBit[TaskOf[t]] # TRUE
<1> SUFFICES ASSUME NEW t \in active, t # current \/ exiting = "no",
                    suspendBit[TaskOf[t]] = TRUE
             PROVE  FALSE
  OBVIOUS
<1>1. t \in Threads
  BY DEF IInv, ListInv, ListsTyped
<1>2. TaskOf[t] \in Tasks /\ t \in active \cap ThreadsOf(TaskOf[t])
  BY <1>1
<1>3. SuspendedTasksRest
  BY DEF IInv, TaskInv
<1>4. QED
  BY <1>2, <1>3 DEF SuspendedTasksRest

LEMMA RunningRests ==
    ASSUME IInv, current \in active, exiting = "no"
    PROVE  \A t \in active : suspendBit[TaskOf[t]] # TRUE
BY OthersRest

\* Giving up locks makes no thread of a suspended task active: the heirs
\* belong to the task of the current thread.
LEMMA ReleaseRests ==
    ASSUME IInv, current \in active, exiting = "no",
           NEW S \in SUBSET Locked(current), NEW out, Release(S, out),
           UNCHANGED suspendBit
    PROVE  SuspendedTasksRest'
<1>1. S \in SUBSET Objects
  OBVIOUS
<1>2. \A t \in Heirs(S) : \E o \in S : t \in waiters[o]
  <2>1. \A t \in Heirs(S) : \E o \in S : t \in waiters[o] /\ owner'[o] = t
    BY <1>1, ReleaseEffect DEF IInv, ListInv
  <2>2. QED
    BY <2>1
<1>3. \A t \in active' : t \in active \/ t \in Heirs(S)
  BY DEF Release
<1>4. current \in Threads
  BY DEF IInv, ListInv, ListsTyped
<1>5. \A t \in Heirs(S) : TaskOf[t] = TaskOf[current]
  <2> SUFFICES ASSUME NEW t \in Heirs(S) PROVE TaskOf[t] = TaskOf[current]
    OBVIOUS
  <2>1. PICK o \in S : t \in waiters[o]
    BY <1>2
  <2>2. o \in Objects /\ owner[o] = current
    OBVIOUS
  <2>3. TaskOf[current] = HomeOf[o]
    BY <1>4, <2>2 DEF IInv, ListInv, AtHome
  <2>4. t \in Threads /\ waitObj[t] = o
    BY <2>1, <2>2 DEF IInv, ListInv, AtHome, ListsTyped
  <2>5. TaskOf[t] = HomeOf[o]
    BY <2>2, <2>4 DEF IInv, ListInv, AtHome
  <2>6. QED
    BY <2>3, <2>5
<1>6. \A t \in active : suspendBit[TaskOf[t]] # TRUE
  BY RunningRests
<1>7. \A t \in active' : suspendBit'[TaskOf[t]] # TRUE
  BY <1>3, <1>4, <1>5, <1>6
<1>8. ASSUME NEW k \in Tasks, suspendBit'[k], NEW t \in active' \cap ThreadsOf(k)
      PROVE  FALSE
  <2>1. t \in active' /\ TaskOf[t] = k
    OBVIOUS
  <2>2. suspendBit'[k] = TRUE
    BY <1>8
  <2>3. QED
    BY <1>7, <2>1, <2>2
<1>9. QED
  BY <1>8 DEF SuspendedTasksRest

\* Where a wake-up leaves threads.
LEMMA WakeupMoves ==
    ASSUME ListsTyped, NEW W \in SUBSET waiting, NEW stay, NotifyWakeup(W, stay)
    PROVE  /\ \A t \in stay : t \in active'
           /\ \A t \in active' : t \in stay
                 \/ (t \in W /\ suspendBit[TaskOf[t]] # TRUE)
           /\ \A t \in suspendQueue : t \in suspendQueue'
           /\ \A t \in suspendQueue' : t \in suspendQueue
                 \/ (t \in W /\ suspendBit[TaskOf[t]] = TRUE)
           /\ \A t \in waiting' : t \in waiting /\ t \notin W /\ waitObj'[t] = waitObj[t]
<1>1. Admitted(W) \subseteq W /\ W \subseteq Threads
  BY DEF Admitted, ListsTyped
<1>2. /\ active' = stay \cup (Admitted(W) \ Suspended(Admitted(W)))
      /\ suspendQueue' = suspendQueue \cup Suspended(Admitted(W))
      /\ waiting' = waiting \ W
      /\ waitObj' = [t \in Threads |->
                        IF t \in Admitted(W) THEN NoObject ELSE waitObj[t]]
  BY DEF NotifyWakeup
<1>3. \A t \in Suspended(Admitted(W)) : t \in W /\ suspendBit[TaskOf[t]] = TRUE
  BY <1>1 DEF Suspended
<1>4. \A t \in Admitted(W) : t \notin Suspended(Admitted(W))
         => t \in W /\ suspendBit[TaskOf[t]] # TRUE
  BY <1>1 DEF Suspended
<1>5. waiting \subseteq Threads
  BY DEF ListsTyped
<1> HIDE DEF Admitted, Suspended
<1>6. QED
  BY <1>1, <1>2, <1>3, <1>4, <1>5

LEMMA RestKept ==
    ASSUME \A t \in active' : suspendBit'[TaskOf[t]] # TRUE
    PROVE  SuspendedTasksRest'
<1>1. ASSUME NEW k \in Tasks, suspendBit'[k], NEW t \in active' \cap ThreadsOf(k)
      PROVE  FALSE
  <2>1. t \in active' /\ TaskOf[t] = k
    OBVIOUS
  <2>2. suspendBit'[k] = TRUE
    BY <1>1
  <2>3. QED
    BY <2>1, <2>2
<1>2. QED
  BY <1>1 DEF SuspendedTasksRest

LEMMA QuietLockSteps ==
    ASSUME IInv, NEW o \in Objects, MonitorEnter(o) \/ MonitorExit(o) \/ Wait(o)
    PROVE  IInv'
<1>1. ListInv'
  BY LockSteps DEF IInv
<1>2. /\ current \in active /\ current \in Threads /\ exiting = "no"
      /\ terminating[TaskOf[current]] # TRUE
  BY DEF MonitorEnter, MonitorExit, Wait, Running, IInv, ListInv, ListsTyped
<1>3. UNCHANGED <<tasks, life, starting, suspendQueue>>
  BY DEF MonitorEnter, MonitorExit, Wait, lists
<1>4. UNCHANGED suspendBit
  BY <1>3 DEF tasks
<1>5. CASE MonitorEnter(o)
  <2>1. /\ \A t \in active : t \in active' \/ t = current
        /\ \A t \in active' : t \in active
        /\ waiting' = waiting
        /\ \A t \in Threads : t = current \/ waitObj'[t] = waitObj[t]
    BY <1>2, <1>5 DEF MonitorEnter, lists, IInv, ListInv, ListsTyped
  <2>2. current \notin waiting
    BY <1>2 DEF IInv, ListInv, Placed
  <2>3. \A t \in waiting' : t \in waiting /\ waitObj[t] = waitObj'[t]
    BY <2>1, <2>2 DEF IInv, ListInv, ListsTyped
  <2>4. SuspendedTasksRest'
    BY <1>2, <1>4, <2>1, RunningRests, RestKept
  <2>5. QED
    BY <1>1, <1>2, <1>3, <2>1, <2>3, <2>4, QuietStep
<1>6. CASE MonitorExit(o) \/ Wait(o)
  <2>1. PICK out \in SUBSET {current} :
           /\ Release({o}, out)
           /\ owner[o] = current
           /\ waiting' = waiting \cup out
           /\ out # {} => MayWait(o) /\ waitObj'[current] = o
    <3>1. CASE MonitorExit(o)
      <4>1. Release({o}, {}) /\ owner[o] = current /\ waiting' = waiting \cup {}
        BY <3>1 DEF MonitorExit
      <4>2. QED
        BY <4>1
    <3>2. CASE Wait(o)
      <4>1. /\ Release({o}, {current}) /\ owner[o] = current
            /\ waiting' = waiting \cup {current} /\ MayWait(o)
        BY <3>2 DEF Wait
      <4>2. waitObj'[current] = o
        BY <1>2, <3>2 DEF Wait
      <4>3. QED
        BY <4>1, <4>2
    <3>3. QED
      BY <1>6, <3>1, <3>2
  <2> DEFINE S == {o}
  <2>2. /\ \A t \in active : t \in active' \/ t = current
        /\ Release(S, out) /\ S \in SUBSET Locked(current) /\ S \in SUBSET Objects
    BY <2>1 DEF Release
  <2> HIDE DEF S
  <2>3. SuspendedTasksRest'
    BY <1>2, <1>4, <2>2, ReleaseRests
  <2>4. /\ Heirs(S) \subseteq Threads
        /\ \A t \in Heirs(S) : \E p \in S : t \in waiters[p] /\ owner'[p] = t
    BY <2>2, ReleaseEffect DEF IInv, ListInv
  <2>5. \A t \in Heirs(S) : t \notin waiting
    BY <2>2, <2>4 DEF IInv, ListInv, Placed
  <2>6. \A t \in Threads : t \notin Heirs(S) /\ t # current => waitObj'[t] = waitObj[t]
    <3>1. CASE MonitorExit(o)
      BY <3>1 DEF MonitorExit, S
    <3>2. CASE Wait(o)
      BY <3>2 DEF Wait, S
    <3>3. QED
      BY <1>6, <3>1, <3>2
  <2>7. current \notin waiting
    BY <1>2 DEF IInv, ListInv, Placed
  <2>8. \A t \in waiting' : \/ t \in waiting /\ waitObj[t] = waitObj'[t]
                            \/ MayWait(waitObj'[t])
    <3> SUFFICES ASSUME NEW t \in waiting'
                 PROVE  \/ t \in waiting /\ waitObj[t] = waitObj'[t]
                        \/ MayWait(waitObj'[t])
      OBVIOUS
    <3>1. CASE t \in waiting
      BY <2>5, <2>6, <2>7, <3>1 DEF IInv, ListInv, ListsTyped
    <3>2. CASE t \notin waiting
      <4>1. t = current /\ out # {}
        BY <2>1, <3>2
      <4>2. QED
        BY <2>1, <4>1
    <3>3. QED
      BY <3>1, <3>2
  <2>9. QED
    BY <1>1, <1>2, <1>3, <2>2, <2>3, <2>8, QuietStep
<1>7. QED
  BY <1>5, <1>6

LEMMA QuietUnwind ==
    ASSUME IInv, Terminated \/ Uncaught
    PROVE  IInv'
<1>1. PICK as \in {"uncaught", "unwound"} : Unwind(as)
  BY DEF Terminated, Uncaught
<1>2. current \in active /\ current \in Threads /\ exiting = "no"
  BY DEF Terminated, Uncaught, Running, IInv, ListInv, ListsTyped
<1>3. ListInv'
  BY <1>1, <1>2, UnwindLists DEF IInv
<1> DEFINE S == Locked(current)
<1>4. /\ Release(S, {}) /\ S \in SUBSET Locked(current) /\ S \in SUBSET Objects
      /\ waitObj' = [t \in Threads |->
                        IF t \in Heirs(S) THEN NoObject ELSE waitObj[t]]
      /\ waiting' = waiting
      /\ UNCHANGED <<tasks, life, suspendQueue>>
      /\ \A o \in starting' : o \in starting
  BY <1>1 DEF Unwind
<1> HIDE DEF S
<1>5. UNCHANGED suspendBit
  BY <1>4 DEF tasks
<1>6. SuspendedTasksRest'
  BY <1>2, <1>4, <1>5, ReleaseRests
<1>7. \A t \in active : t \in active'
  BY <1>4 DEF Release
<1>8. /\ Heirs(S) \subseteq Threads
      /\ \A t \in Heirs(S) : \E p \in S : t \in waiters[p] /\ owner'[p] = t
  BY <1>4, ReleaseEffect DEF IInv, ListInv
<1>9. \A t \in waiting' : t \in waiting /\ waitObj[t] = waitObj'[t]
  BY <1>4, <1>8 DEF IInv, ListInv, ListsTyped, Placed
<1>10. QED
  BY <1>3, <1>4, <1>6, <1>7, <1>9, QuietStep

LEMMA QuietPlainSteps ==
    ASSUME IInv,
           \/ Sleep \/ BlockCurrentThread
           \/ \E t \in Threads : UnblockThread(t) \/ Switch(t)
           \/ \E o \in Objects : StartIsolate(o)
           \/ Return
    PROVE  IInv'
<1>1. ListInv'
  BY PlainSteps DEF IInv
<1>2. CASE Sleep \/ BlockCurrentThread
  <2>1. /\ current \in active /\ current \in Threads /\ exiting = "no"
        /\ terminating[TaskOf[current]] # TRUE
        /\ active' = active \ {current}
        /\ waiting' = waiting \cup {current} \/ waiting' = waiting
        /\ UNCHANGED <<tasks, life, suspendQueue, waitObj, starting>>
    BY <1>2 DEF Sleep, BlockCurrentThread, Running, IInv, ListInv, ListsTyped
  <2>2. UNCHANGED suspendBit
    BY <2>1 DEF tasks
  <2>3. SuspendedTasksRest'
    BY <2>1, <2>2, RunningRests, RestKept
  <2>4. waitObj[current] = NoObject
    BY <2>1 DEF IInv, ListInv, ListsTyped, AtHome, Placed
  <2>5. \A t \in waiting' : waitObj'[t] # NoObject
           => t \in waiting /\ waitObj[t] = waitObj'[t]
    BY <2>1, <2>4
  <2>6. QED
    BY <1>1, <2>1, <2>3, <2>5, QuietStep
<1>3. ASSUME NEW t \in Threads, UnblockThread(t) PROVE IInv'
  <2>1. /\ active' = active \cup ({t} \ Suspended({t}))
        /\ suspendQueue' = suspendQueue \cup Suspended({t})
        /\ UNCHANGED <<tasks, life, waiting, waitObj, starting, current, exiting>>
    BY <1>3 DEF UnblockThread
  <2>2. /\ \A u \in Suspended({t}) : suspendBit[TaskOf[u]] = TRUE
        /\ \A u \in {t} \ Suspended({t}) : suspendBit[TaskOf[u]] # TRUE
    BY DEF Suspended
  <2>3. UNCHANGED suspendBit
    BY <2>1 DEF tasks
  <2>4. SuspendedTasksRest'
    <3> SUFFICES ASSUME NEW k \in Tasks, suspendBit'[k],
                        NEW u \in active' \cap ThreadsOf(k)
                 PROVE  u = current /\ exiting # "no"
      BY <2>1 DEF SuspendedTasksRest
    <3>1. suspendBit[TaskOf[u]] = TRUE /\ u \in active'
      BY <2>3
    <3>2. u \in active
      BY <2>1, <2>2, <3>1
    <3>3. QED
      BY <2>3, <3>2 DEF IInv, TaskInv, SuspendedTasksRest
  <2>5. QED
    BY <1>1, <2>1, <2>2, <2>4, QuietStep
<1>4. ASSUME NEW t \in Threads, Switch(t) PROVE IInv'
  <2>1. exiting = "no" /\ UNCHANGED <<tasks, life, lists, starting>>
    BY <1>4 DEF Switch
  <2>2. UNCHANGED <<suspendBit, active, suspendQueue, waiting, waitObj>>
    BY <2>1 DEF tasks, lists
  <2>3. \A u \in active : suspendBit[TaskOf[u]] # TRUE
    BY <2>1, OthersRest
  <2>4. SuspendedTasksRest'
    BY <2>2, <2>3, RestKept
  <2>5. QED
    BY <1>1, <2>1, <2>2, <2>4, QuietStep
<1>5. ASSUME NEW o \in Objects, StartIsolate(o) PROVE IInv'
  <2>1. /\ starting' = starting \cup {o}
        /\ Represents[o] # NoTask /\ status[Represents[o]] = "new"
        /\ UNCHANGED <<tasks, life, lists, current, exiting>>
    BY <1>5 DEF StartIsolate
  <2>2. UNCHANGED <<suspendBit, active, suspendQueue, waiting, waitObj>>
    BY <2>1 DEF tasks, lists
  <2>3. SuspendedTasksRest'
    BY <2>1, <2>2 DEF IInv, TaskInv, SuspendedTasksRest
  <2>4. QED
    BY <1>1, <2>1, <2>2, <2>3, QuietStep
<1>6. CASE Return
  <2>1. /\ current \in active /\ exiting = "no"
        /\ UNCHANGED <<tasks, life, lists, starting>>
    BY <1>6 DEF Return, Running
  <2>2. UNCHANGED <<suspendBit, active, suspendQueue, waiting, waitObj>>
    BY <2>1 DEF tasks, lists
  <2>3. SuspendedTasksRest'
    BY <2>1, <2>2, RunningRests, RestKept
  <2>4. QED
    BY <1>1, <2>1, <2>2, <2>3, QuietStep
<1>7. QED
  BY <1>2, <1>3, <1>4, <1>5, <1>6

LEMMA QuietNotifySteps ==
    ASSUME IInv,
           \/ \E o \in Objects, W \in SUBSET Threads : Notify(o, W)
           \/ \E t \in Threads : TimeOut(t)
    PROVE  IInv'
<1>1. ListInv'
  BY NotifySteps DEF IInv
<1>2. PICK W \in SUBSET waiting : NotifyWakeup(W, active)
  BY DEF Notify, TimeOut
<1>3. UNCHANGED <<tasks, life, starting, current, exiting>>
  BY DEF Notify, TimeOut
<1>4. UNCHANGED suspendBit
  BY <1>3 DEF tasks
<1>5. /\ \A t \in active : t \in active'
      /\ \A t \in active' : t \in active
            \/ (t \in W /\ suspendBit[TaskOf[t]] # TRUE)
      /\ \A t \in suspendQueue : t \in suspendQueue'
      /\ \A t \in suspendQueue' : t \in suspendQueue
            \/ (t \in W /\ suspendBit[TaskOf[t]] = TRUE)
      /\ \A t \in waiting' : t \in waiting /\ t \notin W /\ waitObj'[t] = waitObj[t]
  BY <1>2, WakeupMoves DEF IInv, ListInv
<1>6. SuspendedTasksRest'
  <2> SUFFICES ASSUME NEW k \in Tasks, suspendBit'[k],
                      NEW u \in active' \cap ThreadsOf(k)
               PROVE  u = current /\ exiting # "no"
    BY <1>3 DEF SuspendedTasksRest
  <2>1. suspendBit[TaskOf[u]] = TRUE /\ u \in active'
    BY <1>4
  <2>2. u \in active
    BY <1>5, <2>1
  <2>3. QED
    BY <1>4, <2>2 DEF IInv, TaskInv, SuspendedTasksRest
<1>7. QED
  BY <1>1, <1>3, <1>5, <1>6, QuietStep

-----------------------------------------------------------------------------
(* Steps that start, suspend, resume, stop and end.                        *)

LEMMA StartThreadStep ==
    ASSUME IInv, NEW t \in Threads, StartThread(t)
    PROVE  IInv'
<1>1. ListInv'
  BY PlainSteps DEF IInv
<1>2. /\ current \in active /\ current \in Threads /\ exiting = "no"
      /\ terminating[TaskOf[t]] # TRUE /\ TaskOf[t] = TaskOf[current]
      /\ life[t] = "unborn" /\ life' = [life EXCEPT ![t] = "alive"]
      /\ active' = active \cup {t}
      /\ AddThread(TaskOf[t])
      /\ UNCHANGED <<status, suspendBit, terminating, suspendQueue,
                     waiting, waitObj, starting>>
  BY DEF StartThread, Running, IInv, ListInv, ListsTyped
<1>3. Counted'
  BY <1>2, OneMore DEF IInv, TaskInv, ListInv
<1>4. TasksTyped'
  BY <1>2 DEF IInv, TaskInv, TasksTyped, AddThread
<1>5. life[current] = "alive"
  BY <1>2 DEF IInv, ListInv, Placed
<1>6. \A u \in Threads : life'[u] = "alive" <=> life[u] = "alive" \/ u = t
  BY <1>2 DEF IInv, ListInv, ListsTyped
<1>7. status[TaskOf[t]] \notin {"new", "stopped"}
  BY <1>2, <1>5 DEF IInv, TaskInv, Bounded
<1>8. Bounded'
  BY <1>2, <1>6, <1>7 DEF IInv, TaskInv, Bounded
<1>9. Starts' /\ QueueSuspended' /\ ExitIsSeen'
  BY <1>2 DEF IInv, TaskInv, Starts, QueueSuspended, ExitIsSeen
<1>10. Stopping'
  BY <1>2, <1>6 DEF IInv, TaskInv, Stopping
<1>11. SuspendedTasksRest'
  <2>1. \A u \in active : suspendBit[TaskOf[u]] # TRUE
    BY <1>2, RunningRests
  <2>2. \A u \in active' : suspendBit'[TaskOf[u]] # TRUE
    BY <1>2, <2>1
  <2>3. QED
    BY <2>2, RestKept
<1>12. QED
  BY <1>1, <1>3, <1>4, <1>8, <1>9, <1>10, <1>11 DEF IInv, TaskInv

\* Suspending and resuming a task, and the handler's suspending the current
\* task, change the suspend bit and move threads between the two lists.
LEMMA SuspendStep ==
    ASSUME IInv, ListInv', SuspendedTasksRest',
           NEW k \in Tasks, NEW b \in BOOLEAN,
           suspendBit' = [suspendBit EXCEPT ![k] = b],
           UNCHANGED <<status, terminating, threadCount, life, waiting, waitObj,
                       starting>>,
           \A t \in suspendQueue' : \/ t \in suspendQueue /\ TaskOf[t] # k
                                    \/ b = TRUE /\ TaskOf[t] = k,
           \A t \in active \cup suspendQueue : t \in active' \/ t \in suspendQueue'
    PROVE  IInv'
<1>1. TasksTyped' /\ Counted'
  BY DEF IInv, TaskInv, TasksTyped, Counted
<1>2. Bounded' /\ Starts' /\ ExitIsSeen'
  BY DEF IInv, TaskInv, Bounded, Starts, ExitIsSeen
<1>3. QueueSuspended'
  <2>1. \A j \in Tasks : suspendBit'[j] = IF j = k THEN b ELSE suspendBit[j]
    BY DEF IInv, TaskInv, TasksTyped
  <2>2. \A t \in suspendQueue' : t \in Threads
    BY DEF ListInv, ListsTyped
  <2>3. QED
    BY <2>1, <2>2 DEF IInv, TaskInv, QueueSuspended
<1>4. Stopping'
  BY DEF IInv, TaskInv, Stopping
<1>5. QED
  BY <1>1, <1>2, <1>3, <1>4 DEF IInv, TaskInv

LEMMA SuspendAndResume ==
    ASSUME IInv, NEW k \in Tasks, Suspend(k) \/ Resume(k)
    PROVE  IInv'
<1>1. ListInv'
  BY PlainSteps DEF IInv
<1>2. current \in active /\ exiting = "no"
  BY DEF Suspend, Resume, Running
<1>3. \A t \in active : suspendBit[TaskOf[t]] # TRUE
  BY <1>2, RunningRests
<1>4. CASE Suspend(k)
  <2>1. /\ suspendBit' = [suspendBit EXCEPT ![k] = TRUE]
        /\ active' = active \ ThreadsOf(k)
        /\ suspendQueue' = suspendQueue \cup (active \cap ThreadsOf(k))
        /\ UNCHANGED <<status, terminating, threadCount, life, waiting, waitObj,
                       starting>>
    BY <1>4 DEF Suspend
  <2>2. active \subseteq Threads /\ suspendQueue \subseteq Threads
    BY DEF IInv, ListInv, ListsTyped
  <2>3. \A j \in Tasks : j # k => suspendBit'[j] = suspendBit[j]
    BY <2>1 DEF IInv, TaskInv, TasksTyped
  <2>4. \A t \in active' : suspendBit'[TaskOf[t]] # TRUE
    BY <1>3, <2>1, <2>2, <2>3
  <2>5. SuspendedTasksRest'
    BY <2>4, RestKept
  <2>6. \A t \in suspendQueue' : \/ t \in suspendQueue /\ TaskOf[t] # k
                                 \/ TRUE = TRUE /\ TaskOf[t] = k
    BY <2>1, <2>2
  <2>7. \A t \in active \cup suspendQueue : t \in active' \/ t \in suspendQueue'
    BY <2>1
  <2>8. QED
    BY <1>1, <2>1, <2>5, <2>6, <2>7, SuspendStep
<1>5. CASE Resume(k)
  <2>1. /\ status' = [status EXCEPT ![k] = status[k]]
        /\ suspendBit' = [suspendBit EXCEPT ![k] = FALSE]
        /\ suspendQueue' = suspendQueue \ ThreadsOf(k)
        /\ active' = active \cup (suspendQueue \cap ThreadsOf(k))
        /\ UNCHANGED <<terminating, threadCount, life, waiting, waitObj, starting>>
    BY <1>5 DEF Resume, SetStatus
  <2>2. status' = status
    BY <2>1 DEF IInv, TaskInv, TasksTyped
  <2>3. active \subseteq Threads /\ suspendQueue \subseteq Threads
    BY DEF IInv, ListInv, ListsTyped
  <2>4. \A j \in Tasks : suspendBit'[j] = IF j = k THEN FALSE ELSE suspendBit[j]
    BY <2>1 DEF IInv, TaskInv, TasksTyped
  <2>5. \A t \in active' : suspendBit'[TaskOf[t]] # TRUE
    BY <1>3, <2>1, <2>3, <2>4
  <2>6. SuspendedTasksRest'
    BY <2>5, RestKept
  <2>7. \A t \in suspendQueue' : t \in suspendQueue /\ TaskOf[t] # k
    BY <2>1, <2>3
  <2>8. \A t \in active \cup suspendQueue : t \in active' \/ t \in suspendQueue'
    BY <2>1
  <2>9. QED
    BY <1>1, <2>1, <2>2, <2>6, <2>7, <2>8, SuspendStep
<1>6. QED
  BY <1>4, <1>5

\* Task.stop of a task that has live threads and can still be stopped.
LEMMA StopTaskStep ==
    ASSUME IInv, ListInv', NEW k \in Tasks, StopTask(k), starting' = starting,
           status[k] \notin {"new", "stopped"},
           \A t \in active : TaskOf[t] # k => suspendBit[TaskOf[t]] # TRUE
    PROVE  IInv'
<1>1. /\ status' = [status EXCEPT ![k] = "stopping"]
      /\ suspendBit' = [suspendBit EXCEPT ![k] = FALSE]
      /\ terminating' = [terminating EXCEPT ![k] = TRUE]
      /\ UNCHANGED <<threadCount, life>>
  BY DEF StopTask, SetStatus
<1>2. /\ active \subseteq active'
      /\ \A t \in Threads : TaskOf[t] = k => (life[t] = "alive" => t \in active')
      /\ \A t \in Threads : TaskOf[t] # k =>
            /\ t \in active' <=> t \in active
            /\ t \in suspendQueue' <=> t \in suspendQueue
            /\ t \in waiting' <=> t \in waiting
            /\ waitObj'[t] = waitObj[t]
      /\ \A t \in suspendQueue' \cup waiting' : TaskOf[t] # k
  BY StopLists DEF IInv
<1>3. TasksTyped' /\ Counted'
  BY <1>1 DEF IInv, TaskInv, TasksTyped, Counted
<1>4. \A j \in Tasks : /\ status'[j] = IF j = k THEN "stopping" ELSE status[j]
                       /\ suspendBit'[j] = IF j = k THEN FALSE ELSE suspendBit[j]
                       /\ terminating'[j] = IF j = k THEN TRUE ELSE terminating[j]
  BY <1>1 DEF IInv, TaskInv, TasksTyped
<1>5. Bounded'
  <2>1. \A j \in Tasks : status'[j] \in {"new", "stopped"}
           => \A t \in LiveThreads(j)' : FALSE
    BY <1>1, <1>4 DEF IInv, TaskInv, Bounded
  <2>2. \A j \in Tasks : terminating'[j] = TRUE => status'[j] \in {"stopping", "stopped"}
    BY <1>4 DEF IInv, TaskInv, Bounded
  <2>3. QED
    BY <2>1, <2>2 DEF Bounded
<1>6. Starts'
  <2>1. \A o \in starting : Represents[o] \in Tasks /\ Represents[o] # k
    BY DEF IInv, TaskInv, Starts, ListInv, ListsTyped
  <2>2. QED
    BY <1>4, <2>1 DEF IInv, TaskInv, Starts
<1>7. /\ active' \subseteq Threads /\ suspendQueue' \subseteq Threads
      /\ waiting' \subseteq Threads
      /\ waitObj' \in [Threads -> Objects \cup {NoObject}]
  BY DEF ListInv, ListsTyped
<1>8. QueueSuspended'
  BY <1>2, <1>4, <1>7 DEF IInv, TaskInv, QueueSuspended
<1>9. Stopping'
  BY <1>1, <1>2, <1>4 DEF IInv, TaskInv, Stopping
<1>10. SuspendedTasksRest'
  <2>1. \A t \in active' : suspendBit'[TaskOf[t]] # TRUE
    BY <1>2, <1>4, <1>7
  <2>2. QED
    BY <2>1, RestKept
<1>11. ExitIsSeen'
  <2> SUFFICES ASSUME NEW t \in waiting', waitObj'[t] # NoObject,
                      Represents[waitObj'[t]] # NoTask
               PROVE  status'[Represents[waitObj'[t]]] # "stopped"
    BY DEF ExitIsSeen
  <2>1. t \in Threads /\ t \in waiting /\ waitObj'[t] = waitObj[t]
    BY <1>2, <1>7
  <2>2. Represents[waitObj[t]] \in Tasks
    BY <1>7, <2>1
  <2>3. status[Represents[waitObj[t]]] # "stopped"
    BY <2>1 DEF IInv, TaskInv, ExitIsSeen
  <2>4. QED
    BY <1>4, <2>1, <2>2, <2>3
<1>12. QED
  BY <1>3, <1>5, <1>6, <1>8, <1>9, <1>10, <1>11 DEF IInv, TaskInv

\* Waking threads, when the suspend bit of none of those woken or suspended
\* changes and those in stay are not suspended.
LEMMA WakeupTasks ==
    ASSUME IInv, NEW W \in SUBSET waiting, NEW stay, NotifyWakeup(W, stay),
           UNCHANGED terminating,
           \A t \in suspendQueue \cup W : suspendBit'[TaskOf[t]] = suspendBit[TaskOf[t]],
           \A t \in stay : suspendBit'[TaskOf[t]] # TRUE,
           \A t \in Threads : life'[t] = "alive" /\ terminating[TaskOf[t]] = TRUE
              => life[t] = "alive" /\ (t \in active => t \in stay)
    PROVE  SuspendedTasksRest' /\ QueueSuspended' /\ Stopping'
<1>1. /\ \A t \in stay : t \in active'
      /\ \A t \in active' : t \in stay
            \/ (t \in W /\ suspendBit[TaskOf[t]] # TRUE)
      /\ \A t \in suspendQueue : t \in suspendQueue'
      /\ \A t \in suspendQueue' : t \in suspendQueue
            \/ (t \in W /\ suspendBit[TaskOf[t]] = TRUE)
  BY WakeupMoves DEF IInv, ListInv
<1>2. \A t \in active' : suspendBit'[TaskOf[t]] # TRUE
  BY <1>1
<1>3. SuspendedTasksRest'
  BY <1>2, RestKept
<1>4. QueueSuspended'
  BY <1>1 DEF IInv, TaskInv, QueueSuspended
<1>5. Stopping'
  BY <1>1 DEF IInv, TaskInv, Stopping
<1>6. QED
  BY <1>3, <1>4, <1>5

\* If the status of task k may become stopped, all that wait for its exit are
\* woken.
LEMMA EndIsSeen ==
    ASSUME IInv, NEW k \in Tasks, NEW W \in SUBSET waiting, NEW stay,
           NotifyWakeup(W, stay),
           \A j \in Tasks : j # k => status'[j] = status[j],
           \/ status'[k] # "stopped"
           \/ \A o \in Objects : Represents[o] = k
                 => \A t \in waiting : waitObj[t] = o => t \in W
    PROVE  ExitIsSeen'
<1>1. \A t \in waiting' : t \in waiting /\ t \notin W /\ waitObj'[t] = waitObj[t]
  BY WakeupMoves DEF IInv, ListInv
<1>2. SUFFICES ASSUME NEW t \in waiting', waitObj'[t] # NoObject,
                      Represents[waitObj'[t]] # NoTask
               PROVE  status'[Represents[waitObj'[t]]] # "stopped"
  BY DEF ExitIsSeen
<1>3. t \in Threads /\ t \in waiting /\ t \notin W /\ waitObj'[t] = waitObj[t]
  BY <1>1 DEF IInv, ListInv, ListsTyped
<1>4. waitObj[t] \in Objects /\ Represents[waitObj[t]] \in Tasks
  BY <1>2, <1>3 DEF IInv, ListInv, ListsTyped
<1>5. CASE Represents[waitObj[t]] = k
  BY <1>3, <1>4, <1>5
<1>6. CASE Represents[waitObj[t]] # k
  BY <1>2, <1>3, <1>4, <1>6 DEF IInv, TaskInv, ExitIsSeen
<1>7. QED
  BY <1>5, <1>6

\* No thread of a task that is new or stopped is in any list.
LEMMA NoneListed ==
    ASSUME IInv, NEW k \in Tasks, status[k] \in {"new", "stopped"}
    PROVE  \A t \in Threads : t \in active \/ t \in suspendQueue \/ t \in waiting
               => TaskOf[t] # k
BY DEF IInv, TaskInv, Bounded, ListInv, Placed

LEMMA StopUnstartedStep ==
    ASSUME IInv, NEW o \in Objects, StopUnstarted(o)
    PROVE  IInv'
<1> DEFINE k == Represents[o]
           W == WaitersOn({o})
<1>1. ListInv'
  BY NotifySteps DEF IInv
<1>2. /\ current \in active /\ exiting = "no"
      /\ k \in Tasks /\ status[k] = "new"
      /\ status' = [status EXCEPT ![k] = "stopped"]
      /\ suspendBit' = [suspendBit EXCEPT ![k] = FALSE]
      /\ NotifyWakeup(W, active)
      /\ UNCHANGED <<terminating, threadCount, life, starting>>
      /\ W \in SUBSET waiting
  BY DEF StopUnstarted, SetStatus, Running
<1>3. \A p \in Objects : Represents[p] = k => \A t \in waiting : waitObj[t] = p => t \in W
  BY <1>2
<1> HIDE DEF k, W
<1>4. \A j \in Tasks : /\ status'[j] = IF j = k THEN "stopped" ELSE status[j]
                       /\ suspendBit'[j] = IF j = k THEN FALSE ELSE suspendBit[j]
  BY <1>2 DEF IInv, TaskInv, TasksTyped
<1>5. active \subseteq Threads /\ suspendQueue \subseteq Threads /\ waiting \subseteq Threads
  BY DEF IInv, ListInv, ListsTyped
<1>6. \A t \in active : suspendBit[TaskOf[t]] # TRUE
  BY <1>2, RunningRests
<1>7. \A t \in suspendQueue \cup W : suspendBit'[TaskOf[t]] = suspendBit[TaskOf[t]]
  <2>1. status[k] \in {"new", "stopped"}
    BY <1>2
  <2>2. \A t \in Threads : t \in suspendQueue \/ t \in waiting => TaskOf[t] # k
    BY <1>2, <2>1, NoneListed
  <2>3. QED
    BY <1>2, <1>4, <1>5, <2>2
<1>8. \A t \in active : suspendBit'[TaskOf[t]] # TRUE
  BY <1>4, <1>5, <1>6
<1>9. SuspendedTasksRest' /\ QueueSuspended' /\ Stopping'
  BY <1>2, <1>7, <1>8, WakeupTasks
<1>10. ExitIsSeen'
  BY <1>2, <1>3, <1>4, EndIsSeen
<1>11. TasksTyped' /\ Counted'
  BY <1>2 DEF IInv, TaskInv, TasksTyped, Counted
<1>12. Bounded'
  <2>1. \A j \in Tasks : status'[j] \in {"new", "stopped"}
           => \A t \in LiveThreads(j)' : FALSE
    BY <1>2, <1>4 DEF IInv, TaskInv, Bounded
  <2>2. \A j \in Tasks : terminating'[j] = TRUE => status'[j] \in {"stopping", "stopped"}
    BY <1>2, <1>4 DEF IInv, TaskInv, Bounded
  <2>3. QED
    BY <2>1, <2>2 DEF Bounded
<1>13. Starts'
  <2>1. \A p \in starting : Represents[p] \in Tasks
    BY DEF IInv, TaskInv, Starts, ListInv, ListsTyped
  <2>2. QED
    BY <1>2, <1>4, <2>1 DEF IInv, TaskInv, Starts
<1>14. QED
  BY <1>1, <1>9, <1>10, <1>11, <1>12, <1>13 DEF IInv, TaskInv

LEMMA NativeStartStep ==
    ASSUME IInv, NEW o \in Objects, NativeStart(o)
    PROVE  IInv'
<1> DEFINE k == Represents[o]
           W == WaitersOn({o})
           main == MainThread[k]
<1>1. o \in starting
  BY DEF NativeStart
<1>2. /\ k \in Tasks /\ status[k] \in {"new", "stopped"} /\ terminating[k] = FALSE
  BY <1>1 DEF IInv, TaskInv, Starts, ListInv, ListsTyped
<1>3. \A t \in LiveThreads(k) : FALSE
  BY <1>2 DEF IInv, TaskInv, Bounded
<1>4. LiveThreads(k) = {}
  BY <1>3
<1>5. ListInv'
  BY <1>2, <1>4, NativeStartLists DEF IInv
<1>6. /\ current \in active /\ exiting = "no"
      /\ starting' = starting \ {o}
      /\ suspendBit' = [suspendBit EXCEPT ![k] = FALSE]
      /\ terminating' = terminating
      /\ W \in SUBSET waiting
      /\ main \in Threads /\ TaskOf[main] = k
  BY <1>2 DEF NativeStart, SetStatus
<1>7. \/ /\ status' = [status EXCEPT ![k] = "started"]
         /\ AddThread(k)
         /\ life' = [life EXCEPT ![main] = "alive"]
         /\ NotifyWakeup(W, active \cup {main})
      \/ /\ status' = [status EXCEPT ![k] = "stopped"]
         /\ life' = [life EXCEPT ![main] = "dead"]
         /\ NotifyWakeup(W, active)
         /\ threadCount' = threadCount
  BY DEF NativeStart, SetStatus
<1>8. \A p \in Objects : Represents[p] = k => p = o
  BY <1>2
<1>9. \A p \in Objects : Represents[p] = k => \A t \in waiting : waitObj[t] = p => t \in W
  BY <1>8
<1>10. \A t \in Threads : TaskOf[t] = k => life[t] # "alive"
  BY <1>3
<1> HIDE DEF k, W, main
<1>11. PICK stay \in {active, active \cup {main}} : NotifyWakeup(W, stay)
  BY <1>7
<1>12. \A j \in Tasks : /\ j # k => status'[j] = status[j]
                        /\ suspendBit'[j] = IF j = k THEN FALSE ELSE suspendBit[j]
  BY <1>6, <1>7 DEF IInv, TaskInv, TasksTyped
<1>13. /\ active \subseteq Threads /\ suspendQueue \subseteq Threads
       /\ waiting \subseteq Threads
  BY DEF IInv, ListInv, ListsTyped
<1>14. \A t \in active : suspendBit[TaskOf[t]] # TRUE
  BY <1>6, RunningRests
<1>15. \A t \in suspendQueue \cup W : suspendBit'[TaskOf[t]] = suspendBit[TaskOf[t]]
  BY <1>2, <1>6, <1>12, <1>13, NoneListed
<1>16. \A t \in stay : suspendBit'[TaskOf[t]] # TRUE
  <2>1. \A t \in stay : t \in active \/ t = main
    BY <1>11
  <2>2. suspendBit'[TaskOf[main]] # TRUE
    BY <1>2, <1>6, <1>12
  <2>3. \A t \in active : suspendBit'[TaskOf[t]] # TRUE
    BY <1>12, <1>13, <1>14
  <2>4. QED
    BY <2>1, <2>2, <2>3
<1>17. \A t \in Threads : t # main => life'[t] = life[t]
  BY <1>7 DEF IInv, ListInv, ListsTyped
<1>18. \A t \in Threads : life'[t] = "alive" /\ terminating[TaskOf[t]] = TRUE
          => life[t] = "alive" /\ (t \in active => t \in stay)
  BY <1>2, <1>6, <1>17
<1>19. SuspendedTasksRest' /\ QueueSuspended' /\ Stopping'
  BY <1>6, <1>11, <1>15, <1>16, <1>18, WakeupTasks
<1>20. ExitIsSeen'
  <2>1. \A j \in Tasks : j # k => status'[j] = status[j]
    BY <1>12
  <2>2. k \in Tasks /\ W \in SUBSET waiting
    BY <1>2, <1>6
  <2>3. QED
    BY <1>9, <1>11, <2>1, <2>2, EndIsSeen
<1>21. TasksTyped'
  BY <1>6, <1>7 DEF IInv, TaskInv, TasksTyped, AddThread
<1>22. Counted'
  <2>1. life[main] # "alive"
    BY <1>6, <1>10
  <2>2. CASE life' = [life EXCEPT ![main] = "alive"] /\ AddThread(k)
    BY <1>6, <2>1, <2>2, OneMore DEF IInv, TaskInv, ListInv
  <2>3. CASE life' = [life EXCEPT ![main] = "dead"] /\ threadCount' = threadCount
    <3>1. \A t \in Threads : life'[t] = "alive" <=> life[t] = "alive"
      BY <2>1, <2>3 DEF IInv, ListInv, ListsTyped
    <3>2. \A j \in Tasks : LiveThreads(j)' = LiveThreads(j)
      BY <3>1
    <3>3. \A j \in Tasks : threadCount'[j] = Cardinality(LiveThreads(j)')
      BY <2>3, <3>2 DEF IInv, TaskInv, Counted
    <3>4. QED
      BY <3>3 DEF Counted
  <2>4. QED
    BY <1>7, <2>2, <2>3
<1>23. Bounded'
  <2>1. ASSUME NEW j \in Tasks, status'[j] \in {"new", "stopped"},
               NEW t \in Threads, TaskOf[t] = j, life'[t] = "alive"
        PROVE  FALSE
    <3>1. CASE j = k
      BY <1>2, <1>6, <1>7, <1>10, <1>17, <2>1, <3>1 DEF IInv, ListInv, ListsTyped, TaskInv, TasksTyped
    <3>2. CASE j # k
      BY <1>6, <1>12, <1>17, <2>1, <3>2 DEF IInv, TaskInv, Bounded
    <3>3. QED
      BY <3>1, <3>2
  <2>2. \A j \in Tasks : terminating'[j] = TRUE => status'[j] \in {"stopping", "stopped"}
    BY <1>2, <1>6, <1>12 DEF IInv, TaskInv, Bounded
  <2>3. \A j \in Tasks : status'[j] \in {"new", "stopped"}
           => \A t \in LiveThreads(j)' : FALSE
    BY <2>1
  <2>4. QED
    BY <2>2, <2>3 DEF Bounded
<1>24. Starts'
  <2>1. \A p \in starting' : p \in starting /\ Represents[p] \in Tasks /\ Represents[p] # k
    BY <1>6, <1>8 DEF IInv, TaskInv, Starts, ListInv, ListsTyped
  <2>2. QED
    BY <1>6, <1>12, <2>1 DEF IInv, TaskInv, Starts
<1>25. QED
  BY <1>5, <1>19, <1>20, <1>21, <1>22, <1>23, <1>24 DEF IInv, TaskInv

LEMMA EndThreadStep ==
    ASSUME IInv, EndThread
    PROVE  IInv'
<1> DEFINE k == TaskOf[current]
           W == NotifiedOfEnd(current)
           stay == active \ {current}
<1>1. ListInv'
  BY EndThreadLists DEF IInv
<1>2. /\ current \in active /\ current \in Threads /\ k \in Tasks
  BY DEF EndThread, IInv, ListInv, LeavesActive, ListsTyped
<1>3. /\ NotifyWakeup(W, stay)
      /\ life' = [life EXCEPT ![current] = "dead"]
      /\ threadCount' = [threadCount EXCEPT ![k] = @ - 1]
      /\ UNCHANGED <<terminating, starting>>
      /\ \/ /\ threadCount[k] = 1
            /\ status' = [status EXCEPT ![k] = "stopped"]
            /\ suspendBit' = [suspendBit EXCEPT ![k] = FALSE]
         \/ threadCount[k] # 1 /\ UNCHANGED <<status, suspendBit>>
  BY DEF EndThread, SetStatus, IsLast
<1>4. /\ W \in SUBSET waiting
      /\ threadCount[k] = 1 => \A o \in Objects : Represents[o] = k =>
            \A t \in waiting : waitObj[t] = o => t \in W
  BY DEF NotifiedOfEnd, IsLast
<1> HIDE DEF k, W, stay
<1>5. life[current] = "alive"
  BY <1>2 DEF IInv, ListInv, Placed
<1>6. /\ Counted' /\ threadCount' \in [Tasks -> Nat]
      /\ threadCount[k] = 1 => LiveThreads(k) = {current}
  <2>1. threadCount' = [threadCount EXCEPT ![TaskOf[current]] = @ - 1]
    BY <1>3 DEF k
  <2>2. /\ Counted' /\ threadCount' \in [Tasks -> Nat]
        /\ threadCount[TaskOf[current]] = 1 => LiveThreads(TaskOf[current]) = {current}
    BY <1>2, <1>3, <1>5, <2>1, OneLess DEF IInv, TaskInv, ListInv
  <2>3. QED
    BY <2>2 DEF k
<1>7. TasksTyped'
  BY <1>3, <1>6 DEF IInv, TaskInv, TasksTyped
<1>8. threadCount[k] = 1 => \A t \in Threads : TaskOf[t] = k /\ life[t] = "alive" => t = current
  BY <1>6
<1>9. \A j \in Tasks :
         \/ status'[j] = status[j] /\ suspendBit'[j] = suspendBit[j]
         \/ /\ j = k /\ threadCount[k] = 1
            /\ status'[j] = "stopped" /\ suspendBit'[j] = FALSE
  BY <1>3 DEF IInv, TaskInv, TasksTyped
<1>10. /\ active \subseteq Threads /\ suspendQueue \subseteq Threads
       /\ waiting \subseteq Threads
  BY DEF IInv, ListInv, ListsTyped
<1>11. \A t \in suspendQueue \cup W : suspendBit'[TaskOf[t]] = suspendBit[TaskOf[t]]
  <2> SUFFICES ASSUME NEW t \in suspendQueue \cup W
               PROVE  suspendBit'[TaskOf[t]] = suspendBit[TaskOf[t]]
    OBVIOUS
  <2>1. t \in Threads /\ life[t] = "alive" /\ t # current
    BY <1>2, <1>4, <1>10 DEF IInv, ListInv, Placed
  <2>2. QED
    BY <1>8, <1>9, <2>1
<1>12. \A t \in stay : suspendBit'[TaskOf[t]] # TRUE
  <2>1. \A t \in active : t # current => suspendBit[TaskOf[t]] # TRUE
    BY OthersRest
  <2>2. \A t \in stay : t \in active /\ t # current
    BY DEF stay
  <2>3. QED
    BY <1>9, <1>10, <2>1, <2>2
<1>13. \A t \in Threads : life'[t] = "alive" => life[t] = "alive" /\ t # current
  BY <1>2, <1>3 DEF IInv, ListInv, ListsTyped
<1>14. SuspendedTasksRest' /\ QueueSuspended' /\ Stopping'
  <2>1. \A t \in active : t # current => t \in stay
    BY DEF stay
  <2>2. \A t \in Threads : life'[t] = "alive" /\ terminating[TaskOf[t]] = TRUE
           => life[t] = "alive" /\ (t \in active => t \in stay)
    BY <1>13, <2>1
  <2>3. QED
    BY <1>3, <1>4, <1>11, <1>12, <2>2, WakeupTasks
<1>15. ExitIsSeen'
  <2>1. \A j \in Tasks : j # k => status'[j] = status[j]
    BY <1>9
  <2>2. CASE threadCount[k] = 1
    BY <1>2, <1>3, <1>4, <2>1, <2>2, EndIsSeen
  <2>3. CASE threadCount[k] # 1
    <3>1. status[k] # "stopped"
      BY <1>2, <1>5 DEF IInv, TaskInv, Bounded, k
    <3>2. status'[k] # "stopped"
      BY <1>2, <1>9, <2>3, <3>1
    <3>3. QED
      BY <1>2, <1>3, <1>4, <2>1, <3>2, EndIsSeen
  <2>4. QED
    BY <2>2, <2>3
<1>16. Bounded'
  <2>1. ASSUME NEW j \in Tasks, status'[j] \in {"new", "stopped"},
               NEW t \in Threads, TaskOf[t] = j, life'[t] = "alive"
        PROVE  FALSE
    <3>1. CASE status'[j] = status[j]
      BY <1>13, <2>1, <3>1 DEF IInv, TaskInv, Bounded
    <3>2. CASE j = k /\ threadCount[k] = 1
      BY <1>8, <1>13, <2>1, <3>2
    <3>3. QED
      BY <1>9, <3>1, <3>2
  <2>2. \A j \in Tasks : terminating'[j] = TRUE => status'[j] \in {"stopping", "stopped"}
    BY <1>3, <1>9 DEF IInv, TaskInv, Bounded
  <2>3. \A j \in Tasks : status'[j] \in {"new", "stopped"}
           => \A t \in LiveThreads(j)' : FALSE
    BY <2>1
  <2>4. QED
    BY <2>2, <2>3 DEF Bounded
<1>17. Starts'
  <2>1. \A o \in starting : Represents[o] \in Tasks
    BY DEF IInv, TaskInv, Starts, ListInv, ListsTyped
  <2>2. QED
    BY <1>3, <1>9, <2>1 DEF IInv, TaskInv, Starts
<1>18. QED
  BY <1>1, <1>6, <1>7, <1>14, <1>15, <1>16, <1>17 DEF IInv, TaskInv

LEMMA StopStepKeeps ==
    ASSUME IInv, NEW k \in Tasks, Stop(k)
    PROVE  IInv'
<1>1. /\ StopTask(k) /\ UNCHANGED <<starting, current, exiting>>
      /\ exiting = "no" /\ current \in active /\ status[k] = "started"
  BY DEF Stop, Running
<1>2. ListInv'
  BY <1>1, StopStep DEF IInv
<1>3. \A t \in active : suspendBit[TaskOf[t]] # TRUE
  BY <1>1, RunningRests
<1>4. QED
  BY <1>1, <1>2, <1>3, StopTaskStep

LEMMA UncaughtStepKeeps ==
    ASSUME IInv, HandleUncaught
    PROVE  IInv'
<1> DEFINE k == TaskOf[current]
<1>1. ListInv'
  BY UncaughtStep DEF IInv
<1>2. /\ exiting = "uncaught" /\ exiting' = "unwound"
      /\ UNCHANGED <<starting, current>>
      /\ current \in active /\ current \in Threads /\ k \in Tasks
  BY DEF HandleUncaught, IInv, ListInv, ListsTyped, LeavesActive
<1>3. \A t \in active : t # current => suspendBit[TaskOf[t]] # TRUE
  BY OthersRest
<1>4. CASE UNCHANGED <<tasks, life, lists, owner>>
  <2>1. UNCHANGED <<suspendBit, active, suspendQueue, waiting, waitObj>>
    BY <1>4 DEF tasks, lists
  <2>2. SuspendedTasksRest'
    BY <1>2, <2>1 DEF IInv, TaskInv, SuspendedTasksRest
  <2>3. UNCHANGED <<tasks, life, starting>>
    BY <1>2, <1>4
  <2>4. QED
    BY <1>1, <2>1, <2>2, <2>3, QuietStep
<1>5. CASE StopTask(k)
  <2>1. life[current] = "alive"
    BY <1>2 DEF IInv, ListInv, Placed
  <2>2. status[k] \notin {"new", "stopped"}
    BY <1>2, <2>1 DEF IInv, TaskInv, Bounded
  <2>3. \A t \in active : TaskOf[t] # k => suspendBit[TaskOf[t]] # TRUE
    BY <1>3
  <2>4. QED
    BY <1>1, <1>2, <1>5, <2>2, <2>3, StopTaskStep
<1>6. CASE ~(UNCHANGED <<tasks, life, lists, owner>>) /\ ~StopTask(k)
  <2>1. /\ suspendBit' = [suspendBit EXCEPT ![k] = TRUE]
        /\ active' = (active \ ThreadsOf(k)) \cup {current}
        /\ suspendQueue' = suspendQueue
                              \cup ((active \cap ThreadsOf(k)) \ {current})
        /\ UNCHANGED <<status, terminating, threadCount, life, waiting, waitObj>>
    BY <1>6 DEF HandleUncaught
  <2>2. active \subseteq Threads /\ suspendQueue \subseteq Threads
    BY DEF IInv, ListInv, ListsTyped
  <2>3. \A j \in Tasks : j # k => suspendBit'[j] = suspendBit[j]
    BY <2>1 DEF IInv, TaskInv, TasksTyped
  <2>4. \A t \in active' : t = current \/ (t \in active /\ t # current /\ TaskOf[t] # k)
    BY <2>1, <2>2
  <2>5. SuspendedTasksRest'
    <3> SUFFICES ASSUME NEW j \in Tasks, suspendBit'[j],
                        NEW t \in active' \cap ThreadsOf(j), t # current
                 PROVE  FALSE
      BY <1>2 DEF SuspendedTasksRest
    <3>1. t \in active' /\ TaskOf[t] = j
      OBVIOUS
    <3>2. suspendBit'[j] = TRUE
      OBVIOUS
    <3>3. QED
      BY <1>3, <2>3, <2>4, <3>1, <3>2
  <2>6. \A t \in suspendQueue' : \/ t \in suspendQueue /\ TaskOf[t] # k
                                 \/ TRUE = TRUE /\ TaskOf[t] = k
    BY <2>1, <2>2
  <2>7. \A t \in active \cup suspendQueue : t \in active' \/ t \in suspendQueue'
    BY <2>1, <2>2
  <2>8. QED
    BY <1>1, <1>2, <2>1, <2>5, <2>6, <2>7, SuspendStep
<1>7. QED
  BY <1>4, <1>5, <1>6

-----------------------------------------------------------------------------
(* The theorems.                                                           *)

LEMMA InitIInv == Init => IInv
<1> SUFFICES ASSUME Init PROVE IInv
  OBVIOUS
<1> DEFINE first == MainThread[FirstTask]
<1>1. first \in Threads /\ TaskOf[first] = FirstTask /\ FirstTask \in Tasks
  OBVIOUS
<1>2. /\ \A k \in Tasks : /\ status[k] = IF k = FirstTask THEN "started" ELSE "new"
                          /\ terminating[k] = FALSE /\ suspendBit[k] = FALSE
      /\ \A t \in Threads : life[t] = IF t = first THEN "alive" ELSE "unborn"
      /\ \A t \in Threads : waitObj[t] = NoObject
      /\ \A o \in Objects : owner[o] = NoThread /\ waiters[o] = {}
      /\ active = {first} /\ suspendQueue = {} /\ asynchronous = {}
      /\ waiting = {} /\ starting = {} /\ current = first /\ exiting = "no"
  BY DEF Init
<1>3. TasksTyped
  BY DEF Init, TasksTyped
<1>4. ListsTyped
  BY <1>1 DEF Init, ListsTyped
<1>5. Counted
  <2> SUFFICES ASSUME NEW k \in Tasks
               PROVE  threadCount[k] = Cardinality(LiveThreads(k))
    BY DEF Counted
  <2>1. threadCount[k] = IF k = FirstTask THEN 1 ELSE 0
    BY DEF Init
  <2>2. CASE k = FirstTask
    <3>1. LiveThreads(k) = {first}
      BY <1>1, <1>2, <2>2
    <3>2. Cardinality(LiveThreads(k)) = 1
      BY <3>1, FS_Singleton
    <3>3. QED
      BY <2>1, <2>2, <3>2
  <2>3. CASE k # FirstTask
    <3>1. LiveThreads(k) = {}
      BY <1>1, <1>2, <2>3
    <3>2. Cardinality(LiveThreads(k)) = 0
      BY <3>1, FS_EmptySet
    <3>3. QED
      BY <2>1, <2>3, <3>2
  <2>4. QED
    BY <2>2, <2>3
<1> HIDE DEF first
<1>6. Placed /\ AtHome /\ LeavesActive
  BY <1>1, <1>2 DEF Placed, AtHome, LeavesActive
<1>7. Bounded
  BY <1>1, <1>2 DEF Bounded
<1>8. Starts /\ QueueSuspended /\ Stopping /\ SuspendedTasksRest /\ ExitIsSeen
  BY <1>2 DEF Starts, QueueSuspended, Stopping, SuspendedTasksRest, ExitIsSeen
<1>9. QED
  BY <1>3, <1>4, <1>5, <1>6, <1>7, <1>8 DEF IInv, ListInv, TaskInv

LEMMA NextIInv == IInv /\ [Next]_vars => IInv'
<1> SUFFICES ASSUME IInv, [Next]_vars PROVE IInv'
  OBVIOUS
<1>1. ASSUME NEW o \in Objects, MonitorEnter(o) \/ MonitorExit(o) \/ Wait(o) PROVE IInv'
  BY <1>1, QuietLockSteps
<1>2. CASE \/ \E o \in Objects, W \in SUBSET Threads : Notify(o, W)
           \/ \E t \in Threads : TimeOut(t)
  BY <1>2, QuietNotifySteps
<1>3. CASE \/ Sleep \/ BlockCurrentThread \/ Return
           \/ \E t \in Threads : UnblockThread(t) \/ Switch(t)
           \/ \E o \in Objects : StartIsolate(o)
  BY <1>3, QuietPlainSteps
<1>4. ASSUME NEW t \in Threads, StartThread(t) PROVE IInv'
  BY <1>4, StartThreadStep
<1>5. CASE Terminated \/ Uncaught
  BY <1>5, QuietUnwind
<1>6. CASE HandleUncaught
  BY <1>6, UncaughtStepKeeps
<1>7. CASE EndThread
  BY <1>7, EndThreadStep
<1>8. ASSUME NEW o \in Objects, NativeStart(o) PROVE IInv'
  BY <1>8, NativeStartStep
<1>9. ASSUME NEW o \in Objects, StopUnstarted(o) PROVE IInv'
  BY <1>9, StopUnstartedStep
<1>10. ASSUME NEW k \in Tasks, Suspend(k) \/ Resume(k) PROVE IInv'
  BY <1>10, SuspendAndResume
<1>11. ASSUME NEW k \in Tasks, Stop(k) PROVE IInv'
  BY <1>11, StopStepKeeps
<1>12. CASE UNCHANGED vars
  BY <1>12 DEF vars, tasks, lists, IInv, ListInv, TaskInv, ListsTyped, Placed, AtHome,
     LeavesActive, TasksTyped, Counted, Bounded, Starts, QueueSuspended,
     Stopping, SuspendedTasksRest, ExitIsSeen
<1>13. QED
  BY <1>1, <1>2, <1>3, <1>4, <1>5, <1>6, <1>7, <1>8, <1>9, <1>10, <1>11, <1>12
     DEF Next, ThreadStep, TaskStep

\* The inductive invariant: where the threads of a task are, in each status of
\* the task, after any sequence of operations on threads, locks and tasks.
THEOREM TasksInvariance == Spec => []IInv
BY InitIInv, NextIInv, PTL DEF Spec

\* The fields of tasks and the lists of threads keep their types; in
\* particular _thread_count never becomes negative.
THEOREM TasksTypeCorrect == Spec => []TypeOK
<1>1. IInv => TypeOK
  BY DEF IInv, ListInv, TaskInv, TypeOK
<1>2. QED
  BY <1>1, TasksInvariance, PTL

\* Every live thread is in exactly one list, those that queue for a lock queue
\* for the one they need, which is taken, and _thread_count, on which the end
\* of a task depends, is the number of its live threads.
THEOREM NoThreadIsLost == Spec => []ThreadsAccountedFor
<1>1. ASSUME IInv PROVE ThreadsAccountedFor
  <2> DEFINE queued == UNION {waiters[o] : o \in Objects}
             list == <<active, suspendQueue, asynchronous, waiting, queued>>
  <2>1. /\ list[1] = active /\ list[2] = suspendQueue /\ list[3] = asynchronous
        /\ list[4] = waiting /\ list[5] = queued
    OBVIOUS
  <2>2. /\ active \subseteq Threads /\ suspendQueue \subseteq Threads
        /\ asynchronous \subseteq Threads /\ waiting \subseteq Threads
        /\ \A o \in Objects : waiters[o] \subseteq Threads
    BY <1>1 DEF IInv, ListInv, ListsTyped
  <2>3. \A t : t \in queued <=> \E o \in Objects : t \in waiters[o]
    OBVIOUS
  <2>4. queued \subseteq Threads
    BY <2>2, <2>3
  <2> HIDE DEF queued, list
  <2>5. {t \in Threads : life[t] = "alive"} = UNION {list[i] : i \in 1..5}
    <3>1. \A t : t \in UNION {list[i] : i \in 1..5} <=>
             \/ t \in active \/ t \in suspendQueue \/ t \in asynchronous
             \/ t \in waiting \/ t \in queued
      <4>1. \A i : i \in 1..5 <=> i = 1 \/ i = 2 \/ i = 3 \/ i = 4 \/ i = 5
        OBVIOUS
      <4>2. QED
        BY <2>1, <4>1
    <3>2. \A t \in Threads : life[t] = "alive" <=>
             \/ t \in active \/ t \in suspendQueue \/ t \in asynchronous
             \/ t \in waiting \/ t \in queued
      BY <1>1, <2>3 DEF IInv, ListInv, Placed
    <3>3. QED
      BY <2>2, <2>4, <3>1, <3>2
  <2>6. ASSUME NEW i \in 1..5, NEW j \in 1..5, i # j PROVE list[i] \cap list[j] = {}
    <3>1. /\ \A t \in active : /\ t \notin suspendQueue /\ t \notin asynchronous
                               /\ t \notin waiting /\ t \notin queued
          /\ \A t \in suspendQueue : /\ t \notin asynchronous /\ t \notin waiting
                                     /\ t \notin queued
          /\ \A t \in asynchronous : t \notin waiting /\ t \notin queued
          /\ \A t \in waiting : t \notin queued
      BY <1>1, <2>3 DEF IInv, ListInv, Placed
    <3>2. /\ i = 1 \/ i = 2 \/ i = 3 \/ i = 4 \/ i = 5
          /\ j = 1 \/ j = 2 \/ j = 3 \/ j = 4 \/ j = 5
      OBVIOUS
    <3>3. \A t \in list[i] : t \notin list[j]
      BY <2>1, <2>6, <3>1, <3>2
    <3>4. QED
      BY <3>3
  <2>7. \A o \in Objects : \A t \in waiters[o] : waitObj[t] = o /\ owner[o] # NoThread
    BY <1>1 DEF IInv, ListInv, AtHome
  <2>8. \A k \in Tasks : threadCount[k] = Cardinality(LiveThreads(k))
    BY <1>1 DEF IInv, TaskInv, Counted
  <2>9. QED
    BY <2>5, <2>6, <2>7, <2>8 DEF ThreadsAccountedFor, queued, list
<1>2. IInv => ThreadsAccountedFor
  BY <1>1
<1>3. QED
  BY <1>2, TasksInvariance, PTL

\* Once the termination signal of a task has been posted, its threads are all
\* active, unless the task has been suspended again: stop found each of them
\* in whichever list it was.
THEOREM StoppedThreadsRun == Spec => []StoppingThreadsRun
<1>1. ASSUME IInv, NEW k \in Tasks, terminating[k], ~suspendBit[k],
             NEW t \in LiveThreads(k)
      PROVE  t \in active
  <2>1. t \in Threads /\ life[t] = "alive" /\ TaskOf[t] = k
    OBVIOUS
  <2>2. terminating[k] = TRUE /\ suspendBit[k] # TRUE
    BY <1>1
  <2>3. QED
    BY <1>1, <2>1, <2>2 DEF IInv, TaskInv, Stopping, QueueSuspended
<1>2. IInv => StoppingThreadsRun
  BY <1>1 DEF StoppingThreadsRun
<1>3. QED
  BY <1>2, TasksInvariance, PTL

\* No time-out, event, notify or hand-over of a lock makes a thread of a
\* suspended task active, although signal_waiters does not ask.
THEOREM SuspendedRest == Spec => []SuspendedTasksRest
<1>1. IInv => SuspendedTasksRest
  BY DEF IInv, TaskInv
<1>2. QED
  BY <1>1, TasksInvariance, PTL

\* Nobody waits for the exit of an isolate that has exited.
THEOREM ExitsAreSeen == Spec => []ExitIsSeen
<1>1. IInv => ExitIsSeen
  BY DEF IInv, TaskInv
<1>2. QED
  BY <1>1, TasksInvariance, PTL
=============================================================================
