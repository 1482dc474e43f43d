-------------------------- MODULE RunQueueProofs --------------------------
(***************************************************************************)
(* Proofs about the Run queues, for any set of threads and any number of   *)
(* priorities: the queues, the bit mask and the cache agree, and the       *)
(* search finds a thread, of the highest priority that has not used up its *)
(* quota.                                                                  *)
(***************************************************************************)
EXTENDS RunQueue, ListLemmas

\* The queues, the bits and the cache agree.  This is inductive as it stands.
QueueInv == TypeOK /\ InQueueOfItsPriority /\ BitsTellQueues /\ CacheIsRunnable

\* A thread is runnable when it is in the queue of its priority.
LEMMA ActiveMember ==
    ASSUME TypeOK, InQueueOfItsPriority, NEW t \in Threads
    PROVE  t \in Active <=> t \in ToSet(queue[priority[t]])
    BY DEF Active, InQueueOfItsPriority, TypeOK

\* The same after a step.
LEMMA ActiveMemberNext ==
    ASSUME TypeOK', InQueueOfItsPriority', NEW t \in Threads
    PROVE  t \in Active' <=> t \in ToSet(queue'[priority'[t]])
    BY DEF Active, InQueueOfItsPriority, TypeOK

\* Turning a list round changes neither its members nor that it is not empty.
LEMMA RotatedMembers ==
    ASSUME NEW s \in Seq(Threads), s # <<>>, IsInjective(s), NEW t
    PROVE  /\ Rotated(s, t) \in Seq(Threads)
           /\ Rotated(s, t) # <<>>
           /\ IsInjective(Rotated(s, t))
           /\ ToSet(Rotated(s, t)) = ToSet(s)
    <1>. DEFINE r == Tail(s)
                h == Head(s)
    <1>1. h \in Threads /\ r \in Seq(Threads)
        BY HeadMember
    <1>2. ToSet(s) = ToSet(r) \cup {h} /\ IsInjective(r) /\ h \notin ToSet(r)
        BY HeadMember
    <1>3. Rotated(s, t) = IF h = t THEN Append(r, h) ELSE s
        BY DEF Rotated
    <1>. HIDE DEF r, h
    <1>4. /\ Append(r, h) \in Seq(Threads)
          /\ Append(r, h) # <<>>
          /\ ToSet(Append(r, h)) = ToSet(r) \cup {h}
          /\ IsInjective(r) /\ h \notin ToSet(r) => IsInjective(Append(r, h))
        BY <1>1, AppendMember
    <1>. QED BY <1>2, <1>3, <1>4

-----------------------------------------------------------------------------
(* The search. *)

\* Every queue that has threads is searched.
LEMMA FilledQueues ==
    ASSUME QueueInv
    PROVE  Filled = {p \in Priorities : queue[p] # <<>>}
    <1>. USE QueueAssumption DEF QueueInv, BitsTellQueues, Priorities
    <1>1. StartPriority \in 0..MaxPriority
        BY DEF StartPriority, TypeOK
    <1>2. \A p \in Priorities : queue[p] # <<>> => p <= StartPriority
        <2>. SUFFICES ASSUME NEW p \in Priorities, queue[p] # <<>> PROVE p <= StartPriority
            OBVIOUS
        <2>1. p \in valid
            OBVIOUS
        <2>. QED BY <2>1 DEF StartPriority
    <1>. QED BY <1>1, <1>2 DEF Filled

\* What the queue that is chosen does: its new head is the next thread to run.
LEMMA RunFirstChooses ==
    ASSUME QueueInv, NEW p \in Filled, NEW counts, NEW starting, RunFirst(p, counts, starting)
    PROVE  /\ p \in Priorities
           /\ queue' \in [Priorities -> Seq(Threads)]
           /\ \A q \in Priorities : /\ ToSet(queue'[q]) = ToSet(queue[q])
                                    /\ IsInjective(queue'[q])
                                    /\ queue'[q] = <<>> <=> queue[q] = <<>>
           /\ next' \in Threads
           /\ next' \in ToSet(queue[p])
           /\ last' = p
           /\ count' = [counts EXCEPT ![p] = @ + 1]
    <1>1. p \in Priorities /\ queue[p] # <<>> /\ queue[p] \in Seq(Threads) /\ IsInjective(queue[p])
        BY FilledQueues DEF QueueInv, TypeOK, InQueueOfItsPriority
    <1>. DEFINE s == Rotated(queue[p], starting)
    <1>2. /\ s \in Seq(Threads)
          /\ s # <<>>
          /\ IsInjective(s)
          /\ ToSet(s) = ToSet(queue[p])
        BY <1>1, RotatedMembers
    <1>3. queue' = [queue EXCEPT ![p] = s]
        BY DEF RunFirst
    <1>. HIDE DEF s
    <1>4. queue'[p] = s /\ \A q \in Priorities : q # p => queue'[q] = queue[q]
        BY <1>1, <1>3 DEF QueueInv, TypeOK
    <1>5. queue' \in [Priorities -> Seq(Threads)]
        BY <1>1, <1>2, <1>3 DEF QueueInv, TypeOK
    <1>6. \A q \in Priorities : /\ ToSet(queue'[q]) = ToSet(queue[q])
                                /\ IsInjective(queue'[q])
                                /\ queue'[q] = <<>> <=> queue[q] = <<>>
        BY <1>1, <1>2, <1>4 DEF QueueInv, InQueueOfItsPriority
    <1>7. Head(s) \in Threads /\ Head(s) \in ToSet(s)
        BY <1>2, HeadMember
    <1>. QED BY <1>1, <1>2, <1>4, <1>5, <1>6, <1>7 DEF RunFirst

\* The search keeps the queues and the bits consistent, chooses a runnable thread of the highest
\* priority within its quota, and chooses none only when there is none.
LEMMA SearchChooses ==
    ASSUME QueueInv, NEW starting, Search(starting)
    PROVE  /\ queue' \in [Priorities -> Seq(Threads)]
           /\ \A q \in Priorities : /\ ToSet(queue'[q]) = ToSet(queue[q])
                                    /\ IsInjective(queue'[q])
                                    /\ queue'[q] = <<>> <=> queue[q] = <<>>
           /\ count' \in [Priorities -> Nat]
           /\ \A q \in Priorities : count'[q] <= Quota(q) + 1
           /\ last' \in 0..MaxPriority
           /\ \/ /\ next' \in Threads /\ next' \in ToSet(queue[priority[next']])
                 /\ \A q \in Priorities :
                       q > priority[next'] /\ queue[q] # <<>> => count'[q] > Quota(q)
              \/ next' = NoThread /\ \A q \in Priorities : queue[q] = <<>>
    <1>0. /\ \A q \in Priorities : Quota(q) \in Nat /\ q \in Nat /\ q \in 0..MaxPriority
          /\ count \in [Priorities -> Nat]
        BY QueueAssumption DEF Quota, Priorities, QueueInv, TypeOK
    <1>1. \A p \in Priorities : \A t \in ToSet(queue[p]) : priority[t] = p
        BY DEF QueueInv, InQueueOfItsPriority
    <1>2. CASE \E p \in Highest(WithinQuota) : RunFirst(p, count, starting)
        <2>1. PICK p \in Highest(WithinQuota) : RunFirst(p, count, starting)
            BY <1>2
        <2>2. p \in Filled /\ count[p] <= Quota(p) /\ \A q \in WithinQuota : q <= p
            BY DEF Highest, WithinQuota
        <2>3. /\ p \in Priorities
              /\ queue' \in [Priorities -> Seq(Threads)]
              /\ \A q \in Priorities : /\ ToSet(queue'[q]) = ToSet(queue[q])
                                       /\ IsInjective(queue'[q])
                                       /\ queue'[q] = <<>> <=> queue[q] = <<>>
              /\ next' \in Threads
              /\ next' \in ToSet(queue[p])
              /\ last' = p
              /\ count' = [count EXCEPT ![p] = @ + 1]
            BY <2>1, <2>2, RunFirstChooses
        <2>4. priority[next'] = p
            BY <1>1, <2>3
        <2>5. /\ count'[p] = count[p] + 1
              /\ \A q \in Priorities : q # p => count'[q] = count[q]
              /\ count' \in [Priorities -> Nat]
            BY <1>0, <2>3
        <2>6. \A q \in Priorities : q > p /\ queue[q] # <<>> => count'[q] > Quota(q)
            <3>. SUFFICES ASSUME NEW q \in Priorities, q > p, queue[q] # <<>>
                          PROVE  count'[q] > Quota(q)
                OBVIOUS
            <3>1. q \in Filled
                BY FilledQueues
            <3>2. q \notin WithinQuota
                BY <1>0, <2>2, <2>3
            <3>3. ~(count[q] <= Quota(q))
                BY <3>1, <3>2 DEF WithinQuota
            <3>. QED BY <1>0, <2>3, <2>5, <3>3
        <2>7. \A q \in Priorities : count'[q] <= Quota(q) + 1
            <3>. SUFFICES ASSUME NEW q \in Priorities PROVE count'[q] <= Quota(q) + 1
                OBVIOUS
            <3>1. count[q] <= Quota(q) + 1
                BY DEF QueueInv, TypeOK
            <3>2. count[q] \in Nat /\ Quota(q) \in Nat
                BY <1>0
            <3>3. count'[q] = IF q = p THEN count[q] + 1 ELSE count[q]
                BY <2>5
            <3>. QED BY <2>2, <3>1, <3>2, <3>3
        <2>. QED BY <1>0, <2>3, <2>4, <2>5, <2>6, <2>7
    <1>3. CASE WithinQuota = {} /\ Filled # {} /\ SecondRound(starting)
        <2>1. PICK p \in Highest(Filled) : RunFirst(p, [q \in Priorities |-> 0], starting)
            BY <1>3 DEF SecondRound
        <2>2. p \in Filled /\ \A q \in Filled : q <= p
            BY DEF Highest
        <2>3. /\ p \in Priorities
              /\ queue' \in [Priorities -> Seq(Threads)]
              /\ \A q \in Priorities : /\ ToSet(queue'[q]) = ToSet(queue[q])
                                       /\ IsInjective(queue'[q])
                                       /\ queue'[q] = <<>> <=> queue[q] = <<>>
              /\ next' \in Threads
              /\ next' \in ToSet(queue[p])
              /\ last' = p
              /\ count' = [[q \in Priorities |-> 0] EXCEPT ![p] = @ + 1]
            BY <2>1, <2>2, RunFirstChooses
        <2>4. priority[next'] = p
            BY <1>1, <2>3
        <2>5. /\ \A q \in Priorities : count'[q] = IF q = p THEN 1 ELSE 0
              /\ count' \in [Priorities -> Nat]
            BY <2>3
        <2>6. \A q \in Priorities : ~(q > p /\ queue[q] # <<>>)
            BY <1>0, <2>2, <2>3, FilledQueues
        <2>7. \A q \in Priorities : count'[q] <= Quota(q) + 1
            BY <1>0, <2>5
        <2>. QED BY <1>0, <2>3, <2>4, <2>5, <2>6, <2>7
    <1>4. CASE Filled = {} /\ next' = NoThread /\ UNCHANGED <<queue, turns>>
        <2>1. \A q \in Priorities : queue[q] = <<>>
            BY <1>4, FilledQueues
        <2>2. queue' = queue /\ count' = count /\ last' = last
            BY <1>4 DEF turns
        <2>. QED BY <1>4, <2>1, <2>2 DEF QueueInv, TypeOK, InQueueOfItsPriority
    <1>. QED BY <1>2, <1>3, <1>4 DEF Search

-----------------------------------------------------------------------------
(* The steps. *)

\* The queue a runnable thread is unlinked from.
LEMMA UnlinkedQueue ==
    ASSUME QueueInv, NEW t \in Threads, t \in Active
    PROVE  /\ priority[t] \in Priorities
           /\ Unlink(queue[priority[t]], t) \in Seq(Threads)
           /\ IsInjective(Unlink(queue[priority[t]], t))
           /\ ToSet(Unlink(queue[priority[t]], t)) = ToSet(queue[priority[t]]) \ {t}
    <1>1. /\ priority[t] \in Priorities
          /\ queue[priority[t]] \in Seq(Threads)
          /\ IsInjective(queue[priority[t]])
          /\ t \in ToSet(queue[priority[t]])
        BY ActiveMember DEF QueueInv, TypeOK, InQueueOfItsPriority
    <1>. QED BY <1>1, UnlinkOne

\* add_to_active keeps the invariant.
LEMMA ActivateKeeps ==
    ASSUME QueueInv, NEW t \in Threads, Activate(t)
    PROVE  QueueInv'
    <1>. DEFINE p == priority[t]
                s == Append(queue[p], t)
    <1>1. p \in Priorities /\ queue[p] \in Seq(Threads) /\ IsInjective(queue[p])
        BY DEF QueueInv, TypeOK, InQueueOfItsPriority
    <1>2. t \notin ToSet(queue[p])
        BY ActiveMember DEF QueueInv, Activate
    <1>3. s \in Seq(Threads) /\ s # <<>> /\ ToSet(s) = ToSet(queue[p]) \cup {t} /\ IsInjective(s)
        BY <1>1, <1>2, AppendMember
    <1>4. queue' = [queue EXCEPT ![p] = s] /\ valid' = valid \cup {p}
        BY DEF Activate
    <1>5. priority' = priority /\ phase' = phase /\ current' = current /\ next' = next
          /\ count' = count /\ last' = last
        BY DEF Activate, turns
    <1>6. priority[t] = p
        OBVIOUS
    <1>. HIDE DEF p, s
    <1>7. queue'[p] = s /\ \A q \in Priorities : q # p => queue'[q] = queue[q]
        BY <1>1, <1>4 DEF QueueInv, TypeOK
    <1>8. TypeOK'
        BY <1>1, <1>3, <1>4, <1>5 DEF QueueInv, TypeOK, Quota
    <1>9. InQueueOfItsPriority'
        BY <1>3, <1>5, <1>6, <1>7 DEF QueueInv, InQueueOfItsPriority
    <1>10. BitsTellQueues'
        BY <1>1, <1>3, <1>4, <1>7 DEF QueueInv, BitsTellQueues
    <1>11. \A u \in Active : u \in Active'
        BY <1>1, <1>3, <1>7 DEF Active
    <1>12. CacheIsRunnable'
        BY <1>5, <1>11 DEF QueueInv, CacheIsRunnable
    <1>. QED BY <1>8, <1>9, <1>10, <1>12 DEF QueueInv

\* remove_from_active keeps the invariant.
LEMMA LeaveActiveKeeps ==
    ASSUME QueueInv, LeaveActive
    PROVE  QueueInv'
    <1>. DEFINE p == priority[current]
                s == Unlink(queue[p], current)
    <1>1. current \in Threads /\ current \in Active /\ phase = "java"
        BY DEF LeaveActive, QueueInv, TypeOK, CacheIsRunnable
    <1>2. next \in {current, NoThread}
        BY <1>1 DEF QueueInv, CacheIsRunnable
    <1>3. p \in Priorities /\ s \in Seq(Threads) /\ IsInjective(s) /\ ToSet(s) = ToSet(queue[p]) \ {current}
        BY <1>1, UnlinkedQueue
    <1>4. queue' = [queue EXCEPT ![p] = s] /\ valid' = WithoutBit(p, s) /\ next' = CacheWithout(current, s)
        BY DEF LeaveActive
    <1>5. priority' = priority /\ phase' = "yield" /\ current' = current /\ count' = count /\ last' = last
        BY DEF LeaveActive, turns
    <1>6. queue[p] # <<>>
        <2>1. current \in ToSet(queue[p])
            BY <1>1, ActiveMember DEF QueueInv
        <2>. QED BY <2>1, EmptyList
    <1>. HIDE DEF p, s
    <1>7. queue'[p] = s /\ \A q \in Priorities : q # p => queue'[q] = queue[q]
        BY <1>3, <1>4 DEF QueueInv, TypeOK
    <1>8. next' \in ToSet(s) \cup {NoThread}
        <2>1. s # <<>> => Head(s) \in ToSet(s)
            BY <1>3, HeadMember
        <2>. QED BY <1>2, <1>4, <2>1 DEF CacheWithout, First
    <1>9. TypeOK'
        <2>1. valid' \in SUBSET Priorities
            BY <1>4 DEF WithoutBit, QueueInv, TypeOK
        <2>2. next' \in Threads \cup {NoThread}
            BY <1>3, <1>8, MembersType
        <2>. QED BY <1>3, <1>4, <1>5, <2>1, <2>2 DEF QueueInv, TypeOK, Quota
    <1>10. InQueueOfItsPriority'
        BY <1>3, <1>5, <1>7 DEF QueueInv, InQueueOfItsPriority
    <1>11. BitsTellQueues'
        BY <1>3, <1>4, <1>6, <1>7 DEF WithoutBit, QueueInv, BitsTellQueues
    <1>12. \A u \in ToSet(s) : u \in Active'
        BY <1>3, <1>7 DEF Active
    <1>13. CacheIsRunnable'
        BY <1>5, <1>8, <1>12 DEF CacheIsRunnable
    <1>. QED BY <1>9, <1>10, <1>11, <1>13 DEF QueueInv

\* setPriority keeps the invariant, whether the thread is runnable or not, and current or not.
LEMMA SetPriorityKeeps ==
    ASSUME QueueInv, NEW t \in Threads, NEW new \in Priorities, SetPriority(t, new)
    PROVE  QueueInv'
    <1>1. priority' = [priority EXCEPT ![t] = new]
        BY DEF SetPriority
    <1>2. phase' = phase /\ current' = current /\ next' = next /\ count' = count /\ last' = last
        BY DEF SetPriority, turns
    <1>3. priority' \in [Threads -> Priorities] /\ priority'[t] = new
          /\ \A u \in Threads : u # t => priority'[u] = priority[u]
        BY <1>1 DEF QueueInv, TypeOK
    <1>4. CASE t \notin ToSet(queue[priority[t]])
        <2>1. queue' = queue /\ valid' = valid
            BY <1>4 DEF SetPriority, queues
        <2>2. \A p \in Priorities : \A u \in ToSet(queue[p]) : u \in Threads /\ u # t
            BY <1>4, MembersType DEF QueueInv, TypeOK, InQueueOfItsPriority
        <2>3. TypeOK'
            BY <1>2, <1>3, <2>1 DEF QueueInv, TypeOK, Quota
        <2>4. InQueueOfItsPriority'
            BY <1>3, <2>1, <2>2 DEF QueueInv, InQueueOfItsPriority
        <2>5. BitsTellQueues' /\ CacheIsRunnable'
            BY <1>2, <2>1 DEF QueueInv, BitsTellQueues, CacheIsRunnable, Active
        <2>. QED BY <2>3, <2>4, <2>5 DEF QueueInv
    <1>5. CASE t \in ToSet(queue[priority[t]])
        <2>. DEFINE old == priority[t]
                    s == Unlink(queue[old], t)
                    rest == [queue EXCEPT ![old] = s]
                    n == Append(rest[new], t)
        <2>1. old \in Priorities /\ s \in Seq(Threads) /\ IsInjective(s) /\ ToSet(s) = ToSet(queue[old]) \ {t}
            BY <1>5, ActiveMember, UnlinkedQueue DEF QueueInv
        <2>2. queue' = [rest EXCEPT ![new] = n] /\ valid' = WithoutBit(old, s) \cup {new}
            BY <1>5 DEF SetPriority, Requeued
        <2>3. \A p \in Priorities : /\ queue[p] \in Seq(Threads)
                                    /\ IsInjective(queue[p])
                                    /\ \A u \in ToSet(queue[p]) : u \in Threads /\ priority[u] = p
            BY MembersType DEF QueueInv, TypeOK, InQueueOfItsPriority
        <2>old. queue[old] # <<>>
            BY <1>5, EmptyList
        <2>is. priority[t] = old
            OBVIOUS
        <2>. HIDE DEF old, s
        <2>4. rest \in [Priorities -> Seq(Threads)]
              /\ \A p \in Priorities : rest[p] = IF p = old THEN s ELSE queue[p]
            BY <2>1 DEF QueueInv, TypeOK
        <2>. HIDE DEF rest
        <2>5. rest[new] \in Seq(Threads) /\ IsInjective(rest[new]) /\ t \notin ToSet(rest[new])
            BY <2>1, <2>3, <2>4, <2>is
        <2>6. n \in Seq(Threads) /\ n # <<>> /\ ToSet(n) = ToSet(rest[new]) \cup {t} /\ IsInjective(n)
            BY <2>5, AppendMember
        <2>. HIDE DEF n
        <2>7. /\ queue' \in [Priorities -> Seq(Threads)]
              /\ \A p \in Priorities : queue'[p] = IF p = new THEN n ELSE rest[p]
            BY <2>2, <2>4, <2>6
        <2>8. valid' \in SUBSET Priorities
            BY <2>2 DEF WithoutBit, QueueInv, TypeOK
        <2>9. TypeOK'
            BY <1>2, <1>3, <2>7, <2>8 DEF QueueInv, TypeOK, Quota
        <2>10. \A p \in Priorities : \A u \in ToSet(rest[p]) : u \in ToSet(queue[p]) /\ u # t
            BY <2>1, <2>3, <2>4, <2>is
        <2>11. \A p \in Priorities : \A u \in ToSet(queue[p]) : u # t => u \in ToSet(rest[p])
            BY <2>1, <2>4
        <2>12. InQueueOfItsPriority'
            <3>1. \A p \in Priorities : IsInjective(queue'[p])
                BY <2>1, <2>3, <2>4, <2>6, <2>7
            <3>2. \A p \in Priorities : \A u \in ToSet(queue'[p]) : priority'[u] = p
                <4>. SUFFICES ASSUME NEW p \in Priorities, NEW u \in ToSet(queue'[p])
                              PROVE  priority'[u] = p
                    OBVIOUS
                <4>1. (u = t /\ p = new) \/ u \in ToSet(rest[p])
                    BY <2>6, <2>7
                <4>2. u \in ToSet(rest[p]) => u \in Threads /\ priority[u] = p /\ u # t
                    BY <2>3, <2>10
                <4>. QED BY <1>3, <4>1, <4>2
            <3>. QED BY <3>1, <3>2 DEF InQueueOfItsPriority
        <2>13. BitsTellQueues'
            <3>1. \A p \in Priorities : p \in valid <=> queue[p] # <<>>
                BY DEF QueueInv, BitsTellQueues
            <3>2. \A p \in Priorities :
                     p \in valid' <=> p = new \/ (queue[p] # <<>> /\ (p = old => s # <<>>))
                BY <2>2, <3>1 DEF WithoutBit
            <3>3. \A p \in Priorities : p \in valid' <=> queue'[p] # <<>>
                BY <2>4, <2>6, <2>7, <2>old, <3>2
            <3>. QED BY <2>8, <3>3 DEF BitsTellQueues
        <2>14. \A u \in Active : u \in Active'
            <3>1. SUFFICES ASSUME NEW p \in Priorities, NEW u \in ToSet(queue[p])
                           PROVE  \E q \in Priorities : u \in ToSet(queue'[q])
                BY DEF Active
            <3>2. t \in ToSet(queue'[new])
                BY <2>6, <2>7
            <3>3. u # t => u \in ToSet(queue'[p])
                BY <2>6, <2>7, <2>11
            <3>. QED BY <3>2, <3>3
        <2>15. CacheIsRunnable'
            BY <1>2, <2>14 DEF QueueInv, CacheIsRunnable
        <2>. QED BY <2>9, <2>12, <2>13, <2>15 DEF QueueInv
    <1>. QED BY <1>4, <1>5

\* A step that searches the queues keeps the invariant, if it makes the thread found the
\* current one before Java code runs.
LEMMA SearchKeeps ==
    ASSUME QueueInv, NEW starting, Search(starting),
           \/ phase' = "java" /\ current' = next' /\ next' # NoThread
           \/ phase' = "idle" /\ current' = current
    PROVE  QueueInv'
    <1>1. valid' = valid /\ priority' = priority
        BY DEF Search
    <1>2. /\ queue' \in [Priorities -> Seq(Threads)]
          /\ \A q \in Priorities : /\ ToSet(queue'[q]) = ToSet(queue[q])
                                   /\ IsInjective(queue'[q])
                                   /\ queue'[q] = <<>> <=> queue[q] = <<>>
          /\ count' \in [Priorities -> Nat]
          /\ \A q \in Priorities : count'[q] <= Quota(q) + 1
          /\ last' \in 0..MaxPriority
          /\ \/ next' \in Threads /\ next' \in ToSet(queue[priority[next']])
             \/ next' = NoThread
        BY SearchChooses
    <1>3. TypeOK'
        BY <1>1, <1>2 DEF QueueInv, TypeOK, Quota
    <1>members. \A q \in Priorities : ToSet(queue'[q]) = ToSet(queue[q]) /\ IsInjective(queue'[q])
        BY <1>2
    <1>empty. \A q \in Priorities : queue'[q] = <<>> <=> queue[q] = <<>>
        BY <1>2
    <1>4. InQueueOfItsPriority'
        BY <1>1, <1>members DEF QueueInv, InQueueOfItsPriority
    <1>5. BitsTellQueues'
        BY <1>1, <1>empty DEF QueueInv, BitsTellQueues
    <1>6. next' # NoThread => next' \in Active'
        <2>. SUFFICES ASSUME next' # NoThread PROVE next' \in Active'
            OBVIOUS
        <2>1. next' \in Threads /\ next' \in ToSet(queue[priority[next']])
            BY <1>2
        <2>2. priority[next'] \in Priorities
            BY <2>1 DEF QueueInv, TypeOK
        <2>3. next' \in ToSet(queue'[priority[next']])
            BY <1>members, <2>1, <2>2
        <2>. QED BY <2>2, <2>3 DEF Active
    <1>7. CacheIsRunnable'
        BY <1>6 DEF CacheIsRunnable
    <1>. QED BY <1>3, <1>4, <1>5, <1>7 DEF QueueInv

\* As long as a thread is runnable, a search finds one.
LEMMA SearchFinds ==
    ASSUME QueueInv, NEW starting, Search(starting), Active # {}
    PROVE  next' # NoThread
    <1>1. \E p \in Priorities : queue[p] # <<>>
        BY EmptyList DEF Active
    <1>. QED BY <1>1, SearchChooses, QueueAssumption

\* Every step keeps the invariant.
LEMMA StepKeeps ==
    ASSUME QueueInv, [Next]_vars
    PROVE  QueueInv'
    <1>1. CASE \E t \in Threads : Activate(t)
        BY <1>1, ActivateKeeps
    <1>2. CASE \E t \in Threads, p \in Priorities : SetPriority(t, p)
        BY <1>2, SetPriorityKeeps
    <1>3. CASE LeaveActive
        BY <1>3, LeaveActiveKeeps
    <1>4. CASE Tick
        BY <1>4 DEF Tick, queues, turns, QueueInv, TypeOK, Quota, InQueueOfItsPriority, BitsTellQueues,
                    CacheIsRunnable, Active
    <1>5. CASE YieldSearch
        BY <1>5, SearchKeeps DEF YieldSearch
    <1>6. CASE Resume
        BY <1>6, SearchKeeps, SearchFinds DEF Resume
    <1>7. CASE FillCache
        <2>1. Active # {}
            BY <1>7 DEF FillCache, QueueInv, CacheIsRunnable
        <2>. QED BY <1>7, <2>1, SearchKeeps, SearchFinds DEF FillCache
    <1>8. CASE UNCHANGED vars
        BY <1>8 DEF vars, queues, turns, QueueInv, TypeOK, Quota, InQueueOfItsPriority, BitsTellQueues,
                    CacheIsRunnable, Active
    <1>. QED BY <1>1, <1>2, <1>3, <1>4, <1>5, <1>6, <1>7, <1>8 DEF Next

\* The invariant holds when the main thread has started.
LEMMA InitKeeps == Init => QueueInv
    <1>. SUFFICES ASSUME Init PROVE QueueInv
        OBVIOUS
    <1>. USE QueueAssumption DEF Init
    <1>1. <<current>> \in Seq(Threads) /\ ToSet(<<current>>) = {current} /\ IsInjective(<<current>>)
        BY OneMember
    <1>2. NormalPriority \in Priorities
        BY DEF Priorities
    <1>3. \A p \in Priorities : queue[p] = IF p = NormalPriority THEN <<current>> ELSE <<>>
        OBVIOUS
    <1>4. TypeOK
        <2>1. \A p \in Priorities : Quota(p) \in Nat
            BY DEF Quota, Priorities
        <2>. QED BY <1>1, <1>2, <2>1 DEF TypeOK
    <1>5. InQueueOfItsPriority
        BY <1>1, <1>3, EmptyList DEF InQueueOfItsPriority
    <1>6. BitsTellQueues
        BY <1>2, <1>3 DEF BitsTellQueues
    <1>7. CacheIsRunnable
        BY <1>1, <1>2, <1>3 DEF CacheIsRunnable, Active
    <1>. QED BY <1>4, <1>5, <1>6, <1>7 DEF QueueInv

-----------------------------------------------------------------------------
(* The theorems. *)

\* The inductive invariant (adjust_priority_list, set_priority, get_next_runnable_thread).
THEOREM QueueInvariance == Spec => []QueueInv
    <1>1. QueueInv /\ [Next]_vars => QueueInv'
        BY StepKeeps
    <1>. QED BY <1>1, InitKeeps, PTL DEF Spec

\* The counts stay within the quota of their queue and one more turn, and the queues hold each thread once.
THEOREM QueueTypeCorrect == Spec => []TypeOK
    <1>1. QueueInv => TypeOK
        BY DEF QueueInv
    <1>. QED BY <1>1, QueueInvariance, PTL

\* remove_from_active always finds the thread in the queue of its priority ("must be in list").
THEOREM QueuedByPriority == Spec => []InQueueOfItsPriority
    <1>1. QueueInv => InQueueOfItsPriority
        BY DEF QueueInv
    <1>. QED BY <1>1, QueueInvariance, PTL

\* The bit mask agrees with the queues (the GUARANTEEs of get_next_runnable_thread).
THEOREM BitsAgree == Spec => []BitsTellQueues
    <1>1. QueueInv => BitsTellQueues
        BY DEF QueueInv
    <1>. QED BY <1>1, QueueInvariance, PTL

\* The cached next thread is runnable, and is the current thread while Java code runs.
THEOREM CacheAgrees == Spec => []CacheIsRunnable
    <1>1. QueueInv => CacheIsRunnable
        BY DEF QueueInv
    <1>. QED BY <1>1, QueueInvariance, PTL

\* yield waits only when no thread can run ("No active threads").
THEOREM SearchIsComplete == Spec => FindsThread
    <1>1. ASSUME QueueInv, [Next]_vars, phase # "idle", phase' = "idle"
          PROVE  Active = {}
        <2>1. YieldSearch
            BY <1>1 DEF Next, Activate, SetPriority, LeaveActive, Tick, Resume, FillCache, vars
        <2>. QED BY <1>1, <2>1, SearchFinds DEF YieldSearch
    <1>2. QueueInv /\ [Next]_vars => [phase # "idle" /\ phase' = "idle" => Active = {}]_vars
        BY <1>1
    <1>. QED BY <1>2, QueueInvariance, PTL DEF Spec, FindsThread

\* A thread runs before one of higher priority only when the quota of that one's queue is used up.
THEOREM PriorityOrder == Spec => HigherPriorityFirst
    <1>1. ASSUME QueueInv, [Next]_vars, phase # "java", phase' = "java",
                 NEW p \in Priorities, p > priority[current'], queue[p] # <<>>
          PROVE  count'[p] > Quota(p)
        <2>1. YieldSearch \/ Resume
            BY <1>1 DEF Next, Activate, SetPriority, LeaveActive, Tick, FillCache, vars
        <2>2. PICK starting : Search(starting) /\ current' = next'
            BY <1>1, <2>1 DEF YieldSearch, Resume
        <2>. QED BY <1>1, <2>2, SearchChooses
    <1>2. QueueInv /\ [Next]_vars =>
             [phase # "java" /\ phase' = "java" =>
                 \A p \in Priorities :
                    p > priority[current'] /\ queue[p] # <<>> => count'[p] > Quota(p)]_vars
        BY <1>1
    <1>. QED BY <1>2, QueueInvariance, PTL DEF Spec, HigherPriorityFirst
=============================================================================
