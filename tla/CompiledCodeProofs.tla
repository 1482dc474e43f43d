------------------------- MODULE CompiledCodeProofs -------------------------
(***************************************************************************)
(* What CompiledCode keeps true for any methods, classes and threads.      *)
(* Each direct call of linked code, or of a suspended compilation, is      *)
(* recorded with the method it calls, so that overriding that method finds *)
(* the caller.                                                             *)
(***************************************************************************)
EXTENDS CompiledCode, FiniteSetTheorems, TLAPS

USE CompiledCodeAssumption DEF HasCode

Entries == [Methods -> Codes \cup {"interpreter", "compiler", "fixed"}]

\* Linked code is code of its method, and its direct calls are recorded.
LinkedIn(its, entries) ==
    \A m \in Methods : entries[m] \in Codes => its[entries[m]].method = m

RecordedIn(its, entries, callers) ==
    \A m \in Methods : entries[m] \in Codes =>
        \A v \in its[entries[m]].direct : m \in callers[v]

RunningIn(its, frs) ==
    \A t \in Threads : \A i \in DOMAIN frs[t] : frs[t][i].code # NoCode =>
        its[frs[t][i].code].method = frs[t][i].method

\* A compilation is of a method without code, with its direct calls recorded,
\* and has an index left.
JobInv(job, its, entries, callers) ==
    job # NoCompilation =>
        /\ job.method \in Methods
        /\ entries[job.method] \notin Codes
        /\ \A v \in job.direct : job.method \in callers[v]
        /\ Cached(its) # Codes

Inv ==
    /\ TypeOK
    /\ LinkedIn(item, entry)
    /\ RecordedIn(item, entry, directCallers)
    /\ RunningIn(item, frames)
    /\ JobInv(compiling, item, entry, directCallers)
    /\ OverriddenHasNoDirectCallers

-----------------------------------------------------------------------------

\* Frames after a call, a return, or a change of the code in the i-th frame.
LEMMA SetFrameCode ==
    ASSUME frames \in [Threads -> Seq(Frames)], NEW t \in Threads,
           frames[t] # <<>>, NEW c \in Codes \cup {NoCode}, NEW its,
           RunningIn(its, frames),
           c # NoCode => its[c].method = Top(t).method
    PROVE  /\ RunInTop(t, c) \in [Threads -> Seq(Frames)]
           /\ RunningIn(its, RunInTop(t, c))
<1> DEFINE n == Len(frames[t])
           g == [frames[t] EXCEPT ![n].code = c]
<1>1. frames[t] \in Seq(Frames) /\ n \in DOMAIN frames[t] /\ n \in Nat
  OBVIOUS
<1>2. frames[t][n] \in Frames /\ Top(t) = frames[t][n]
  BY <1>1 DEF Top
<1>3. [frames[t][n] EXCEPT !.code = c] \in Frames
  BY <1>2 DEF Frames
<1>4. g \in Seq(Frames) /\ DOMAIN g = DOMAIN frames[t]
  BY <1>1, <1>3
<1>5. RunInTop(t, c) = [frames EXCEPT ![t] = g]
  BY DEF RunInTop
<1>6. RunInTop(t, c) \in [Threads -> Seq(Frames)]
  BY <1>4, <1>5
<1>7. ASSUME NEW u \in Threads, NEW i \in DOMAIN RunInTop(t, c)[u],
             RunInTop(t, c)[u][i].code # NoCode
      PROVE  its[RunInTop(t, c)[u][i].code].method = RunInTop(t, c)[u][i].method
  <2>1. CASE u = t /\ i = n
    <3>1. RunInTop(t, c)[u][i] = [frames[t][n] EXCEPT !.code = c]
      BY <1>1, <1>4, <1>5, <2>1
    <3>2. RunInTop(t, c)[u][i].code = c /\ RunInTop(t, c)[u][i].method = Top(t).method
      BY <3>1, <1>2 DEF Frames
    <3> QED BY <3>2, <1>7
  <2>2. CASE ~(u = t /\ i = n)
    <3>1. RunInTop(t, c)[u][i] = frames[u][i] /\ i \in DOMAIN frames[u]
      BY <1>1, <1>4, <1>5, <2>2, <1>7
    <3> QED BY <3>1, <1>7 DEF RunningIn
  <2> QED BY <2>1, <2>2
<1> QED BY <1>6, <1>7 DEF RunningIn

LEMMA AppendFrame ==
    ASSUME frames \in [Threads -> Seq(Frames)], NEW t \in Threads,
           NEW f \in Frames, NEW s \in Seq(Frames), NEW its,
           NEW its2,
           RunningIn(its, frames),
           \A i \in DOMAIN s : i \in DOMAIN frames[t] /\ s[i] = frames[t][i],
           f.code # NoCode => its[f.code].method = f.method
    PROVE  /\ [frames EXCEPT ![t] = Append(s, f)] \in [Threads -> Seq(Frames)]
           /\ RunningIn(its, [frames EXCEPT ![t] = Append(s, f)])
<1> DEFINE g == Append(s, f)
           h == [frames EXCEPT ![t] = g]
<1>1. /\ g \in Seq(Frames) /\ DOMAIN g = 1..Len(s) + 1 /\ DOMAIN s = 1..Len(s)
      /\ g[Len(s) + 1] = f /\ \A i \in DOMAIN s : g[i] = s[i]
  OBVIOUS
<1>2. ASSUME NEW u \in Threads, NEW i \in DOMAIN h[u], h[u][i].code # NoCode
      PROVE  its[h[u][i].code].method = h[u][i].method
  <2>1. CASE u = t /\ i \notin DOMAIN s
    <3>1. h[u][i] = f
      BY <1>1, <2>1
    <3> QED BY <3>1, <1>2
  <2>2. CASE ~(u = t /\ i \notin DOMAIN s)
    <3>1. i \in DOMAIN frames[u] /\ h[u][i] = frames[u][i]
      BY <1>1, <2>2, <1>2
    <3> QED BY <3>1, <1>2 DEF RunningIn
  <2> QED BY <2>1, <2>2
<1> QED BY <1>1, <1>2 DEF RunningIn

LEMMA EnterKeepsFrames ==
    ASSUME Inv, NEW t \in Threads, NEW m \in Methods, Enter(t, m)
    PROVE  frames' \in [Threads -> Seq(Frames)] /\ RunningIn(item, frames')
<1> DEFINE f == [method |-> m,
                 code |-> IF entry[m] \in Codes THEN entry[m] ELSE NoCode]
<1>1. f \in Frames /\ (f.code # NoCode => item[f.code].method = f.method)
  BY DEF Inv, LinkedIn, Frames
<1>2. frames' = [frames EXCEPT ![t] = Append(frames[t], f)]
  BY DEF Enter
<1>3. frames[t] \in Seq(Frames) /\ frames \in [Threads -> Seq(Frames)]
  BY DEF Inv, TypeOK
<1> QED BY <1>1, <1>2, <1>3, AppendFrame DEF Inv

LEMMA ReturnKeepsFrames ==
    ASSUME Inv, NEW t \in Threads, Return(t)
    PROVE  frames' \in [Threads -> Seq(Frames)] /\ RunningIn(item, frames')
<1> DEFINE s == SubSeq(frames[t], 1, Len(frames[t]) - 1)
<1>1. /\ frames[t] \in Seq(Frames) /\ frames \in [Threads -> Seq(Frames)]
      /\ frames[t] # <<>>
  BY DEF Inv, TypeOK, Return
<1>2. /\ s \in Seq(Frames)
      /\ \A i \in DOMAIN s : i \in DOMAIN frames[t] /\ s[i] = frames[t][i]
  BY <1>1
<1>3. frames' = [frames EXCEPT ![t] = s]
  BY DEF Return
<1>4. \A u \in Threads : \A i \in DOMAIN frames'[u] :
         i \in DOMAIN frames[u] /\ frames'[u][i] = frames[u][i]
  BY <1>1, <1>2, <1>3
<1> QED BY <1>1, <1>2, <1>3, <1>4 DEF Inv, RunningIn

LEMMA ThrowKeepsFrames ==
    ASSUME Inv, NEW t \in Threads, NEW i \in 1..MaxFrames,
           NEW c \in Codes \cup {NoCode}, Throw(t, i, c)
    PROVE  frames' \in [Threads -> Seq(Frames)] /\ RunningIn(item, frames')
<1> DEFINE s == SubSeq(frames[t], 1, i - 1)
           f == [frames[t][i] EXCEPT !.code = c]
<1>1. /\ frames[t] \in Seq(Frames) /\ frames \in [Threads -> Seq(Frames)]
      /\ i \in DOMAIN frames[t]
  BY DEF Inv, TypeOK, Throw
<1>2. frames[t][i] \in Frames
  BY <1>1
<1>3. f \in Frames /\ f.code = c /\ f.method = frames[t][i].method
  BY <1>2 DEF Frames
<1>4. c # NoCode => item[c].method = f.method
  BY <1>2, <1>3 DEF Throw, Inv, LinkedIn, Frames
<1>5. /\ s \in Seq(Frames)
      /\ \A j \in DOMAIN s : j \in DOMAIN frames[t] /\ s[j] = frames[t][j]
  BY <1>1
<1>6. frames' = [frames EXCEPT ![t] = Append(s, f)]
  BY DEF Throw
<1> QED BY <1>1, <1>3, <1>4, <1>5, <1>6, AppendFrame DEF Inv

LEMMA DeoptimizingKeepsFrames ==
    ASSUME Inv, NEW L \in SUBSET Methods
    PROVE  /\ DeoptimizedFrames(L) \in [Threads -> Seq(Frames)]
           /\ RunningIn(item, DeoptimizedFrames(L))
<1> DEFINE h == DeoptimizedFrames(L)
<1>1. frames \in [Threads -> Seq(Frames)]
  BY DEF Inv, TypeOK
<1>2. ASSUME NEW t \in Threads
      PROVE  /\ h[t] \in Seq(Frames) /\ DOMAIN h[t] = DOMAIN frames[t]
             /\ \A i \in DOMAIN h[t] :
                   h[t][i] = frames[t][i] \/ h[t][i].code = NoCode
  <2>1. frames[t] \in Seq(Frames) /\ \A i \in DOMAIN frames[t] : frames[t][i] \in Frames
    BY <1>1
  <2>2. \A i \in DOMAIN frames[t] :
           /\ [frames[t][i] EXCEPT !.code = NoCode] \in Frames
           /\ [frames[t][i] EXCEPT !.code = NoCode].code = NoCode
    BY <2>1 DEF Frames
  <2>3. h[t] = [i \in DOMAIN frames[t] |->
                  IF frames[t][i].code \in {entry[m] : m \in L}
                  THEN [frames[t][i] EXCEPT !.code = NoCode] ELSE frames[t][i]]
    BY DEF DeoptimizedFrames
  <2>4. \A i \in DOMAIN frames[t] : /\ h[t][i] \in Frames
                                    /\ h[t][i] = frames[t][i] \/ h[t][i].code = NoCode
    BY <2>1, <2>2, <2>3
  <2>5. DOMAIN frames[t] = 1..Len(frames[t]) /\ Len(frames[t]) \in Nat
    BY <2>1
  <2>6. h[t] \in [1..Len(frames[t]) -> Frames]
    BY <2>3, <2>4, <2>5
  <2> QED BY <2>3, <2>4, <2>5, <2>6
<1>3. h \in [Threads -> Seq(Frames)]
  BY <1>2 DEF DeoptimizedFrames
<1> QED BY <1>2, <1>3 DEF Inv, RunningIn

-----------------------------------------------------------------------------

\* Eviction unlinks the code it frees, and keeps what is linked or runs.
LEMMA EvictionKeepsCode ==
    ASSUME Inv, NEW X \in SUBSET Codes, Evictable(X), NEW entries \in Entries,
           LinkedIn(item, entries), RecordedIn(item, entries, directCallers)
    PROVE  /\ ItemsWithout(X) \in [Codes -> Items]
           /\ EntriesWithout(X, entries) \in Entries
           /\ LinkedIn(ItemsWithout(X), EntriesWithout(X, entries))
           /\ RecordedIn(ItemsWithout(X), EntriesWithout(X, entries), directCallers)
           /\ RunningIn(ItemsWithout(X), frames)
           /\ Cached(ItemsWithout(X)) = Cached(item) \ X
           /\ \A m \in Methods : entries[m] \notin Codes =>
                 EntriesWithout(X, entries)[m] \notin Codes
<1> DEFINE its == ItemsWithout(X)
           ents == EntriesWithout(X, entries)
<1>1. item \in [Codes -> Items]
  BY DEF Inv, TypeOK
<1>3. \A c \in Codes : its[c] = IF c \in X THEN NoItem ELSE item[c]
  BY DEF ItemsWithout
<1>4. NoItem \in Items /\ NoItem.method = NoMethod
  BY DEF NoItem, Items
<1>5. its \in [Codes -> Items]
  BY <1>1, <1>3, <1>4 DEF ItemsWithout
<1>6. Cached(its) = Cached(item) \ X
  BY <1>3, <1>4, <1>1 DEF Cached
<1>7. ents \in Entries /\ \A m \in Methods : ents[m] \in Codes =>
         ents[m] = entries[m] /\ ~ \E c \in X : item[c].method = m
  BY DEF EntriesWithout, Entries
<1>8. \A m \in Methods : ents[m] \in Codes =>
         /\ its[ents[m]].method = item[ents[m]].method
         /\ its[ents[m]].direct = item[ents[m]].direct
         /\ item[ents[m]].method = m
  BY <1>3, <1>7 DEF LinkedIn
<1>9. LinkedIn(its, ents) /\ RecordedIn(its, ents, directCallers)
  BY <1>7, <1>8 DEF LinkedIn, RecordedIn
<1>10. RunningIn(its, frames)
  <2> SUFFICES ASSUME NEW t \in Threads, NEW i \in DOMAIN frames[t],
                      frames[t][i].code # NoCode
               PROVE  its[frames[t][i].code].method = frames[t][i].method
    BY DEF RunningIn
  <2>1. frames[t][i] \in Frames
    BY DEF Inv, TypeOK
  <2>2. frames[t][i].code \in Codes /\ frames[t][i].method \in Methods
    BY <2>1 DEF Frames
  <2>3. frames[t][i].code \notin X
    BY <2>2 DEF Evictable, Running
  <2>4. item[frames[t][i].code].method = frames[t][i].method
    BY DEF Inv, RunningIn
  <2> QED BY <1>3, <2>2, <2>3, <2>4
<1>11. \A m \in Methods : entries[m] \notin Codes => ents[m] \notin Codes
  BY <1>7
<1> QED BY <1>5, <1>6, <1>7, <1>9, <1>10, <1>11

\* In such builds a tick only marks methods without code.
LEMMA TickKeepsCode ==
    ASSUME Inv, NEW S \in SUBSET Methods, Logged(S)
    PROVE  /\ AfterTick(S) \in Entries
           /\ \A m \in Methods : AfterTick(S)[m] \in Codes <=> entry[m] \in Codes
           /\ LinkedIn(item, AfterTick(S))
           /\ RecordedIn(item, AfterTick(S), directCallers)
<1>1. entry \in Entries
  BY DEF Inv, TypeOK, Entries
<1>2. \A m \in Methods : AfterTick(S)[m] = IF m \in S THEN "compiler" ELSE entry[m]
  BY DEF AfterTick
<1>3. \A m \in S : entry[m] \notin Codes
  BY DEF Logged
<1>4. "compiler" \notin Codes
  BY DEF CompiledCodeAssumption
<1>5. AfterTick(S) \in Entries
  BY <1>1, <1>2 DEF AfterTick, Entries
<1>6. \A m \in Methods : /\ AfterTick(S)[m] \in Codes <=> entry[m] \in Codes
                         /\ AfterTick(S)[m] \in Codes => AfterTick(S)[m] = entry[m]
  BY <1>2, <1>3, <1>4
<1> QED BY <1>5, <1>6 DEF Inv, LinkedIn, RecordedIn

-----------------------------------------------------------------------------

\* A slice of a compilation, from its items and entries.
LEMMA SliceKeepsInv ==
    ASSUME Inv, NEW t \in Threads, frames[t] # <<>>, NEW job \in Compilations,
           NEW its \in [Codes -> Items], NEW entries \in Entries,
           job # NoCompilation,
           LinkedIn(its, entries), RecordedIn(its, entries, directCallers),
           RunningIn(its, frames), JobInv(job, its, entries, directCallers),
           ticking' \in Threads \cup {NoThread},
           CompileSlice(t, job, its, entries)
    PROVE  Inv'
<1> DEFINE Slice(done, calls) ==
              /\ directCallers' = AddDirectCaller(calls, job.method)
              /\ \/ Suspend(job, its, entries, done, calls)
                 \/ Finish(t, job, its, entries, done, calls)
                 \/ Fail(job, its, entries)
              /\ UNCHANGED <<overridden, status>>
<1>0. \E done \in SUBSET job.todo : \E calls \in SUBSET (done \ overridden) :
         Slice(done, calls)
  BY Zenon DEF CompileSlice
<1>1. PICK done \in SUBSET job.todo : \E calls \in SUBSET (done \ overridden) :
         Slice(done, calls)
  BY <1>0, Zenon
<1>1a. PICK direct \in SUBSET (done \ overridden) : Slice(done, direct)
  BY <1>1, Zenon
<1>2. /\ frames \in [Threads -> Seq(Frames)]
      /\ directCallers \in [Methods -> SUBSET Methods]
      /\ overridden \in SUBSET Methods
      /\ \A v \in overridden : directCallers[v] = {}
  BY DEF Inv, TypeOK, OverriddenHasNoDirectCallers
<1>3. /\ job.method \in Methods /\ entries[job.method] \notin Codes
      /\ \A v \in job.direct : job.method \in directCallers[v]
      /\ Cached(its) # Codes
  BY DEF JobInv
<1>4. job.todo \in SUBSET Methods /\ job.direct \in SUBSET Methods
  BY DEF Compilations
<1>5. direct \in SUBSET Methods /\ direct \cap overridden = {}
  BY <1>4
<1>6. /\ directCallers' \in [Methods -> SUBSET Methods]
      /\ \A v \in Methods : directCallers[v] \subseteq directCallers'[v]
      /\ \A v \in direct : job.method \in directCallers'[v]
      /\ \A v \in overridden : directCallers'[v] = {}
  BY <1>1a, <1>2, <1>3, <1>5 DEF AddDirectCaller
<1>7. \A m \in Methods : entries[m] \in Codes =>
         \A v \in its[entries[m]].direct : v \in Methods /\ m \in directCallers'[v]
  BY <1>6 DEF RecordedIn, Items, Entries
<1>8. \A v \in job.direct \cup direct : v \in Methods /\ job.method \in directCallers'[v]
  BY <1>3, <1>4, <1>5, <1>6
<1>9. NoCompilation \in Compilations
  BY DEF NoCompilation, Compilations
<1>10. CASE Suspend(job, its, entries, done, direct)
  <2>1. /\ compiling' = [job EXCEPT !.todo = @ \ done, !.direct = @ \cup direct]
        /\ entry' = entries /\ item' = its /\ frames' = frames
    BY <1>10 DEF Suspend
  <2>2. /\ compiling' \in Compilations /\ compiling'.method = job.method
        /\ compiling'.direct = job.direct \cup direct
    BY <2>1, <1>4, <1>5 DEF Compilations
  <2>3. JobInv(compiling', its, entries, directCallers')
    BY <2>2, <1>3, <1>8 DEF JobInv
  <2>4. TypeOK'
    BY <2>1, <2>2, <1>1a, <1>2, <1>6 DEF TypeOK, Inv, Entries
  <2> QED BY <2>1, <2>3, <2>4, <1>1a, <1>6, <1>7
          DEF Inv, RecordedIn, LinkedIn, RunningIn, OverriddenHasNoDirectCallers, JobInv, Cached
<1>11. CASE Fail(job, its, entries)
  <2>1. /\ compiling' = NoCompilation /\ item' = its /\ frames' = frames
        /\ entry' \in Entries
        /\ \A m \in Methods : entry'[m] \in Codes => entry'[m] = entries[m]
    BY <1>11, <1>3 DEF Fail, Entries
  <2>2. TypeOK'
    BY <2>1, <1>1a, <1>2, <1>6, <1>9 DEF TypeOK, Inv, Entries
  <2> QED BY <2>1, <2>2, <1>1a, <1>6, <1>7
          DEF Inv, RecordedIn, LinkedIn, RunningIn, OverriddenHasNoDirectCallers, JobInv, Cached
<1>12. CASE Finish(t, job, its, entries, done, direct)
  <2>1. PICK c \in Codes \ Cached(its) :
           /\ item' = [its EXCEPT ![c] = [method |-> job.method,
                                          direct |-> job.direct \cup direct]]
           /\ entry' = [entries EXCEPT ![job.method] = c]
           /\ \/ UNCHANGED frames
              \/ /\ Top(t).method = job.method /\ Top(t).code = NoCode
                 /\ frames' = RunInTop(t, c)
    BY <1>12 DEF Finish
  <2>3. /\ item' \in [Codes -> Items] /\ entry' \in Entries
        /\ item'[c].method = job.method /\ item'[c].direct = job.direct \cup direct
        /\ \A d \in Codes : d # c => item'[d] = its[d]
        /\ entry'[job.method] = c
        /\ \A m \in Methods : m # job.method => entry'[m] = entries[m]
    BY <2>1, <1>3, <1>4, <1>5 DEF Items, Entries
  <2>4. its[c].method = NoMethod
    BY <2>1 DEF Cached
  <2>5. \A m \in Methods : entries[m] # c
    BY <2>1, <2>4 DEF LinkedIn
  <2>6. LinkedIn(item', entry')
    BY <2>3, <2>5 DEF LinkedIn
  <2>7. RecordedIn(item', entry', directCallers')
    BY <2>3, <2>5, <1>7, <1>8 DEF RecordedIn
  <2>8. RunningIn(item', frames)
    <3> SUFFICES ASSUME NEW u \in Threads, NEW i \in DOMAIN frames[u],
                        frames[u][i].code # NoCode
                 PROVE  item'[frames[u][i].code].method = frames[u][i].method
      BY DEF RunningIn
    <3>1. frames[u][i] \in Frames
      BY <1>2
    <3>2. frames[u][i].code \in Codes /\ frames[u][i].method \in Methods
      BY <3>1 DEF Frames
    <3>3. its[frames[u][i].code].method = frames[u][i].method
      BY DEF RunningIn
    <3>4. frames[u][i].code # c
      BY <3>2, <3>3, <2>4
    <3> QED BY <3>2, <3>3, <3>4, <2>3
  <2>9. frames' \in [Threads -> Seq(Frames)] /\ RunningIn(item', frames')
    <3>1. CASE UNCHANGED frames
      BY <3>1, <1>2, <2>8
    <3>2. CASE Top(t).method = job.method /\ frames' = RunInTop(t, c)
      BY <3>2, <1>2, <2>8, <2>3, SetFrameCode
    <3> QED BY <3>1, <3>2, <2>1
  <2>10. compiling' = NoCompilation
    BY <1>12 DEF Finish
  <2>11. TypeOK'
    BY <2>3, <2>9, <2>10, <1>1a, <1>6, <1>9 DEF TypeOK, Inv, Entries
  <2> QED BY <2>6, <2>7, <2>9, <2>10, <2>11, <1>1a, <1>6
          DEF Inv, JobInv, OverriddenHasNoDirectCallers, LinkedIn, RecordedIn, RunningIn
<1> QED BY <1>1a, <1>10, <1>11, <1>12

-----------------------------------------------------------------------------

LEMMA InitInv == Init => Inv
<1> SUFFICES ASSUME Init
             PROVE  Inv
  OBVIOUS
<1>1. \A m \in Methods : entry[m] \notin Codes
  BY DEF Init, CompiledCodeAssumption
<1>2. \A t \in Threads : frames[t] = <<>> /\ DOMAIN frames[t] = {}
  BY DEF Init
<1>3. frames \in [Threads -> Seq(Frames)]
  BY DEF Init
<1>4. item \in [Codes -> Items] /\ compiling \in Compilations
  BY DEF Init, NoItem, Items, NoCompilation, Compilations
<1>5. TypeOK
  BY <1>3, <1>4 DEF Init, TypeOK
<1> QED BY <1>1, <1>2, <1>5
        DEF Init, Inv, LinkedIn, RecordedIn, RunningIn, JobInv, OverriddenHasNoDirectCallers

\* The invariant depends on a suspended compilation only as long as there is one.
LEMMA JobDependsOn ==
    ASSUME Inv, NEW entries \in Entries, NEW callers,
           \A v \in Methods : directCallers[v] \subseteq callers[v],
           \A m \in Methods : entry[m] \notin Codes => entries[m] \notin Codes
    PROVE  JobInv(compiling, item, entries, callers)
<1>1. compiling \in Compilations
  BY DEF Inv, TypeOK
<1>2. compiling.direct \in SUBSET Methods
  BY <1>1 DEF Compilations
<1> QED BY <1>2 DEF Inv, JobInv

-----------------------------------------------------------------------------
(* One lemma per action, or per group of actions that change alike.        *)

\* Calls, returns and exceptions change the frames only.
LEMMA FramesKeepInv ==
    ASSUME Inv, frames' \in [Threads -> Seq(Frames)], RunningIn(item, frames'),
           ticking' \in Threads \cup {NoThread},
           UNCHANGED <<entry, item, compiling, directCallers, overridden, status>>
    PROVE  Inv'
<1>1. TypeOK'
  BY DEF Inv, TypeOK
<1> QED BY <1>1 DEF Inv, LinkedIn, RecordedIn, RunningIn, JobInv, Cached,
                    OverriddenHasNoDirectCallers

LEMMA StartJavaKeepsInv ==
    ASSUME Inv, NEW t \in Threads, NEW m \in Methods, StartJava(t, m)
    PROVE  Inv'
<1>1. Enter(t, m)
  BY DEF StartJava
<1>2. frames' \in [Threads -> Seq(Frames)] /\ RunningIn(item, frames')
  BY <1>1, EnterKeepsFrames
<1> QED BY <1>1, <1>2, FramesKeepInv DEF Enter

LEMMA CallKeepsInv ==
    ASSUME Inv, NEW t \in Threads, NEW v \in Methods, NEW m \in Methods,
           Call(t, v, m)
    PROVE  Inv'
<1>1. Enter(t, m)
  BY DEF Call
<1>2. frames' \in [Threads -> Seq(Frames)] /\ RunningIn(item, frames')
  BY <1>1, EnterKeepsFrames
<1> QED BY <1>1, <1>2, FramesKeepInv DEF Enter

LEMMA ReturnKeepsInv ==
    ASSUME Inv, NEW t \in Threads, Return(t)
    PROVE  Inv'
<1>1. frames' \in [Threads -> Seq(Frames)] /\ RunningIn(item, frames')
  BY ReturnKeepsFrames
<1>2. ticking' \in Threads \cup {NoThread}
  BY DEF Return
<1> QED BY <1>1, <1>2, FramesKeepInv DEF Return

LEMMA ThrowKeepsInv ==
    ASSUME Inv, NEW t \in Threads, NEW i \in 1..MaxFrames,
           NEW c \in Codes \cup {NoCode}, Throw(t, i, c)
    PROVE  Inv'
<1>1. frames' \in [Threads -> Seq(Frames)] /\ RunningIn(item, frames')
  BY ThrowKeepsFrames
<1>2. ticking' \in Threads \cup {NoThread}
  BY DEF Throw
<1> QED BY <1>1, <1>2, FramesKeepInv DEF Throw

\* A tick that does not compile.
LEMMA TickKeepsInv ==
    ASSUME Inv, NEW t \in Threads, NEW S \in SUBSET Methods,
           TickOnly(t, S) \/ TickReplacesFrame(t, S)
    PROVE  Inv'
<1> DEFINE entries == AfterTick(S)
<1>1. /\ Ticks(t, S) /\ Logged(S) /\ frames[t] # <<>>
      /\ ticking' = NoThread /\ entry' = entries
      /\ UNCHANGED <<item, compiling, directCallers, overridden, status>>
  BY DEF TickOnly, TickReplacesFrame, Ticks
<1>2. /\ entries \in Entries
      /\ \A m \in Methods : entries[m] \in Codes <=> entry[m] \in Codes
      /\ LinkedIn(item, entries)
      /\ RecordedIn(item, entries, directCallers)
  BY <1>1, TickKeepsCode
<1>3. frames' \in [Threads -> Seq(Frames)] /\ RunningIn(item, frames')
  <2>1. CASE TickOnly(t, S)
    BY <2>1 DEF TickOnly, Inv, TypeOK
  <2>2. CASE TickReplacesFrame(t, S)
    <3>1. Top(t).method \in Methods
      <4>1. frames[t] \in Seq(Frames) /\ Len(frames[t]) \in DOMAIN frames[t]
        BY <1>1 DEF Inv, TypeOK
      <4>2. Top(t) \in Frames
        BY <4>1 DEF Top
      <4> QED BY <4>2 DEF Frames
    <3>2. /\ entries[Top(t).method] \in Codes
          /\ frames' = RunInTop(t, entries[Top(t).method])
      BY <2>2 DEF TickReplacesFrame
    <3>3. item[entries[Top(t).method]].method = Top(t).method
      BY <1>2, <3>1, <3>2 DEF LinkedIn
    <3>4. frames \in [Threads -> Seq(Frames)] /\ RunningIn(item, frames)
      BY DEF Inv, TypeOK
    <3> HIDE DEF entries
    <3> QED BY <1>1, <3>2, <3>3, <3>4, SetFrameCode
  <2> QED BY <2>1, <2>2
<1>4. JobInv(compiling, item, entries, directCallers)
  BY <1>2, JobDependsOn
<1>5. TypeOK'
  BY <1>1, <1>2, <1>3 DEF Inv, TypeOK, Entries
<1> QED BY <1>1, <1>2, <1>3, <1>4, <1>5
        DEF Inv, LinkedIn, RecordedIn, RunningIn, JobInv, Cached,
            OverriddenHasNoDirectCallers

LEMMA TopHasMethod ==
    ASSUME Inv, NEW t \in Threads, frames[t] # <<>>
    PROVE  Top(t) \in Frames /\ Top(t).method \in Methods
<1>1. frames[t] \in Seq(Frames) /\ Len(frames[t]) \in DOMAIN frames[t]
  BY DEF Inv, TypeOK
<1>2. Top(t) \in Frames
  BY <1>1 DEF Top
<1> QED BY <1>2 DEF Frames

LEMMA TickStartsCompilationKeepsInv ==
    ASSUME Inv, NEW t \in Threads, NEW S \in SUBSET Methods,
           NEW X \in SUBSET Codes, TickStartsCompilation(t, S, X)
    PROVE  Inv'
<1> DEFINE m == Top(t).method
           job == [method |-> m, todo |-> Calls[m], direct |-> {}]
           its == ItemsWithout(X)
           entries == EntriesWithout(X, AfterTick(S))
<1>1. /\ Logged(S) /\ frames[t] # <<>> /\ ticking' = NoThread
      /\ CanBeCompiled(AfterTick(S), m)
      /\ Evictable(X) /\ IndexLeft(X)
      /\ CompileSlice(t, job, its, entries)
  BY DEF TickStartsCompilation, Ticks
<1>2. /\ AfterTick(S) \in Entries
      /\ LinkedIn(item, AfterTick(S))
      /\ RecordedIn(item, AfterTick(S), directCallers)
  BY <1>1, TickKeepsCode
<1>3. /\ its \in [Codes -> Items] /\ entries \in Entries
      /\ LinkedIn(its, entries) /\ RecordedIn(its, entries, directCallers)
      /\ RunningIn(its, frames) /\ Cached(its) = Cached(item) \ X
      /\ \A n \in Methods : AfterTick(S)[n] \notin Codes => entries[n] \notin Codes
  BY <1>1, <1>2, EvictionKeepsCode
<1>4. m \in Methods
  BY <1>1, TopHasMethod
<1>5. job \in Compilations /\ job.method = m /\ job.direct = {} /\ job # NoCompilation
  BY <1>4 DEF Compilations, NoCompilation
<1>6. entries[m] \notin Codes
  <2>1. AfterTick(S)[m] \notin Codes
    BY <1>1 DEF CanBeCompiled
  <2> QED BY <2>1, <1>3, <1>4
<1>7. Cached(its) # Codes
  <2>1. Cardinality(Codes) \in Nat
    BY FS_CardinalityType
  <2>2. Cardinality(Cached(item) \ X) # Cardinality(Codes)
    BY <1>1, <2>1 DEF IndexLeft
  <2> QED BY <1>3, <2>2
<1>8. JobInv(job, its, entries, directCallers)
  BY <1>4, <1>5, <1>6, <1>7 DEF JobInv
<1> HIDE DEF job, its, entries
<1> QED BY <1>1, <1>3, <1>5, <1>8, SliceKeepsInv

LEMMA TickResumesCompilationKeepsInv ==
    ASSUME Inv, NEW t \in Threads, NEW S \in SUBSET Methods,
           TickResumesCompilation(t, S)
    PROVE  Inv'
<1> DEFINE entries == AfterTick(S)
<1>1. /\ Logged(S) /\ frames[t] # <<>> /\ ticking' = NoThread
      /\ compiling # NoCompilation
      /\ CompileSlice(t, compiling, item, entries)
  BY DEF TickResumesCompilation, Ticks
<1>2. /\ entries \in Entries
      /\ \A m \in Methods : entries[m] \in Codes <=> entry[m] \in Codes
      /\ LinkedIn(item, entries)
      /\ RecordedIn(item, entries, directCallers)
  BY <1>1, TickKeepsCode
<1>3. JobInv(compiling, item, entries, directCallers)
  BY <1>2, JobDependsOn
<1>4. compiling \in Compilations /\ item \in [Codes -> Items] /\ RunningIn(item, frames)
  BY DEF Inv, TypeOK
<1> HIDE DEF entries
<1> QED BY <1>1, <1>2, <1>3, <1>4, SliceKeepsInv

LEMMA UncommonTrapKeepsInv ==
    ASSUME Inv, NEW t \in Threads, UncommonTrap(t)
    PROVE  Inv'
<1>1. /\ frames[t] # <<>> /\ frames' = RunInTop(t, NoCode)
      /\ UNCHANGED <<item, compiling, directCallers, overridden, status, ticking>>
  BY DEF UncommonTrap
<1>2. frames' \in [Threads -> Seq(Frames)] /\ RunningIn(item, frames')
  BY <1>1, SetFrameCode DEF Inv, TypeOK
<1>3. "compiler" \notin Codes
  BY DEF CompiledCodeAssumption
<1>4. /\ entry' \in Entries
      /\ \A m \in Methods : entry'[m] \in Codes => entry'[m] = entry[m]
      /\ \A m \in Methods : entry[m] \notin Codes => entry'[m] \notin Codes
  BY <1>3 DEF UncommonTrap, Inv, TypeOK, Entries
<1>5. JobInv(compiling, item, entry', directCallers)
  BY <1>4, JobDependsOn
<1>6. TypeOK'
  BY <1>1, <1>2, <1>4 DEF Inv, TypeOK, Entries
<1> QED BY <1>1, <1>2, <1>4, <1>5, <1>6
        DEF Inv, LinkedIn, RecordedIn, RunningIn, JobInv, Cached,
            OverriddenHasNoDirectCallers

LEMMA HeapCollectsKeepsInv ==
    ASSUME Inv, NEW X \in SUBSET Codes, HeapCollects(X)
    PROVE  Inv'
<1>1. /\ Evictable(X) /\ compiling' = NoCompilation
      /\ item' = ItemsWithout(X) /\ entry' = EntriesWithout(X, entry)
      /\ UNCHANGED <<frames, directCallers, overridden, status, ticking>>
  BY DEF HeapCollects
<1>2. entry \in Entries /\ LinkedIn(item, entry) /\ RecordedIn(item, entry, directCallers)
  BY DEF Inv, TypeOK, Entries
<1>3. /\ item' \in [Codes -> Items] /\ entry' \in Entries
      /\ LinkedIn(item', entry') /\ RecordedIn(item', entry', directCallers)
      /\ RunningIn(item', frames)
  BY <1>1, <1>2, EvictionKeepsCode
<1>4. NoCompilation \in Compilations
  BY DEF NoCompilation, Compilations
<1>5. TypeOK'
  BY <1>1, <1>3, <1>4 DEF Inv, TypeOK, Entries
<1> QED BY <1>1, <1>3, <1>5
        DEF Inv, LinkedIn, RecordedIn, RunningIn, JobInv, OverriddenHasNoDirectCallers

LEMMA StartOrFailInitializationKeepsInv ==
    ASSUME Inv, NEW d \in Classes, StartInitialization(d) \/ FailInitialization(d)
    PROVE  Inv'
<1>1. TypeOK'
  BY DEF StartInitialization, FailInitialization, Inv, TypeOK
<1> QED BY <1>1 DEF StartInitialization, FailInitialization, Inv, LinkedIn,
                    RecordedIn, RunningIn, JobInv, Cached, OverriddenHasNoDirectCallers

\* Overriding: what is recorded with the methods V is unlinked or aborted.
LEMMA FinishInitializationKeepsInv ==
    ASSUME Inv, NEW d \in Classes, FinishInitialization(d)
    PROVE  Inv'
<1> DEFINE V == Overrides(d) \ overridden
           callers == UNION {directCallers[v] : v \in V}
           L == Linked(callers)
<1>1. /\ frames' = DeoptimizedFrames(L) /\ entry' = UnlinkedEntries(L)
      /\ compiling' = RemainingCompilation(callers \ L)
      /\ directCallers' = RemainingCallers(V)
      /\ overridden' = overridden \cup Overrides(d)
      /\ UNCHANGED <<item, ticking>>
      /\ status' = [status EXCEPT ![d] = "initialized"]
  BY DEF FinishInitialization, UnlinkDirectCallers
<1>2. /\ entry \in Entries /\ item \in [Codes -> Items]
      /\ directCallers \in [Methods -> SUBSET Methods]
      /\ overridden \in SUBSET Methods /\ compiling \in Compilations
      /\ V \in SUBSET Methods /\ Overrides(d) \in SUBSET Methods
      /\ \A v \in overridden : directCallers[v] = {}
  BY DEF Inv, TypeOK, Entries, Overrides, OverriddenHasNoDirectCallers
<1>3. /\ callers \in SUBSET Methods /\ L \in SUBSET callers
      /\ \A m \in callers : m \notin L => entry[m] \notin Codes
      /\ \A v \in V : directCallers[v] \subseteq callers
  BY <1>2 DEF Linked
<1>4. "interpreter" \notin Codes
  BY DEF CompiledCodeAssumption
<1>5. /\ entry' \in Entries
      /\ \A m \in Methods : entry'[m] \in Codes => entry'[m] = entry[m] /\ m \notin callers
      /\ \A m \in Methods : entry[m] \notin Codes => entry'[m] \notin Codes
  BY <1>1, <1>2, <1>3, <1>4 DEF UnlinkedEntries, Entries
<1>6. /\ directCallers' \in [Methods -> SUBSET Methods]
      /\ \A v \in V : directCallers'[v] = {}
      /\ \A v \in Methods : v \notin V => directCallers'[v] = directCallers[v]
  BY <1>1, <1>2 DEF RemainingCallers
<1>7. LinkedIn(item, entry')
  BY <1>5 DEF Inv, LinkedIn
<1>8. RecordedIn(item, entry', directCallers')
  <2> SUFFICES ASSUME NEW m \in Methods, entry'[m] \in Codes,
                      NEW v \in item[entry'[m]].direct
               PROVE  m \in directCallers'[v]
    BY DEF RecordedIn
  <2>1. entry'[m] = entry[m] /\ m \notin callers
    BY <1>5
  <2>2. m \in directCallers[v]
    BY <2>1 DEF Inv, RecordedIn
  <2>3. v \in Methods /\ v \notin V
    BY <1>2, <1>3, <2>1, <2>2 DEF Items
  <2> QED BY <1>6, <2>2, <2>3
<1>9. frames' \in [Threads -> Seq(Frames)] /\ RunningIn(item, frames')
  <2>1. L \in SUBSET Methods
    BY <1>3
  <2> QED BY <1>1, <2>1, DeoptimizingKeepsFrames
<1>10. compiling' \in Compilations
  BY <1>1, <1>2 DEF RemainingCompilation, NoCompilation, Compilations
<1>11. JobInv(compiling', item, entry', directCallers')
  <2> SUFFICES ASSUME compiling' # NoCompilation
               PROVE  /\ compiling'.method \in Methods
                      /\ entry'[compiling'.method] \notin Codes
                      /\ \A v \in compiling'.direct : compiling'.method \in directCallers'[v]
                      /\ Cached(item) # Codes
    BY DEF JobInv
  <2>1. compiling' = compiling /\ compiling.method \notin callers \ L
    BY <1>1 DEF RemainingCompilation
  <2>2. /\ compiling.method \in Methods /\ entry[compiling.method] \notin Codes
        /\ \A v \in compiling.direct : compiling.method \in directCallers[v]
        /\ Cached(item) # Codes
    BY <2>1 DEF Inv, JobInv
  <2>3. compiling.method \notin L
    BY <2>2 DEF Linked
  <2>4. compiling.method \notin callers
    BY <2>1, <2>3
  <2>5. \A v \in compiling.direct : v \in Methods /\ v \notin V
    BY <1>2, <1>3, <2>2, <2>4 DEF Compilations
  <2> QED BY <1>5, <1>6, <2>1, <2>2, <2>5
<1>12. \A v \in overridden' : directCallers'[v] = {}
  BY <1>1, <1>2, <1>6
<1>13. status' \in [Classes -> {"linked", "clinit", "initialized", "error"}]
  BY <1>1 DEF Inv, TypeOK
<1>14. overridden' \in SUBSET Methods /\ ticking' \in Threads \cup {NoThread}
  BY <1>1, <1>2 DEF Inv, TypeOK
<1>15. item' = item /\ item' \in [Codes -> Items]
  BY <1>1, <1>2
<1>16. TypeOK'
  <2> HIDE DEF V, callers, L
  <2> QED BY <1>5, <1>6, <1>9, <1>10, <1>13, <1>14, <1>15 DEF TypeOK, Entries
<1> HIDE DEF V, callers, L
<1> QED BY <1>7, <1>8, <1>9, <1>11, <1>12, <1>15, <1>16
        DEF Inv, LinkedIn, RecordedIn, RunningIn, JobInv, Cached,
            OverriddenHasNoDirectCallers

-----------------------------------------------------------------------------

LEMMA NextInv == Inv /\ [Next]_vars => Inv'
<1> SUFFICES ASSUME Inv, [Next]_vars
             PROVE  Inv'
  OBVIOUS
<1>1. ASSUME NEW t \in Threads, NEW m \in Methods,
             StartJava(t, m) \/ \E v \in Methods : Call(t, v, m)
      PROVE  Inv'
  BY <1>1, StartJavaKeepsInv, CallKeepsInv
<1>2. ASSUME NEW t \in Threads, Return(t)
      PROVE  Inv'
  BY <1>2, ReturnKeepsInv
<1>3. ASSUME NEW t \in Threads, NEW i \in 1..MaxFrames,
             NEW c \in Codes \cup {NoCode}, Throw(t, i, c)
      PROVE  Inv'
  BY <1>3, ThrowKeepsInv
<1>4. ASSUME NEW t \in Threads, NEW S \in SUBSET Methods,
             \/ TickOnly(t, S)
             \/ TickReplacesFrame(t, S)
             \/ \E X \in SUBSET Codes : TickStartsCompilation(t, S, X)
             \/ TickResumesCompilation(t, S)
      PROVE  Inv'
  BY <1>4, TickKeepsInv, TickStartsCompilationKeepsInv, TickResumesCompilationKeepsInv
<1>5. ASSUME NEW t \in Threads, UncommonTrap(t)
      PROVE  Inv'
  BY <1>5, UncommonTrapKeepsInv
<1>6. ASSUME NEW X \in SUBSET Codes, HeapCollects(X)
      PROVE  Inv'
  BY <1>6, HeapCollectsKeepsInv
<1>7. ASSUME NEW d \in Classes,
             StartInitialization(d) \/ FailInitialization(d) \/ FinishInitialization(d)
      PROVE  Inv'
  BY <1>7, StartOrFailInitializationKeepsInv, FinishInitializationKeepsInv
<1>8. ASSUME UNCHANGED vars
      PROVE  Inv'
  <2>1. TypeOK'
    BY <1>8 DEF vars, Inv, TypeOK
  <2> QED BY <1>8, <2>1 DEF vars, Inv, LinkedIn, RecordedIn, RunningIn, JobInv, Cached,
                    OverriddenHasNoDirectCallers
<1> QED BY <1>1, <1>2, <1>3, <1>4, <1>5, <1>6, <1>7, <1>8 DEF Next

LEMMA SpecInv == Spec => []Inv
<1>1. Inv /\ [Next]_vars => Inv'
  BY NextInv
<1> QED BY InitInv, <1>1, PTL DEF Spec

-----------------------------------------------------------------------------
(* Any number of methods, classes, threads and places for code.            *)

\* The variables keep their types through compiling, evicting, unlinking and
\* deoptimizing (compile, free, uncommon_trap, unlink_direct_callers).
THEOREM CompiledTypesCorrect == Spec => []TypeOK
<1>1. Inv => TypeOK
  BY DEF Inv
<1> QED BY SpecInv, <1>1, PTL

\* A method called after an overriding class has been initialized does not run
\* code with direct calls of what is overridden: unlink_direct_callers finds
\* every method linked to such code in the records of add_direct_caller.
THEOREM LinkedCodeStaysValid == Spec => []LinkedCodeIsValid
<1>1. Inv => LinkedCodeIsValid
  <2> SUFFICES ASSUME Inv, NEW m \in Methods, entry[m] \in Codes
               PROVE  item[entry[m]].direct \cap overridden = {}
    BY DEF LinkedCodeIsValid
  <2>1. \A v \in item[entry[m]].direct : directCallers[v] # {}
    BY DEF Inv, RecordedIn
  <2> QED BY <2>1 DEF Inv, OverriddenHasNoDirectCallers
<1> QED BY SpecInv, <1>1, PTL

\* A suspended compilation that resume_compilation goes on with has made no
\* direct call of a method overridden meanwhile: unlink_direct_callers aborts it.
THEOREM SuspendedCodeStaysValid == Spec => []SuspendedCodeIsValid
<1>1. Inv => SuspendedCodeIsValid
  <2>1. CASE compiling = NoCompilation
    BY <2>1 DEF SuspendedCodeIsValid, NoCompilation
  <2>2. ASSUME Inv, compiling # NoCompilation
        PROVE  SuspendedCodeIsValid
    BY <2>2 DEF SuspendedCodeIsValid, Inv, JobInv, OverriddenHasNoDirectCallers
  <2> QED BY <2>1, <2>2
<1> QED BY SpecInv, <1>1, PTL

\* What methods are linked to and frames run is code of that method, in the
\* cache: lock_unevictable and free of CompiledMethodCache.
THEOREM CodeInUseStaysCached == Spec => []CodeInUseIsCached
<1>1. Inv => CodeInUseIsCached
  BY DEF Inv, LinkedIn, RunningIn, CodeInUseIsCached
<1> QED BY SpecInv, <1>1, PTL

\* The guarantee of update_vtable_bitmaps: no method has direct callers once
\* it is overridden, although callers are recorded by suspended compilations.
THEOREM OverriddenNeverHasDirectCallers == Spec => []OverriddenHasNoDirectCallers
<1>1. Inv => OverriddenHasNoDirectCallers
  BY DEF Inv
<1> QED BY SpecInv, <1>1, PTL

\* insert of CompiledMethodCache never overflows: the index alloc has reserved
\* for a compilation stays free while that is suspended.
THEOREM IndexStaysReserved == Spec => []IndexIsReserved
<1>1. Inv => IndexIsReserved
  BY DEF Inv, JobInv, IndexIsReserved
<1> QED BY SpecInv, <1>1, PTL

\* A method is not linked to code while a compilation of it is suspended, which
\* unlink_direct_callers relies on: it aborts only what it has not unlinked.
THEOREM NeverCompiledTwice == Spec => []CompiledOnce
<1>1. Inv => CompiledOnce
  BY DEF Inv, JobInv, CompiledOnce, NoCompilation, CompiledCodeAssumption
<1> QED BY SpecInv, <1>1, PTL
=============================================================================
