---------------------------- MODULE CompiledCode ----------------------------
(***************************************************************************)
(* Compiled code and the virtual calls it makes directly: the adaptive     *)
(* compiler links code to methods and may suspend a compilation between    *)
(* two ticks; frames run the code they entered, whatever is linked later;  *)
(* a class that overrides a called method makes its direct callers         *)
(* invalid when it has been initialized.                                   *)
(*                                                                         *)
(* Threads are switched at ticks only, but a tick may come after any       *)
(* bytecode: each action is what one thread does up to such a point.       *)
(***************************************************************************)
EXTENDS Naturals, Sequences, FiniteSets

CONSTANTS
    Methods, Classes, Threads,
    Codes,          \* the places a CompiledMethod can have, MaxMethods of them
    NoMethod, NoCode, NoThread,
    Calls,          \* the methods each method calls virtually
    VTable,         \* the method that instances of each class run for a method
    MaxFrames       \* bounds the stack of a thread

ASSUME CompiledCodeAssumption ==
    /\ IsFiniteSet(Codes)
    /\ NoMethod \notin Methods /\ NoCode \notin Codes /\ NoThread \notin Threads
    /\ Codes \cap {"interpreter", "compiler", "fixed"} = {}
    /\ Calls \in [Methods -> SUBSET Methods]
    /\ VTable \in [Classes -> [Methods -> Methods]]

VARIABLES
    entry,          \* execution_entry of each method
    item,           \* the CompiledMethods of the cache
    frames,         \* the Java frames of each thread, oldest first
    compiling,      \* the suspended compilation, CompilerState
    directCallers,  \* Task.direct_callers
    overridden,     \* the methods whose bit is set in the vtable bitmap
    status,         \* of each class
    ticking         \* the thread shared_invoke_compiler has faked a tick for

vars == <<entry, item, frames, compiling, directCallers, overridden, status,
          ticking>>

NoItem == [method |-> NoMethod, direct |-> {}]
NoCompilation == [method |-> NoMethod, todo |-> {}, direct |-> {}]

Items == [method : Methods \cup {NoMethod}, direct : SUBSET Methods]
Frames == [method : Methods, code : Codes \cup {NoCode}]
Compilations == [method : Methods \cup {NoMethod},
                 todo : SUBSET Methods, direct : SUBSET Methods]

\* The types of the variables.
TypeOK ==
    /\ entry \in [Methods -> Codes \cup {"interpreter", "compiler", "fixed"}]
    /\ item \in [Codes -> Items]
    /\ frames \in [Threads -> Seq(Frames)]
    /\ compiling \in Compilations
    /\ directCallers \in [Methods -> SUBSET Methods]
    /\ overridden \in SUBSET Methods
    /\ status \in [Classes -> {"linked", "clinit", "initialized", "error"}]
    /\ ticking \in Threads \cup {NoThread}

\* MixedMode: methods are interpreted until they prove worth compiling.
Init ==
    /\ entry = [m \in Methods |-> "interpreter"]
    /\ item = [c \in Codes |-> NoItem]
    /\ frames = [t \in Threads |-> <<>>]
    /\ compiling = NoCompilation
    /\ directCallers = [m \in Methods |-> {}]
    /\ overridden = {}
    /\ status = [d \in Classes |-> "linked"]
    /\ ticking = NoThread

Cached(its) == {c \in Codes : its[c].method # NoMethod}

\* The code that runs, which lock_unevictable keeps.
Running == {c \in Codes : \E t \in Threads :
               \E i \in DOMAIN frames[t] : frames[t][i].code = c}

\* has_compiled_code, of the execution entries.
HasCode(entries, m) == entries[m] \in Codes

Top(t) == frames[t][Len(frames[t])]

RunInTop(t, c) == [frames EXCEPT ![t][Len(frames[t])].code = c]

-----------------------------------------------------------------------------
(* Calls.                                                                  *)

\* A frame for m runs the code linked to it; shared_invoke_compiler fakes a
\* tick and interprets.
Enter(t, m) ==
    /\ Len(frames[t]) < MaxFrames
    /\ frames' = [frames EXCEPT ![t] = Append(@,
          [method |-> m, code |-> IF HasCode(entry, m) THEN entry[m] ELSE NoCode])]
    /\ ticking' = IF entry[m] = "compiler" THEN t ELSE NoThread
    /\ UNCHANGED <<entry, item, compiling, directCallers, overridden, status>>

\* The VM calls run or main of a thread.
StartJava(t, m) ==
    /\ ticking = NoThread
    /\ frames[t] = <<>>
    /\ Enter(t, m)

\* An instance of a class can exist as soon as <clinit> runs: the thread that
\* runs it does not wait.
Instantiable(d) == status[d] # "linked"

\* The methods a virtual call of v must reach, one for each class of receiver.
Targets(v) == {v} \cup {VTable[d][v] : d \in {e \in Classes : Instantiable(e)}}

\* invokevirtual in the top frame; a direct call does not look at the receiver.
Call(t, v, m) ==
    /\ ticking = NoThread
    /\ frames[t] # <<>>
    /\ v \in Calls[Top(t).method]
    /\ IF Top(t).code # NoCode /\ v \in item[Top(t).code].direct
       THEN m = v ELSE m \in Targets(v)
    /\ Enter(t, m)

Return(t) ==
    /\ ticking = NoThread
    /\ frames[t] # <<>>
    /\ frames' = [frames EXCEPT ![t] = SubSeq(@, 1, Len(@) - 1)]
    /\ UNCHANGED <<entry, item, compiling, directCallers, overridden, status,
                   ticking>>

\* An exception unwinds to the i-th frame; its handler is interpreted, or runs
\* in the linked code if that has an entry at the handler.  Backward, the
\* handler is a tick.
Throw(t, i, c) ==
    /\ ticking = NoThread
    /\ i \in DOMAIN frames[t]
    /\ c \in {NoCode, entry[frames[t][i].method]} \cap (Codes \cup {NoCode})
    /\ frames' = [frames EXCEPT ![t] =
                     Append(SubSeq(@, 1, i - 1), [@[i] EXCEPT !.code = c])]
    /\ ticking' \in {t, NoThread}
    /\ UNCHANGED <<entry, item, compiling, directCallers, overridden, status>>

-----------------------------------------------------------------------------
(* Ticks and the compiler.                                                 *)

\* What a tick does first: the methods S of the interpretation log will be
\* compiled when called.
AfterTick(S) == [m \in Methods |-> IF m \in S THEN "compiler" ELSE entry[m]]

Logged(S) == S \subseteq {m \in Methods : entry[m] \in {"interpreter", "compiler"}}

Ticks(t, S) ==
    /\ ticking \in {t, NoThread}
    /\ frames[t] # <<>>
    /\ Logged(S)
    /\ ticking' = NoThread

\* The compiler abstains, or has no reason or no room to compile.
TickOnly(t, S) ==
    /\ Ticks(t, S)
    /\ entry' = AfterTick(S)
    /\ UNCHANGED <<item, frames, compiling, directCallers, overridden, status>>

\* The method of the top frame has code already.
TickReplacesFrame(t, S) ==
    /\ Ticks(t, S)
    /\ compiling = NoCompilation
    /\ Top(t).code = NoCode
    /\ HasCode(AfterTick(S), Top(t).method)
    /\ entry' = AfterTick(S)
    /\ frames' = RunInTop(t, AfterTick(S)[Top(t).method])
    /\ UNCHANGED <<item, compiling, directCallers, overridden, status>>

\* CompiledMethodCache::free of the code X, and the cache closes up; a method
\* loses its entry even if that is newer code.
EvictableAlways(X) == X \subseteq Cached(item)  \* faulty: running code as well
Evictable(X) == X \subseteq Cached(item) \ Running

EntriesWithout(X, entries) ==
    [m \in Methods |-> IF \E c \in X : item[c].method = m THEN "interpreter"
                       ELSE entries[m]]

ItemsWithout(X) == [c \in Codes |-> IF c \in X THEN NoItem ELSE item[c]]

\* The queue is not empty yet, and the time is up.
Suspend(job, its, entries, done, direct) ==
    /\ compiling' = [job EXCEPT !.todo = @ \ done, !.direct = @ \cup direct]
    /\ entry' = entries
    /\ item' = its
    /\ UNCHANGED frames

\* The code is inserted in the cache and linked to its method; the frame that
\* ticked goes on in it if it has an entry there.
Finish(t, job, its, entries, done, direct) ==
    /\ done = job.todo
    /\ \E c \in Codes \ Cached(its) :
          /\ item' = [its EXCEPT ![c] = [method |-> job.method,
                                         direct |-> job.direct \cup direct]]
          /\ entry' = [entries EXCEPT ![job.method] = c]
          /\ \/ UNCHANGED frames
             \/ /\ Top(t).method = job.method /\ Top(t).code = NoCode
                /\ frames' = RunInTop(t, c)
    /\ compiling' = NoCompilation

\* Out of memory, or the method is impossible to compile.
Fail(job, its, entries) ==
    /\ compiling' = NoCompilation
    /\ item' = its
    /\ \/ entry' = entries
       \/ entry' = [entries EXCEPT ![job.method] = "fixed"]
    /\ UNCHANGED frames

\* add_direct_caller of each of the methods V.
AddOneDirectCaller(V, caller) ==  \* faulty: a record that exists is not extended
    [v \in Methods |-> IF v \in V /\ directCallers[v] = {} THEN {caller}
                       ELSE directCallers[v]]
AddDirectCaller(V, caller) ==
    [v \in Methods |-> IF v \in V THEN directCallers[v] \cup {caller}
                       ELSE directCallers[v]]

\* Elements of the queue are compiled, with the calls in them: of these, direct
\* are made directly, and the methods they call remember the caller.
CompileSlice(t, job, its, entries) ==
    \E done \in SUBSET job.todo : \E direct \in SUBSET (done \ overridden) :
        /\ directCallers' = AddDirectCaller(direct, job.method)
        /\ \/ Suspend(job, its, entries, done, direct)
           \/ Finish(t, job, its, entries, done, direct)
           \/ Fail(job, its, entries)
        /\ UNCHANGED <<overridden, status>>

\* compile() does nothing for a method that has code or cannot have any.
CanBeCompiledAgain(entries, m) == entries[m] # "fixed"  \* faulty: compiles it twice
CanBeCompiled(entries, m) == entries[m] \in {"interpreter", "compiler"}

\* alloc: there is an index left once X is evicted.
IndexLeft(X) == Cardinality(Cached(item) \ X) < Cardinality(Codes)

\* Room is made in the compiler area and in the cache for the top method.
TickStartsCompilation(t, S, X) ==
    /\ Ticks(t, S)
    /\ compiling = NoCompilation
    /\ Top(t).code = NoCode
    /\ CanBeCompiled(AfterTick(S), Top(t).method)
    /\ Evictable(X)
    /\ IndexLeft(X)
    /\ CompileSlice(t, [method |-> Top(t).method, todo |-> Calls[Top(t).method],
                        direct |-> {}],
                    ItemsWithout(X), EntriesWithout(X, AfterTick(S)))

\* Whatever method has ticked.
TickResumesCompilation(t, S) ==
    /\ Ticks(t, S)
    /\ compiling # NoCompilation
    /\ CompileSlice(t, compiling, item, AfterTick(S))

-----------------------------------------------------------------------------
(* Losing code.                                                            *)

\* The frame goes on in the interpreter, and its code is unlinked if it is
\* still the method's.
UncommonTrap(t) ==
    /\ ticking = NoThread
    /\ frames[t] # <<>>
    /\ Top(t).code # NoCode
    /\ frames' = RunInTop(t, NoCode)
    /\ entry' = IF entry[Top(t).method] = Top(t).code
                THEN [entry EXCEPT ![Top(t).method] = "compiler"]
                ELSE entry
    /\ UNCHANGED <<item, compiling, directCallers, overridden, status, ticking>>

\* The heap takes space from the compiler area, or a task that compiles ends.
HeapCollects(X) ==
    /\ ticking = NoThread
    /\ Evictable(X)
    /\ compiling' = NoCompilation
    /\ item' = ItemsWithout(X)
    /\ entry' = EntriesWithout(X, entry)
    /\ UNCHANGED <<frames, directCallers, overridden, status, ticking>>

\* Class.initialize marks the class and runs <clinit>, ...
StartInitialization(d) ==
    /\ ticking = NoThread
    /\ status[d] = "linked"
    /\ status' = [status EXCEPT ![d] = "clinit"]
    /\ UNCHANGED <<entry, item, frames, compiling, directCallers, overridden,
                   ticking>>

\* ... which may throw.
FailInitialization(d) ==
    /\ ticking = NoThread
    /\ status[d] = "clinit"
    /\ status' = [status EXCEPT ![d] = "error"]
    /\ UNCHANGED <<entry, item, frames, compiling, directCallers, overridden,
                   ticking>>

\* unlink_direct_callers of the methods V: frames in code linked to a caller go
\* on in the interpreter, that code is unlinked, and a suspended compilation of
\* a caller is aborted.
Linked(callers) == {m \in callers : HasCode(entry, m)}

DeoptimizedFrames(linked) ==
    [t \in Threads |-> [i \in DOMAIN frames[t] |->
        IF frames[t][i].code \in {entry[m] : m \in linked}
        THEN [frames[t][i] EXCEPT !.code = NoCode] ELSE frames[t][i]]]

UnlinkedEntries(linked) ==
    [m \in Methods |-> IF m \in linked THEN "interpreter" ELSE entry[m]]

KeptCompilation(callers) == compiling  \* faulty: not aborted
RemainingCompilation(callers) ==
    IF compiling.method \in callers THEN NoCompilation ELSE compiling

KeptCallers(V) == directCallers  \* faulty: the records stay
RemainingCallers(V) ==
    [v \in Methods |-> IF v \in V THEN {} ELSE directCallers[v]]

UnlinkDirectCallers(V) ==
    LET callers == UNION {directCallers[v] : v \in V}
    IN  /\ frames' = DeoptimizedFrames(Linked(callers))
        /\ entry' = UnlinkedEntries(Linked(callers))
        /\ compiling' = RemainingCompilation(callers \ Linked(callers))
        /\ directCallers' = RemainingCallers(V)

\* ... or ends: init9 notes which methods the class overrides.
Overrides(d) == {v \in Methods : VTable[d][v] # v}

FinishInitialization(d) ==
    /\ ticking = NoThread
    /\ status[d] = "clinit"
    /\ status' = [status EXCEPT ![d] = "initialized"]
    /\ UnlinkDirectCallers(Overrides(d) \ overridden)
    /\ overridden' = overridden \cup Overrides(d)
    /\ UNCHANGED <<item, ticking>>

-----------------------------------------------------------------------------

Next ==
    \/ \E t \in Threads :
          \/ \E m \in Methods :
                \/ StartJava(t, m)
                \/ \E v \in Methods : Call(t, v, m)
          \/ Return(t)
          \/ \E i \in 1..MaxFrames, c \in Codes \cup {NoCode} : Throw(t, i, c)
          \/ \E S \in SUBSET Methods :
                \/ TickOnly(t, S)
                \/ TickReplacesFrame(t, S)
                \/ \E X \in SUBSET Codes : TickStartsCompilation(t, S, X)
                \/ TickResumesCompilation(t, S)
          \/ UncommonTrap(t)
    \/ \E X \in SUBSET Codes : HeapCollects(X)
    \/ \E d \in Classes :
          \/ StartInitialization(d)
          \/ FailInitialization(d)
          \/ FinishInitialization(d)

Spec == Init /\ [][Next]_vars

-----------------------------------------------------------------------------
(* Properties.                                                             *)

\* A method is never called in code that calls an overridden method directly:
\* unlink_direct_callers finds the callers, and nothing links their code again.
LinkedCodeIsValid ==
    \A m \in Methods : entry[m] \in Codes =>
        item[entry[m]].direct \cap overridden = {}

\* A compilation that was suspended before a class was initialized does not
\* bring in direct calls of the methods that class overrides.
SuspendedCodeIsValid == compiling.direct \cap overridden = {}

\* The code a method is linked to and the code a frame runs are in the cache,
\* and code of that method, whatever was evicted, inserted or unlinked since:
\* lock_unevictable keeps what runs, free unlinks what it evicts.
CodeInUseIsCached ==
    /\ \A m \in Methods : entry[m] \in Codes => item[entry[m]].method = m
    /\ \A t \in Threads : \A i \in DOMAIN frames[t] :
          frames[t][i].code # NoCode =>
              item[frames[t][i].code].method = frames[t][i].method

\* "Overridden method must not have direct callers" (update_vtable_bitmaps).
OverriddenHasNoDirectCallers == \A v \in overridden : directCallers[v] = {}

\* A suspended compilation finds room in the cache when it ends:
\* "CompiledMethodCache index overflow" does not happen.
IndexIsReserved == compiling # NoCompilation => Cached(item) # Codes

\* A method whose compilation is suspended has no code, so that overriding a
\* method it calls either unlinks its code or aborts its compilation.
CompiledOnce ==
    compiling.method \in Methods => entry[compiling.method] \notin Codes

\* "deoptimize all frames with compiled methods of direct callers from stack":
\* no frame makes a direct call of an overridden method.
RunningCodeIsValid ==
    \A t \in Threads : \A i \in DOMAIN frames[t] :
        frames[t][i].code # NoCode =>
            item[frames[t][i].code].direct \cap overridden = {}
=============================================================================
