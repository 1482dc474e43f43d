--------------------------- MODULE MCScheduler ---------------------------
(***************************************************************************)
(* Scheduler for TLC: three threads that execute any program built from    *)
(* the calls their sets of CONSTANTS allow.                                *)
(***************************************************************************)
EXTENDS MonitorRefinement, SchedulerInvariant

CONSTANTS t1, t2, t3, a, b

\* No thread synchronises on a Thread object.
NoThreadObjs == [t \in Threads |-> NoObject]

\* a is the Thread object of t1: the others can join it.
JoinableT1 == [t \in Threads |-> IF t = t1 THEN a ELSE NoObject]

\* Threads whose programs may do the same are interchangeable, and so are the objects.
AllAlike == Permutations(Threads) \cup Permutations(Objects)
=============================================================================
