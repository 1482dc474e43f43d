------------------------------ MODULE MCTasks ------------------------------
(***************************************************************************)
(* Tasks for TLC: a first task of two threads, whose Isolate object iso    *)
(* stands for a second task of two threads, with two objects to lock; one  *)
(* of them is the Thread object on which its second thread is joined.      *)
(***************************************************************************)
EXTENDS Tasks

CONSTANTS k1, k2, t1, t2, u1, u2, a, b, iso

MCTaskOf == [t \in Threads |-> IF t \in {t1, t2} THEN k1 ELSE k2]
MCMainThread == [k \in Tasks |-> IF k = k1 THEN t1 ELSE u1]
MCHomeOf == [o \in Objects |-> IF o = iso THEN k1 ELSE k2]
MCThreadObj == [t \in Threads |-> IF t = u2 THEN a ELSE NoObject]
MCRepresents == [o \in Objects |-> IF o = iso THEN k2 ELSE NoTask]
=============================================================================
