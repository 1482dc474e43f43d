------------------------------ MODULE MCTimer ------------------------------
(***************************************************************************)
(* Timer for TLC: a task of fixed rate, one that runs once at a Date, and  *)
(* one of fixed delay that starts at a Date.                               *)
(***************************************************************************)
EXTENDS Timer, TLC

CONSTANTS t1, t2, t3, w1, w2

MCPeriod == t1 :> 1 @@ t2 :> 0 @@ t3 :> -1
=============================================================================
