---------------------------- MODULE MCRunQueue ----------------------------
(***************************************************************************)
(* RunQueue for TLC.                                                       *)
(***************************************************************************)
EXTENDS RunQueue

CONSTANTS t1, t2, t3
=============================================================================
