----------------------------- MODULE MCANIPool -----------------------------
(***************************************************************************)
(* ANIPool for TLC: more callers than pool threads, so that some wait.     *)
(***************************************************************************)
EXTENDS ANIPool, TLC

CONSTANTS j1, j2, j3
=============================================================================
