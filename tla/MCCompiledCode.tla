--------------------------- MODULE MCCompiledCode ---------------------------
(***************************************************************************)
(* CompiledCode for TLC: get calls itself on another object, and so does   *)
(* subGet, which overrides it in the class sub.                            *)
(***************************************************************************)
EXTENDS CompiledCode, TLC

CONSTANTS get, subGet, sub

MCCalls == [m \in Methods |-> {get}]
MCVTable == [d \in Classes |-> [m \in Methods |-> subGet]]
MCSymmetry == Permutations(Codes) \cup Permutations(Threads)
=============================================================================
