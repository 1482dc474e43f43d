------------------------------- MODULE Lists -------------------------------
(***************************************************************************)
(* The linked lists of threads.  The code links the threads themselves     *)
(* (Thread::next, Thread::previous, Thread::next_waiting); here a list is  *)
(* the sequence of its elements from the head on.                          *)
(***************************************************************************)
EXTENDS Sequences, SequencesExt

\* Faulty variant of Unlink: the head is unlinked, whatever the element.
UnlinkHead(s, e) == Tail(s)

\* s without its element e; the one after e becomes the head if e was the head.
Unlink(s, e) == RemoveAt(s, CHOOSE i \in DOMAIN s : s[i] = e)
=============================================================================
