--------------------------- MODULE MCWaitableEvent ---------------------------
(***************************************************************************)
(* Instances of WaitableEvent.  Threads are interchangeable; events are    *)
(* not, being ordered by address.                                          *)
(***************************************************************************)
EXTENDS WaitableEvent

ThreadSymmetry == Permutations(Threads)
=============================================================================
