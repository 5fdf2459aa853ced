----------------------------- MODULE MCSocketPool -----------------------------
(***************************************************************************)
(* Instances of SocketPool: two groups and two or three handles compete    *)
(* for two sockets.                                                        *)
(***************************************************************************)
EXTENDS SocketPool, TLC

\* With equal priorities any of the stalled groups may be the top one.
OnePriority == {[priority |-> 0, ignore |-> FALSE]}

ManyKinds == {[priority |-> 0, ignore |-> b] : b \in BOOLEAN}
             \cup {[priority |-> 1, ignore |-> FALSE]}

PoolSymmetry == Permutations(Groups) \cup Permutations(Handles)
=============================================================================
