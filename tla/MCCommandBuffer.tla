--------------------------- MODULE MCCommandBuffer ---------------------------
(***************************************************************************)
(* Instances of CommandBuffer: a small ring, so that commands of one to     *)
(* three entries meet its end in every way.                                *)
(***************************************************************************)
EXTENDS CommandBuffer

Cmd(k, n, a) == [kind |-> k, size |-> n, arg |-> a]

\* Commands of different sizes, after one of which the context is unscheduled.
Resizes == {Cmd("resize", 1, 0), Cmd("draw", 3, 1)}

\* Commands that yield, and that wait or fail.
Latches == {Cmd("yield", 1, 0), Cmd("waitLatch", 2, 0)}
=============================================================================
