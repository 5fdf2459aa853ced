---------------------------- MODULE CommandStream ----------------------------
(***************************************************************************)
(* What the GPU command buffer promises its client: the commands it issues *)
(* are executed once each, whole and in the order of issue, until the      *)
(* context is lost.  CommandBuffer implements this over a ring of shared   *)
(* memory (gpu/command_buffer/common/command_buffer.h).                    *)
(***************************************************************************)
EXTENDS Sequences

CONSTANT Command

VARIABLES
    queue,      \* issued and not yet executed
    lost        \* the context is lost

Init ==
    /\ queue = <<>>
    /\ lost = FALSE

Issue(c) ==
    /\ ~lost
    /\ queue' = Append(queue, c)
    /\ UNCHANGED lost

Execute ==
    /\ ~lost
    /\ queue # <<>>
    /\ queue' = Tail(queue)
    /\ UNCHANGED lost

\* Nothing is promised any more.
Lose ==
    /\ ~lost
    /\ lost' = TRUE
    /\ queue' = <<>>

Next ==
    \/ \E c \in Command : Issue(c)
    \/ Execute
    \/ Lose

Spec == Init /\ [][Next]_<<queue, lost>>
=============================================================================
