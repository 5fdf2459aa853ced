------------------------------ MODULE RingBuffer ------------------------------
(***************************************************************************)
(* RingBuffer: transfer memory handed out in a circle, each block freed    *)
(* behind a token (gpu/command_buffer/client/ring_buffer.cc).  A caller    *)
(* frees a block before it asks for the next, as Alloc asserts.            *)
(*                                                                         *)
(* Alloc and the destructor wait for tokens: each turn of their loops is a *)
(* step, between which the service runs.                                   *)
(***************************************************************************)
EXTENDS TokenFence

VARIABLES
    blocks_,                        \* oldest first
    free_offset_, in_use_offset_,
    call, want                      \* what the client is doing; bytes asked for

vars == <<fenceVars, blocks_, free_offset_, in_use_offset_, call, want>>

Block == [offset : 0..Size, size : 0..Size, token : Token,
          state : {"IN_USE", "PADDING", "FREE_PENDING_TOKEN"}]

TypeOK ==
    /\ FenceTypeOK
    /\ blocks_ \in Seq(Block)
    /\ free_offset_ \in 0..(Size - 1)
    /\ in_use_offset_ \in 0..(Size - 1)
    /\ call \in {"none", "Alloc", "delete", "deleted"}
    /\ want \in 0..Size

Init ==
    /\ FenceInit
    /\ blocks_ = <<>>
    /\ free_offset_ = 0 /\ in_use_offset_ = 0
    /\ call = "none" /\ want = 0

NewBlock(offset, size, state) ==
    [offset |-> offset, size |-> size, token |-> 0, state |-> state]

\* An offset at the end of the memory is one at its beginning.
Wrap(offset) == IF offset = Size THEN 0 ELSE offset

\* Mutant: an empty ring is taken for a full one.
GetLargestFreeSizeNoWaiting_EmptyIsFull ==
    CASE free_offset_ = in_use_offset_ -> 0
      [] free_offset_ > in_use_offset_ ->
           IF Size - free_offset_ >= in_use_offset_ THEN Size - free_offset_
                                                    ELSE in_use_offset_
      [] OTHER -> in_use_offset_ - free_offset_

GetLargestFreeSizeNoWaiting ==
    CASE free_offset_ = in_use_offset_ -> IF blocks_ = <<>> THEN Size ELSE 0
      [] free_offset_ > in_use_offset_ ->
           IF Size - free_offset_ >= in_use_offset_ THEN Size - free_offset_
                                                    ELSE in_use_offset_
      [] OTHER -> in_use_offset_ - free_offset_

InUse(i) == blocks_[i].state = "IN_USE"

LastIsFreed == blocks_ # <<>> => ~InUse(Len(blocks_))

\* A caller asks for at most Size bytes, and for at least one.
Alloc(size) ==
    /\ call = "none"
    /\ LastIsFreed
    /\ call' = "Alloc"
    /\ want' = IF size = 0 THEN 1 ELSE size
    /\ UNCHANGED <<fenceVars, blocks_, free_offset_, in_use_offset_>>

MustFree ==
    \/ call = "delete" /\ blocks_ # <<>>
    \/ call = "Alloc" /\ want > GetLargestFreeSizeNoWaiting

\* A turn of the loop in Alloc or in the destructor, once the token has passed.
FreeOldestBlock ==
    LET block == Head(blocks_)
        moved == Wrap(in_use_offset_ + block.size)
    IN
    /\ MustFree
    /\ block.state = "FREE_PENDING_TOKEN" => TokenAwaited(block.token)
    /\ in_use_offset_' = IF moved = free_offset_ THEN 0 ELSE moved
    /\ free_offset_' = IF moved = free_offset_ THEN 0 ELSE free_offset_
    /\ blocks_' = Tail(blocks_)
    /\ UNCHANGED <<fenceVars, call, want>>

\* Mutant: no block stands for the space before the end.
AllocReturns_NoPadding ==
    LET offset == IF want + free_offset_ > Size THEN 0 ELSE free_offset_ IN
    /\ call = "Alloc" /\ ~MustFree
    /\ blocks_' = Append(blocks_, NewBlock(offset, want, "IN_USE"))
    /\ free_offset_' = Wrap(offset + want)
    /\ call' = "none" /\ want' = 0
    /\ UNCHANGED <<fenceVars, in_use_offset_>>

\* The end of Alloc: padding fills the space before the end if need be.
AllocReturns ==
    LET padded == want + free_offset_ > Size
        offset == IF padded THEN 0 ELSE free_offset_
        kept == IF padded
                  THEN Append(blocks_, NewBlock(free_offset_, Size - free_offset_, "PADDING"))
                  ELSE blocks_
    IN
    /\ call = "Alloc" /\ ~MustFree
    /\ blocks_' = Append(kept, NewBlock(offset, want, "IN_USE"))
    /\ free_offset_' = Wrap(offset + want)
    /\ call' = "none" /\ want' = 0
    /\ UNCHANGED <<fenceVars, in_use_offset_>>

\* FreePendingToken with a token inserted behind the commands that use the block.
FreePendingToken ==
    \E i \in 1..Len(blocks_) :
       /\ call = "none" /\ InUse(i)
       /\ InsertToken(blocks_[i].offset, blocks_[i].size)
       /\ blocks_' = [blocks_ EXCEPT ![i] =
                        [@ EXCEPT !.state = "FREE_PENDING_TOKEN", !.token = NextToken]]
       /\ UNCHANGED <<free_offset_, in_use_offset_, call, want>>

\* The destructor waits for every block.
Delete ==
    /\ call = "none"
    /\ LastIsFreed
    /\ call' = "delete"
    /\ UNCHANGED <<fenceVars, blocks_, free_offset_, in_use_offset_, want>>

DeleteReturns ==
    /\ call = "delete" /\ ~MustFree
    /\ call' = "deleted"
    /\ UNCHANGED <<fenceVars, blocks_, free_offset_, in_use_offset_, want>>

Fence ==
    /\ SetToken \/ SynchronizeState \/ LoseContext
    /\ UNCHANGED <<blocks_, free_offset_, in_use_offset_, call, want>>

Next ==
    \/ \E size \in 0..Size : Alloc(size)
    \/ FreeOldestBlock \/ AllocReturns
    \/ FreePendingToken
    \/ Delete \/ DeleteReturns
    \/ Fence

Spec == Init /\ [][Next]_vars

\* The service executes what it is sent, a flush brings its state back, and the
\* client's calls run.
Fairness ==
    /\ WF_vars(SetToken /\ Fence) /\ WF_vars(SynchronizeState /\ Fence)
    /\ WF_vars(FreeOldestBlock) /\ WF_vars(AllocReturns) /\ WF_vars(DeleteReturns)

FairSpec == Spec /\ Fairness

-----------------------------------------------------------------------------
(* Properties                                                              *)

End(i) == blocks_[i].offset + blocks_[i].size

\* The blocks lie one behind the other around the ring, from in_use_offset_ to
\* free_offset_, and turn at most once: no two of them share a byte.
BlocksInOrder ==
    /\ blocks_ = <<>> => in_use_offset_ = 0 /\ free_offset_ = 0
    /\ blocks_ # <<>> => /\ blocks_[1].offset = in_use_offset_
                         /\ Wrap(End(Len(blocks_))) = free_offset_
    /\ \A i \in 1..Len(blocks_) : blocks_[i].size > 0 /\ End(i) <= Size
    /\ \A i \in 1..(Len(blocks_) - 1) : blocks_[i + 1].offset = Wrap(End(i))
    /\ \A i, j \in 1..Len(blocks_) : i < j =>
          End(i) <= blocks_[j].offset
          \/ End(j) <= blocks_[i].offset

\* A block handed out is not read by commands of an earlier use of its memory.
NoOverwrite ==
    \A i \in 1..Len(blocks_) : InUse(i) => Untouched(blocks_[i].offset, blocks_[i].size)

\* FreeOldestBlock finds a block, and never one in use ("attempt to allocate more
\* than maximum memory").
OldestIsFreed == MustFree => blocks_ # <<>> /\ ~InUse(1)

\* Every call returns: a block of any size up to Size can be had; ring_buffer.h:
\* "Allocating a block of this size will succeed, but may block".  Unless the wait for
\* a token ends in the GPU_LOG(FATAL) of WaitForToken (see TokenAwaited).
CallsReturn == call \in {"Alloc", "delete"} ~> call \in {"none", "deleted"}
=============================================================================
