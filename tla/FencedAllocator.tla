---------------------------- MODULE FencedAllocator ----------------------------
(***************************************************************************)
(* FencedAllocator: transfer memory split into blocks that are in use,     *)
(* free, or free once a token has passed                                   *)
(* (gpu/command_buffer/client/fenced_allocator.cc).                        *)
(*                                                                         *)
(* The loops over the blocks change them as they go: each turn of one is a *)
(* step, and where it waits for a token the service runs.                  *)
(***************************************************************************)
EXTENDS TokenFence

VARIABLES
    blocks_,        \* by offset
    call, want,     \* what the client is doing; bytes asked for
    index           \* the loop variable

allocVars == <<blocks_, call, want, index>>
vars == <<fenceVars, allocVars>>

Block == [state : {"IN_USE", "FREE", "FREE_PENDING_TOKEN"},
          offset : 0..Size, size : 0..Size, token : Token]

TypeOK ==
    /\ FenceTypeOK
    /\ blocks_ \in Seq(Block)
    /\ call \in {"none", "Alloc", "FreeUnused", "delete", "deleted"}
    /\ want \in 0..Size
    /\ index \in 1..(Size + 1)

FreeBlock(offset, size) == [state |-> "FREE", offset |-> offset, size |-> size, token |-> 0]

Init ==
    /\ FenceInit
    /\ blocks_ = <<FreeBlock(0, Size)>>
    /\ call = "none" /\ want = 0 /\ index = 1

-----------------------------------------------------------------------------
(* Blocks                                                                  *)

IsFree(blocks, i) == i \in 1..Len(blocks) /\ blocks[i].state = "FREE"

\* Mutant: only the next block is looked at.
FirstJoined_Never(blocks, i) == i

FirstJoined(blocks, i) == IF IsFree(blocks, i - 1) THEN i - 1 ELSE i
LastJoined(blocks, i) == IF IsFree(blocks, i + 1) THEN i + 1 ELSE i

\* Block i becomes free, and CollapseFreeBlock joins it with its neighbours.
\* It is then at FirstJoined.
Freed(blocks, i) ==
    LET first == FirstJoined(blocks, i)
        last == LastJoined(blocks, i)
        size == blocks[i].size + (IF first < i THEN blocks[first].size ELSE 0)
                               + (IF i < last THEN blocks[last].size ELSE 0)
    IN
    SubSeq(blocks, 1, first - 1) \o <<FreeBlock(blocks[first].offset, size)>>
    \o SubSeq(blocks, last + 1, Len(blocks))

\* The first size bytes of block i are put in use, the rest stays free.
AllocInBlock(blocks, i, size) ==
    LET block == blocks[i]
        used == [block EXCEPT !.state = "IN_USE", !.size = size]
        rest == FreeBlock(block.offset + size, block.size - size)
    IN
    SubSeq(blocks, 1, i - 1)
    \o (IF block.size = size THEN <<used>> ELSE <<used, rest>>)
    \o SubSeq(blocks, i + 1, Len(blocks))

\* The blocks of a run follow each other in memory.
GetLargestFreeOrPendingSize ==
    LET n == Len(blocks_)
        runs == {r \in (1..n) \X (1..n) :
                   r[1] <= r[2] /\ \A i \in r[1]..r[2] : blocks_[i].state # "IN_USE"}
        length(r) == blocks_[r[2]].offset + blocks_[r[2]].size - blocks_[r[1]].offset
    IN
    CHOOSE max \in {0} \cup {length(r) : r \in runs} : \A r \in runs : length(r) <= max

-----------------------------------------------------------------------------
(* Operations                                                              *)

\* Alloc: the first free block that is large enough, if there is one; otherwise
\* the second loop begins.  The caller is given the offset of the block put in use.
Alloc(size) ==
    LET n == IF size = 0 THEN 1 ELSE size
        fits == {i \in 1..Len(blocks_) : IsFree(blocks_, i) /\ blocks_[i].size >= n}
    IN
    /\ call = "none"
    /\ \/ \E i \in fits :
             /\ \A j \in fits : i <= j
             /\ blocks_' = AllocInBlock(blocks_, i, n)
             /\ UNCHANGED <<call, want, index>>
       \/ /\ fits = {}
          /\ call' = "Alloc" /\ want' = n /\ index' = 1
          /\ UNCHANGED blocks_
    /\ UNCHANGED fenceVars

Scanning == call \in {"Alloc", "FreeUnused", "delete"} /\ index <= Len(blocks_)
Pending(i) == blocks_[i].state = "FREE_PENDING_TOKEN"

\* The turn of a loop that passes over a block: one not waiting for a token or,
\* in FreeUnused, for one not read yet.
SkipBlock ==
    /\ Scanning
    /\ \/ ~Pending(index)
       \/ call = "FreeUnused" /\ blocks_[index].token > last_token_read_
    /\ index' = index + 1
    /\ UNCHANGED <<fenceVars, blocks_, call, want>>

\* Mutant: the loop goes on from the index before the blocks were joined.
WaitForTokenAndFreeBlock_OldIndex ==
    LET i == FirstJoined(blocks_, index)
        freed == Freed(blocks_, index)
    IN
    /\ Scanning /\ call # "FreeUnused" /\ Pending(index)
    /\ TokenAwaited(blocks_[index].token)
    /\ IF call = "Alloc" /\ freed[i].size >= want
         THEN /\ blocks_' = AllocInBlock(freed, i, want)
              /\ call' = "none" /\ want' = 0 /\ index' = 1
         ELSE /\ blocks_' = freed
              /\ index' = index + 1
              /\ UNCHANGED <<call, want>>
    /\ UNCHANGED fenceVars

\* WaitForTokenAndFreeBlock, in Alloc and in the destructor.
WaitForTokenAndFreeBlock ==
    LET i == FirstJoined(blocks_, index)
        freed == Freed(blocks_, index)
    IN
    /\ Scanning /\ call # "FreeUnused" /\ Pending(index)
    /\ TokenAwaited(blocks_[index].token)
    /\ IF call = "Alloc" /\ freed[i].size >= want
         THEN /\ blocks_' = AllocInBlock(freed, i, want)
              /\ call' = "none" /\ want' = 0 /\ index' = 1
         ELSE /\ blocks_' = freed
              /\ index' = i + 1
              /\ UNCHANGED <<call, want>>
    /\ UNCHANGED fenceVars

FreeUnused ==
    /\ call = "none"
    /\ call' = "FreeUnused" /\ index' = 1
    /\ UNCHANGED <<fenceVars, blocks_, want>>

\* Mutant: a token that was inserted is taken for one that was read.
FreeUnusedBlock_Inserted ==
    /\ Scanning /\ call = "FreeUnused" /\ Pending(index)
    /\ blocks_[index].token <= token_
    /\ blocks_' = Freed(blocks_, index)
    /\ index' = FirstJoined(blocks_, index)
    /\ UNCHANGED <<fenceVars, call, want>>

\* The turn of FreeUnused for a block whose token has been read.
FreeUnusedBlock ==
    /\ Scanning /\ call = "FreeUnused" /\ Pending(index)
    /\ blocks_[index].token <= last_token_read_
    /\ blocks_' = Freed(blocks_, index)
    /\ index' = FirstJoined(blocks_, index)
    /\ UNCHANGED <<fenceVars, call, want>>

\* The end of a loop.  For Alloc it means that there is no room: kInvalidOffset.
LoopEnds ==
    /\ call \in {"Alloc", "FreeUnused", "delete"} /\ ~Scanning
    /\ call' = IF call = "delete" THEN "deleted" ELSE "none"
    /\ want' = 0 /\ index' = 1
    /\ UNCHANGED <<fenceVars, blocks_>>

\* Free of a block no command uses.
Free ==
    \E i \in 1..Len(blocks_) :
       /\ call = "none" /\ blocks_[i].state = "IN_USE"
       /\ blocks_' = Freed(blocks_, i)
       /\ UNCHANGED <<fenceVars, call, want, index>>

\* FreePendingToken with a token inserted behind the commands that use the block.
FreePendingToken ==
    \E i \in 1..Len(blocks_) :
       /\ call = "none" /\ blocks_[i].state = "IN_USE"
       /\ InsertToken(blocks_[i].offset, blocks_[i].size)
       /\ blocks_' = [blocks_ EXCEPT ![i] =
                        [@ EXCEPT !.state = "FREE_PENDING_TOKEN", !.token = NextToken]]
       /\ UNCHANGED <<call, want, index>>

\* The destructor waits for every block that is pending.
Delete ==
    /\ call = "none"
    /\ call' = "delete" /\ index' = 1
    /\ UNCHANGED <<fenceVars, blocks_, want>>

\* FreeUnused looks at the state once and does not flush.
Fence ==
    /\ SetToken \/ LoseContext \/ (call # "FreeUnused" /\ SynchronizeState)
    /\ UNCHANGED allocVars

\* What a call does after it has begun.
LoopStep == SkipBlock \/ WaitForTokenAndFreeBlock \/ FreeUnusedBlock \/ LoopEnds

Next ==
    \/ \E size \in 0..Size : Alloc(size)
    \/ FreeUnused \/ Free \/ FreePendingToken \/ Delete
    \/ LoopStep
    \/ Fence

Spec == Init /\ [][Next]_vars

Fairness ==
    /\ WF_vars(SetToken /\ Fence) /\ WF_vars(SynchronizeState /\ Fence)
    /\ WF_vars(LoopStep)

FairSpec == Spec /\ Fairness

-----------------------------------------------------------------------------
(* Properties                                                              *)

\* CheckConsistency, in the middle of the loops too: the blocks tile the memory and
\* no two free ones are next to each other.
CheckConsistency ==
    /\ TypeOK
    /\ Len(blocks_) >= 1
    /\ blocks_[1].offset = 0
    /\ blocks_[Len(blocks_)].offset + blocks_[Len(blocks_)].size = Size
    /\ \A i \in 1..Len(blocks_) : blocks_[i].size > 0
    /\ \A i \in 1..(Len(blocks_) - 1) :
          /\ blocks_[i + 1].offset = blocks_[i].offset + blocks_[i].size
          /\ ~(IsFree(blocks_, i) /\ IsFree(blocks_, i + 1))

\* Memory that is in use or free is not read by commands of an earlier use.
NoOverwrite ==
    \A i \in 1..Len(blocks_) : ~Pending(i) => Untouched(blocks_[i].offset, blocks_[i].size)

\* Alloc fails only when no run of blocks that are free or pending is large enough;
\* fenced_allocator.h: "Allocating a block of this size will succeed, but may block".
FailsOnlyWhenFull ==
    [][call = "Alloc" /\ call' = "none" /\ blocks_' = blocks_ =>
          want > GetLargestFreeOrPendingSize]_vars

\* Every call returns, tokens that wrap and lost contexts included, unless the wait for a
\* token ends in the GPU_LOG(FATAL) of WaitForToken (see TokenAwaited).
CallsReturn ==
    call \in {"Alloc", "FreeUnused", "delete"} ~> call \in {"none", "deleted"}
=============================================================================
