------------------------------- MODULE Rankings -------------------------------
(***************************************************************************)
(* The LRU lists of the disk cache (net/disk_cache/rankings.cc): doubly    *)
(* linked lists of blocks on disk, changed by one thread, and a record of  *)
(* the change in progress from which a change cut short by a crash is      *)
(* finished or undone.                                                     *)
(*                                                                         *)
(* What is written to the index or to a block file survives the process,   *)
(* what is in memory does not.  An operation is a program: `todo' holds    *)
(* the writes still to be made, one step each, so that the process can die *)
(* between any two of them.  What an operation writes follows from what it *)
(* finds when it starts, as no other thread touches the lists.             *)
(***************************************************************************)
EXTENDS Naturals, SequencesExt, FiniteSets

CONSTANTS
    Nodes,      \* addresses of the blocks of the rankings file
    Null        \* the address 0

ASSUME NodesAssumption == Null \notin Nodes /\ IsFiniteSet(Nodes)

VARIABLES
    \* on disk
    disk,           \* RankingsNode of each block
    heads, tails,   \* LruData
    transaction,    \* LruData: transaction, operation, operation_list
    \* in memory
    open_entries_,  \* entries for which there is an EntryImpl
    mem,            \* its copy of the RankingsNode
    disabled_,      \* CriticalError() was called: the files are given up
    todo

durable == <<disk, heads, tails, transaction>>

Addr == Nodes \cup {Null}
Lists == {"NO_USE", "LOW_USE", "HIGH_USE", "DELETED"}

(***************************************************************************)
(* `dirty' is the id of the run that changes the entry: "now" for this run *)
(* of the cache, "old" for an earlier one, "no" for 0.                     *)
(***************************************************************************)
RankingsNode ==
    [next : Addr, prev : Addr, dirty : {"no", "now", "old"}, contents : BOOLEAN]

ZeroNode == [next |-> Null, prev |-> Null, dirty |-> "no", contents |-> FALSE]

NoTransaction == [addr |-> Null, operation |-> "none", list |-> "NO_USE"]

-----------------------------------------------------------------------------
(* Steps of a program: the writes.                                         *)

\* Store() of a block.  `shared': the block is the memory of an open entry.
Store(n, data, shared) ==
    [do |-> "store", at |-> n, data |-> data, shared |-> shared]
WriteHead(l, n) == [do |-> "head", list |-> l, at |-> n]
WriteTail(l, n) == [do |-> "tail", list |-> l, at |-> n]
Begin(n, op, l) == [do |-> "transaction",
                    to |-> [addr |-> n, operation |-> op, list |-> l]]
End == [do |-> "transaction", to |-> NoTransaction]
\* and calls that become writes when their turn comes
CallInsert(n, l) == [do |-> "insert", at |-> n, list |-> l]
CallRemove(n, l) == [do |-> "remove", at |-> n, list |-> l]

Recovered(n) == [do |-> "recovered", at |-> n]
CallRecovery == [do |-> "recover"]

\* Optional part of a program.
When(cond, steps) == IF cond THEN steps ELSE <<>>

-----------------------------------------------------------------------------
(* Reading nodes                                                           *)

IsHead(n) == \E l \in Lists : heads[l] = n
IsTail(n) == \E l \in Lists : tails[l] = n

SanityCheck(n, data, from_list) ==
    /\ data.contents
    /\ from_list => data.next # Null /\ data.prev # Null
    /\ (data.next = Null) <=> (data.prev = Null)
    /\ data.prev = n => IsHead(n)
    /\ data.next = n => IsTail(n)

\* What GetRanking() returns for a sane node: the memory of the entry if the node
\* is marked as in use and the entry is open, else a copy that is not trusted.
Shared(n) == disk[n].dirty # "no" /\ n \in open_entries_

Ranking(n) ==
    IF Shared(n) THEN mem[n]
    ELSE [disk[n] EXCEPT !.dirty = IF @ = "no" THEN "no" ELSE "old"]

Readable(n) == n # Null /\ SanityCheck(n, disk[n], TRUE)

-----------------------------------------------------------------------------
(* Insert                                                                  *)

InsertFails(n, l) ==
    LET head == heads[l]
    IN /\ head # Null
       /\ \/ ~Readable(head)
          \/ Ranking(head).prev \notin {head, n}

\* With a fault: the head of the list is written before the node.
InsertSteps_HeadEarly(n, node, l) ==
    LET head == heads[l]
        only == tails[l] \in {Null, n}
    IN <<Begin(n, "INSERT", l), WriteHead(l, n)>>
       \o When(head # Null,
               <<Store(head, [Ranking(head) EXCEPT !.prev = n], Shared(head))>>)
       \o When(only, <<WriteTail(l, n)>>)
       \o <<Store(n, [node EXCEPT !.next = IF only THEN n ELSE head, !.prev = n],
                  n \in open_entries_),
            End>>

\* Inserting a node with the data `node' at the head of list l.
InsertSteps(n, node, l) ==
    LET head == heads[l]
        only == tails[l] \in {Null, n}
    IN <<Begin(n, "INSERT", l)>>
       \o When(head # Null,
               <<Store(head, [Ranking(head) EXCEPT !.prev = n], Shared(head))>>)
       \o When(only, <<WriteTail(l, n)>>)
       \o <<Store(n, [node EXCEPT !.next = IF only THEN n ELSE head,
                                  !.prev = n],
                  n \in open_entries_),
            WriteHead(l, n),
            End>>

-----------------------------------------------------------------------------
(* Remove                                                                  *)

\* CheckLinks(): the outcome, and the list the node is taken from.
Regular(n) ==
    /\ Ranking(mem[n].prev).next = n
    /\ Ranking(mem[n].next).prev = n

OutOfList(n) ==
    LET next == mem[n].next
        prev == mem[n].prev
    IN /\ n \notin {next, prev}
       /\ Ranking(prev).next = next
       /\ Ranking(next).prev = prev

AtEnd(n) ==
    \/ /\ Ranking(mem[n].next).prev = n
       /\ IsHead(n)
    \/ /\ Ranking(mem[n].prev).next = n
       /\ IsTail(n)

ListOf(n, l) ==
    CASE Regular(n) -> l
      [] Ranking(mem[n].prev).next # n -> CHOOSE k \in Lists : heads[k] = n
      [] OTHER -> CHOOSE k \in Lists : tails[k] = n

Unlinked(n) == mem[n].next = Null \/ mem[n].prev = Null

RemoveFails(n) ==
    /\ ~Unlinked(n)
    /\ \/ ~Readable(mem[n].next)
       \/ ~Readable(mem[n].prev)
       \/ ~Regular(n) /\ ~OutOfList(n) /\ ~AtEnd(n)

\* The writes that take n out of list l.  Where n is its own neighbour and its
\* entry is open, the neighbour's block is the memory of the node itself.
UnlinkSteps(n, l) ==
    LET next == mem[n].next
        prev == mem[n].prev
        only == n \in {heads[l], tails[l]} /\ heads[l] = tails[l]
        first == n = heads[l] /\ ~only
        last == n = tails[l] /\ ~only /\ ~first
        gone == [mem[n] EXCEPT !.next = Null, !.prev = Null]
        nextData == [Ranking(next) EXCEPT !.prev = IF first THEN next ELSE prev]
        prevData == [Ranking(prev) EXCEPT !.next = IF last THEN prev ELSE next]
        StoreNeighbour(m, data) ==
            IF m = n /\ Shared(n) THEN Store(n, gone, TRUE)
            ELSE Store(m, data, Shared(m))
    IN <<Begin(n, "REMOVE", l)>>
       \o When(only, <<WriteHead(l, Null), WriteTail(l, Null)>>)
       \o When(first, <<WriteHead(l, next)>>)
       \o When(last, <<WriteTail(l, prev), StoreNeighbour(prev, prevData)>>)
       \o <<StoreNeighbour(next, nextData),
            StoreNeighbour(prev, prevData),
            Store(n, gone, TRUE),
            End>>

RemoveSteps(n, l) ==
    IF Unlinked(n) THEN <<>>
    ELSE IF ~Regular(n) /\ OutOfList(n)
    THEN <<Store(n, [mem[n] EXCEPT !.next = Null, !.prev = Null], TRUE)>>
    ELSE UnlinkSteps(n, ListOf(n, l))

-----------------------------------------------------------------------------
(* Recovery                                                                *)

RevertRemoveSteps(n, l) ==
    LET next == disk[n].next
        prev == disk[n].prev
        empty == heads[l] = Null \/ tails[l] = Null
        first == ~empty /\ heads[l] = next
        last == ~empty /\ ~first /\ tails[l] = prev
    IN IF next = Null \/ prev = Null THEN <<End>>
       ELSE When(empty \/ first, <<WriteHead(l, n)>>)
            \o When(empty \/ last, <<WriteTail(l, n)>>)
            \o <<Store(next,
                       [disk[next] EXCEPT
                           !.prev = CASE last -> prev
                                      [] ~last /\ next # n -> n
                                      [] OTHER -> @],
                       FALSE),
                 Store(prev,
                       [disk[prev] EXCEPT
                           !.next = CASE first -> next
                                      [] ~first /\ prev # n -> n
                                      [] OTHER -> @],
                       FALSE),
                 End>>

\* With a fault: a node that became the head before the crash is inserted again.
FinishInsertSteps_Again(n, l) == <<End, CallInsert(n, l), Recovered(n)>>

\* Insert() begins a transaction of its own; the backend is told in the end.
FinishInsertSteps(n, l) ==
    <<End>> \o When(heads[l] # n, <<CallInsert(n, l)>>) \o <<Recovered(n)>>

-----------------------------------------------------------------------------
(* Executing a program                                                     *)

Doing(what) == todo # <<>> /\ Head(todo).do = what

StoreNode ==
    /\ Doing("store")
    /\ LET s == Head(todo)
       IN /\ disk' = [disk EXCEPT ![s.at] = s.data]
          /\ mem' = IF s.shared THEN [mem EXCEPT ![s.at] = s.data] ELSE mem
    /\ todo' = Tail(todo)
    /\ UNCHANGED <<heads, tails, transaction, open_entries_, disabled_>>

StoreHead ==
    /\ Doing("head")
    /\ heads' = [heads EXCEPT ![Head(todo).list] = Head(todo).at]
    /\ todo' = Tail(todo)
    /\ UNCHANGED <<disk, tails, transaction, open_entries_, mem, disabled_>>

StoreTail ==
    /\ Doing("tail")
    /\ tails' = [tails EXCEPT ![Head(todo).list] = Head(todo).at]
    /\ todo' = Tail(todo)
    /\ UNCHANGED <<disk, heads, transaction, open_entries_, mem, disabled_>>

StoreTransaction ==
    /\ Doing("transaction")
    /\ transaction' = Head(todo).to
    /\ todo' = Tail(todo)
    /\ UNCHANGED <<disk, heads, tails, open_entries_, mem, disabled_>>

Insert ==
    /\ Doing("insert")
    /\ LET n == Head(todo).at
           l == Head(todo).list
       IN /\ disabled_' = InsertFails(n, l)
          /\ todo' = IF InsertFails(n, l) THEN <<>>
                     ELSE InsertSteps(n, mem[n], l) \o Tail(todo)
    /\ UNCHANGED <<durable, open_entries_, mem>>

Unlink ==
    /\ Doing("remove")
    /\ LET n == Head(todo).at
       IN /\ disabled_' = RemoveFails(n)
          /\ todo' = IF RemoveFails(n) THEN <<>>
                     ELSE RemoveSteps(n, Head(todo).list) \o Tail(todo)
    /\ UNCHANGED <<durable, open_entries_, mem>>

\* CompleteTransaction() of Init(): the node of the transaction is loaded.
CompleteTransaction ==
    /\ Doing("recover")
    /\ LET n == transaction.addr
           l == transaction.list
           inserting == transaction.operation = "INSERT"
       IN /\ mem' = IF inserting THEN [mem EXCEPT ![n] = disk[n]] ELSE mem
          /\ todo' = IF inserting THEN FinishInsertSteps(n, l) \o Tail(todo)
                     ELSE RevertRemoveSteps(n, l) \o Tail(todo)
    /\ UNCHANGED <<durable, open_entries_, disabled_>>

Execute ==
    \/ CompleteTransaction
    \/ StoreNode \/ StoreHead \/ StoreTail \/ StoreTransaction
    \/ Insert \/ Unlink
===============================================================================
