------------------------------- MODULE DiskCache -------------------------------
(***************************************************************************)
(* The entries of the disk cache over the rankings: the index              *)
(* (net/disk_cache/backend_impl.cc), the life of an entry (entry_impl.cc)  *)
(* and eviction (eviction.cc), with the process dying at any write and     *)
(* starting again on the files it left.                                    *)
(*                                                                         *)
(* One thread does all the work, so an operation starts when the one       *)
(* before it has made its last write.  An entry block and the rankings     *)
(* block of the entry share an address.  Each key has a bucket of its own  *)
(* in the index; sizes and times are left out, and with them the choice of *)
(* when to evict, from which list and how much, which is free.             *)
(***************************************************************************)
EXTENDS Rankings

CONSTANTS
    Keys,
    CacheTypes,     \* of "DISK_CACHE", "MEDIA_CACHE", "APP_CACHE"
    MaxCrashes,     \* bound on the number of crashes
    MaxReuse,       \* bound on the reuse of an entry: 2 for kHighUse, 1 for less
    NoKey

ASSUME CrashAssumption == MaxCrashes \in Nat /\ MaxReuse \in 1 .. 2

VARIABLES
    \* on disk
    entry,          \* EntryStore of each block
    table,          \* the index: address of the entry of each key, or Null
    allocated,      \* blocks in use, of block_files_
    \* in memory
    users,          \* entries somebody holds a reference to
    dirty_,         \* entries that were dirty when they were loaded
    doomed_,
    cache_type,
    crashes,
    accident        \* history, which no step reads: see Accidents

ranks == <<durable, open_entries_, mem, disabled_>>
files == <<entry, table, allocated>>
memory == <<users, dirty_, doomed_>>
past == <<crashes, accident>>
vars == <<ranks, todo, files, memory, cache_type, past>>

(***************************************************************************)
(* reuse stands for reuse_count: none, some, or kHighUse and more.         *)
(***************************************************************************)
EntryStore ==
    [key : Keys \cup {NoKey}, state : {"NORMAL", "EVICTED", "DOOMED"}, reuse : 0 .. MaxReuse]

ZeroEntry == [key |-> NoKey, state |-> "NORMAL", reuse |-> 0]
Fresh(k) == [ZeroEntry EXCEPT !.key = k]
NewNode == [ZeroNode EXCEPT !.contents = TRUE, !.dirty = "now"]

NodeCount == Cardinality(Nodes)

new_eviction_ == cache_type = "DISK_CACHE"
read_only_ == cache_type = "APP_CACHE"

ListForReuse(r) == <<"NO_USE", "LOW_USE", "HIGH_USE">>[r + 1]
GetListForEntry(n) == IF new_eviction_ THEN ListForReuse(entry[n].reuse) ELSE "NO_USE"

-----------------------------------------------------------------------------
(* Steps of a program, besides those of the rankings.                      *)

LoadStep(n) == [do |-> "load", at |-> n]
\* sets the dirty flag of the node of an open entry and stores it
Mark(n, v) == [do |-> "mark", at |-> n, flag |-> v]
SetEntry(n, e) == [do |-> "entry", at |-> n, data |-> e]
SetTable(k, n) == [do |-> "table", key |-> k, at |-> n]
\* dooms an entry; `gone': its state already says so, in memory
CallDoom(n, gone) == [do |-> "doom", at |-> n, gone |-> gone]
Doomed(n) == [do |-> "doomed", at |-> n]
Release(n) == [do |-> "release", at |-> n]
Free(n) == [do |-> "free", at |-> n]
CreateStep(k) == [do |-> "create", key |-> k]
TrimStep(empty) == [do |-> "trim", empty |-> empty]
TrimEnd == [do |-> "trimmed"]
RestartEnd == [do |-> "restarted"]

-----------------------------------------------------------------------------
(* Loading an entry                                                        *)

\* NewEntry() succeeds.
Loadable(n) ==
    \/ n \in open_entries_
    \/ entry[n].key # NoKey /\ SanityCheck(n, disk[n], FALSE)

\* The dirty_ of the entry that NewEntry() returns.
IsDirty(n) == IF n \in open_entries_ THEN n \in dirty_ ELSE disk[n].dirty = "old"

\* The entry was loaded far enough for its destructor to store the node.
LoadErrorSteps(n) ==
    When(entry[n].key # NoKey /\ disk[n].dirty # "old",
         <<Store(n, [disk[n] EXCEPT !.dirty = "no"], FALSE)>>)

NodeOf(n) == IF n \in open_entries_ THEN mem[n] ELSE disk[n]

\* EntryImpl::Update()
UpdateSteps(n) == When(~read_only_ /\ NodeOf(n).dirty = "no", <<Mark(n, "now")>>)

-----------------------------------------------------------------------------
(* Dooming                                                                 *)

OnDoomSteps(n) ==
    IF ~new_eviction_ THEN <<CallRemove(n, "NO_USE")>>
    ELSE When(entry[n].state = "NORMAL",
              <<CallRemove(n, GetListForEntry(n)),
                SetEntry(n, [entry[n] EXCEPT !.state = "DOOMED"]),
                CallInsert(n, "DELETED")>>)

DestroyInvalidSteps(n) == <<Mark(n, "now")>> \o OnDoomSteps(n) \o <<Doomed(n)>>

\* MatchEntry() on an entry of the index that cannot be used.  One that fails to load is
\* gone, with its destructor, before the index is written.
DropInvalidSteps(k, m) ==
    IF Loadable(m)
    THEN <<LoadStep(m), SetTable(k, Null)>> \o DestroyInvalidSteps(m) \o <<Release(m)>>
    ELSE LoadErrorSteps(m) \o <<SetTable(k, Null)>>

Usable(m) == Loadable(m) /\ ~IsDirty(m)

\* InternalDoomEntry() of an open entry, with the MatchEntry() that looks for it in
\* the index and may come upon another entry of the same key.
InternalDoomSteps(n, gone) ==
    LET k == entry[n].key
        m == table[k]
    IN CASE m = Null -> <<CallDoom(n, gone)>>
         [] m = n /\ ~IsDirty(n) -> <<CallDoom(n, gone), SetTable(k, Null)>>
         [] m = n /\ IsDirty(n) -> <<SetTable(k, Null)>> \o DestroyInvalidSteps(n)
         [] m \notin {n, Null} /\ Usable(m) ->
              <<LoadStep(m)>> \o UpdateSteps(m) \o <<Release(m), CallDoom(n, gone)>>
         [] m \notin {n, Null} /\ ~Usable(m) ->
              DropInvalidSteps(k, m) \o <<CallDoom(n, gone)>>

DoomImplSteps(n, gone) ==
    When(n \notin doomed_, <<Mark(n, "now")>> \o InternalDoomSteps(n, gone))

-----------------------------------------------------------------------------
(* Eviction                                                                *)

\* GetPrev(): the nodes of list l from its tail, and Null where the walk ends.
WalkBack(l) ==
    LET walk[i \in 0 .. NodeCount] ==
          IF i = 0 THEN tails[l]
          ELSE LET n == walk[i - 1]
               IN IF n = Null \/ n = heads[l] \/ ~Readable(n) THEN Null
                  ELSE IF Ranking(n).prev = n THEN Null ELSE Ranking(n).prev
    IN walk

\* GetRanking() or CheckSingleLink() fails on the i-th node of the walk.
WalkFails(walk, i) ==
    /\ walk[i] # Null
    /\ \/ ~Readable(walk[i])
       \/ i > 0 /\ Ranking(walk[i]).next # walk[i - 1]

InUse(n) == Ranking(n).dirty = "now"

\* Where the walk meets the next entry to evict; a node later may have been read.
Victims(walk, wanted) ==
    {i \in DOMAIN walk :
        /\ walk[i] \in wanted /\ Readable(walk[i])
        /\ \A j \in 0 .. i - 1 : walk[j] \notin wanted}

TrimFails(walk, wanted) ==
    \E i \in DOMAIN walk :
        /\ WalkFails(walk, i)
        /\ \A v \in Victims(walk, wanted) : i <= v + 1

\* GetEnumeratedEntry(), then what the caller does with a usable entry.
EnumeratedSteps(n, then) ==
    CASE ~Loadable(n) -> LoadErrorSteps(n)
      [] Loadable(n) /\ IsDirty(n) ->
           <<LoadStep(n)>> \o InternalDoomSteps(n, FALSE) \o <<Release(n)>>
      [] OTHER -> <<LoadStep(n)>> \o UpdateSteps(n) \o then

EvictSteps(n, empty) ==
    EnumeratedSteps(n,
        (IF empty \/ ~new_eviction_ THEN DoomImplSteps(n, FALSE)
         ELSE <<CallRemove(n, GetListForEntry(n)),
                SetEntry(n, [entry[n] EXCEPT !.state = "EVICTED"]),
                CallInsert(n, "DELETED")>>)
        \o <<Release(n)>>)

\* RemoveDeletedNode() sets the state, in memory, before it dooms the entry.
RemoveDeletedSteps(n) ==
    EnumeratedSteps(n, DoomImplSteps(n, TRUE) \o <<Release(n)>>)

LiveLists == IF new_eviction_ THEN Lists \ {"DELETED"} ELSE {"NO_USE"}
Restarting == \E i \in DOMAIN todo : todo[i].do = "restarted"
trimming_ == \E i \in DOMAIN todo : todo[i].do = "trimmed"

-----------------------------------------------------------------------------
(* The lists as a reader of the disk finds them                            *)

\* Nodes of list l, with a change in progress taken as made (an insertion) or as not
\* yet made (a removal).
InList(l) ==
    LET n == transaction.addr
        inserting == transaction.operation = "INSERT" /\ transaction.list = l
        removing == /\ transaction.operation = "REMOVE" /\ transaction.list = l
                    /\ disk[n].next # Null
        After(m) == IF removing /\ m # n /\ m = disk[n].prev THEN n ELSE disk[m].next
        next == [m \in Addr |-> IF m = Null \/ After(m) = m THEN Null ELSE After(m)]
        first == CASE removing /\ disk[n].prev = n -> n
                   [] inserting /\ heads[l] = n -> next[n]
                   [] OTHER -> heads[l]
        walk[i \in 1 .. NodeCount] == IF i = 1 THEN first ELSE next[walk[i - 1]]
    IN When(inserting, <<n>>)
       \o SelectSeq([i \in 1 .. NodeCount |-> walk[i]], LAMBDA m : m # Null)

\* The list that the record of an entry names.
ListOfEntry(n) ==
    IF entry[n].state = "NORMAL" \/ ~new_eviction_ THEN GetListForEntry(n) ELSE "DELETED"

-----------------------------------------------------------------------------
(* Accidents: four things that can happen to the cache and that the code   *)
(* does not survive.  After one of them nothing is claimed.                *)

\* 1. A crash when FinishInsert() has closed the transaction that it found and Insert()
\* has not opened its own (rankings.cc:631, 238).
Unprotected ==
    /\ \E i \in DOMAIN todo : todo[i].do = "recovered"
    /\ Doing("insert") \/ Doing("transaction")
    /\ transaction = NoTransaction

\* 2. A crash while a node is in another list than its entry says: the entry is stored
\* after the node was moved (OnOpenEntryV2, eviction.cc:384) or before (OnCreateEntryV2 of
\* an evicted entry, 413).
Misfiled ==
    \E l \in Lists : \E n \in Range(InList(l)) :
          l # ListOfEntry(n)

\* 3. The trimming that RecoveredEntry() may set off (backend_impl.cc:893, 949) evicts the
\* entry whose address is to be put into the index next.
RecoveredEvicted ==
    \E i \in DOMAIN todo :
        todo[i].do = "table" /\ Release(todo[i].at) \in Range(todo)

\* 4. A read-only cache (backend_impl.cc:495) does not mark the entries it opens as in use,
\* and a neighbour's links are changed on disk but not in the memory of its entry.
Stale ==
    /\ read_only_
    /\ \E n \in open_entries_ :
          \/ mem[n].next # disk[n].next
          \/ mem[n].prev # disk[n].prev

-----------------------------------------------------------------------------
(* Executing a program                                                     *)

\* The writes and calls of Rankings.
RankingsStep ==
    /\ Execute
    /\ UNCHANGED <<files, memory, cache_type, crashes>>
    /\ accident' = (accident \/ Stale')

LoadEntry ==
    /\ Doing("load")
    /\ LET n == Head(todo).at
       IN /\ open_entries_' = open_entries_ \cup {n}
          /\ mem' = [mem EXCEPT ![n] = NodeOf(n)]
          /\ dirty_' = IF IsDirty(n) THEN dirty_ \cup {n} ELSE dirty_
    /\ todo' = Tail(todo)
    /\ UNCHANGED <<durable, disabled_, files, users, doomed_, cache_type, past>>

MarkNode ==
    /\ Doing("mark")
    /\ LET n == Head(todo).at
           node == [mem[n] EXCEPT !.dirty = Head(todo).flag]
       IN /\ mem' = [mem EXCEPT ![n] = node]
          /\ disk' = [disk EXCEPT ![n] = node]
    /\ todo' = Tail(todo)
    /\ UNCHANGED <<heads, tails, transaction, open_entries_, disabled_, files, memory,
                   cache_type, past>>

StoreEntry ==
    /\ Doing("entry")
    /\ entry' = [entry EXCEPT ![Head(todo).at] = Head(todo).data]
    /\ todo' = Tail(todo)
    /\ UNCHANGED <<ranks, table, allocated, memory, cache_type, past>>

WriteTable ==
    /\ Doing("table")
    /\ table' = [table EXCEPT ![Head(todo).key] = Head(todo).at]
    /\ todo' = Tail(todo)
    /\ UNCHANGED <<ranks, entry, allocated, memory, cache_type, past>>

InternalDoom ==
    /\ Doing("doomed")
    /\ doomed_' = doomed_ \cup {Head(todo).at}
    /\ todo' = Tail(todo)
    /\ UNCHANGED <<ranks, files, users, dirty_, cache_type, past>>

\* The entry may have been doomed by the search for it in the index.
DoomOpenEntry ==
    /\ Doing("doom")
    /\ LET n == Head(todo).at
       IN todo' = When(n \notin doomed_,
                       When(~(new_eviction_ /\ Head(todo).gone), OnDoomSteps(n)) \o <<Doomed(n)>>)
                  \o Tail(todo)
    /\ UNCHANGED <<ranks, files, memory, cache_type, past>>


\* The destructor, when nobody else holds the entry, which is no longer open.  What is
\* left of the program is kept from evicting if it is itself an eviction.
DestroySteps(n, saved) ==
    IF n \in doomed_
    THEN When(new_eviction_, <<CallRemove(n, "DELETED")>>)
         \o <<Store(n, ZeroNode, TRUE), SetEntry(n, ZeroEntry), Free(n)>>
    ELSE When(~saved, <<Store(n, [mem[n] EXCEPT !.dirty = "old"], FALSE)>>)
         \o When(saved /\ n \notin dirty_, <<Store(n, [mem[n] EXCEPT !.dirty = "no"], FALSE)>>)

Destroy(n, saved, rest) ==
    /\ mem' = IF n \in doomed_ THEN mem ELSE [mem EXCEPT ![n] = ZeroNode]
    /\ open_entries_' = open_entries_ \ {n}
    /\ dirty_' = dirty_ \ {n}
    /\ doomed_' = doomed_ \ {n}
    /\ todo' = DestroySteps(n, saved)
               \o When(rest # <<>> /\ ~trimming_ /\ ~read_only_, <<TrimStep(FALSE), TrimEnd>>)
               \o rest

ReleaseEntry ==
    /\ Doing("release")
    /\ LET n == Head(todo).at
       IN IF n \in users \/ Release(n) \in Range(Tail(todo))
          THEN todo' = Tail(todo) /\ UNCHANGED <<open_entries_, mem, dirty_, doomed_>>
          ELSE Destroy(n, TRUE, Tail(todo))
    /\ UNCHANGED <<durable, disabled_, files, users, cache_type, past>>

DeleteBlock ==
    /\ Doing("free")
    /\ allocated' = allocated \ {Head(todo).at}
    /\ todo' = Tail(todo)
    /\ UNCHANGED <<ranks, entry, table, memory, cache_type, past>>

\* The end of CreateEntryImpl(): new blocks, unless there are none.
CreateNew ==
    /\ Doing("create")
    /\ LET k == Head(todo).key
       IN \/ \E n \in Nodes \ allocated :
                /\ allocated' = allocated \cup {n}
                /\ open_entries_' = open_entries_ \cup {n}
                /\ mem' = [mem EXCEPT ![n] = NewNode]
                /\ users' = users \cup {n}
                /\ todo' = <<SetEntry(n, Fresh(k)), Store(n, NewNode, TRUE),
                             CallInsert(n, "NO_USE"), SetTable(k, n)>>
          \/ /\ allocated = Nodes
             /\ todo' = <<>>
             /\ UNCHANGED <<allocated, open_entries_, mem, users>>
    /\ UNCHANGED <<durable, disabled_, entry, table, dirty_, doomed_, cache_type, past>>

\* TrimCache(), one entry at a time; `empty' goes on to the last.
EvictFrom(l, wanted, steps) ==
    LET walk == WalkBack(l)
    IN IF TrimFails(walk, wanted)
       THEN disabled_' = TRUE /\ todo' = <<>>
       ELSE /\ \E v \in Victims(walk, wanted) :
                   todo' = steps[walk[v]] \o todo
            /\ UNCHANGED disabled_

Trim ==
    /\ Doing("trim")
    /\ ~Head(todo).empty
    /\ \/ /\ todo' = Tail(todo)
          /\ UNCHANGED disabled_
       \/ \E l \in LiveLists :
             EvictFrom(l, {n \in Nodes : ~InUse(n)},
                       [n \in Nodes |-> EvictSteps(n, FALSE)])
    /\ accident' = (accident \/ RecoveredEvicted')
    /\ UNCHANGED <<durable, open_entries_, mem, files, memory, cache_type, crashes>>

TrimAll ==
    /\ Doing("trim")
    /\ Head(todo).empty
    /\ LET live == {l \in LiveLists : tails[l] # Null}
           unheld == Nodes \ open_entries_
       IN IF live # {}
          THEN EvictFrom(CHOOSE l \in live : TRUE, Nodes,
                         [n \in Nodes |-> EvictSteps(n, TRUE)])
          ELSE \/ EvictFrom("DELETED", unheld,
                            [n \in Nodes |-> RemoveDeletedSteps(n)])
               \/ /\ Victims(WalkBack("DELETED"), unheld) = {}
                  /\ todo' = Tail(todo)
                  /\ UNCHANGED disabled_
    /\ UNCHANGED <<durable, open_entries_, mem, files, memory, cache_type, past>>

EndOfTask ==
    /\ Doing("trimmed") \/ Doing("restarted")
    /\ todo' = Tail(todo)
    /\ UNCHANGED <<ranks, files, memory, cache_type, past>>

\* RecoveredEntry(): loads the entry, puts it in the index if its bucket is empty.
RecoverEntry ==
    /\ Doing("recovered")
    /\ LET n == Head(todo).at
           k == entry[n].key
       IN todo' = (IF Loadable(n)
                   THEN <<LoadStep(n), Release(n)>>
                        \o When(table[k] = Null, <<SetTable(k, n)>>)
                   ELSE LoadErrorSteps(n))
                  \o Tail(todo)
    /\ UNCHANGED <<ranks, files, memory, cache_type, past>>

-----------------------------------------------------------------------------
(* Operations                                                              *)

Idle == todo = <<>> /\ ~disabled_

\* OpenEntryImpl(); a second reference to an open entry is not told from the first.
OpenEntry(k) ==
    /\ Idle
    /\ table[k] # Null
    /\ LET n == table[k]
           reuse == IF entry[n].reuse = 0 THEN {1} ELSE {entry[n].reuse, MaxReuse}
           hit == Usable(n) /\ entry[n].state = "NORMAL"
       IN /\ \E r \in reuse :
                todo' = CASE ~Usable(n) -> DropInvalidSteps(k, n)
                          [] Usable(n) /\ ~hit ->
                               <<LoadStep(n)>> \o UpdateSteps(n) \o <<Release(n)>>
                          [] hit ->
                               <<LoadStep(n)>> \o UpdateSteps(n)
                               \o When(new_eviction_ /\ r # entry[n].reuse,
                                       <<CallRemove(n, ListForReuse(entry[n].reuse)),
                                         CallInsert(n, ListForReuse(r)),
                                         SetEntry(n, [entry[n] EXCEPT !.reuse = r])>>)
          /\ users' = IF hit THEN users \cup {n} ELSE users
    /\ UNCHANGED <<ranks, files, dirty_, doomed_, cache_type, past>>

\* CreateEntryImpl(), which brings an evicted entry back.
CreateEntry(k) ==
    /\ Idle
    /\ LET n == table[k]
           resurrect == n # Null /\ Usable(n) /\ entry[n].state # "NORMAL"
       IN /\ \E r \in 1 .. MaxReuse :
                /\ n # Null => r >= entry[n].reuse
                /\ todo' = CASE n = Null -> <<CreateStep(k)>>
                             [] n # Null /\ ~Usable(n) ->
                                  DropInvalidSteps(k, n) \o <<CreateStep(k)>>
                             [] resurrect ->
                                  <<LoadStep(n)>> \o UpdateSteps(n)
                                  \o <<SetEntry(n, [entry[n] EXCEPT !.state = "NORMAL",
                                                                    !.reuse = r]),
                                       CallRemove(n, "DELETED"),
                                       CallInsert(n, ListForReuse(r))>>
                             [] OTHER -> <<LoadStep(n)>> \o UpdateSteps(n) \o <<Release(n)>>
          /\ users' = IF resurrect THEN users \cup {n} ELSE users
    /\ UNCHANGED <<ranks, files, dirty_, doomed_, cache_type, past>>

\* Opens an entry met in a list: OpenNextEntryImpl(), OpenPrevEntryImpl().
OpenFollowingEntry(n) ==
    /\ Idle
    /\ \E l \in LiveLists : \E i \in DOMAIN WalkBack(l) : WalkBack(l)[i] = n
    /\ todo' = EnumeratedSteps(n, <<>>)
    /\ users' = IF Usable(n) THEN users \cup {n} ELSE users
    /\ UNCHANGED <<ranks, files, dirty_, doomed_, cache_type, past>>

DoomEntry(n) ==
    /\ Idle
    /\ n \in users \ doomed_
    /\ todo' = DoomImplSteps(n, FALSE)
    /\ UNCHANGED <<ranks, files, memory, cache_type, past>>

\* The last reference goes; `saved': the data was written out.
CloseEntry(n, saved) ==
    /\ Idle
    /\ n \in users
    /\ users' = users \ {n}
    /\ Destroy(n, saved, <<>>)
    /\ UNCHANGED <<durable, disabled_, files, cache_type, past>>

\* EntryImpl::UpdateRank(), of every read and write.
UpdateRank(n) ==
    /\ Idle
    /\ n \in users \ doomed_
    /\ ~read_only_
    /\ heads[GetListForEntry(n)] # n
    /\ todo' = <<CallRemove(n, GetListForEntry(n)), CallInsert(n, GetListForEntry(n))>>
    /\ UNCHANGED <<ranks, files, memory, cache_type, past>>

\* TrimCache(false), from a destructor or a task; TrimCache(true), of DoomAllEntries().
TrimCache(empty) ==
    /\ Idle
    /\ IF empty THEN open_entries_ # {} ELSE ~read_only_
    /\ todo' = <<TrimStep(empty), TrimEnd>>
    /\ UNCHANGED <<ranks, files, memory, cache_type, past>>

TrimDeleted ==
    /\ Idle
    /\ new_eviction_
    /\ EvictFrom("DELETED", Nodes \ open_entries_, [n \in Nodes |-> RemoveDeletedSteps(n)])
    /\ UNCHANGED <<durable, open_entries_, mem, files, memory, cache_type, past>>

-----------------------------------------------------------------------------
(* Crash and restart                                                       *)

\* The process dies between two writes and the cache is opened again.
Crash ==
    /\ Restarting \/ crashes < MaxCrashes
    /\ ~disabled_
    /\ crashes' = IF Restarting THEN crashes ELSE crashes + 1
    /\ accident' = (accident \/ Unprotected \/ Misfiled)
    /\ disk' = [n \in Nodes |->
                  [disk[n] EXCEPT !.dirty = IF @ = "no" THEN "no" ELSE "old"]]
    /\ todo' = When(transaction.addr # Null, <<CallRecovery, RestartEnd>>)
    /\ open_entries_' = {} /\ users' = {} /\ dirty_' = {} /\ doomed_' = {}
    /\ mem' = [n \in Nodes |-> ZeroNode]
    /\ UNCHANGED <<heads, tails, transaction, disabled_, files, cache_type>>

-----------------------------------------------------------------------------
Init ==
    /\ cache_type \in CacheTypes
    /\ disk = [n \in Nodes |-> ZeroNode]
    /\ mem = disk
    /\ heads = [l \in Lists |-> Null]
    /\ tails = heads
    /\ transaction = NoTransaction
    /\ entry = [n \in Nodes |-> ZeroEntry]
    /\ table = [k \in Keys |-> Null]
    /\ allocated = {}
    /\ open_entries_ = {} /\ users = {} /\ dirty_ = {} /\ doomed_ = {}
    /\ todo = <<>>
    /\ disabled_ = FALSE
    /\ crashes = 0
    /\ accident = FALSE

Next ==
    \/ RankingsStep \/ LoadEntry \/ MarkNode \/ StoreEntry \/ WriteTable
    \/ DoomOpenEntry \/ InternalDoom \/ ReleaseEntry \/ DeleteBlock \/ CreateNew \/ RecoverEntry
    \/ Trim \/ TrimAll \/ EndOfTask
    \/ \E k \in Keys : OpenEntry(k) \/ CreateEntry(k)
    \/ \E n \in Nodes :
          \/ OpenFollowingEntry(n) \/ DoomEntry(n) \/ UpdateRank(n)
          \/ \E saved \in BOOLEAN : CloseEntry(n, saved)
    \/ \E empty \in BOOLEAN : TrimCache(empty)
    \/ TrimDeleted
    \/ Crash

Spec == Init /\ [][Next]_vars

-----------------------------------------------------------------------------
(* Properties                                                              *)

\* Type correctness; an entry is loaded before it is dirty, doomed or held, and between
\* operations the open entries are those that somebody holds.
TypeOK ==
    /\ disk \in [Nodes -> RankingsNode] /\ mem \in [Nodes -> RankingsNode]
    /\ heads \in [Lists -> Addr] /\ tails \in [Lists -> Addr]
    /\ entry \in [Nodes -> EntryStore] /\ table \in [Keys -> Addr]
    /\ allocated \subseteq Nodes
    /\ dirty_ \subseteq open_entries_ /\ doomed_ \subseteq open_entries_
    /\ crashes \in 0 .. MaxCrashes /\ accident \in BOOLEAN
    /\ Idle => open_entries_ = users

\* CheckList() of Rankings::SelfCheck(), for a list without a change in progress.
CheckList(l) ==
    LET s == InList(l)
    IN /\ (heads[l] = Null) <=> (tails[l] = Null)
       /\ s # <<>> => /\ heads[l] = s[1] /\ tails[l] = Last(s)
                      /\ disk[Last(s)].next = Last(s)
                      /\ disk[s[1]].prev = s[1]
       /\ \A i \in 2 .. Len(s) : disk[s[i]].prev = s[i - 1]

\* Between two operations the lists pass the integrity check that the unit tests of the
\* cache end with, and no operation comes upon damaged links, which would throw the whole
\* cache away (CriticalError()).  So it is after a crash at any write (rankings.cc:28,
\* Transaction), but for the accidents: a second crash where FinishInsert() has closed the
\* transaction, a crash where a node and its entry name different lists, an eviction of
\* the entry just recovered, and a stale copy in a read-only cache.
SelfCheck ==
    /\ TypeOK
    /\ ~accident =>
          /\ ~disabled_
          /\ todo = <<>> => \A l \in Lists : CheckList(l)

\* Between two operations an entry that was closed with its data written out is in the
\* index, and in the list that its record names.
CleanEntriesListed ==
    todo = <<>> =>
        \A n \in allocated :
            disk[n].contents /\ disk[n].dirty = "no" /\ n \notin open_entries_ =>
                /\ table[entry[n].key] = n
                /\ n \in Range(InList(ListOfEntry(n)))

\* The index, a list or a user never has the address of a block that was freed, so a block
\* is never given to a second entry while the first is reachable.
NoDanglingAddress ==
    /\ \A k \in Keys : table[k] # Null => table[k] \in allocated /\ entry[table[k]].key = k
    /\ \A l \in Lists : Range(InList(l)) \subseteq allocated
    /\ users \subseteq allocated


L == INSTANCE LruLists WITH
        lists <- [NO_USE |-> InList("NO_USE"), LOW_USE |-> InList("LOW_USE"),
                  HIGH_USE |-> InList("HIGH_USE"), DELETED |-> InList("DELETED")]

\* The writes of an operation, with crashes and recovery in between, implement lists in
\* which one entry at a time comes in at the head or goes out, until an accident: no other
\* crash loses, doubles or reorders entries (rankings.cc, Insert, Remove,
\* CompleteTransaction).  After a crash where a node and its entry name different lists,
\* the node is later taken out of the wrong one; after one where FinishInsert() has closed
\* the transaction, the links of a list are half written.
LruSpec == L!Spec
===============================================================================
