----------------------------- MODULE HttpCache -----------------------------
(***************************************************************************)
(* The HTTP cache (net/http/http_cache.cc) and the part of its             *)
(* transactions (net/http/http_cache_transaction.cc) that the cache's own  *)
(* state depends on.                                                       *)
(*                                                                         *)
(* Everything runs on one thread, the IO thread, but nothing runs to the   *)
(* end: a transaction is a state machine that stops wherever the backend,  *)
(* the disk entry or the network answers later, and other transactions,    *)
(* their destructors and posted tasks run in between.  Within one task     *)
(* the calls nest: a completed operation calls back every transaction      *)
(* that waited for it, one after the other, and each runs its DoLoop, and  *)
(* perhaps its user's callback, before the next one is called.  That       *)
(* nesting is the call stack `cache.stack', whose head is what runs now;   *)
(* an event from outside needs an empty stack.                             *)
(*                                                                         *)
(* Not modelled: byte ranges and the resumption of truncated entries       *)
(* (partial_), the in-memory backend (which answers synchronously), record *)
(* and playback modes, metadata, and the destruction of the cache.         *)
(***************************************************************************)
EXTENDS Integers, Sequences, FiniteSets, SequencesExt

CONSTANTS
    NumTransactions,   \* transactions a user may start
    Keys,              \* cache keys (URLs)
    Requests,          \* the modes the load flags of a transaction's request may ask for
    MaxEntries,        \* ActiveEntry objects alive at once
    MaxReads,          \* Read calls of one transaction that do not end its response
    MaxRestarts,       \* RestartIgnoringLastError/WithAuth calls of one transaction
    CancelInCallback,  \* may a user's callback destroy other transactions?
    None

ASSUME CacheAssumption ==
    /\ NumTransactions \in Nat /\ MaxEntries \in Nat \ {0}
    /\ MaxReads \in Nat /\ MaxRestarts \in [1 .. NumTransactions -> Nat]
    /\ Requests \in [1 .. NumTransactions ->
                        SUBSET {"NONE", "READ", "WRITE", "READ_WRITE", "UPDATE"}]
    /\ CancelInCallback \in BOOLEAN
ASSUME NoneAssumption == None \notin Keys /\ None \notin 1 .. NumTransactions

VARIABLES
    backend,    \* "factory" until the backend is built, then "ready" or "failed"
    backendOp,  \* pending_ops_[""]: its writer item followed by its queue
    cache,      \* active_entries_, doomed_entries_, pending_ops_, posted tasks, the stack
    tr          \* the transactions

vars == <<backend, backendOp, cache, tr>>

Trans == 1 .. NumTransactions
Entries == 1 .. MaxEntries
NoEntry == 0

\* mode_ & WRITE.
Writes(m) == m \in {"WRITE", "READ_WRITE", "UPDATE"}

(***************************************************************************)
(* What is stored under a key.  "partial" is a body that is being written  *)
(* or was left unfinished without the truncated flag.                      *)
(***************************************************************************)
Contents == {"absent", "new", "partial", "truncated", "whole"}

Closed == [key |-> None]
NoOp == [op |-> "none"]

(***************************************************************************)
(* Where a transaction is: it waits for the cache (cache_pending_), for    *)
(* its entry's disk entry, or for the network; or its user has control,    *)
(* having got the headers, a 401 or 407, some data, an error of the        *)
(* network or another one.  A transaction that has left the cache, and     *)
(* goes on with the network alone or has ended, is "past"; what it does    *)
(* with the network then is left out.                                      *)
(***************************************************************************)
AtCache == {"GET_BACKEND_COMPLETE", "OPEN_ENTRY_COMPLETE", "CREATE_ENTRY_COMPLETE",
            "DOOM_ENTRY_COMPLETE", "ADD_TO_ENTRY_COMPLETE"}
AtDisk == {"CACHE_READ_RESPONSE_COMPLETE", "UPDATE_CACHED_RESPONSE_COMPLETE",
           "TRUNCATE_CACHED_DATA", "CACHE_WRITE_DATA_COMPLETE",
           "CACHE_READ_DATA_COMPLETE"}
AtNetwork == {"SEND_REQUEST_COMPLETE", "NETWORK_READ_COMPLETE"}
AtUser == {"headers", "auth", "data", "neterror", "failed", "past"}

---------------------------------------------------------------------------
(* The stack. *)

\* io_callback()->Run(rv), or the next turn of t's DoLoop.
Run(t, rv) == [frame |-> "run", trans |-> t, rv |-> rv]
\* The user's callback of t is running.
User(t) == [frame |-> "user", trans |-> t]
\* The rest of OnIOComplete's loop over the items that waited for an operation.
Items(k, op, rv, fail, items) ==
    [frame |-> "items", key |-> k, op |-> op, rv |-> rv, fail |-> fail, items |-> items]

Call(c, frames) == [c EXCEPT !.stack = frames \o @]
Idle == cache.stack = <<>>
Popped == [cache EXCEPT !.stack = Tail(@)]

\* DoLoop of t runs with result rv in state s.
Runs(t, s) ==
    /\ ~Idle
    /\ Head(cache.stack).frame = "run"
    /\ Head(cache.stack).trans = t
    /\ tr[t].next = s
Result == Head(cache.stack).rv

\* DoLoop ends and HandleResult calls the user (a frame only if somebody waits
\* for the callback to return).
Finish(c, t) == IF c.stack = <<>> THEN c ELSE Call(c, <<User(t)>>)

\* The user of t has control: at a turn of the message loop or inside a callback.
UserActs(t) ==
    \/ Idle
    \/ /\ ~Idle
       /\ Head(cache.stack).frame = "user"
       /\ Head(cache.stack).trans = t \/ CancelInCallback
AfterUser(t) ==
    IF ~Idle /\ Head(cache.stack).trans = t THEN Popped ELSE cache

---------------------------------------------------------------------------
(* Active entries. *)

\* Mutant: doomed entries are looked at too.
FindActiveEntry_OrDoomed(c, k) ==
    LET doomed == {e \in Entries : c.entries[e] # Closed /\ c.entries[e].key = k}
    IN IF c.active[k] # NoEntry \/ doomed = {} THEN c.active[k] ELSE Max(doomed)

FindActiveEntry(c, k) == c.active[k]

\* Only one task is posted at a time for an entry.
ProcessPendingQueue(c, e) ==
    IF c.entries[e].will THEN c
    ELSE [c EXCEPT !.entries[e].will = TRUE, !.posted = @ \cup {e}]

ActivateEntry(c, k, content) ==
    LET e == CHOOSE f \in Entries : c.entries[f] = Closed
    IN [c EXCEPT !.entries[e] = [key |-> k, writer |-> None, readers |-> {},
                                 queue |-> <<>>, will |-> FALSE, doomed |-> FALSE,
                                 content |-> content],
                 !.active[k] = e]

\* FinalizeDoomedEntry or DeactivateEntry; the disk entry is closed.
DestroyEntry(c, e) ==
    IF c.entries[e].doomed THEN [c EXCEPT !.entries[e] = Closed]
    ELSE [c EXCEPT !.active[c.entries[e].key] = NoEntry,
                   !.disk[c.entries[e].key] = c.entries[e].content,
                   !.entries[e] = Closed]

\* Mutant: those who wait for an entry that failed are not told.
DoneWritingToEntry_ForgetsQueue(c, e, success) ==
    LET d == [c EXCEPT !.entries[e].writer = None]
    IN IF success THEN ProcessPendingQueue(d, e)
       ELSE DestroyEntry([d EXCEPT !.entries[e].queue = <<>>,
                                   !.entries[e].content = "absent"], e)

\* Mutant: whatever was written is left to the next transaction.
DoneWritingToEntry_KeepsPartial(c, e, success) ==
    ProcessPendingQueue([c EXCEPT !.entries[e].writer = None], e)

DoneWritingToEntry(c, e, success) ==
    LET d == [c EXCEPT !.entries[e].writer = None]
    IN IF success THEN ProcessPendingQueue(d, e)
       ELSE Call(DestroyEntry([d EXCEPT !.entries[e].queue = <<>>,
                                        !.entries[e].content = "absent"], e),
                 [i \in 1 .. Len(c.entries[e].queue) |->
                      Run(c.entries[e].queue[i], "ERR_CACHE_RACE")])

\* Mutant: the last reader does not look after the entry.
DoneReadingFromEntry_NoTask(c, e, t) == [c EXCEPT !.entries[e].readers = @ \ {t}]

DoneReadingFromEntry(c, e, t) ==
    ProcessPendingQueue([c EXCEPT !.entries[e].readers = @ \ {t}], e)

ConvertWriterToReader(c, e) ==
    ProcessPendingQueue([c EXCEPT !.entries[e].readers = @ \cup {c.entries[e].writer},
                                  !.entries[e].writer = None], e)

\* success: what AddTruncatedFlag returns, FALSE if the request is not cancelled.
DoneWithEntry(c, e, t, success) ==
    IF c.entries[e].will /\ c.entries[e].readers = {} THEN c
    ELSE IF c.entries[e].writer # None THEN DoneWritingToEntry(c, e, success)
    ELSE DoneReadingFromEntry(c, e, t)

\* Mutant: a newcomer overtakes the task that promotes the next transaction.
MustQueue_IgnoresTask(c, e, t) ==
    c.entries[e].writer # None \/ (Writes(tr[t].mode) /\ c.entries[e].readers # {})

\* AddTransactionToEntry returns ERR_IO_PENDING.
MustQueue(c, e, t) ==
    \/ c.entries[e].writer # None
    \/ c.entries[e].will
    \/ Writes(tr[t].mode) /\ c.entries[e].readers # {}

AddTransactionToEntry(c, e, t) ==
    IF MustQueue(c, e, t) THEN [c EXCEPT !.entries[e].queue = Append(@, t)]
    ELSE IF Writes(tr[t].mode) THEN [c EXCEPT !.entries[e].writer = t]
    ELSE LET d == [c EXCEPT !.entries[e].readers = @ \cup {t}]
         IN IF d.entries[e].queue = <<>> THEN d ELSE ProcessPendingQueue(d, e)

---------------------------------------------------------------------------
(* Operations of the backend on a key: one runs, the others wait for it. *)

\* OpenEntry, CreateEntry and AsyncDoomEntry after they missed the active entries.
QueueOperation(c, k, op, t) ==
    IF c.ops[k] = NoOp
    THEN [c EXCEPT !.ops[k] = [op |-> op, trans |-> t, queue |-> <<>>]]
    ELSE [c EXCEPT !.ops[k].queue = Append(@, [op |-> op, trans |-> t])]

\* Whatever entry is active under the key is doomed; t is None in the calls that
\* do not wait for the answer.
DoomEntry(c, k, t) ==
    LET e == FindActiveEntry(c, k)
    IN IF e = NoEntry THEN QueueOperation(c, k, "DOOM", t)
       ELSE [c EXCEPT !.entries[e].doomed = TRUE, !.active[k] = NoEntry,
                      !.disk[k] = "absent"]

\* The disk cache's answer to an operation (external).
Answers(op, content) ==
    {"ERR_FAILED"} \cup
    IF (op = "CREATE") = (content = "absent") THEN {"OK"} ELSE {}

\* The backend has completed the operation of key k with rv.  MaxEntries bounds the
\* ActiveEntry objects.
OnIOComplete(k, rv) ==
    /\ Idle
    /\ cache.ops[k] # NoOp
    /\ rv \in Answers(cache.ops[k].op, cache.disk[k])
    /\ LET op == cache.ops[k].op
           t == cache.ops[k].trans
           activates == rv = "OK" /\ op # "DOOM" /\ t # None
           gone == rv = "OK" /\ op # "DOOM" /\ t = None
           c0 == [cache EXCEPT !.ops[k] = NoOp]
           c1 == IF activates
                 THEN ActivateEntry(c0, k, IF op = "CREATE" THEN "new" ELSE cache.disk[k])
                 ELSE IF rv = "OK" /\ op = "DOOM" THEN [c0 EXCEPT !.disk[k] = "absent"]
                 ELSE c0   \* a created entry nobody wants is doomed again
           rest == IF cache.ops[k].queue = <<>> THEN <<>>
                   ELSE << Items(k, op, rv, gone \/ (rv = "OK" /\ op = "DOOM"),
                                 cache.ops[k].queue) >>
       IN /\ activates => \E e \in Entries : cache.entries[e] = Closed
          /\ cache' = Call(c1, (IF t = None THEN <<>> ELSE <<Run(t, rv)>>) \o rest)
          /\ tr' = IF activates THEN [tr EXCEPT ![t].new = FindActiveEntry(c1, k)] ELSE tr
    /\ UNCHANGED <<backend, backendOp>>

\* One turn of the loop in OnIOComplete that answers the items that waited.
NotifyItem ==
    /\ ~Idle
    /\ Head(cache.stack).frame = "items"
    /\ LET f == Head(cache.stack)
           item == Head(f.items)
           entry == IF f.rv = "OK" THEN FindActiveEntry(cache, f.key) ELSE NoEntry
           failed == f.fail \/ item.op = "DOOM" \/ (f.rv = "OK" /\ entry = NoEntry)
           race == \/ item.op = "CREATE" /\ f.rv # "OK" /\ f.op # "CREATE"
                   \/ item.op = "OPEN" /\ f.rv # "OK" /\ f.op = "CREATE"
           answer == IF failed \/ race THEN "ERR_CACHE_RACE"
                     ELSE IF item.op = "CREATE" /\ f.rv = "OK" THEN "ERR_CREATE_FAILURE"
                     ELSE f.rv
           rest == IF Len(f.items) = 1 THEN <<>>
                   ELSE << [f EXCEPT !.items = Tail(@), !.fail = failed \/ race] >>
       IN /\ cache' = Call(Popped, (IF item.trans = None THEN <<>>
                                    ELSE <<Run(item.trans, answer)>>) \o rest)
          /\ tr' = IF item.trans = None THEN tr
                   ELSE [tr EXCEPT ![item.trans].new = IF answer = "OK" THEN entry
                                                       ELSE NoEntry]
    /\ UNCHANGED <<backend, backendOp>>

\* The posted task: the next transaction in the queue gets the entry.
OnProcessPendingQueue(e) ==
    /\ Idle
    /\ e \in cache.posted
    /\ LET c == [cache EXCEPT !.posted = @ \ {e}, !.entries[e].will = FALSE]
           q == c.entries[e].queue
           d == [c EXCEPT !.entries[e].queue = Tail(@)]
       IN cache' = IF q = <<>>
                   THEN IF c.entries[e].readers = {} THEN DestroyEntry(c, e) ELSE c
                   ELSE IF Writes(tr[q[1]].mode) /\ c.entries[e].readers # {} THEN c
                   ELSE IF MustQueue(d, e, q[1]) THEN AddTransactionToEntry(d, e, q[1])
                   ELSE Call(AddTransactionToEntry(d, e, q[1]), <<Run(q[1], "OK")>>)
    /\ UNCHANGED <<backend, backendOp, tr>>

---------------------------------------------------------------------------
(* The backend. *)

\* Mutant: only the first of those who wait is answered.
OnBackendCreated_FirstOnly(result) ==
    /\ Idle
    /\ backendOp # <<>>
    /\ backend # "factory" => result = backend
    /\ backend' = result
    /\ backendOp' = IF Head(backendOp) = None THEN Tail(backendOp) ELSE <<>>
    /\ cache' = IF Head(backendOp) = None THEN cache
                ELSE Call(cache, <<Run(Head(backendOp),
                                       IF result = "ready" THEN "OK" ELSE "ERR_FAILED")>>)
    /\ UNCHANGED tr

\* The backend exists, or cannot be built; and the task that answers the next
\* item that waited for it, one item per task.
OnBackendCreated(result) ==
    /\ Idle
    /\ backendOp # <<>>
    /\ backend # "factory" => result = backend
    /\ backend' = result
    /\ backendOp' = Tail(backendOp)
    /\ cache' = IF Head(backendOp) = None THEN cache
                ELSE Call(cache, <<Run(Head(backendOp),
                                       IF result = "ready" THEN "OK" ELSE "ERR_FAILED")>>)
    /\ UNCHANGED tr

---------------------------------------------------------------------------
(* The transaction's state machine. *)

\* DoLoop goes on with rv in state s.
GoOn(t, s, rv, c) ==
    /\ tr' = [tr EXCEPT ![t].next = s]
    /\ cache' = Call(c, <<Run(t, rv)>>)

Unborn == [next |-> "UNBORN", key |-> None, mode |-> "NONE", entry |-> NoEntry,
           new |-> NoEntry, reads |-> 0, restarts |-> 0]

\* The transaction leaves the cache without an entry: with ERR_CACHE_MISS if it may
\* only read from the cache, and else for the network.
Past == [Unborn EXCEPT !.next = "past"]
Leave(t) ==
    /\ tr' = [tr EXCEPT ![t] = Past]
    /\ cache' = IF tr[t].mode = "READ" THEN Finish(Popped, t) ELSE Popped

\* CreateTransaction, which starts to build the backend, then Start with DoGetBackend.
Start(t, k, m) ==
    /\ Idle
    /\ tr[t].next = "UNBORN"
    /\ \A u \in 1 .. t - 1 : tr[u].next # "UNBORN"
    /\ tr' = [tr EXCEPT ![t].next = "GET_BACKEND_COMPLETE", ![t].mode = m, ![t].key = k]
    /\ IF backend = "ready" \/ (backend = "failed" /\ backendOp = <<>>)
       THEN /\ cache' = Call(cache, <<Run(t, IF backend = "ready" THEN "OK"
                                             ELSE "ERR_FAILED")>>)
            /\ UNCHANGED backendOp
       ELSE /\ backendOp' = (IF backendOp = <<>> THEN <<None>> ELSE backendOp) \o <<t>>
            /\ UNCHANGED cache
    /\ UNCHANGED backend

\* With ShouldPassThrough: no backend, or a request that does not use the cache.
DoGetBackendComplete(t) ==
    /\ Runs(t, "GET_BACKEND_COMPLETE")
    /\ IF backend # "ready" \/ tr[t].mode = "NONE" THEN Leave(t)
       ELSE GoOn(t, "INIT_ENTRY", "OK", Popped)
    /\ UNCHANGED <<backend, backendOp>>

\* DoInitEntry and DoOpenEntry.
DoOpenEntry(t) ==
    /\ Runs(t, "INIT_ENTRY")
    /\ tr[t].mode # "WRITE"
    /\ LET e == FindActiveEntry(cache, tr[t].key)
       IN /\ tr' = [tr EXCEPT ![t].next = "OPEN_ENTRY_COMPLETE", ![t].new = e]
          /\ cache' = IF e # NoEntry THEN Call(Popped, <<Run(t, "OK")>>)
                      ELSE QueueOperation(Popped, tr[t].key, "OPEN", t)
    /\ UNCHANGED <<backend, backendOp>>

\* Without an entry a request that may write creates one; the others have no use for
\* the cache.
DoOpenEntryComplete(t) ==
    /\ Runs(t, "OPEN_ENTRY_COMPLETE")
    /\ CASE Result = "OK" -> GoOn(t, "ADD_TO_ENTRY", "OK", Popped)
         [] Result = "ERR_CACHE_RACE" -> GoOn(t, "INIT_ENTRY", "OK", Popped)
         [] Result = "ERR_FAILED" /\ tr[t].mode = "READ_WRITE" ->
                /\ tr' = [tr EXCEPT ![t].next = "CREATE_ENTRY", ![t].mode = "WRITE"]
                /\ cache' = Call(Popped, <<Run(t, "OK")>>)
         [] OTHER -> Leave(t)
    /\ UNCHANGED <<backend, backendOp>>

DoCreateEntry(t) ==
    /\ Runs(t, "CREATE_ENTRY")
    /\ tr' = [tr EXCEPT ![t].next = "CREATE_ENTRY_COMPLETE"]
    /\ cache' = QueueOperation(Popped, tr[t].key, "CREATE", t)
    /\ UNCHANGED <<backend, backendOp>>

DoCreateEntryComplete(t) ==
    /\ Runs(t, "CREATE_ENTRY_COMPLETE")
    /\ CASE Result = "OK" -> GoOn(t, "ADD_TO_ENTRY", "OK", Popped)
         [] Result = "ERR_CACHE_RACE" -> GoOn(t, "INIT_ENTRY", "OK", Popped)
         [] OTHER -> Leave(t)
    /\ UNCHANGED <<backend, backendOp>>

\* DoInitEntry and DoDoomEntry.
DoDoomEntry(t) ==
    /\ Runs(t, "INIT_ENTRY")
    /\ tr[t].mode = "WRITE"
    /\ tr' = [tr EXCEPT ![t].next = "DOOM_ENTRY_COMPLETE"]
    /\ LET c == DoomEntry(Popped, tr[t].key, t)
       IN cache' = IF FindActiveEntry(cache, tr[t].key) # NoEntry
                   THEN Call(c, <<Run(t, "OK")>>) ELSE c
    /\ UNCHANGED <<backend, backendOp>>

DoDoomEntryComplete(t) ==
    /\ Runs(t, "DOOM_ENTRY_COMPLETE")
    /\ GoOn(t, IF Result = "ERR_CACHE_RACE" THEN "INIT_ENTRY" ELSE "CREATE_ENTRY", "OK",
            Popped)
    /\ UNCHANGED <<backend, backendOp>>

DoAddToEntry(t) ==
    /\ Runs(t, "ADD_TO_ENTRY")
    /\ tr' = [tr EXCEPT ![t].next = "ADD_TO_ENTRY_COMPLETE"]
    /\ LET c == AddTransactionToEntry(Popped, tr[t].new, t)
       IN cache' = IF MustQueue(Popped, tr[t].new, t) THEN c ELSE Call(c, <<Run(t, "OK")>>)
    /\ UNCHANGED <<backend, backendOp>>

DoAddToEntryComplete(t) ==
    /\ Runs(t, "ADD_TO_ENTRY_COMPLETE")
    /\ IF Result = "ERR_CACHE_RACE"
       THEN /\ tr' = [tr EXCEPT ![t].next = "INIT_ENTRY", ![t].new = NoEntry]
            /\ cache' = Call(Popped, <<Run(t, "OK")>>)
       ELSE /\ tr' = [tr EXCEPT ![t].new = NoEntry, ![t].entry = tr[t].new,
                                ![t].next = IF tr[t].mode = "WRITE"
                                            THEN "SEND_REQUEST_COMPLETE"
                                            ELSE "CACHE_READ_RESPONSE_COMPLETE"]
            /\ cache' = Popped
    /\ UNCHANGED <<backend, backendOp>>

---------------------------------------------------------------------------
(* The answers of the disk entry and of the network. *)

At(t, s) == Idle /\ tr[t].next = s
Content(t) == cache.entries[tr[t].entry].content
Stored(t, content) == [cache EXCEPT !.entries[tr[t].entry].content = content]

\* The transaction moves to s, in the cache c.
Step(t, s, c) ==
    /\ tr' = [tr EXCEPT ![t].next = s]
    /\ cache' = c
    /\ UNCHANGED <<backend, backendOp>>
StepWithMode(t, s, mode, c) ==
    /\ tr' = [tr EXCEPT ![t].next = s, ![t].mode = mode]
    /\ cache' = c
    /\ UNCHANGED <<backend, backendOp>>

\* The transaction's own DoneWritingToEntry, which ends in pass-through mode.
StepPast(t, success, c) ==
    /\ tr' = [tr EXCEPT ![t] = Past]
    /\ cache' = DoneWritingToEntry(c, tr[t].entry, success)
    /\ UNCHANGED <<backend, backendOp>>

\* The writer becomes a reader.
StepToReader(t, c) ==
    StepWithMode(t, "headers", "READ", ConvertWriterToReader(c, tr[t].entry))

\* The entry under the transaction's key is doomed, which is its own unless
\* somebody doomed that one before, and the transaction leaves its entry.
DoomPartialEntry(c, t) ==
    DoneWithEntry(DoomEntry(c, tr[t].key, None), tr[t].entry, t, FALSE)

\* The response headers could not be read or parsed.
CacheReadResponseFails(t) ==
    /\ At(t, "CACHE_READ_RESPONSE_COMPLETE")
    /\ Step(t, "failed", cache)

BeginCacheRead(t) ==
    /\ At(t, "CACHE_READ_RESPONSE_COMPLETE")
    /\ tr[t].mode = "READ" /\ Content(t) # "new"
    /\ Step(t, IF Content(t) = "truncated" THEN "failed" ELSE "headers", cache)

\* The stored response is fresh, and the writer becomes a reader.
SkipValidation(t) ==
    /\ At(t, "CACHE_READ_RESPONSE_COMPLETE")
    /\ tr[t].mode = "READ_WRITE" /\ Content(t) \in {"partial", "whole"}
    /\ StepToReader(t, cache)

\* It has to be validated, with a conditional request if it has a validator.
BeginCacheValidation(t, conditional) ==
    /\ At(t, "CACHE_READ_RESPONSE_COMPLETE")
    /\ tr[t].mode = "READ_WRITE" /\ Content(t) \in {"partial", "whole"}
    /\ StepWithMode(t, "SEND_REQUEST_COMPLETE",
                    IF conditional THEN "READ_WRITE" ELSE "WRITE", cache)

\* A truncated response: the rest is asked for, or it is dropped if it is of no use.
ValidateEntryHeadersAndContinue(t, usable) ==
    /\ At(t, "CACHE_READ_RESPONSE_COMPLETE")
    /\ tr[t].mode = "READ_WRITE" /\ Content(t) = "truncated"
    /\ IF usable THEN Step(t, "SEND_REQUEST_COMPLETE", cache)
       ELSE /\ tr' = [tr EXCEPT ![t].entry = NoEntry, ![t].mode = "WRITE",
                                ![t].next = "INIT_ENTRY"]
            /\ cache' = DoomPartialEntry(Call(cache, <<Run(t, "OK")>>), t)
            /\ UNCHANGED <<backend, backendOp>>

\* The user's own conditional request, which may or may not be about this response.
BeginExternallyConditionalizedRequest(t, validates) ==
    /\ At(t, "CACHE_READ_RESPONSE_COMPLETE")
    /\ tr[t].mode = "UPDATE" /\ Content(t) # "new"
    /\ validates => Content(t) # "truncated"
    /\ IF validates THEN Step(t, "SEND_REQUEST_COMPLETE", cache) ELSE StepPast(t, TRUE, cache)

\* A network or certificate error; the entry stays until the destructor.
SendRequestFails(t) ==
    /\ At(t, "SEND_REQUEST_COMPLETE")
    /\ Step(t, "neterror", cache)

\* 401 or 407: the user reads the error page or restarts with credentials.
AuthRequired(t) ==
    /\ At(t, "SEND_REQUEST_COMPLETE")
    /\ Step(t, "auth", cache)

UpdateComplete(t, c) ==
    IF tr[t].mode = "UPDATE" THEN StepPast(t, TRUE, c) ELSE StepToReader(t, c)

\* 304: the stored headers are updated, or the entry doomed if they say no-store.
NotModified(t, noStore) ==
    /\ At(t, "SEND_REQUEST_COMPLETE")
    /\ tr[t].mode \in {"READ_WRITE", "UPDATE"} /\ Content(t) # "truncated"
    /\ IF noStore THEN UpdateComplete(t, DoomEntry(cache, tr[t].key, None))
       ELSE Step(t, "UPDATE_CACHED_RESPONSE_COMPLETE", cache)

\* ValidatePartialResponse fails: the truncated entry is dropped and the request
\* repeated without the cache.
ResumeRefused(t) ==
    /\ At(t, "SEND_REQUEST_COMPLETE")
    /\ tr[t].mode = "READ_WRITE" /\ Content(t) = "truncated"
    /\ tr' = [tr EXCEPT ![t] = Past]
    /\ cache' = DoomPartialEntry(cache, t)
    /\ UNCHANGED <<backend, backendOp>>

\* Any other response: stored over the entry unless it says no-store.
NewResponse(t, noStore) ==
    /\ At(t, "SEND_REQUEST_COMPLETE")
    /\ IF noStore THEN StepPast(t, FALSE, cache)
       ELSE StepWithMode(t, "TRUNCATE_CACHED_DATA", "WRITE", Stored(t, "partial"))

\* The updated headers of a 304 are written, or cannot be.
UpdateCachedResponseComplete(t, ok) ==
    /\ At(t, "UPDATE_CACHED_RESPONSE_COMPLETE")
    /\ IF ok THEN UpdateComplete(t, cache) ELSE StepPast(t, FALSE, cache)

\* The headers of a new response are written and the old data truncated; the body
\* of a redirect is not stored.
OverwriteComplete(t, what) ==
    /\ At(t, "TRUNCATE_CACHED_DATA")
    /\ CASE what = "ok" -> Step(t, "headers", cache)
         [] what = "redirect" -> StepPast(t, TRUE, Stored(t, "whole"))
         [] what = "failed" -> StepPast(t, FALSE, cache)

\* DoNetworkReadComplete; the end of the body completes the entry.
NetworkReadComplete(t, what) ==
    /\ At(t, "NETWORK_READ_COMPLETE")
    /\ CASE what = "failed" -> Step(t, "failed", cache)
         [] what = "data" -> /\ tr[t].reads <= MaxReads
                             /\ Step(t, "CACHE_WRITE_DATA_COMPLETE", cache)
         [] what = "eof" -> StepPast(t, TRUE, Stored(t, "whole"))

\* "last": Content-Length bytes are stored now, although the end was not read.
CacheWriteDataComplete(t, what) ==
    /\ At(t, "CACHE_WRITE_DATA_COMPLETE")
    /\ CASE what = "ok" -> Step(t, "data", cache)
         [] what = "last" -> Step(t, "data", Stored(t, "whole"))
         [] what = "failed" -> StepPast(t, FALSE, cache)

CacheReadDataComplete(t, what) ==
    /\ At(t, "CACHE_READ_DATA_COMPLETE")
    /\ CASE what = "failed" -> Step(t, "failed", cache)
         [] what = "data" -> tr[t].reads <= MaxReads /\ Step(t, "data", cache)
         [] what = "eof" ->
                /\ tr' = [tr EXCEPT ![t] = Past]
                /\ cache' = DoneReadingFromEntry(cache, tr[t].entry, t)
                /\ UNCHANGED <<backend, backendOp>>

---------------------------------------------------------------------------
(* The user of a transaction. *)

\* From the entry, or from the network with what arrives written to the entry.
Read(t) ==
    /\ UserActs(t)
    /\ tr[t].next \in {"headers", "data"}
    /\ tr' = [tr EXCEPT ![t].reads = @ + 1,
                        ![t].next = IF tr[t].mode = "READ" THEN "CACHE_READ_DATA_COMPLETE"
                                    ELSE "NETWORK_READ_COMPLETE"]
    /\ cache' = AfterUser(t)
    /\ UNCHANGED <<backend, backendOp>>

\* The error page of a 401 or 407 is read past the cache.
ReadErrorPage(t) ==
    /\ UserActs(t)
    /\ tr[t].next = "auth"
    /\ StepPast(t, tr[t].mode = "READ_WRITE", AfterUser(t))

\* RestartIgnoringLastError, RestartWithCertificate or RestartWithAuth.
RestartNetworkRequest(t) ==
    /\ UserActs(t)
    /\ tr[t].next \in {"neterror", "auth"}
    /\ tr[t].restarts < MaxRestarts[t]
    /\ tr' = [tr EXCEPT ![t].next = "SEND_REQUEST_COMPLETE", ![t].restarts = @ + 1]
    /\ cache' = AfterUser(t)
    /\ UNCHANGED <<backend, backendOp>>

\* A waiting transaction is looked for where it can wait: in the queue of the
\* active entry of its key or of a doomed entry, or among the operations of its key.
RemovePendingTransaction(c, t) ==
    LET queued == {e \in Entries : c.entries[e] # Closed /\ Contains(c.entries[e].queue, t)}
        k == tr[t].key
    IN IF queued # {}
       THEN LET e == CHOOSE f \in queued : TRUE
            IN [c EXCEPT !.entries[e].queue = RemoveFirst(@, t)]
       ELSE IF c.ops[k] = NoOp THEN c
       ELSE IF c.ops[k].trans = t THEN [c EXCEPT !.ops[k].trans = None]
       ELSE [c EXCEPT !.ops[k].queue = RemoveFirstMatch(@, LAMBDA i : i.trans = t)]

\* The destructor.  keep: the response so far is worth keeping (AddTruncatedFlag),
\* which is asked only of a request that is being read.
Destroy(t, keep) ==
    /\ UserActs(t)
    /\ tr[t].next \notin {"UNBORN", "GONE"}
    /\ LET e == tr[t].entry
           c == AfterUser(t)
       IN /\ keep => e # NoEntry /\ cache.entries[e].writer = t /\ tr[t].reads > 0
          /\ cache' = IF keep
                      THEN DoneWithEntry([c EXCEPT !.entries[e].content =
                                              IF @ = "whole" THEN @ ELSE "truncated"],
                                         e, t, TRUE)
                      ELSE IF e # NoEntry THEN DoneWithEntry(c, e, t, FALSE)
                      ELSE IF tr[t].next \in AtCache THEN RemovePendingTransaction(c, t)
                      ELSE c
    /\ backendOp' = IF Contains(backendOp, t)
                    THEN IF Head(backendOp) = t THEN <<None>> \o Tail(backendOp)
                         ELSE RemoveFirst(backendOp, t)
                    ELSE backendOp
    /\ tr' = [tr EXCEPT ![t] = [Unborn EXCEPT !.next = "GONE"]]
    /\ UNCHANGED backend

\* The user's callback returns without another call.
UserReturns ==
    /\ ~Idle
    /\ Head(cache.stack).frame = "user"
    /\ cache' = Popped
    /\ UNCHANGED <<backend, backendOp, tr>>

---------------------------------------------------------------------------
Init ==
    /\ backend = "factory"
    /\ backendOp = <<>>
    /\ \E d \in [Keys -> {"absent", "whole", "truncated"}] :
           cache = [entries |-> [e \in Entries |-> Closed],
                    active |-> [k \in Keys |-> NoEntry],
                    ops |-> [k \in Keys |-> NoOp],
                    disk |-> d, posted |-> {}, stack |-> <<>>]
    /\ tr = [t \in Trans |-> Unborn]

DoLoop(t) ==
    \/ DoGetBackendComplete(t)
    \/ DoOpenEntry(t) \/ DoOpenEntryComplete(t)
    \/ DoCreateEntry(t) \/ DoCreateEntryComplete(t)
    \/ DoDoomEntry(t) \/ DoDoomEntryComplete(t)
    \/ DoAddToEntry(t) \/ DoAddToEntryComplete(t)

DiskAnswers(t) ==
    \/ CacheReadResponseFails(t)
    \/ BeginCacheRead(t)
    \/ SkipValidation(t)
    \/ \E yes \in BOOLEAN : \/ BeginCacheValidation(t, yes)
                            \/ ValidateEntryHeadersAndContinue(t, yes)
                            \/ BeginExternallyConditionalizedRequest(t, yes)
                            \/ UpdateCachedResponseComplete(t, yes)
    \/ \E what \in {"ok", "redirect", "failed"} : OverwriteComplete(t, what)
    \/ \E what \in {"ok", "last", "failed"} : CacheWriteDataComplete(t, what)
    \/ \E what \in {"data", "eof", "failed"} : CacheReadDataComplete(t, what)

NetworkAnswers(t) ==
    \/ SendRequestFails(t)
    \/ AuthRequired(t)
    \/ \E noStore \in BOOLEAN : NotModified(t, noStore) \/ NewResponse(t, noStore)
    \/ ResumeRefused(t)
    \/ \E what \in {"data", "eof", "failed"} : NetworkReadComplete(t, what)

\* Everything but new requests and the users' decisions.
Progress ==
    \/ \E result \in {"ready", "failed"} : OnBackendCreated(result)
    \/ \E k \in Keys, rv \in {"OK", "ERR_FAILED"} : OnIOComplete(k, rv)
    \/ NotifyItem
    \/ \E e \in Entries : OnProcessPendingQueue(e)
    \/ \E t \in Trans : DoLoop(t) \/ DiskAnswers(t) \/ NetworkAnswers(t)
    \/ UserReturns

UserCalls(t) ==
    \/ Read(t)
    \/ ReadErrorPage(t)
    \/ RestartNetworkRequest(t)
    \/ \E keep \in BOOLEAN : Destroy(t, keep)

Next ==
    \/ \E t \in Trans, k \in Keys : \E m \in Requests[t] : Start(t, k, m)
    \/ \E t \in Trans : UserCalls(t)
    \/ Progress

Spec == Init /\ [][Next]_vars

(***************************************************************************)
(* Fairness: whatever was posted or issued completes, and a user who has   *)
(* an answer reads on or destroys its transaction in the end.  Reads and   *)
(* restarts are bounded, so a behaviour that never stops would have to     *)
(* repeat the cache's own steps.                                           *)
(***************************************************************************)
FairSpec ==
    /\ Spec
    /\ WF_vars(Progress \/ \E t \in Trans : tr[t].next \in AtUser /\ UserCalls(t))

---------------------------------------------------------------------------
(* Properties. *)

Live == {e \in Entries : cache.entries[e] # Closed}
Users(e) == cache.entries[e].readers \cup ({cache.entries[e].writer} \ {None})
            \cup ToSet(cache.entries[e].queue)

TypeOK ==
    /\ backend \in {"factory", "ready", "failed"}
    /\ backendOp \in Seq(Trans \cup {None})
    /\ \A e \in Live : /\ cache.entries[e].key \in Keys
                       /\ cache.entries[e].writer \in Trans \cup {None}
                       /\ cache.entries[e].readers \subseteq Trans
                       /\ cache.entries[e].queue \in Seq(Trans)
                       /\ cache.entries[e].content \in Contents
    /\ cache.active \in [Keys -> Entries \cup {NoEntry}]
    /\ cache.disk \in [Keys -> Contents]
    /\ cache.posted \subseteq Entries
    /\ \A t \in Trans : /\ tr[t].next \in AtCache \cup AtDisk \cup AtNetwork \cup AtUser
                               \cup {"UNBORN", "GONE", "INIT_ENTRY", "CREATE_ENTRY", "ADD_TO_ENTRY"}
                        /\ tr[t].mode \in {"NONE", "READ", "WRITE", "READ_WRITE", "UPDATE"}
                        /\ tr[t].entry \in Entries \cup {NoEntry}
                        /\ tr[t].new \in Entries \cup {NoEntry}

\* The basic reader/writer lock: a writer is alone, holds a writing mode, and no
\* task to promote the next transaction is posted meanwhile (the DCHECKs of
\* DoneWritingToEntry, ConvertWriterToReader and OnProcessPendingQueue); exactly
\* its users hold an entry.
ReaderWriterLock ==
    /\ TypeOK
    /\ \A e \in Live :
           LET x == cache.entries[e] IN
           /\ x.writer # None => x.readers = {} /\ ~x.will /\ Writes(tr[x.writer].mode)
           /\ \A t \in x.readers : tr[t].mode = "READ"
           /\ {t \in Trans : tr[t].entry = e} \subseteq x.readers \cup {x.writer}

\* A transaction never works on an entry that was deleted, and a posted task never
\* finds one: every pointer to an ActiveEntry is to a live one, or is about to be
\* dropped with ERR_CACHE_RACE.  And no disk entry is opened twice, or created over an
\* open one: while an operation on a key is under way there is no active entry for it
\* (the DCHECKs of GetPendingOp and ActivateEntry).
NoDanglingEntry ==
    /\ \A k \in Keys : cache.ops[k] # NoOp => cache.active[k] = NoEntry
    /\ cache.posted = {e \in Live : cache.entries[e].will}
    /\ \A t \in Trans : /\ tr[t].entry # NoEntry => tr[t].entry \in Live
                        /\ tr[t].new # NoEntry =>
                               tr[t].new \in Live \/ Contains(cache.stack, Run(t, "ERR_CACHE_RACE"))
    /\ \A k \in Keys : cache.active[k] # NoEntry =>
           /\ cache.active[k] \in Live
           /\ cache.entries[cache.active[k]].key = k
           /\ ~cache.entries[cache.active[k]].doomed
    /\ \A e \in Live : ~cache.entries[e].doomed => cache.active[cache.entries[e].key] = e

\* Between tasks no entry is left "without any transaction attached": it is in use,
\* or a task is posted that will promote the next transaction or delete it.
NoOrphanEntry ==
    \A e \in Live : \/ cache.entries[e].writer # None
                    \/ cache.entries[e].readers # {}
                    \/ cache.entries[e].will

\* A transaction that waits for the cache is where RemovePendingTransaction looks
\* for it, exactly once, whenever its destructor may run.
PendingIsFindable ==
    \A t \in Trans : tr[t].next \in AtCache /\ UserActs(t) =>
        LET queues == {e \in Live : Contains(cache.entries[e].queue, t)}
            op == cache.ops[tr[t].key]
            inOp == op # NoOp /\ (op.trans = t \/ \E i \in DOMAIN op.queue : op.queue[i].trans = t)
        IN Cardinality(queues) + (IF inOp THEN 1 ELSE 0)
               + (IF Contains(backendOp, t) THEN 1 ELSE 0) = 1

\* Nobody is forgotten: a queued transaction has somebody to wake it up, and a destroyed
\* one is not left behind in a queue.
NobodyForgotten == (Idle => NoOrphanEntry) /\ PendingIsFindable

\* No user is given a stored response whose body was left unfinished as if it were
\* whole, whenever and in whatever state its writer went away.
OnlyWholeResponsesServed ==
    \A t \in Trans :
        tr[t].mode = "READ" /\ tr[t].entry # NoEntry
        /\ tr[t].next \in {"headers", "data", "CACHE_READ_DATA_COMPLETE"}
        => Content(t) = "whole"

\* Nobody new gets at an entry after it was doomed.
DoomedGetsNoUsers ==
    [][\A e \in Live : cache.entries[e].doomed /\ cache'.entries[e] # Closed
           => Users(e)' \subseteq Users(e)]_vars

\* Every transaction that was started is answered or destroyed, in spite of the
\* restarts after ERR_CACHE_RACE.
EveryStartAnswered ==
    <>[](\A t \in Trans : tr[t].next \in AtUser \cup {"UNBORN", "GONE"})
=============================================================================
