------------------------- MODULE HttpCacheInvariant -------------------------
(***************************************************************************)
(* The inductive invariant IInv of the HTTP cache, for any number of       *)
(* transactions, keys and entries, and the moves that keep it.  CacheProofs*)
(* puts them together to the operations of the code, and shows that these  *)
(* keep it if a user's callback destroys no transaction but its own.       *)
(*                                                                         *)
(* The invariant is Good(b, c, w, x, o): of a queue b of those that wait   *)
(* for the backend, a cache c and records w of the transactions, where the *)
(* transaction x is in nobody's hands and the entry o need not be looked   *)
(* after.  Between two steps there is no such x and o; within a step a     *)
(* transaction is taken from where it waits (the lemmas Take...), its      *)
(* record and the entries are changed, and it is put somewhere else (the   *)
(* lemmas Put...), so each operation of the code is proved once, whatever  *)
(* handler calls it.                                                       *)
(*                                                                         *)
(* The parts of Good: what an entry holds and who has it (EntriesOk), the  *)
(* map of active entries (ActiveOk), the operations of the backend (OpsOk),*)
(* the calls on the stack (StackOk), those who wait for the backend        *)
(* (BackendOpOk), and for each transaction that it is in the one place     *)
(* that its state says (TransactionsOk).                                   *)
(***************************************************************************)
EXTENDS HttpCache, SequencesExt, SequenceTheorems, FiniteSetTheorems, TLAPS

-----------------------------------------------------------------------------
(* Sequences                                                               *)

\* The sequence that RemoveAt() returns: the same elements in the same order but one.
LEMMA RemovedOne ==
    ASSUME NEW S, NEW s \in Seq(S), NEW i \in DOMAIN s
    PROVE  /\ RemoveAt(s, i) \in Seq(S)
           /\ Len(RemoveAt(s, i)) = Len(s) - 1
           /\ \A j \in 1 .. Len(s) - 1 :
                 RemoveAt(s, i)[j] = IF j < i THEN s[j] ELSE s[j + 1]
<1> DEFINE front == SubSeq(s, 1, i - 1)
           back == SubSeq(s, i + 1, Len(s))
<1>1. front \in Seq(S) /\ Len(front) = i - 1 /\ \A j \in 1 .. i - 1 : front[j] = s[j]
  OBVIOUS
<1>2. /\ back \in Seq(S) /\ Len(back) = Len(s) - i
      /\ \A j \in 1 .. Len(s) - i : back[j] = s[i + j]
  OBVIOUS
<1>3. RemoveAt(s, i) = front \o back
  BY DEF RemoveAt
<1>4. /\ front \o back \in Seq(S) /\ Len(front \o back) = Len(s) - 1
      /\ \A j \in 1 .. Len(s) - 1 :
            (front \o back)[j] = IF j < i THEN front[j] ELSE back[j - (i - 1)]
  <2> HIDE DEF front, back
  <2>1. /\ front \o back \in Seq(S)
        /\ Len(front \o back) = Len(front) + Len(back)
        /\ \A j \in 1 .. Len(front) + Len(back) :
              (front \o back)[j] = IF j <= Len(front) THEN front[j] ELSE back[j - Len(front)]
    BY <1>1, <1>2, ConcatProperties
  <2> QED
    BY <1>1, <1>2, <2>1, SMTT(40)
<1>5. \A j \in 1 .. Len(s) - 1 :
         (front \o back)[j] = IF j < i THEN s[j] ELSE s[j + 1]
  <2> SUFFICES ASSUME NEW j \in 1 .. Len(s) - 1
               PROVE  (front \o back)[j] = IF j < i THEN s[j] ELSE s[j + 1]
    OBVIOUS
  <2> HIDE DEF front, back
  <2>1. CASE j < i
    BY <2>1, <1>1, <1>4
  <2>2. CASE ~(j < i)
    <3>1. j - (i - 1) \in 1 .. Len(s) - i /\ i + (j - (i - 1)) = j + 1
      BY <2>2
    <3> QED
      BY <2>2, <3>1, <1>2, <1>4
  <2> QED
    BY <2>1, <2>2
<1> QED
  BY <1>3, <1>4, <1>5

NoneTwice(s) == \A i, j \in 1..Len(s) : s[i] = s[j] => i = j

\* RemoveFirst takes x out of a sequence that does not hold it twice, and keeps the rest.
LEMMA RemovedFirst ==
    ASSUME NEW S, NEW s \in Seq(S), NoneTwice(s), NEW x
    PROVE  LET r == RemoveFirst(s, x) IN
           /\ r \in Seq(S) /\ NoneTwice(r)
           /\ \A j \in 1..Len(r) : r[j] # x /\ \E i \in 1..Len(s) : r[j] = s[i]
<1> DEFINE r == RemoveFirst(s, x)
<1>1. CASE ~\E i \in 1..Len(s) : s[i] = x
  <2>1. r = s
    BY <1>1 DEF RemoveFirst
  <2> QED
    BY <1>1, <2>1
<1>2. CASE \E i \in 1..Len(s) : s[i] = x
  <2>1. PICK k \in 1..Len(s) : s[k] = x
    BY <1>2
  <2>2. {i \in 1..Len(s) : s[i] = x} = {k}
    BY <2>1 DEF NoneTwice
  <2>3. Min({k}) = k
    BY <2>1 DEF Min
  <2>4. r = RemoveAt(s, k)
    BY <1>2, <2>2, <2>3 DEF RemoveFirst, SelectInSeq
  <2>5. /\ r \in Seq(S) /\ Len(r) = Len(s) - 1
        /\ \A j \in 1..Len(s) - 1 : r[j] = IF j < k THEN s[j] ELSE s[j + 1]
    BY <2>1, <2>4, RemovedOne, SMTT(40)
  <2> DEFINE From(j) == IF j < k THEN j ELSE j + 1
  <2>6. \A j \in 1..Len(r) : From(j) \in 1..Len(s) /\ From(j) # k /\ r[j] = s[From(j)]
    BY <2>5
  <2>7. \A i, j \in 1..Len(r) : From(i) = From(j) => i = j
    OBVIOUS
  <2> HIDE DEF From, r
  <2>8. NoneTwice(r)
    BY <2>6, <2>7 DEF NoneTwice
  <2>9. \A j \in 1..Len(r) : r[j] # x /\ \E i \in 1..Len(s) : r[j] = s[i]
    BY <2>1, <2>6 DEF NoneTwice
  <2> QED
    BY <2>5, <2>8, <2>9 DEF r
<1> QED
  BY <1>1, <1>2

\* Elements other than x stay.
LEMMA RemovedKeeps ==
    ASSUME NEW S, NEW s \in Seq(S), NoneTwice(s), NEW x, NEW i \in 1..Len(s), s[i] # x
    PROVE  \E j \in 1..Len(RemoveFirst(s, x)) : RemoveFirst(s, x)[j] = s[i]
<1> DEFINE r == RemoveFirst(s, x)
<1>1. CASE ~\E n \in 1..Len(s) : s[n] = x
  <2>1. r = s
    BY <1>1 DEF RemoveFirst
  <2> QED
    BY <2>1
<1>2. CASE \E n \in 1..Len(s) : s[n] = x
  <2>1. PICK k \in 1..Len(s) : s[k] = x
    BY <1>2
  <2>2. {n \in 1..Len(s) : s[n] = x} = {k}
    BY <2>1 DEF NoneTwice
  <2>3. Min({k}) = k
    BY <2>1 DEF Min
  <2>4. r = RemoveAt(s, k)
    BY <1>2, <2>2, <2>3 DEF RemoveFirst, SelectInSeq
  <2>5. /\ r \in Seq(S) /\ Len(r) = Len(s) - 1 /\ Len(s) \in Nat
        /\ \A j \in 1..Len(s) - 1 : r[j] = IF j < k THEN s[j] ELSE s[j + 1]
    BY <2>1, <2>4, RemovedOne, SMTT(40)
  <2> HIDE DEF r
  <2>6. CASE i < k
    <3>1. i \in 1..Len(s) - 1 /\ r[i] = s[i]
      BY <2>1, <2>5, <2>6
    <3> QED
      BY <2>5, <3>1 DEF r
  <2>7. CASE ~(i < k)
    <3>1. i # k
      BY <2>1
    <3>2. i - 1 \in 1..Len(s) - 1 /\ ~(i - 1 < k) /\ (i - 1) + 1 = i
      BY <2>1, <2>5, <2>7, <3>1
    <3>3. r[i - 1] = s[i]
      BY <2>5, <3>2
    <3> QED
      BY <2>5, <3>2, <3>3 DEF r
  <2> QED
    BY <2>6, <2>7
<1> QED
  BY <1>1, <1>2

-----------------------------------------------------------------------------
(* What the state is made of.                                              *)

Ops == {"OPEN", "CREATE", "DOOM"}
Results == {"OK", "ERR_FAILED", "ERR_CACHE_RACE", "ERR_CREATE_FAILURE"}
Modes == {"NONE", "READ", "WRITE", "READ_WRITE", "UPDATE"}

\* The next turn of DoLoop is a call of the cache; a transaction that has an entry; one
\* that has left the cache or has not come to it.
Turns == {"INIT_ENTRY", "CREATE_ENTRY", "ADD_TO_ENTRY"}
Holding == AtDisk \cup AtNetwork \cup {"headers", "auth", "data", "neterror", "failed"}
Outside == {"UNBORN", "GONE", "past"}

Item == [op : Ops, trans : Trans \cup {None}]
Operation == [op : Ops, trans : Trans \cup {None}, queue : Seq(Item)]
Entry ==
    [key : Keys, writer : Trans \cup {None}, readers : SUBSET Trans, queue : Seq(Trans),
     will : BOOLEAN, doomed : BOOLEAN, content : Contents]
RunFrame == [frame : {"run"}, trans : Trans, rv : Results]
UserFrame == [frame : {"user"}, trans : Trans]
ItemsFrame ==
    [frame : {"items"}, key : Keys, op : Ops, rv : {"OK", "ERR_FAILED"}, fail : BOOLEAN,
     items : Seq(Item)]
Frame == RunFrame \cup UserFrame \cup ItemsFrame
Cache ==
    [entries : [Entries -> Entry \cup {Closed}], active : [Keys -> Entries \cup {NoEntry}],
     ops : [Keys -> Operation \cup {NoOp}], disk : [Keys -> Contents],
     posted : SUBSET Entries, stack : Seq(Frame)]
Transaction ==
    [next : AtCache \cup Turns \cup Holding \cup Outside, key : Keys \cup {None},
     mode : Modes, entry : Entries \cup {NoEntry}, new : Entries \cup {NoEntry},
     reads : Nat, restarts : Nat]

-----------------------------------------------------------------------------
(* Where a transaction is, in the cache c with the transactions w and the queue b of   *)
(* those that wait for the backend.                                                    *)

IsLive(c, e) == c.entries[e] # Closed
Uses(c, t, e) == t = c.entries[e].writer \/ t \in c.entries[e].readers
Has(s, t) == \E i \in 1 .. Len(s) : s[i] = t
InItems(q, t) == \E i \in 1 .. Len(q) : q[i].trans = t
Queued(c, t, e) == IsLive(c, e) /\ Has(c.entries[e].queue, t)
InOperation(c, t, k) == c.ops[k] # NoOp /\ (c.ops[k].trans = t \/ InItems(c.ops[k].queue, t))
Waits(b, c, t) ==
    \/ Has(b, t)
    \/ \E e \in Entries : Queued(c, t, e)
    \/ \E k \in Keys : InOperation(c, t, k)

InFrame(f, t) ==
    \/ f.frame = "run" /\ f.trans = t
    \/ f.frame = "items" /\ InItems(f.items, t)
OnStack(s, t) == \E i \in 1 .. Len(s) : InFrame(s[i], t)

Once(q) == \A i, j \in 1 .. Len(q) : q[i].trans = q[j].trans /\ q[i].trans # None => i = j

-----------------------------------------------------------------------------
(* The invariant.  x is the transaction in hand: a step takes it from its place and puts it *)
(* into another, and in between it is nowhere; None else.  o is the entry that is, in       *)
(* between, without anybody who would look after it; NoEntry else.                          *)

\* What DoLoop of t is called with next.
RunsNow(c, x, t, rv) == x = None /\ c.stack # <<>> /\ Head(c.stack) = Run(t, rv)

\* The entry is t's, or is going to be when t's DoLoop gets OK.
HasOrGets(c, w, x, t, e) ==
    \/ w[t].entry = e
    \/ w[t].new = e /\ w[t].next = "ADD_TO_ENTRY_COMPLETE" /\ RunsNow(c, x, t, "OK")
IsAboutToAdd(c, w, x, t, e) ==
    /\ w[t].new = e /\ RunsNow(c, x, t, "OK")
    /\ w[t].next \in {"OPEN_ENTRY_COMPLETE", "CREATE_ENTRY_COMPLETE", "ADD_TO_ENTRY"}

LockOk(c, w, x, e) ==
    LET y == c.entries[e] IN
    /\ y.writer # None => /\ y.readers = {} /\ ~y.will /\ Writes(w[y.writer].mode)
                          /\ HasOrGets(c, w, x, y.writer, e)
    /\ \A t \in y.readers : w[t].mode = "READ" /\ HasOrGets(c, w, x, t, e)
QueueOk(c, w, e) ==
    LET q == c.entries[e].queue IN
    /\ NoneTwice(q)
    /\ \A i \in 1 .. Len(q) : w[q[i]].next = "ADD_TO_ENTRY_COMPLETE" /\ w[q[i]].new = e
LinkOk(c, e) ==
    /\ c.entries[e].will <=> e \in c.posted
    /\ c.entries[e].doomed <=> c.active[c.entries[e].key] # e
ContentOk(c, w, e) ==
    LET y == c.entries[e] IN
    /\ y.content # "absent"
    /\ y.content = "partial" => y.writer # None /\ w[y.writer].mode = "WRITE"
AttendedOk(c, w, x, e) ==
    LET y == c.entries[e] IN
    \/ y.writer # None \/ y.readers # {} \/ y.will
    \/ \E t \in Trans : IsAboutToAdd(c, w, x, t, e)

EntryOk(c, w, x, o, e) ==
    /\ LockOk(c, w, x, e) /\ QueueOk(c, w, e) /\ LinkOk(c, e) /\ ContentOk(c, w, e)
    /\ e # o => AttendedOk(c, w, x, e)
EntriesOk(c, w, x, o) == \A e \in Entries : IsLive(c, e) => EntryOk(c, w, x, o, e)

ActiveOk(c) ==
    /\ \A k \in Keys : c.active[k] # NoEntry =>
           IsLive(c, c.active[k]) /\ c.entries[c.active[k]].key = k
    /\ \A e \in c.posted : IsLive(c, e)
    /\ \A k \in Keys : c.disk[k] # "partial"

Completes(op) ==
    CASE op = "OPEN" -> "OPEN_ENTRY_COMPLETE"
      [] op = "CREATE" -> "CREATE_ENTRY_COMPLETE"
      [] op = "DOOM" -> "DOOM_ENTRY_COMPLETE"
ItemOk(w, k, op, t) == t # None => w[t].key = k /\ w[t].next = Completes(op)
ItemsOk(w, k, q) == Once(q) /\ \A i \in 1 .. Len(q) : ItemOk(w, k, q[i].op, q[i].trans)

OpsOk(c, w) ==
    \A k \in Keys : c.ops[k] # NoOp =>
        /\ c.active[k] = NoEntry
        /\ ItemOk(w, k, c.ops[k].op, c.ops[k].trans)
        /\ ItemsOk(w, k, c.ops[k].queue)
        /\ c.ops[k].trans # None => ~InItems(c.ops[k].queue, c.ops[k].trans)

\* A call of t with rv is on the stack, first or behind others.
RunOk(c, w, t, rv, first) ==
    LET r == w[t] IN
    /\ r.next \in AtCache \cup Turns
    /\ \/ first
       \/ r.next = "INIT_ENTRY"
       \/ r.next = "ADD_TO_ENTRY_COMPLETE" /\ rv = "ERR_CACHE_RACE"
    /\ r.next \in Turns => rv = "OK"
    /\ r.next = "OPEN_ENTRY_COMPLETE" => /\ rv = "OK" => r.new # NoEntry
                                         /\ rv = "ERR_FAILED" => c.active[r.key] = NoEntry
    /\ r.next = "CREATE_ENTRY" => c.active[r.key] = NoEntry
    /\ r.next = "CREATE_ENTRY_COMPLETE" /\ rv = "OK" => r.new # NoEntry
    /\ r.next = "DOOM_ENTRY_COMPLETE" /\ rv # "ERR_CACHE_RACE" => c.active[r.key] = NoEntry
    /\ r.next = "ADD_TO_ENTRY_COMPLETE" =>
          \/ rv = "ERR_CACHE_RACE"
          \/ rv = "OK" /\ IsLive(c, r.new) /\ Uses(c, t, r.new)
FrameOk(c, w, f, first) ==
    /\ f.frame = "run" => RunOk(c, w, f.trans, f.rv, first)
    /\ f.frame = "user" => first /\ w[f.trans].next = "past"
    /\ f.frame = "items" => /\ f.items # <<>> /\ ItemsOk(w, f.key, f.items)
                            /\ f.rv # "OK" => c.active[f.key] = NoEntry
OneFrameEach(s) ==
    \A i, j \in 1 .. Len(s), t \in Trans : InFrame(s[i], t) /\ InFrame(s[j], t) => i = j
StackOk(c, w, x) ==
    /\ \A i \in 1 .. Len(c.stack) : FrameOk(c, w, c.stack[i], i = 1 /\ x = None)
    /\ OneFrameEach(c.stack)

BackendOpOk(b, w) ==
    /\ NoneTwice(b) /\ \A i \in 2 .. Len(b) : b[i] # None
    /\ \A i \in 1 .. Len(b) : b[i] # None => w[b[i]].next = "GET_BACKEND_COMPLETE"

PlaceOk(b, c, w, t) ==
    /\ w[t].next \in AtCache \cup Turns => OnStack(c.stack, t) \/ Waits(b, c, t)
    /\ ~(OnStack(c.stack, t) /\ Waits(b, c, t))

\* The entry that t has got from the cache and has not yet joined.
NewOk(c, w, x, t) ==
    LET r == w[t] IN
    /\ r.new # NoEntry => r.next \in {"OPEN_ENTRY_COMPLETE", "CREATE_ENTRY_COMPLETE",
                                      "ADD_TO_ENTRY", "ADD_TO_ENTRY_COMPLETE"}
    /\ r.new # NoEntry /\ r.next # "ADD_TO_ENTRY_COMPLETE" =>
           RunsNow(c, x, t, "OK") /\ r.new = c.active[r.key]
    /\ r.next \in {"ADD_TO_ENTRY", "ADD_TO_ENTRY_COMPLETE"} => r.new # NoEntry
    /\ r.next = "ADD_TO_ENTRY_COMPLETE" =>
           \/ Queued(c, t, r.new)
           \/ RunsNow(c, x, t, "OK") /\ IsLive(c, r.new) /\ Uses(c, t, r.new)
           \/ Has(c.stack, Run(t, "ERR_CACHE_RACE"))

\* The entry that t holds, and what is in it, by t's state.
HoldOk(c, w, t) ==
    LET r == w[t]
        content == c.entries[r.entry].content
    IN
    /\ r.entry # NoEntry <=> r.next \in Holding
    /\ r.entry # NoEntry => IsLive(c, r.entry) /\ Uses(c, t, r.entry)
    /\ r.next \in AtCache \cup Turns \cup Holding => r.key \in Keys
    /\ r.next \notin Outside \cup {"GET_BACKEND_COMPLETE"} => r.mode # "NONE"
    /\ r.next \in AtNetwork \cup {"neterror", "auth", "UPDATE_CACHED_RESPONSE_COMPLETE",
                                  "TRUNCATE_CACHED_DATA", "CACHE_WRITE_DATA_COMPLETE"}
           => Writes(r.mode)
    /\ r.next = "CACHE_READ_DATA_COMPLETE" => r.mode = "READ"
    /\ r.next = "UPDATE_CACHED_RESPONSE_COMPLETE" => r.mode # "WRITE"
    /\ r.mode = "READ_WRITE" /\ r.next \in {"SEND_REQUEST_COMPLETE", "neterror", "auth"} =>
           content \in {"whole", "truncated"}
    /\ r.mode = "READ_WRITE" /\ r.next = "UPDATE_CACHED_RESPONSE_COMPLETE" => content = "whole"
    /\ r.mode = "READ" /\ r.next \in {"headers", "data", "CACHE_READ_DATA_COMPLETE"} =>
           content = "whole"

TransactionOk(b, c, w, x, t) == PlaceOk(b, c, w, t) /\ NewOk(c, w, x, t) /\ HoldOk(c, w, t)
Nowhere(b, c, t) ==
    /\ ~OnStack(c.stack, t) /\ ~Waits(b, c, t)
    /\ \A e \in Entries : IsLive(c, e) => ~Uses(c, t, e)
TransactionsOk(b, c, w, x) ==
    /\ \A t \in Trans : t # x => TransactionOk(b, c, w, x, t)
    /\ x # None => Nowhere(b, c, x)

Typed(b, c, w, x) ==
    /\ c \in Cache /\ w \in [Trans -> Transaction] /\ b \in Seq(Trans \cup {None})
    /\ x \in Trans \cup {None}

Good(b, c, w, x, o) ==
    /\ Typed(b, c, w, x)
    /\ EntriesOk(c, w, x, o) /\ ActiveOk(c) /\ OpsOk(c, w) /\ StackOk(c, w, x)
    /\ BackendOpOk(b, w) /\ TransactionsOk(b, c, w, x)

IInv ==
    /\ backend \in {"factory", "ready", "failed"}
    /\ Good(backendOp, cache, tr, None, NoEntry)

-----------------------------------------------------------------------------
(* The parts of the state                                                  *)

\* What a cache is made of.
LEMMA CacheFields ==
    ASSUME NEW c \in Cache
    PROVE  /\ c.entries \in [Entries -> Entry \cup {Closed}]
           /\ c.active \in [Keys -> Entries \cup {NoEntry}]
           /\ c.ops \in [Keys -> Operation \cup {NoOp}]
           /\ c.disk \in [Keys -> Contents] /\ c.posted \in SUBSET Entries
           /\ c.stack \in Seq(Frame)
           /\ \A e \in Entries : c.entries[e] \in Entry \cup {Closed}
           /\ \A k \in Keys : /\ c.active[k] \in Entries \cup {NoEntry}
                              /\ c.ops[k] \in Operation \cup {NoOp}
                              /\ c.disk[k] \in Contents
BY DEF Cache

\* The cache with other parts.
Made(en, ac, op, di, po, st) ==
    [entries |-> en, active |-> ac, ops |-> op, disk |-> di, posted |-> po, stack |-> st]

\* What they are.
LEMMA MadeFields ==
    ASSUME NEW en \in [Entries -> Entry \cup {Closed}],
           NEW ac \in [Keys -> Entries \cup {NoEntry}],
           NEW op \in [Keys -> Operation \cup {NoOp}],
           NEW di \in [Keys -> Contents], NEW po \in SUBSET Entries, NEW st \in Seq(Frame)
    PROVE  LET d == Made(en, ac, op, di, po, st) IN
           /\ d \in Cache
           /\ d.entries = en /\ d.active = ac /\ d.ops = op /\ d.disk = di
           /\ d.posted = po /\ d.stack = st
BY DEF Made, Cache

\* Parts may be replaced one by one.
LEMMA OneByOne ==
    ASSUME NEW c, NEW u, NEW v
    PROVE  /\ [c EXCEPT !.entries = u, !.posted = v] = [[c EXCEPT !.entries = u] EXCEPT !.posted = v]
           /\ [c EXCEPT !.posted = v, !.entries = u] = [[c EXCEPT !.posted = v] EXCEPT !.entries = u]
           /\ [c EXCEPT !.entries = u, !.active = v] = [[c EXCEPT !.entries = u] EXCEPT !.active = v]
           /\ [c EXCEPT !.ops = u, !.stack = v] = [[c EXCEPT !.ops = u] EXCEPT !.stack = v]
           /\ \A r : [c EXCEPT !.entries = u, !.active = v, !.disk = r]
                         = [[c EXCEPT !.entries = u, !.active = v] EXCEPT !.disk = r]
OBVIOUS

\* A cache is made of its parts, and so is what EXCEPT makes of it.
LEMMA PartsOf ==
    ASSUME NEW c \in Cache
    PROVE  /\ c = Made(c.entries, c.active, c.ops, c.disk, c.posted, c.stack)
           /\ \A v : [c EXCEPT !.entries = v]
                         = Made(v, c.active, c.ops, c.disk, c.posted, c.stack)
           /\ \A v, p : [c EXCEPT !.entries = v, !.posted = p]
                            = Made(v, c.active, c.ops, c.disk, p, c.stack)
           /\ \A v, a, p : [c EXCEPT !.entries = v, !.active = a, !.disk = p]
                               = Made(v, a, c.ops, p, c.posted, c.stack)
           /\ \A v, a : [c EXCEPT !.entries = v, !.active = a]
                            = Made(v, a, c.ops, c.disk, c.posted, c.stack)
           /\ \A v : [c EXCEPT !.disk = v]
                         = Made(c.entries, c.active, c.ops, v, c.posted, c.stack)
           /\ \A v, s : [c EXCEPT !.ops = v, !.stack = s]
                            = Made(c.entries, c.active, v, c.disk, c.posted, s)
           /\ \A v : [c EXCEPT !.ops = v]
                         = Made(c.entries, c.active, v, c.disk, c.posted, c.stack)
           /\ \A v : [c EXCEPT !.stack = v]
                         = Made(c.entries, c.active, c.ops, c.disk, c.posted, v)
<1>1. c = Made(c.entries, c.active, c.ops, c.disk, c.posted, c.stack)
  BY DEF Made, Cache
<1>2. \A v : [c EXCEPT !.entries = v] = Made(v, c.active, c.ops, c.disk, c.posted, c.stack)
  BY DEF Made, Cache
<1>3. ASSUME NEW v, NEW p
      PROVE  [c EXCEPT !.entries = v, !.posted = p] = Made(v, c.active, c.ops, c.disk, p, c.stack)
  <2> DEFINE m == Made(v, c.active, c.ops, c.disk, c.posted, c.stack)
  <2>1. [c EXCEPT !.entries = v, !.posted = p] = [[c EXCEPT !.entries = v] EXCEPT !.posted = p]
    BY OneByOne, Zenon
  <2>2. [c EXCEPT !.entries = v] = m
    BY <1>2
  <2>3. [m EXCEPT !.posted = p] = Made(v, c.active, c.ops, c.disk, p, c.stack)
    BY DEF Made
  <2> HIDE DEF m
  <2>4. [[c EXCEPT !.entries = v] EXCEPT !.posted = p] = [m EXCEPT !.posted = p]
    BY <2>2, Zenon
  <2> QED
    BY <2>1, <2>3, <2>4, Zenon
<1>4. ASSUME NEW v, NEW a
      PROVE  [c EXCEPT !.entries = v, !.active = a] = Made(v, a, c.ops, c.disk, c.posted, c.stack)
  <2> DEFINE m == Made(v, c.active, c.ops, c.disk, c.posted, c.stack)
  <2>1. [c EXCEPT !.entries = v, !.active = a] = [[c EXCEPT !.entries = v] EXCEPT !.active = a]
    BY OneByOne, Zenon
  <2>2. [c EXCEPT !.entries = v] = m
    BY <1>2
  <2>3. [m EXCEPT !.active = a] = Made(v, a, c.ops, c.disk, c.posted, c.stack)
    BY DEF Made
  <2> HIDE DEF m
  <2>4. [[c EXCEPT !.entries = v] EXCEPT !.active = a] = [m EXCEPT !.active = a]
    BY <2>2, Zenon
  <2> QED
    BY <2>1, <2>3, <2>4, Zenon
<1>5. ASSUME NEW v, NEW a, NEW p
      PROVE  [c EXCEPT !.entries = v, !.active = a, !.disk = p] = Made(v, a, c.ops, p, c.posted, c.stack)
  <2> DEFINE m == Made(v, a, c.ops, c.disk, c.posted, c.stack)
  <2>1. [c EXCEPT !.entries = v, !.active = a, !.disk = p] = [[c EXCEPT !.entries = v, !.active = a] EXCEPT !.disk = p]
    BY OneByOne, Zenon
  <2>2. [c EXCEPT !.entries = v, !.active = a] = m
    BY <1>4
  <2>3. [m EXCEPT !.disk = p] = Made(v, a, c.ops, p, c.posted, c.stack)
    BY DEF Made
  <2> HIDE DEF m
  <2>4. [[c EXCEPT !.entries = v, !.active = a] EXCEPT !.disk = p] = [m EXCEPT !.disk = p]
    BY <2>2, Zenon
  <2> QED
    BY <2>1, <2>3, <2>4, Zenon
<1>6. \A v : [c EXCEPT !.disk = v] = Made(c.entries, c.active, c.ops, v, c.posted, c.stack)
  BY DEF Made, Cache
<1>7. \A v : [c EXCEPT !.ops = v] = Made(c.entries, c.active, v, c.disk, c.posted, c.stack)
  BY DEF Made, Cache
<1>8. ASSUME NEW v, NEW s
      PROVE  [c EXCEPT !.ops = v, !.stack = s] = Made(c.entries, c.active, v, c.disk, c.posted, s)
  <2> DEFINE m == Made(c.entries, c.active, v, c.disk, c.posted, c.stack)
  <2>1. [c EXCEPT !.ops = v, !.stack = s] = [[c EXCEPT !.ops = v] EXCEPT !.stack = s]
    BY OneByOne, Zenon
  <2>2. [c EXCEPT !.ops = v] = m
    BY <1>7
  <2>3. [m EXCEPT !.stack = s] = Made(c.entries, c.active, v, c.disk, c.posted, s)
    BY DEF Made
  <2> HIDE DEF m
  <2>4. [[c EXCEPT !.ops = v] EXCEPT !.stack = s] = [m EXCEPT !.stack = s]
    BY <2>2, Zenon
  <2> QED
    BY <2>1, <2>3, <2>4, Zenon
<1>9. \A v : [c EXCEPT !.stack = v] = Made(c.entries, c.active, c.ops, c.disk, c.posted, v)
  BY DEF Made, Cache
<1> QED
  BY <1>1, <1>2, <1>3, <1>4, <1>5, <1>6, <1>7, <1>8, <1>9

\* The same in the other order.
LEMMA TasksThenEntries ==
    ASSUME NEW c \in Cache, NEW v, NEW p
    PROVE  [c EXCEPT !.posted = p, !.entries = v] = Made(v, c.active, c.ops, c.disk, p, c.stack)
<1> DEFINE m == Made(c.entries, c.active, c.ops, c.disk, p, c.stack)
<1>1. [c EXCEPT !.posted = p, !.entries = v] = [[c EXCEPT !.posted = p] EXCEPT !.entries = v]
  BY OneByOne, Zenon
<1>2. [c EXCEPT !.posted = p] = m
  BY DEF Made, Cache
<1>3. [m EXCEPT !.entries = v] = Made(v, c.active, c.ops, c.disk, p, c.stack)
  BY DEF Made
<1> HIDE DEF m
<1>4. [[c EXCEPT !.posted = p] EXCEPT !.entries = v] = [m EXCEPT !.entries = v]
  BY <1>2, Zenon
<1> QED
  BY <1>1, <1>3, <1>4, Zenon

\* What an entry is made of; a closed one is none.
LEMMA EntryFields ==
    ASSUME NEW y \in Entry
    PROVE  /\ y.key \in Keys /\ y.writer \in Trans \cup {None} /\ y.readers \in SUBSET Trans
           /\ y.queue \in Seq(Trans) /\ y.will \in BOOLEAN /\ y.doomed \in BOOLEAN
           /\ y.content \in Contents /\ y # Closed
BY NoneAssumption DEF Entry, Closed

\* What a live entry is made of.
LEMMA LiveFields ==
    ASSUME NEW c \in Cache, NEW e \in Entries, IsLive(c, e)
    PROVE  /\ c.entries[e] \in Entry /\ c.entries[e].key \in Keys
           /\ c.entries[e].writer \in Trans \cup {None} /\ c.entries[e].readers \in SUBSET Trans
           /\ c.entries[e].queue \in Seq(Trans) /\ c.entries[e].will \in BOOLEAN
           /\ c.entries[e].doomed \in BOOLEAN /\ c.entries[e].content \in Contents
<1>1. c.entries[e] \in Entry
  BY CacheFields DEF IsLive
<1> QED
  BY <1>1, EntryFields

\* What an operation is made of, and its items.
LEMMA OperationFields ==
    ASSUME NEW y \in Operation
    PROVE  /\ y.op \in Ops /\ y.trans \in Trans \cup {None} /\ y.queue \in Seq(Item) /\ y # NoOp
           /\ \A i \in 1 .. Len(y.queue) : /\ y.queue[i] \in Item /\ y.queue[i].op \in Ops
                                           /\ y.queue[i].trans \in Trans \cup {None}
<1>1. y.op \in Ops /\ y.trans \in Trans \cup {None} /\ y.queue \in Seq(Item)
  BY DEF Operation
<1>2. y # NoOp
  BY <1>1 DEF Ops, NoOp
<1> HIDE DEF Item
<1>3. \A i \in 1 .. Len(y.queue) : y.queue[i] \in Item
  BY <1>1
<1> QED
  BY <1>1, <1>2, <1>3 DEF Item

\* What a transaction is made of.
LEMMA TransactionFields ==
    ASSUME NEW r \in Transaction
    PROVE  /\ r.next \in AtCache \cup Turns \cup Holding \cup Outside
           /\ r.key \in Keys \cup {None} /\ r.mode \in Modes
           /\ r.entry \in Entries \cup {NoEntry} /\ r.new \in Entries \cup {NoEntry}
           /\ r.reads \in Nat /\ r.restarts \in Nat
BY DEF Transaction

\* Frames by their kind.
LEMMA FrameFields ==
    ASSUME NEW f \in Frame
    PROVE  /\ f.frame \in {"run", "user", "items"}
           /\ f.frame = "run" => f.trans \in Trans /\ f.rv \in Results /\ f = Run(f.trans, f.rv)
           /\ f.frame = "user" => f.trans \in Trans /\ f = User(f.trans)
           /\ f.frame = "items" => /\ f.key \in Keys /\ f.op \in Ops /\ f.rv \in {"OK", "ERR_FAILED"}
                                   /\ f.fail \in BOOLEAN /\ f.items \in Seq(Item)
<1>1. CASE f \in RunFrame
  BY <1>1 DEF RunFrame, Run
<1>2. CASE f \in UserFrame
  BY <1>2 DEF UserFrame, User
<1>3. CASE f \in ItemsFrame
  BY <1>3 DEF ItemsFrame
<1> QED
  BY <1>1, <1>2, <1>3 DEF Frame

\* Frames that are made.
LEMMA NewFrames ==
    /\ \A t \in Trans, rv \in Results :
          Run(t, rv) \in Frame /\ Run(t, rv).frame = "run" /\ Run(t, rv).trans = t
              /\ Run(t, rv).rv = rv
    /\ \A t \in Trans : User(t) \in Frame /\ User(t).frame = "user" /\ User(t).trans = t
    /\ \A k \in Keys, op \in Ops, rv \in {"OK", "ERR_FAILED"}, fail \in BOOLEAN,
          q \in Seq(Item) :
          LET f == Items(k, op, rv, fail, q) IN
          /\ f \in Frame /\ f.frame = "items" /\ f.key = k /\ f.op = op /\ f.rv = rv
          /\ f.fail = fail /\ f.items = q
<1>1. \A t \in Trans, rv \in Results :
          Run(t, rv) \in RunFrame /\ Run(t, rv).frame = "run" /\ Run(t, rv).trans = t
              /\ Run(t, rv).rv = rv
  BY DEF Run, RunFrame
<1>2. \A t \in Trans : User(t) \in UserFrame /\ User(t).frame = "user" /\ User(t).trans = t
  BY DEF User, UserFrame
<1>3. ASSUME NEW k \in Keys, NEW op \in Ops, NEW rv \in {"OK", "ERR_FAILED"},
             NEW fail \in BOOLEAN, NEW q \in Seq(Item)
      PROVE  LET f == Items(k, op, rv, fail, q) IN
             /\ f \in ItemsFrame /\ f.frame = "items" /\ f.key = k /\ f.op = op /\ f.rv = rv
             /\ f.fail = fail /\ f.items = q
  BY DEF Items, ItemsFrame
<1> QED
  BY <1>1, <1>2, <1>3 DEF Frame

\* A frame in front of a stack.
LEMMA InFront ==
    ASSUME NEW S, NEW s \in Seq(S), NEW f \in S
    PROVE  /\ <<f>> \o s \in Seq(S) /\ Len(<<f>> \o s) = Len(s) + 1 /\ Len(s) \in Nat
           /\ (<<f>> \o s)[1] = f /\ <<f>> \o s # <<>> /\ Head(<<f>> \o s) = f
           /\ \A i \in 1 .. Len(s) : (<<f>> \o s)[i + 1] = s[i]
           /\ \A i \in 2 .. Len(s) + 1 : (<<f>> \o s)[i] = s[i - 1]
           /\ Tail(<<f>> \o s) = s
OBVIOUS

\* A stack and its first frame.
LEMMA FirstOf ==
    ASSUME NEW S, NEW s \in Seq(S), s # <<>>
    PROVE  /\ Head(s) = s[1] /\ Head(s) \in S /\ Tail(s) \in Seq(S) /\ Len(s) \in Nat /\ 1 \in 1 .. Len(s)
           /\ Len(Tail(s)) = Len(s) - 1
           /\ \A i \in 1 .. Len(Tail(s)) : i + 1 \in 2 .. Len(s) /\ Tail(s)[i] = s[i + 1]
           /\ \A i \in 2 .. Len(s) : i - 1 \in 1 .. Len(Tail(s)) /\ s[i] = Tail(s)[i - 1]
OBVIOUS

-----------------------------------------------------------------------------
(* A transaction in hand                                                   *)

\* Only the record of x differs.
Differ(w, v, x) == \A u \in Trans : u # x => v[u] = w[u]

\* Where x is not, its record does not matter.
LEMMA Absent ==
    ASSUME NEW b, NEW c, NEW x \in Trans, Nowhere(b, c, x)
    PROVE  /\ \A i \in 1 .. Len(c.stack) : ~InFrame(c.stack[i], x)
           /\ \A e \in Entries : IsLive(c, e) =>
                 /\ c.entries[e].writer # x /\ x \notin c.entries[e].readers
                 /\ \A i \in 1 .. Len(c.entries[e].queue) : c.entries[e].queue[i] # x
           /\ \A k \in Keys : c.ops[k] # NoOp =>
                 c.ops[k].trans # x /\ ~InItems(c.ops[k].queue, x)
           /\ \A i \in 1 .. Len(b) : b[i] # x
BY DEF Nowhere, OnStack, Waits, Queued, Has, InOperation, Uses

\* Items among which x is not.
LEMMA ItemsElsewhere ==
    ASSUME NEW w, NEW v, NEW x \in Trans, Differ(w, v, x), NEW k, NEW q \in Seq(Item),
           ~InItems(q, x), ItemsOk(w, k, q)
    PROVE  ItemsOk(v, k, q)
<1>1. \A i \in 1 .. Len(q) : q[i].trans # x /\ q[i].trans \in Trans \cup {None}
  <2>1. \A i \in 1 .. Len(q) : q[i] \in Item
    OBVIOUS
  <2> QED
    BY <2>1 DEF InItems, Item
<1> QED
  BY <1>1 DEF ItemsOk, ItemOk, Differ

\* A frame on which x is not.
LEMMA FrameElsewhere ==
    ASSUME NEW c, NEW w, NEW v, NEW x \in Trans, Differ(w, v, x), NEW f \in Frame,
           ~InFrame(f, x), FrameOk(c, w, f, FALSE)
    PROVE  FrameOk(c, v, f, FALSE)
<1>1. CASE f.frame = "run"
  <2>1. f.trans \in Trans /\ f.trans # x
    BY <1>1, FrameFields DEF InFrame
  <2>2. v[f.trans] = w[f.trans]
    BY <2>1 DEF Differ
  <2>3. RunOk(c, w, f.trans, f.rv, FALSE)
    BY <1>1 DEF FrameOk
  <2>4. RunOk(c, v, f.trans, f.rv, FALSE)
    BY <2>2, <2>3 DEF RunOk
  <2> QED
    BY <1>1, <2>4 DEF FrameOk
<1>2. CASE f.frame = "user"
  BY <1>2 DEF FrameOk
<1>3. CASE f.frame = "items"
  <2>1. f.items \in Seq(Item) /\ ~InItems(f.items, x) /\ ItemsOk(w, f.key, f.items)
    BY <1>3, FrameFields DEF InFrame, FrameOk
  <2>2. ItemsOk(v, f.key, f.items)
    BY <2>1, ItemsElsewhere
  <2> QED
    BY <1>3, <2>2 DEF FrameOk
<1> QED
  BY <1>1, <1>2, <1>3, FrameFields

\* An entry that x does not use or wait for.
LEMMA EntryElsewhere ==
    ASSUME NEW c \in Cache, NEW w, NEW v, NEW x \in Trans, Differ(w, v, x), NEW e \in Entries,
           IsLive(c, e), c.entries[e].writer # x, x \notin c.entries[e].readers,
           \A i \in 1 .. Len(c.entries[e].queue) : c.entries[e].queue[i] # x,
           NEW o, EntryOk(c, w, x, o, e)
    PROVE  EntryOk(c, v, x, o, e)
<1> DEFINE y == c.entries[e]
<1>1. /\ y.writer \in Trans \cup {None} /\ y.readers \subseteq Trans /\ y.queue \in Seq(Trans)
      /\ \A i \in 1 .. Len(y.queue) : y.queue[i] \in Trans
  BY LiveFields
<1>2. x # None
  BY NoneAssumption DEF Trans
<1>3. \A t : ~RunsNow(c, x, t, "OK")
  BY <1>2 DEF RunsNow
<1>4. LockOk(c, v, x, e)
  BY <1>1, <1>3 DEF EntryOk, LockOk, HasOrGets, Differ
<1>5. QueueOk(c, v, e)
  BY <1>1 DEF EntryOk, QueueOk, Differ
<1>6. ContentOk(c, v, e)
  BY <1>1 DEF EntryOk, ContentOk, Differ
<1>7. e # o => AttendedOk(c, v, x, e)
  BY <1>3 DEF EntryOk, AttendedOk, IsAboutToAdd
<1> QED
  BY <1>4, <1>5, <1>6, <1>7 DEF EntryOk

\* The other transactions.
LEMMA TransactionElsewhere ==
    ASSUME NEW b, NEW c, NEW w, NEW v, NEW x \in Trans, Differ(w, v, x), NEW t \in Trans, t # x,
           TransactionOk(b, c, w, x, t)
    PROVE  TransactionOk(b, c, v, x, t)
<1>1. v[t] = w[t]
  BY DEF Differ
<1> QED
  BY <1>1 DEF TransactionOk, PlaceOk, NewOk, HoldOk

\* The record of the transaction in hand may be any.
LEMMA InHand ==
    ASSUME NEW b, NEW c, NEW w, NEW x \in Trans, NEW o, Good(b, c, w, x, o),
           NEW r \in Transaction
    PROVE  Good(b, c, [w EXCEPT ![x] = r], x, o)
<1> DEFINE v == [w EXCEPT ![x] = r]
<1>1. Typed(b, c, w, x) /\ TransactionsOk(b, c, w, x)
  BY DEF Good
<1>2. x # None /\ c \in Cache /\ c.stack \in Seq(Frame)
      /\ \A k \in Keys : c.ops[k] \in Operation \cup {NoOp}
  BY <1>1, NoneAssumption, CacheFields DEF Typed, Trans
<1>3. Differ(w, v, x) /\ v \in [Trans -> Transaction]
  <2> HIDE DEF Transaction
  <2> QED
    BY <1>1 DEF Typed, Differ
<1>4. Nowhere(b, c, x)
  BY <1>1, <1>2 DEF TransactionsOk
<1> HIDE DEF v
<1>5. EntriesOk(c, v, x, o)
  <2>1. ASSUME NEW e \in Entries, IsLive(c, e) PROVE EntryOk(c, v, x, o, e)
    <3>1. EntryOk(c, w, x, o, e)
      BY <2>1 DEF Good, EntriesOk
    <3> QED
      BY <2>1, <3>1, <1>2, <1>3, <1>4, Absent, EntryElsewhere
  <2> QED
    BY <2>1 DEF EntriesOk
<1>6. OpsOk(c, v)
  <2>1. ASSUME NEW k \in Keys, c.ops[k] # NoOp
        PROVE  /\ c.active[k] = NoEntry
               /\ ItemOk(v, k, c.ops[k].op, c.ops[k].trans)
               /\ ItemsOk(v, k, c.ops[k].queue)
               /\ c.ops[k].trans # None => ~InItems(c.ops[k].queue, c.ops[k].trans)
    <3>1. /\ c.active[k] = NoEntry
          /\ ItemOk(w, k, c.ops[k].op, c.ops[k].trans)
          /\ ItemsOk(w, k, c.ops[k].queue)
          /\ c.ops[k].trans # None => ~InItems(c.ops[k].queue, c.ops[k].trans)
      BY <2>1 DEF Good, OpsOk
    <3>2. c.ops[k].trans # x /\ ~InItems(c.ops[k].queue, x)
      BY <2>1, <1>4, Absent
    <3>3. c.ops[k].trans \in Trans \cup {None} /\ c.ops[k].queue \in Seq(Item)
      BY <2>1, <1>2, OperationFields
    <3>4. ItemsOk(v, k, c.ops[k].queue)
      BY <3>1, <3>2, <3>3, <1>3, ItemsElsewhere
    <3>5. ItemOk(v, k, c.ops[k].op, c.ops[k].trans)
      BY <3>1, <3>2, <3>3, <1>3 DEF ItemOk, Differ
    <3> QED
      BY <3>1, <3>4, <3>5
  <2> QED
    BY <2>1 DEF OpsOk
<1>7. StackOk(c, v, x)
  <2>1. ASSUME NEW i \in 1 .. Len(c.stack) PROVE FrameOk(c, v, c.stack[i], FALSE)
    <3>1. FrameOk(c, w, c.stack[i], FALSE)
      BY <1>2 DEF Good, StackOk
    <3>2. c.stack[i] \in Frame
      BY <1>2
    <3> QED
      BY <3>1, <3>2, <1>3, <1>4, Absent, FrameElsewhere
  <2> QED
    BY <2>1, <1>2 DEF Good, StackOk
<1>8. BackendOpOk(b, v)
  <2>1. \A i \in 1 .. Len(b) : b[i] # x /\ b[i] \in Trans \cup {None}
    BY <1>1, <1>4, Absent DEF Typed
  <2> QED
    BY <2>1, <1>3 DEF Good, BackendOpOk, Differ
<1>9. TransactionsOk(b, c, v, x)
  <2>1. \A t \in Trans : t # x => TransactionOk(b, c, w, x, t)
    BY <1>1 DEF TransactionsOk
  <2>2. \A t \in Trans : t # x => TransactionOk(b, c, v, x, t)
    BY <2>1, <1>3, TransactionElsewhere
  <2> QED
    BY <2>2, <1>4 DEF TransactionsOk
<1> QED
  BY <1>1, <1>3, <1>5, <1>6, <1>7, <1>8, <1>9 DEF Good, Typed, v

-----------------------------------------------------------------------------
(* The transaction in hand is put on the stack                             *)

\* Caches that differ in their stacks only.
SameStore(c, d) ==
    /\ d.entries = c.entries /\ d.active = c.active /\ d.ops = c.ops /\ d.disk = c.disk
    /\ d.posted = c.posted

\* What does not depend on the stack.
LEMMA StoreOf ==
    ASSUME NEW c, NEW d, SameStore(c, d)
    PROVE  /\ \A e : IsLive(c, e) <=> IsLive(d, e)
           /\ \A e, t : Uses(c, t, e) <=> Uses(d, t, e)
           /\ \A e, t : Queued(c, t, e) <=> Queued(d, t, e)
           /\ \A k, t : InOperation(c, t, k) <=> InOperation(d, t, k)
           /\ \A b, t : Waits(b, c, t) <=> Waits(b, d, t)
           /\ ActiveOk(c) <=> ActiveOk(d)
           /\ \A w : OpsOk(c, w) <=> OpsOk(d, w)
           /\ \A w, t : HoldOk(c, w, t) <=> HoldOk(d, w, t)
           /\ \A w, t, rv, first : RunOk(c, w, t, rv, first) <=> RunOk(d, w, t, rv, first)
           /\ \A w, f, first : FrameOk(c, w, f, first) <=> FrameOk(d, w, f, first)
           /\ \A w, e : QueueOk(c, w, e) <=> QueueOk(d, w, e)
           /\ \A e : LinkOk(c, e) <=> LinkOk(d, e)
           /\ \A w, e : ContentOk(c, w, e) <=> ContentOk(d, w, e)
<1> USE DEF SameStore
<1>1. \A e : IsLive(c, e) <=> IsLive(d, e)
  BY DEF IsLive
<1>2. \A e, t : Uses(c, t, e) <=> Uses(d, t, e)
  BY DEF Uses
<1>3. \A e, t : Queued(c, t, e) <=> Queued(d, t, e)
  BY <1>1 DEF Queued
<1>4. \A k, t : InOperation(c, t, k) <=> InOperation(d, t, k)
  BY DEF InOperation
<1>5. \A b, t : Waits(b, c, t) <=> Waits(b, d, t)
  BY <1>3, <1>4 DEF Waits
<1>6. ActiveOk(c) <=> ActiveOk(d)
  BY <1>1 DEF ActiveOk
<1>7. \A w : OpsOk(c, w) <=> OpsOk(d, w)
  BY DEF OpsOk
<1>8. \A w, t : HoldOk(c, w, t) <=> HoldOk(d, w, t)
  BY <1>1, <1>2 DEF HoldOk
<1>9. \A w, t, rv, first : RunOk(c, w, t, rv, first) <=> RunOk(d, w, t, rv, first)
  BY <1>1, <1>2 DEF RunOk
<1>10. \A w, f, first : FrameOk(c, w, f, first) <=> FrameOk(d, w, f, first)
  BY <1>9 DEF FrameOk
<1>11. \A w, e : QueueOk(c, w, e) <=> QueueOk(d, w, e)
  BY DEF QueueOk
<1>12. \A e : LinkOk(c, e) <=> LinkOk(d, e)
  BY DEF LinkOk
<1>13. \A w, e : ContentOk(c, w, e) <=> ContentOk(d, w, e)
  BY DEF ContentOk
<1> QED
  BY <1>1, <1>2, <1>3, <1>4, <1>5, <1>6, <1>7, <1>8, <1>9, <1>10, <1>11, <1>12, <1>13

\* What Call does.
LEMMA CallFields ==
    ASSUME NEW c \in Cache, NEW s \in Seq(Frame)
    PROVE  /\ Call(c, s) \in Cache /\ SameStore(c, Call(c, s)) /\ Call(c, s).stack = s \o c.stack
<1>1. /\ c.stack \in Seq(Frame)
      /\ c = Made(c.entries, c.active, c.ops, c.disk, c.posted, c.stack)
  BY CacheFields, PartsOf
<1>2. s \o c.stack \in Seq(Frame)
  <2> HIDE DEF Frame
  <2> QED
    BY <1>1
<1>3. Call(c, s) = Made(c.entries, c.active, c.ops, c.disk, c.posted, s \o c.stack)
  BY PartsOf DEF Call
<1>4. LET d == Made(c.entries, c.active, c.ops, c.disk, c.posted, s \o c.stack) IN
      /\ d \in Cache
      /\ d.entries = c.entries /\ d.active = c.active /\ d.ops = c.ops /\ d.disk = c.disk
      /\ d.posted = c.posted /\ d.stack = s \o c.stack
  <2>1. /\ c.entries \in [Entries -> Entry \cup {Closed}]
        /\ c.active \in [Keys -> Entries \cup {NoEntry}]
        /\ c.ops \in [Keys -> Operation \cup {NoOp}]
        /\ c.disk \in [Keys -> Contents] /\ c.posted \in SUBSET Entries
    BY CacheFields
  <2> DEFINE s2 == s \o c.stack
  <2>2. s2 \in Seq(Frame)
    BY <1>2
  <2> HIDE DEF s2
  <2>3. LET d == Made(c.entries, c.active, c.ops, c.disk, c.posted, s2) IN
        /\ d \in Cache
        /\ d.entries = c.entries /\ d.active = c.active /\ d.ops = c.ops /\ d.disk = c.disk
        /\ d.posted = c.posted /\ d.stack = s2
    BY ONLY <2>1, <2>2 DEF Made, Cache
  <2> QED
    BY <2>3 DEF s2
<1> QED
  BY <1>3, <1>4 DEF SameStore

\* A frame in front: whoever was on the stack is still there, and the frame's are.
LEMMA OnStackInFront ==
    ASSUME NEW s \in Seq(Frame), NEW f \in Frame, NEW t
    PROVE  OnStack(<<f>> \o s, t) <=> InFrame(f, t) \/ OnStack(s, t)
<1> DEFINE r == <<f>> \o s
<1>1. /\ Len(r) = Len(s) + 1 /\ Len(s) \in Nat /\ r[1] = f
      /\ \A i \in 1 .. Len(s) : r[i + 1] = s[i]
      /\ \A i \in 2 .. Len(s) + 1 : r[i] = s[i - 1]
  BY InFront
<1> HIDE DEF r
<1>2. ASSUME OnStack(r, t) PROVE InFrame(f, t) \/ OnStack(s, t)
  <2>1. PICK i \in 1 .. Len(r) : InFrame(r[i], t)
    BY <1>2 DEF OnStack
  <2>2. CASE i = 1
    BY <2>1, <2>2, <1>1
  <2>3. CASE i # 1
    <3>1. i - 1 \in 1 .. Len(s) /\ r[i] = s[i - 1]
      BY <2>3, <1>1
    <3> QED
      BY <3>1, <2>1 DEF OnStack
  <2> QED
    BY <2>2, <2>3
<1>3. ASSUME InFrame(f, t) PROVE OnStack(r, t)
  <2>1. 1 \in 1 .. Len(r)
    BY <1>1
  <2> QED
    BY <2>1, <1>1, <1>3 DEF OnStack
<1>4. ASSUME OnStack(s, t) PROVE OnStack(r, t)
  <2>1. PICK i \in 1 .. Len(s) : InFrame(s[i], t)
    BY <1>4 DEF OnStack
  <2>2. i + 1 \in 1 .. Len(r) /\ r[i + 1] = s[i]
    BY <1>1
  <2> QED
    BY <2>1, <2>2 DEF OnStack
<1> QED
  BY <1>2, <1>3, <1>4 DEF r

\* A frame in front of a stack on which the frame's transactions are not.
LEMMA OneFrameInFront ==
    ASSUME NEW s \in Seq(Frame), NEW f \in Frame, OneFrameEach(s),
           \A t \in Trans : InFrame(f, t) => ~OnStack(s, t)
    PROVE  OneFrameEach(<<f>> \o s)
<1> DEFINE r == <<f>> \o s
<1>1. /\ Len(r) = Len(s) + 1 /\ Len(s) \in Nat /\ r[1] = f
      /\ \A i \in 2 .. Len(s) + 1 : r[i] = s[i - 1]
  BY InFront
<1> HIDE DEF r
<1>2. ASSUME NEW i \in 1 .. Len(r), NEW j \in 1 .. Len(r), NEW t \in Trans,
             InFrame(r[i], t), InFrame(r[j], t)
      PROVE  i = j
  <2>1. CASE i = 1 /\ j # 1
    <3>1. j - 1 \in 1 .. Len(s) /\ r[j] = s[j - 1]
      BY <2>1, <1>1
    <3> QED
      BY <2>1, <3>1, <1>1, <1>2 DEF OnStack
  <2>2. CASE i # 1 /\ j = 1
    <3>1. i - 1 \in 1 .. Len(s) /\ r[i] = s[i - 1]
      BY <2>2, <1>1
    <3> QED
      BY <2>2, <3>1, <1>1, <1>2 DEF OnStack
  <2>3. CASE i # 1 /\ j # 1
    <3>1. i - 1 \in 1 .. Len(s) /\ r[i] = s[i - 1] /\ j - 1 \in 1 .. Len(s) /\ r[j] = s[j - 1]
      BY <2>3, <1>1
    <3>2. i - 1 = j - 1
      BY <3>1, <1>2 DEF OneFrameEach
    <3> QED
      BY <3>2
  <2> QED
    BY <2>1, <2>2, <2>3
<1> QED
  BY <1>2 DEF OneFrameEach, r

\* A frame of x in front, whose record may be other than before.
LEMMA OthersBehind ==
    ASSUME NEW b, NEW c \in Cache, NEW d \in Cache, NEW w, NEW x \in Trans, SameStore(c, d),
           NEW f \in Frame, d.stack = <<f>> \o c.stack, \A t \in Trans : InFrame(f, t) => t = x
    PROVE  /\ \A t \in Trans : t # x /\ TransactionOk(b, c, w, x, t)
                                  => TransactionOk(b, d, w, None, t)
           /\ \A e \in Entries : \A o : EntryOk(c, w, x, o, e) => EntryOk(d, w, None, o, e)
<1>1. c.stack \in Seq(Frame) /\ x # None
  BY CacheFields, NoneAssumption DEF Trans
<1>2. \A t, rv : ~RunsNow(c, x, t, rv)
  BY <1>1 DEF RunsNow
<1>3. ASSUME NEW t \in Trans, t # x, TransactionOk(b, c, w, x, t)
      PROVE  TransactionOk(b, d, w, None, t)
  <2>1. OnStack(d.stack, t) <=> OnStack(c.stack, t)
    BY <1>1, <1>3, OnStackInFront
  <2>2. PlaceOk(b, d, w, t)
    BY <2>1, <1>3, StoreOf DEF TransactionOk, PlaceOk
  <2>3. HoldOk(d, w, t)
    BY <1>3, StoreOf DEF TransactionOk
  <2>4. Has(c.stack, Run(t, "ERR_CACHE_RACE")) => Has(d.stack, Run(t, "ERR_CACHE_RACE"))
    <3>1. Len(d.stack) = Len(c.stack) + 1 /\ Len(c.stack) \in Nat
          /\ \A i \in 1 .. Len(c.stack) : d.stack[i + 1] = c.stack[i]
      BY <1>1, InFront
    <3>2. \A i \in 1 .. Len(c.stack) : i + 1 \in 1 .. Len(d.stack)
      BY <3>1
    <3> QED
      BY <3>1, <3>2 DEF Has
  <2>5. NewOk(d, w, None, t)
    <3>1. \A e : Queued(c, t, e) => Queued(d, t, e)
      BY StoreOf
    <3> QED
      BY <3>1, <2>4, <1>2, <1>3 DEF TransactionOk, NewOk
  <2> QED
    BY <2>2, <2>3, <2>5 DEF TransactionOk
<1>4. ASSUME NEW e \in Entries, NEW o, EntryOk(c, w, x, o, e) PROVE EntryOk(d, w, None, o, e)
  <2>1. LockOk(d, w, None, e)
    <3>1. \A t : HasOrGets(c, w, x, t, e) => w[t].entry = e
      BY <1>2 DEF HasOrGets
    <3>2. \A t : HasOrGets(c, w, x, t, e) => HasOrGets(d, w, None, t, e)
      BY <3>1 DEF HasOrGets
    <3> QED
      BY <3>2, <1>4 DEF EntryOk, LockOk, SameStore
  <2>2. e # o => AttendedOk(d, w, None, e)
    <3>1. \A t : ~IsAboutToAdd(c, w, x, t, e)
      BY <1>2 DEF IsAboutToAdd
    <3> QED
      BY <3>1, <1>4 DEF EntryOk, AttendedOk, SameStore
  <2> QED
    BY <2>1, <2>2, <1>4, StoreOf DEF EntryOk
<1> QED
  BY <1>3, <1>4

\* An entry without anybody that is about to be joined from the top of the stack.
Joins(v, x, rv, o) ==
    \/ o = NoEntry
    \/ /\ v[x].new = o /\ rv = "OK"
       /\ v[x].next \in {"OPEN_ENTRY_COMPLETE", "CREATE_ENTRY_COMPLETE", "ADD_TO_ENTRY"}

\* DoLoop of the transaction in hand is called.
LEMMA PutRun ==
    ASSUME NEW b, NEW c, NEW v, NEW x \in Trans, NEW o, Good(b, c, v, x, o), NEW rv \in Results,
           RunOk(c, v, x, rv, TRUE), Joins(v, x, rv, o), HoldOk(c, v, x),
           v[x].new # NoEntry => /\ rv = "OK" /\ v[x].new = c.active[v[x].key]
                                 /\ v[x].next \in {"OPEN_ENTRY_COMPLETE", "CREATE_ENTRY_COMPLETE",
                                                   "ADD_TO_ENTRY"},
           v[x].next = "ADD_TO_ENTRY" => v[x].new # NoEntry,
           v[x].next # "ADD_TO_ENTRY_COMPLETE"
    PROVE  Good(b, Call(c, <<Run(x, rv)>>), v, None, NoEntry)
<1> DEFINE f == Run(x, rv)
           d == Call(c, <<f>>)
<1>1. /\ c \in Cache /\ v \in [Trans -> Transaction] /\ b \in Seq(Trans \cup {None}) /\ x # None
      /\ c.stack \in Seq(Frame)
  BY CacheFields, NoneAssumption DEF Good, Typed, Trans
<1>2. f \in Frame /\ <<f>> \in Seq(Frame) /\ f.frame = "run" /\ f.trans = x /\ f.rv = rv
  <2>1. f \in Frame /\ f.frame = "run" /\ f.trans = x /\ f.rv = rv
    BY NewFrames
  <2> HIDE DEF f, Frame
  <2> QED
    BY <2>1
<1>3. d \in Cache /\ SameStore(c, d) /\ d.stack = <<f>> \o c.stack
  BY <1>1, <1>2, CallFields
<1>4. \A t : InFrame(f, t) <=> t = x
  BY <1>2 DEF InFrame
<1> HIDE DEF d, f
<1>5. Nowhere(b, c, x) /\ \A t \in Trans : t # x => TransactionOk(b, c, v, x, t)
  BY <1>1 DEF Good, TransactionsOk
<1>6. EntriesOk(d, v, None, NoEntry)
  <2>1. ASSUME NEW e \in Entries, IsLive(d, e) PROVE EntryOk(d, v, None, NoEntry, e)
    <3>1. IsLive(c, e) /\ EntryOk(c, v, x, o, e)
      BY <2>1, <1>3, StoreOf DEF Good, EntriesOk
    <3>2. EntryOk(d, v, None, o, e)
      BY <3>1, <1>1, <1>2, <1>3, <1>4, OthersBehind
    <3>3. CASE e # o
      BY <3>2, <3>3 DEF EntryOk
    <3>4. CASE e = o
      <4>1. e # NoEntry
        BY DEF Entries, NoEntry
      <4>2. v[x].new = e /\ rv = "OK"
            /\ v[x].next \in {"OPEN_ENTRY_COMPLETE", "CREATE_ENTRY_COMPLETE", "ADD_TO_ENTRY"}
        BY <3>4, <4>1 DEF Joins
      <4>3. RunsNow(d, None, x, "OK")
        BY <1>1, <1>2, <1>3, <4>2, InFront DEF RunsNow, f
      <4>4. AttendedOk(d, v, None, e)
        BY <4>2, <4>3 DEF AttendedOk, IsAboutToAdd
      <4> QED
        BY <3>2, <4>4 DEF EntryOk
    <3> QED
      BY <3>3, <3>4
  <2> QED
    BY <2>1 DEF EntriesOk
<1>7. ActiveOk(d) /\ OpsOk(d, v)
  BY <1>3, StoreOf DEF Good
<1>8. StackOk(d, v, None)
  <2>1. ASSUME NEW i \in 1 .. Len(d.stack) PROVE FrameOk(d, v, d.stack[i], i = 1)
    <3>1. CASE i = 1
      <4>1. d.stack[1] = f
        BY <1>1, <1>2, <1>3, InFront
      <4>2. RunOk(d, v, x, rv, TRUE)
        BY <1>3, StoreOf
      <4> QED
        BY <3>1, <4>1, <4>2, <1>2 DEF FrameOk
    <3>2. CASE i # 1
      <4>1. i - 1 \in 1 .. Len(c.stack) /\ d.stack[i] = c.stack[i - 1]
        BY <3>2, <1>1, <1>2, <1>3, InFront
      <4>2. FrameOk(c, v, c.stack[i - 1], FALSE)
        BY <4>1, <1>1 DEF Good, StackOk
      <4> QED
        BY <3>2, <4>1, <4>2, <1>3, StoreOf
    <3> QED
      BY <3>1, <3>2
  <2>2. OneFrameEach(d.stack)
    BY <1>1, <1>2, <1>3, <1>4, <1>5, OneFrameInFront DEF Good, StackOk, Nowhere
  <2> QED
    BY <2>1, <2>2 DEF StackOk
<1>9. TransactionOk(b, d, v, None, x)
  <2>1. OnStack(d.stack, x)
    BY <1>1, <1>2, <1>3, <1>4, OnStackInFront
  <2>2. ~Waits(b, d, x)
    BY <1>3, <1>5, StoreOf DEF Nowhere
  <2>3. PlaceOk(b, d, v, x)
    BY <2>1, <2>2 DEF PlaceOk
  <2>4. rv = "OK" => RunsNow(d, None, x, "OK")
    BY <1>1, <1>2, <1>3, InFront DEF RunsNow, f
  <2>5. NewOk(d, v, None, x)
    BY <2>4, <1>3 DEF NewOk, SameStore
  <2> QED
    BY <2>3, <2>5, <1>3, StoreOf DEF TransactionOk
<1>10. TransactionsOk(b, d, v, None)
  <2>1. ASSUME NEW t \in Trans, t # x PROVE TransactionOk(b, d, v, None, t)
    BY <2>1, <1>1, <1>2, <1>3, <1>4, <1>5, OthersBehind
  <2> QED
    BY <2>1, <1>9 DEF TransactionsOk
<1> QED
  BY <1>1, <1>3, <1>6, <1>7, <1>8, <1>10 DEF Good, Typed, d, f

-----------------------------------------------------------------------------
(* What a step leaves alone                                                *)

\* What is true of t stays true if t is found where it was and what it has is as it was.
LEMMA TransactionSame ==
    ASSUME NEW b, NEW b2, NEW c, NEW d, NEW w, NEW v, NEW x, NEW y, NEW t, v[t] = w[t],
           w[t] \in Transaction, TransactionOk(b, c, w, x, t),
           OnStack(d.stack, t) <=> OnStack(c.stack, t), Waits(b2, d, t) <=> Waits(b, c, t),
           \A e \in Entries : Queued(c, t, e) => Queued(d, t, e),
           Has(c.stack, Run(t, "ERR_CACHE_RACE")) => Has(d.stack, Run(t, "ERR_CACHE_RACE")),
           RunsNow(c, x, t, "OK") =>
               RunsNow(d, y, t, "OK") /\ d.active[w[t].key] = c.active[w[t].key],
           \A e \in Entries : IsLive(c, e) /\ Uses(c, t, e) => IsLive(d, e) /\ Uses(d, t, e),
           w[t].entry # NoEntry =>
               d.entries[w[t].entry].content = c.entries[w[t].entry].content
    PROVE  TransactionOk(b2, d, v, y, t)
<1>0. w[t].new \in Entries \cup {NoEntry} /\ w[t].entry \in Entries \cup {NoEntry}
  BY TransactionFields
<1>1. PlaceOk(b2, d, v, t)
  BY DEF TransactionOk, PlaceOk
<1>2. NewOk(d, v, y, t)
  BY <1>0 DEF TransactionOk, NewOk
<1>3. HoldOk(d, v, t)
  <2>1. w[t].next \in {"SEND_REQUEST_COMPLETE", "neterror", "auth", "UPDATE_CACHED_RESPONSE_COMPLETE",
                       "headers", "data", "CACHE_READ_DATA_COMPLETE"} => w[t].next \in Holding
    BY DEF Holding, AtDisk, AtNetwork
  <2> QED
    BY <2>1, <1>0 DEF TransactionOk, HoldOk
<1> QED
  BY <1>1, <1>2, <1>3 DEF TransactionOk

\* What is true of an entry stays true if it, its link and its users are as they were.
LEMMA EntrySame ==
    ASSUME NEW c, NEW d, NEW w, NEW x, NEW y, NEW o, NEW p, NEW e, EntryOk(c, w, x, o, e),
           d.entries[e] = c.entries[e], e \in c.posted <=> e \in d.posted,
           c.active[c.entries[e].key] = e <=> d.active[c.entries[e].key] = e,
           \A t : RunsNow(c, x, t, "OK") => RunsNow(d, y, t, "OK"),
           e # p => e # o
    PROVE  EntryOk(d, w, y, p, e)
<1>1. LockOk(d, w, y, e)
  BY DEF EntryOk, LockOk, HasOrGets
<1>2. QueueOk(d, w, e) /\ LinkOk(d, e) /\ ContentOk(d, w, e)
  BY DEF EntryOk, QueueOk, LinkOk, ContentOk
<1>3. e # p => AttendedOk(d, w, y, e)
  BY DEF EntryOk, AttendedOk, IsAboutToAdd
<1> QED
  BY <1>1, <1>2, <1>3 DEF EntryOk

\* What is true of a frame stays true if no entry was activated and the one that a
\* transaction has joined is as it was.
LEMMA FrameSame ==
    ASSUME NEW c \in Cache, NEW d, NEW w \in [Trans -> Transaction], NEW f \in Frame, NEW first,
           NEW then, FrameOk(c, w, f, first), first => then,
           \A k \in Keys : c.active[k] = NoEntry => d.active[k] = NoEntry,
           f.frame = "run" => /\ w[f.trans].key \in Keys
                              /\ w[f.trans].next = "ADD_TO_ENTRY_COMPLETE" => w[f.trans].new \in Entries,
           \A e \in Entries, t \in Trans : f = Run(t, "OK") /\ IsLive(c, e) /\ Uses(c, t, e)
                         => IsLive(d, e) /\ Uses(d, t, e)
    PROVE  FrameOk(d, w, f, then)
<1>1. CASE f.frame = "run"
  <2>1. f = Run(f.trans, f.rv) /\ f.trans \in Trans /\ RunOk(c, w, f.trans, f.rv, first)
    BY <1>1, FrameFields DEF FrameOk
  <2>2. RunOk(d, w, f.trans, f.rv, then)
    BY <2>1, <1>1 DEF RunOk
  <2> QED
    BY <1>1, <2>2 DEF FrameOk
<1>2. CASE f.frame = "user"
  BY <1>2 DEF FrameOk
<1>3. CASE f.frame = "items"
  BY <1>3, FrameFields DEF FrameOk
<1> QED
  BY <1>1, <1>2, <1>3, FrameFields

\* Where a transaction is tells what it is doing.
LEMMA Places ==
    ASSUME NEW b, NEW c, NEW w, NEW x, NEW o, Good(b, c, w, x, o), NEW t \in Trans
    PROVE  /\ Has(b, t) => w[t].next = "GET_BACKEND_COMPLETE"
           /\ \A e \in Entries : Queued(c, t, e) =>
                  w[t].next = "ADD_TO_ENTRY_COMPLETE" /\ w[t].new = e
           /\ \A k \in Keys : InOperation(c, t, k) =>
                  /\ w[t].key = k
                  /\ w[t].next \in {"OPEN_ENTRY_COMPLETE", "CREATE_ENTRY_COMPLETE", "DOOM_ENTRY_COMPLETE"}
           /\ OnStack(c.stack, t) => w[t].next \in AtCache \cup Turns
           /\ Waits(b, c, t) => w[t].next \in AtCache
           /\ \A e \in Entries : IsLive(c, e) /\ Uses(c, t, e) => HasOrGets(c, w, x, t, e)
<1>1. /\ c \in Cache /\ b \in Seq(Trans \cup {None}) /\ t # None
      /\ c.stack \in Seq(Frame)
      /\ \A k \in Keys : c.ops[k] \in Operation \cup {NoOp}
  BY CacheFields, NoneAssumption DEF Good, Typed, Trans
<1>2. Has(b, t) => w[t].next = "GET_BACKEND_COMPLETE"
  BY <1>1 DEF Has, Good, BackendOpOk
<1>3. ASSUME NEW e \in Entries, Queued(c, t, e)
      PROVE  w[t].next = "ADD_TO_ENTRY_COMPLETE" /\ w[t].new = e
  BY <1>3 DEF Queued, Has, Good, EntriesOk, EntryOk, QueueOk
<1>4. ASSUME NEW k, NEW op \in Ops, ItemOk(w, k, op, t)
      PROVE  /\ w[t].key = k
             /\ w[t].next \in {"OPEN_ENTRY_COMPLETE", "CREATE_ENTRY_COMPLETE", "DOOM_ENTRY_COMPLETE"}
  BY <1>1, <1>4 DEF ItemOk, Completes, Ops
<1>5. ASSUME NEW k, NEW q \in Seq(Item), ItemsOk(w, k, q), InItems(q, t)
      PROVE  /\ w[t].key = k
             /\ w[t].next \in {"OPEN_ENTRY_COMPLETE", "CREATE_ENTRY_COMPLETE", "DOOM_ENTRY_COMPLETE"}
  <2>1. PICK i \in 1 .. Len(q) : q[i].trans = t
    BY <1>5 DEF InItems
  <2>2. ItemOk(w, k, q[i].op, t)
    BY <1>5, <2>1 DEF ItemsOk
  <2>3. q[i] \in Item
    OBVIOUS
  <2>4. q[i].op \in Ops
    BY <2>3 DEF Item
  <2> QED
    BY <1>4, <2>2, <2>4
<1>6. ASSUME NEW k \in Keys, InOperation(c, t, k)
      PROVE  /\ w[t].key = k
             /\ w[t].next \in {"OPEN_ENTRY_COMPLETE", "CREATE_ENTRY_COMPLETE", "DOOM_ENTRY_COMPLETE"}
  <2>1. c.ops[k] # NoOp /\ c.ops[k].op \in Ops /\ c.ops[k].queue \in Seq(Item)
    BY <1>1, <1>6, OperationFields DEF InOperation
  <2>2. ItemOk(w, k, c.ops[k].op, c.ops[k].trans) /\ ItemsOk(w, k, c.ops[k].queue)
    BY <2>1 DEF Good, OpsOk
  <2>3. CASE c.ops[k].trans = t
    BY <2>1, <2>2, <2>3, <1>4
  <2>4. CASE InItems(c.ops[k].queue, t)
    BY <2>1, <2>2, <2>4, <1>5
  <2> QED
    BY <2>3, <2>4, <1>6 DEF InOperation
<1>7. ASSUME OnStack(c.stack, t) PROVE w[t].next \in AtCache \cup Turns
  <2>1. PICK i \in 1 .. Len(c.stack) : InFrame(c.stack[i], t)
    BY <1>7 DEF OnStack
  <2>2. FrameOk(c, w, c.stack[i], i = 1 /\ x = None) /\ c.stack[i] \in Frame
    BY <1>1 DEF Good, StackOk
  <2>3. CASE c.stack[i].frame = "run"
    BY <2>1, <2>2, <2>3 DEF InFrame, FrameOk, RunOk
  <2>4. CASE c.stack[i].frame = "items"
    <3>1. c.stack[i].items \in Seq(Item) /\ InItems(c.stack[i].items, t)
          /\ ItemsOk(w, c.stack[i].key, c.stack[i].items)
      BY <2>1, <2>2, <2>4, FrameFields DEF InFrame, FrameOk
    <3> QED
      BY <3>1, <1>5 DEF AtCache
  <2> QED
    BY <2>1, <2>3, <2>4 DEF InFrame
<1>8. Waits(b, c, t) => w[t].next \in AtCache
  BY <1>2, <1>3, <1>6 DEF Waits, AtCache
<1>9. ASSUME NEW e \in Entries, IsLive(c, e), Uses(c, t, e) PROVE HasOrGets(c, w, x, t, e)
  BY <1>1, <1>9 DEF Good, EntriesOk, EntryOk, LockOk, Uses
<1> QED
  BY <1>2, <1>3, <1>6, <1>7, <1>8, <1>9
\* The transactions of the calls on the stack have keys, and entries to join.
LEMMA KeysOfCalls ==
    ASSUME NEW b, NEW c, NEW w, NEW x, NEW o, Good(b, c, w, x, o), NEW i \in 1 .. Len(c.stack),
           c.stack[i].frame = "run"
    PROVE  /\ w[c.stack[i].trans].key \in Keys
           /\ w[c.stack[i].trans].next = "ADD_TO_ENTRY_COMPLETE" => w[c.stack[i].trans].new \in Entries
<1> DEFINE t == c.stack[i].trans
<1>1. c \in Cache /\ c.stack \in Seq(Frame)
  BY CacheFields DEF Good, Typed
<1>2. c.stack[i] \in Frame
  BY <1>1
<1>3. t \in Trans
  BY <1>2, FrameFields
<1>4. OnStack(c.stack, t)
  BY DEF OnStack, InFrame
<1>5. w[t].next \in AtCache \cup Turns
  BY <1>3, <1>4, Places
<1>6. t # x
  BY <1>3, <1>4, NoneAssumption DEF Good, TransactionsOk, Nowhere, Trans
<1>7. w[t].new \in Entries \cup {NoEntry}
  BY <1>3, TransactionFields DEF Good, Typed
<1>8. TransactionOk(b, c, w, x, t)
  BY <1>3, <1>6 DEF Good, TransactionsOk
<1> QED
  BY <1>5, <1>7, <1>8 DEF TransactionOk, HoldOk, NewOk

-----------------------------------------------------------------------------
(* A transaction is taken from the top of the stack                        *)

\* The cache when the first frame of its stack is gone.
Rest(c) == [c EXCEPT !.stack = Tail(@)]

\* What it is.
LEMMA RestFields ==
    ASSUME NEW c \in Cache, c.stack # <<>>
    PROVE  /\ Rest(c) \in Cache /\ SameStore(c, Rest(c)) /\ Rest(c).stack = Tail(c.stack)
           /\ Tail(c.stack) \in Seq(Frame) /\ Head(c.stack) \in Frame
<1> DEFINE s == Tail(c.stack)
<1>1. /\ c.entries \in [Entries -> Entry \cup {Closed}]
      /\ c.active \in [Keys -> Entries \cup {NoEntry}]
      /\ c.ops \in [Keys -> Operation \cup {NoOp}]
      /\ c.disk \in [Keys -> Contents] /\ c.posted \in SUBSET Entries
      /\ c.stack \in Seq(Frame)
  BY CacheFields
<1>2. s \in Seq(Frame) /\ Head(c.stack) \in Frame
  <2> HIDE DEF Frame
  <2> QED
    BY <1>1, FirstOf
<1>3. Rest(c) = [c EXCEPT !.stack = s]
  BY DEF Rest
<1> HIDE DEF s
<1>4. [c EXCEPT !.stack = s] = Made(c.entries, c.active, c.ops, c.disk, c.posted, s)
  <2>1. \A v : [c EXCEPT !.stack = v] = Made(c.entries, c.active, c.ops, c.disk, c.posted, v)
    BY ONLY c \in Cache, PartsOf
  <2> QED
    BY ONLY <2>1, Zenon
<1>5. Rest(c) \in Cache /\ SameStore(c, Rest(c)) /\ Rest(c).stack = s
  BY ONLY <1>1, <1>2, <1>3, <1>4 DEF Made, Cache, SameStore
<1> QED
  BY <1>2, <1>5 DEF s

\* The first frame is x's alone.
LEMMA TakeFirst ==
    ASSUME NEW b, NEW c, NEW w, Good(b, c, w, None, NoEntry), c.stack # <<>>, NEW x \in Trans,
           \A u \in Trans : InFrame(Head(c.stack), u) => u = x,
           ~OnStack(Tail(c.stack), x), ~Waits(b, c, x), w[x].entry = NoEntry,
           \A u, rv : RunsNow(c, None, u, rv) => u = x,
           RunsNow(c, None, x, "OK") => w[x].next # "ADD_TO_ENTRY_COMPLETE",
           NEW o, RunsNow(c, None, x, "OK") /\ w[x].new # NoEntry => o = w[x].new
    PROVE  Good(b, Rest(c), w, x, o)
<1> DEFINE d == Rest(c)
           s == Tail(c.stack)
           f == Head(c.stack)
<1>1. /\ c \in Cache /\ w \in [Trans -> Transaction] /\ b \in Seq(Trans \cup {None}) /\ x # None
      /\ c.stack \in Seq(Frame)
  BY CacheFields, NoneAssumption DEF Good, Typed, Trans
<1>2. /\ f \in Frame /\ s \in Seq(Frame) /\ c.stack = <<f>> \o s /\ f = c.stack[1]
      /\ Len(s) = Len(c.stack) - 1 /\ Len(c.stack) \in Nat
      /\ \A i \in 1 .. Len(s) : i + 1 \in 2 .. Len(c.stack) /\ s[i] = c.stack[i + 1]
  <2> HIDE DEF Frame
  <2> QED
    BY <1>1, FirstOf
<1>3. d \in Cache /\ SameStore(c, d) /\ d.stack = s
  BY <1>1, RestFields
<1> HIDE DEF d, s, f
<1>4. ASSUME NEW u \in Trans, u # x PROVE OnStack(c.stack, u) <=> OnStack(s, u)
  <2>1. ~InFrame(f, u)
    BY <1>4 DEF f
  <2>2. OnStack(<<f>> \o s, u) <=> InFrame(f, u) \/ OnStack(s, u)
    BY <1>2, OnStackInFront
  <2> QED
    BY <2>1, <2>2, <1>2
<1>5. \A u, rv : ~RunsNow(d, x, u, rv)
  BY <1>1 DEF RunsNow
<1>6. \A e \in Entries : IsLive(c, e) => ~Uses(c, x, e)
  <2>1. ASSUME NEW e \in Entries, IsLive(c, e), Uses(c, x, e) PROVE FALSE
    <3>1. HasOrGets(c, w, None, x, e)
      BY <2>1, Places
    <3> QED
      BY <3>1 DEF HasOrGets, Entries, NoEntry
  <2> QED
    BY <2>1
<1>7. EntriesOk(d, w, x, o)
  <2>1. ASSUME NEW e \in Entries, IsLive(d, e) PROVE EntryOk(d, w, x, o, e)
    <3>1. IsLive(c, e) /\ EntryOk(c, w, None, NoEntry, e) /\ e # NoEntry
      BY <2>1, <1>3, StoreOf DEF Good, EntriesOk, Entries, NoEntry
    <3>2. LockOk(d, w, x, e)
      <4>1. \A u : HasOrGets(c, w, None, u, e) => HasOrGets(d, w, x, u, e)
        BY DEF HasOrGets
      <4> QED
        BY <4>1, <3>1, <1>3 DEF EntryOk, LockOk, SameStore
    <3>3. QueueOk(d, w, e) /\ LinkOk(d, e) /\ ContentOk(d, w, e)
      BY <3>1, <1>3, StoreOf DEF EntryOk
    <3>4. e # o => AttendedOk(d, w, x, e)
      <4>1. \A u \in Trans : IsAboutToAdd(c, w, None, u, e) => e = o
        BY <3>1 DEF IsAboutToAdd
      <4> QED
        BY <4>1, <3>1, <1>3 DEF EntryOk, AttendedOk, SameStore
    <3> QED
      BY <3>2, <3>3, <3>4 DEF EntryOk
  <2> QED
    BY <2>1 DEF EntriesOk
<1>8. ActiveOk(d) /\ OpsOk(d, w)
  BY <1>3, StoreOf DEF Good
<1>9. StackOk(d, w, x)
  <2>1. ASSUME NEW i \in 1 .. Len(s) PROVE FrameOk(d, w, s[i], FALSE)
    <3>1. i + 1 \in 1 .. Len(c.stack) /\ i + 1 # 1 /\ s[i] = c.stack[i + 1]
      BY <1>2
    <3>2. FrameOk(c, w, c.stack[i + 1], FALSE)
      BY <3>1 DEF Good, StackOk
    <3> QED
      BY <3>1, <3>2, <1>3, StoreOf
  <2>2. OneFrameEach(s)
    <3>1. ASSUME NEW i \in 1 .. Len(s), NEW j \in 1 .. Len(s), NEW u \in Trans,
                 InFrame(s[i], u), InFrame(s[j], u)
          PROVE  i = j
      <4>1. /\ i + 1 \in 1 .. Len(c.stack) /\ s[i] = c.stack[i + 1]
            /\ j + 1 \in 1 .. Len(c.stack) /\ s[j] = c.stack[j + 1]
        BY <1>2
      <4>2. i + 1 = j + 1
        BY <4>1, <3>1 DEF Good, StackOk, OneFrameEach
      <4> QED
        BY <4>2
    <3> QED
      BY <3>1 DEF OneFrameEach
  <2> QED
    BY <2>1, <2>2, <1>1, <1>3 DEF StackOk
<1>10. ASSUME NEW u \in Trans, u # x PROVE TransactionOk(b, d, w, x, u)
  <2>1. TransactionOk(b, c, w, None, u)
    BY NoneAssumption DEF Good, TransactionsOk, Trans
  <2>2. OnStack(d.stack, u) <=> OnStack(c.stack, u)
    BY <1>3, <1>4, <1>10
  <2>3. Has(c.stack, Run(u, "ERR_CACHE_RACE")) => Has(d.stack, Run(u, "ERR_CACHE_RACE"))
    <3>1. ASSUME NEW i \in 1 .. Len(c.stack), c.stack[i] = Run(u, "ERR_CACHE_RACE")
          PROVE  \E j \in 1 .. Len(s) : s[j] = Run(u, "ERR_CACHE_RACE")
      <4>1. InFrame(c.stack[i], u)
        <5>1. "ERR_CACHE_RACE" \in Results
          BY DEF Results
        <5> QED
          BY <3>1, <5>1, NewFrames DEF InFrame
      <4>2. i # 1
        BY <4>1, <1>2, <1>10 DEF f
      <4>3. i - 1 \in 1 .. Len(s) /\ s[i - 1] = c.stack[(i - 1) + 1] /\ (i - 1) + 1 = i
        BY <4>2, <1>2
      <4> QED
        BY <4>3, <3>1
    <3> QED
      BY <3>1, <1>3 DEF Has
  <2>4. ~RunsNow(c, None, u, "OK")
    BY <1>10
  <2> QED
    BY <2>1, <2>2, <2>3, <2>4, <1>1, <1>3, StoreOf, TransactionSame DEF SameStore
<1>11. Nowhere(b, d, x)
  BY <1>3, <1>6, StoreOf DEF Nowhere, s
<1> QED
  BY <1>1, <1>3, <1>7, <1>8, <1>9, <1>10, <1>11 DEF Good, Typed, TransactionsOk, d

\* What is known of the first call on the stack.
Called(b, c, w, x, rv) ==
    /\ RunOk(c, w, x, rv, TRUE) /\ TransactionOk(b, c, w, None, x)
    /\ w[x].entry = NoEntry /\ w[x].key \in Keys /\ w[x] \in Transaction
    /\ w[x].next # "GET_BACKEND_COMPLETE" => w[x].mode # "NONE"
    /\ rv # "OK" /\ w[x].next # "ADD_TO_ENTRY_COMPLETE" => w[x].new = NoEntry
    /\ w[x].new # NoEntry => w[x].next \in {"OPEN_ENTRY_COMPLETE", "CREATE_ENTRY_COMPLETE",
                                            "ADD_TO_ENTRY", "ADD_TO_ENTRY_COMPLETE"}
    /\ w[x].new # NoEntry /\ w[x].next # "ADD_TO_ENTRY_COMPLETE" =>
           w[x].new = c.active[w[x].key]
    /\ w[x].next # "ADD_TO_ENTRY_COMPLETE" =>
           Good(b, Rest(c), w, x, w[x].new)
    /\ rv = "ERR_CACHE_RACE" => Good(b, Rest(c), w, x, NoEntry)

\* DoLoop of t is called.
LEMMA TakeRun ==
    ASSUME NEW b, NEW c, NEW w, Good(b, c, w, None, NoEntry), c.stack # <<>>, NEW x \in Trans,
           NEW rv \in Results, Head(c.stack) = Run(x, rv)
    PROVE  Called(b, c, w, x, rv)
<1>1. /\ c \in Cache /\ w \in [Trans -> Transaction] /\ b \in Seq(Trans \cup {None}) /\ x # None
      /\ c.stack \in Seq(Frame)
  BY CacheFields, NoneAssumption DEF Good, Typed, Trans
<1>2. /\ Run(x, rv).frame = "run" /\ Run(x, rv).trans = x /\ Run(x, rv).rv = rv
      /\ \A u, r : Run(x, rv) = Run(u, r) => u = x /\ r = rv
      /\ \A u : InFrame(Run(x, rv), u) <=> u = x
  BY DEF Run, InFrame
<1>3. /\ Head(c.stack) = c.stack[1] /\ 1 \in 1 .. Len(c.stack) /\ Tail(c.stack) \in Seq(Frame)
      /\ c.stack[1] = Run(x, rv)
      /\ \A i \in 1 .. Len(Tail(c.stack)) : i + 1 \in 2 .. Len(c.stack)
                                             /\ Tail(c.stack)[i] = c.stack[i + 1]
  <2> HIDE DEF Frame
  <2> QED
    BY <1>1, FirstOf
<1>4. RunOk(c, w, x, rv, TRUE)
  BY <1>2, <1>3 DEF Good, StackOk, FrameOk
<1>5. TransactionOk(b, c, w, None, x)
  BY <1>1 DEF Good, TransactionsOk
<1>6. OnStack(c.stack, x)
  BY <1>2, <1>3 DEF OnStack
<1>7. ~OnStack(Tail(c.stack), x)
  <2>1. ASSUME NEW i \in 1 .. Len(Tail(c.stack)), InFrame(Tail(c.stack)[i], x) PROVE FALSE
    <3>1. i + 1 \in 1 .. Len(c.stack) /\ i + 1 # 1 /\ InFrame(c.stack[i + 1], x)
      BY <2>1, <1>3
    <3> QED
      BY <3>1, <1>2, <1>3 DEF Good, StackOk, OneFrameEach
  <2> QED
    BY <2>1 DEF OnStack
<1>8. w[x].next \in AtCache \cup Turns
  BY <1>6, Places
<1>9. /\ w[x].entry = NoEntry /\ w[x].key \in Keys /\ ~Waits(b, c, x)
      /\ w[x].next # "GET_BACKEND_COMPLETE" => w[x].mode # "NONE"
  <2>1. w[x].next \notin Holding /\ w[x].next \notin Outside
    BY <1>8 DEF AtCache, Turns, Holding, AtDisk, AtNetwork, Outside
  <2> QED
    BY <2>1, <1>5, <1>6, <1>8 DEF TransactionOk, HoldOk, PlaceOk
<1>10. \A u, r : RunsNow(c, None, u, r) => u = x /\ r = rv
  BY <1>2, <1>3 DEF RunsNow
<1>11. /\ rv # "OK" /\ w[x].next # "ADD_TO_ENTRY_COMPLETE" => w[x].new = NoEntry
       /\ w[x].new # NoEntry => w[x].next \in {"OPEN_ENTRY_COMPLETE", "CREATE_ENTRY_COMPLETE",
                                               "ADD_TO_ENTRY", "ADD_TO_ENTRY_COMPLETE"}
       /\ w[x].new # NoEntry /\ w[x].next # "ADD_TO_ENTRY_COMPLETE" =>
              w[x].new = c.active[w[x].key]
  BY <1>5, <1>10 DEF TransactionOk, NewOk
<1>12. w[x].next # "ADD_TO_ENTRY_COMPLETE" => Good(b, Rest(c), w, x, w[x].new)
  BY <1>2, <1>3, <1>7, <1>9, <1>10, TakeFirst
<1>13. rv = "ERR_CACHE_RACE" => Good(b, Rest(c), w, x, NoEntry)
  BY <1>2, <1>3, <1>7, <1>9, <1>10, TakeFirst
<1> QED
  BY <1>1, <1>4, <1>5, <1>9, <1>11, <1>12, <1>13 DEF Called

\* The user's callback returns.
LEMMA TakeUser ==
    ASSUME NEW b, NEW c, NEW w, Good(b, c, w, None, NoEntry), c.stack # <<>>, NEW x \in Trans,
           Head(c.stack) = User(x)
    PROVE  /\ w[x].next = "past" /\ w[x].entry = NoEntry /\ w[x].new = NoEntry
           /\ ~Has(b, x)
           /\ Good(b, Rest(c), w, x, NoEntry)
<1>1. /\ c \in Cache /\ x # None /\ c.stack \in Seq(Frame)
  BY CacheFields, NoneAssumption DEF Good, Typed, Trans
<1>2. /\ User(x).frame = "user" /\ User(x).trans = x /\ \A u, r : User(x) # Run(u, r)
      /\ \A u : ~InFrame(User(x), u)
  BY DEF Run, User, InFrame
<1>3. /\ Head(c.stack) = c.stack[1] /\ 1 \in 1 .. Len(c.stack) /\ c.stack[1] = User(x)
      /\ Tail(c.stack) \in Seq(Frame)
      /\ \A i \in 1 .. Len(Tail(c.stack)) : i + 1 \in 2 .. Len(c.stack)
                                             /\ Tail(c.stack)[i] = c.stack[i + 1]
  <2> HIDE DEF Frame
  <2> QED
    BY <1>1, FirstOf
<1>4. w[x].next = "past"
  BY <1>2, <1>3 DEF Good, StackOk, FrameOk
<1>5. TransactionOk(b, c, w, None, x)
  BY <1>1 DEF Good, TransactionsOk
<1>6. w[x].entry = NoEntry /\ w[x].new = NoEntry
  BY <1>4, <1>5 DEF TransactionOk, HoldOk, NewOk, Holding, AtDisk, AtNetwork
<1>7. ~OnStack(c.stack, x) /\ ~Waits(b, c, x)
  BY <1>4, Places DEF AtCache, Turns
<1>8. ~OnStack(Tail(c.stack), x)
  <2>1. \A i \in 1 .. Len(Tail(c.stack)) : i + 1 \in 1 .. Len(c.stack)
    BY <1>3
  <2> QED
    BY <2>1, <1>3, <1>7 DEF OnStack
<1>9. \A u, r : ~RunsNow(c, None, u, r)
  BY <1>2, <1>3 DEF RunsNow
<1> QED
  BY <1>2, <1>3, <1>4, <1>6, <1>7, <1>8, <1>9, TakeFirst DEF Waits
-----------------------------------------------------------------------------
(* A transaction is put among those that wait, or taken from them          *)

\* The stack is as it was.
LEMMA StackSame ==
    ASSUME NEW b, NEW c, NEW d, NEW w, NEW x, NEW y, NEW o, Good(b, c, w, x, o),
           d.stack = c.stack, y = None \/ y = x \/ c.stack = <<>>,
           \A k \in Keys : c.active[k] = NoEntry => d.active[k] = NoEntry,
           c.stack = <<>> \/ \A e \in Entries, t \in Trans : IsLive(c, e) /\ Uses(c, t, e) => IsLive(d, e) /\ Uses(d, t, e)
    PROVE  StackOk(d, w, y)
<1>1. c \in Cache /\ c.stack \in Seq(Frame) /\ w \in [Trans -> Transaction]
  BY CacheFields DEF Good, Typed
<1>2. ASSUME NEW i \in 1 .. Len(c.stack) PROVE FrameOk(d, w, c.stack[i], i = 1 /\ y = None)
  <2>1. FrameOk(c, w, c.stack[i], i = 1 /\ x = None)
    BY DEF Good, StackOk
  <2>2. c.stack[i] \in Frame 
    BY <1>1
  <2>5. c.stack[i].frame = "run" =>
            /\ w[c.stack[i].trans].key \in Keys
            /\ w[c.stack[i].trans].next = "ADD_TO_ENTRY_COMPLETE" => w[c.stack[i].trans].new \in Entries
    BY KeysOfCalls
  <2>3. i = 1 /\ x = None => i = 1 /\ y = None
    BY <1>1
  <2>4. \A e \in Entries, t \in Trans : IsLive(c, e) /\ Uses(c, t, e) => IsLive(d, e) /\ Uses(d, t, e)
    BY <1>1
  <2> HIDE DEF Frame
  <2> QED
    BY <2>1, <2>2, <2>3, <2>4, <2>5, <1>1, FrameSame
<1> QED
  BY <1>2 DEF Good, StackOk

\* Only who waits for the backend or for an operation differs.
LEMMA Moves ==
    ASSUME NEW b, NEW c, NEW w, NEW x, NEW o, Good(b, c, w, x, o), NEW b2, NEW d \in Cache,
           b2 \in Seq(Trans \cup {None}), NEW y \in Trans \cup {None}, x # None => y = None,
           y = None \/ c.stack = <<>>,
           d.entries = c.entries, d.active = c.active, d.posted = c.posted, d.disk = c.disk,
           d.stack = c.stack, OpsOk(d, w), BackendOpOk(b2, w),
           \A t \in Trans : t # x /\ t # y => (Waits(b2, d, t) <=> Waits(b, c, t)),
           x # None => TransactionOk(b2, d, w, None, x),
           y # None => Nowhere(b2, d, y)
    PROVE  Good(b2, d, w, y, o)
<1>1. /\ c \in Cache /\ w \in [Trans -> Transaction] /\ c.stack \in Seq(Frame)
  BY CacheFields DEF Good, Typed
<1>2. /\ \A e : IsLive(d, e) <=> IsLive(c, e)
      /\ \A t, e : Uses(d, t, e) <=> Uses(c, t, e)
      /\ \A t, e : Queued(d, t, e) <=> Queued(c, t, e)
  BY DEF IsLive, Uses, Queued
<1>3. \A t, rv : RunsNow(c, x, t, rv) => RunsNow(d, y, t, rv)
  BY DEF RunsNow
<1>4. EntriesOk(d, w, y, o)
  <2>1. ASSUME NEW e \in Entries, IsLive(d, e) PROVE EntryOk(d, w, y, o, e)
    BY <2>1, <1>2, <1>3, EntrySame DEF Good, EntriesOk
  <2> QED
    BY <2>1 DEF EntriesOk
<1>5. ActiveOk(d)
  BY <1>2 DEF Good, ActiveOk
<1>6. StackOk(d, w, y)
  BY <1>2, StackSame
<1>7. ASSUME NEW t \in Trans, t # y PROVE TransactionOk(b2, d, w, y, t)
  <2>1. CASE t = x
    BY <2>1, NoneAssumption DEF Trans
  <2>2. CASE t # x
    <3>1. TransactionOk(b, c, w, x, t)
      BY <2>2 DEF Good, TransactionsOk
    <3>2. Waits(b2, d, t) <=> Waits(b, c, t)
      BY <2>2, <1>7
    <3> QED
      BY <3>1, <3>2, <1>1, <1>2, <1>3, TransactionSame
  <2> QED
    BY <2>1, <2>2
<1> QED
  BY <1>1, <1>4, <1>5, <1>6, <1>7 DEF Good, Typed, TransactionsOk

\* The transaction in hand leaves the cache, or was not there.
LEMMA PutOutside ==
    ASSUME NEW b, NEW c, NEW w, NEW x \in Trans, NEW o, Good(b, c, w, x, o),
           w[x].next \in Outside, w[x].entry = NoEntry, w[x].new = NoEntry
    PROVE  Good(b, c, w, None, o)
<1>1. x # None /\ c \in Cache /\ b \in Seq(Trans \cup {None})
  BY NoneAssumption DEF Trans, Good, Typed
<1>2. w[x].next \notin AtCache \cup Turns \cup Holding
  BY DEF Outside, AtCache, Turns, Holding, AtDisk, AtNetwork
<1>3. ~OnStack(c.stack, x)
  BY <1>1 DEF Good, TransactionsOk, Nowhere
<1>4. PlaceOk(b, c, w, x)
  BY <1>2, <1>3 DEF PlaceOk
<1>5. NewOk(c, w, None, x)
  BY <1>2 DEF NewOk, AtCache, Turns
<1>6. HoldOk(c, w, x)
  <2>1. w[x].next \notin AtNetwork \cup
                         {"neterror", "auth", "UPDATE_CACHED_RESPONSE_COMPLETE", "TRUNCATE_CACHED_DATA",
                          "CACHE_WRITE_DATA_COMPLETE", "SEND_REQUEST_COMPLETE",
                          "CACHE_READ_DATA_COMPLETE", "headers", "data"}
    BY DEF Outside, AtNetwork
  <2> QED
    BY <2>1, <1>2 DEF HoldOk
<1>7. OpsOk(c, w) /\ BackendOpOk(b, w)
  BY DEF Good
<1> QED
  BY <1>1, <1>4, <1>5, <1>6, <1>7, Moves DEF TransactionOk

\* What HoldOk says of a transaction that waits for the cache.
LEMMA HoldsNothing ==
    ASSUME NEW c, NEW w, NEW x, w[x].next \in AtCache \cup Turns, w[x].entry = NoEntry,
           w[x].key \in Keys, w[x].next # "GET_BACKEND_COMPLETE" => w[x].mode # "NONE"
    PROVE  HoldOk(c, w, x)
<1>1. w[x].next \notin Holding \cup AtNetwork \cup
                       {"neterror", "auth", "UPDATE_CACHED_RESPONSE_COMPLETE", "TRUNCATE_CACHED_DATA",
                        "CACHE_WRITE_DATA_COMPLETE", "SEND_REQUEST_COMPLETE",
                        "CACHE_READ_DATA_COMPLETE", "headers", "data"}
  BY DEF AtCache, Turns, Holding, AtDisk, AtNetwork
<1> QED
  BY <1>1 DEF HoldOk

\* The transaction in hand waits for the backend.
LEMMA PutBackend ==
    ASSUME NEW b, NEW c, NEW w, NEW x \in Trans, NEW o, Good(b, c, w, x, o),
           w[x].next = "GET_BACKEND_COMPLETE", w[x].entry = NoEntry, w[x].new = NoEntry,
           w[x].key \in Keys
    PROVE  Good((IF b = <<>> THEN <<None>> ELSE b) \o <<x>>, c, w, None, o)
<1> DEFINE a == IF b = <<>> THEN <<None>> ELSE b
           b2 == a \o <<x>>
<1>1. x # None /\ c \in Cache /\ b \in Seq(Trans \cup {None}) /\ BackendOpOk(b, w) /\ OpsOk(c, w)
      /\ Nowhere(b, c, x)
  BY NoneAssumption DEF Trans, Good, Typed, TransactionsOk
<1>2. /\ a \in Seq(Trans \cup {None}) /\ NoneTwice(a)
      /\ \A i \in 1 .. Len(a) : a[i] # x /\ (a[i] # None => w[a[i]].next = "GET_BACKEND_COMPLETE")
      /\ \A t \in Trans : Has(a, t) <=> Has(b, t)
      /\ a # <<>> /\ \A i \in 2 .. Len(a) : a[i] # None
  <2>1. CASE b = <<>>
    <3>1. a = <<None>> /\ Len(a) = 1 /\ a[1] = None /\ a \in Seq(Trans \cup {None})
      BY <2>1
    <3>2. NoneTwice(a)
      BY <3>1 DEF NoneTwice
    <3>3. \A t \in Trans : t # None
      BY NoneAssumption DEF Trans
    <3> QED
      BY <2>1, <3>1, <3>2, <3>3 DEF Has
  <2>2. CASE b # <<>>
    BY <2>2, <1>1, Absent DEF BackendOpOk
  <2> QED
    BY <2>1, <2>2
<1>3. /\ b2 \in Seq(Trans \cup {None}) /\ Len(b2) = Len(a) + 1 /\ b2[Len(b2)] = x /\ Len(a) \in Nat
      /\ \A i \in 1 .. Len(a) : b2[i] = a[i]
  <2> HIDE DEF a
  <2> QED
    BY <1>2
<1> HIDE DEF a, b2
<1>4. BackendOpOk(b2, w)
  <2>1. ASSUME NEW i \in 1 .. Len(b2), NEW j \in 1 .. Len(b2), b2[i] = b2[j] PROVE i = j
    <3>1. CASE i = Len(b2) \/ j = Len(b2)
      BY <2>1, <3>1, <1>2, <1>3
    <3>2. CASE i # Len(b2) /\ j # Len(b2)
      <4>1. i \in 1 .. Len(a) /\ j \in 1 .. Len(a)
        BY <3>2, <1>3
      <4> QED
        BY <4>1, <2>1, <1>2, <1>3 DEF NoneTwice
    <3> QED
      BY <3>1, <3>2
  <2>2. ASSUME NEW i \in 1 .. Len(b2), b2[i] # None PROVE w[b2[i]].next = "GET_BACKEND_COMPLETE"
    <3>1. CASE i = Len(b2)
      BY <3>1, <1>3
    <3>2. CASE i # Len(b2)
      BY <3>2, <2>2, <1>2, <1>3
    <3> QED
      BY <3>1, <3>2
  <2>3. ASSUME NEW i \in 2 .. Len(b2) PROVE b2[i] # None
    <3>1. CASE i = Len(b2)
      BY <3>1, <1>1, <1>3
    <3>2. CASE i # Len(b2)
      BY <3>2, <1>2, <1>3
    <3> QED
      BY <3>1, <3>2
  <2> QED
    BY <2>1, <2>2, <2>3 DEF BackendOpOk, NoneTwice
<1>5. ASSUME NEW t \in Trans, t # x PROVE Waits(b2, c, t) <=> Waits(b, c, t)
  <2>1. Has(b2, t) <=> Has(a, t)
    <3>1. ASSUME NEW i \in 1 .. Len(b2), b2[i] = t PROVE Has(a, t)
      <4>1. i # Len(b2)
        BY <3>1, <1>3, <1>5
      <4>2. i \in 1 .. Len(a) /\ a[i] = t
        BY <4>1, <3>1, <1>3
      <4> QED
        BY <4>2 DEF Has
    <3>2. ASSUME NEW i \in 1 .. Len(a), a[i] = t PROVE Has(b2, t)
      <4>1. i \in 1 .. Len(b2) /\ b2[i] = t
        BY <3>2, <1>3
      <4> QED
        BY <4>1 DEF Has
    <3> QED
      BY <3>1, <3>2 DEF Has
  <2> QED
    BY <2>1, <1>2 DEF Waits
<1>6. TransactionOk(b2, c, w, None, x)
  <2>1. Has(b2, x)
    <3>1. Len(b2) \in 1 .. Len(b2)
      BY <1>3
    <3> QED
      BY <3>1, <1>3 DEF Has
  <2>2. PlaceOk(b2, c, w, x)
    BY <2>1, <1>1 DEF PlaceOk, Waits, Nowhere
  <2>3. NewOk(c, w, None, x)
    BY DEF NewOk
  <2>4. HoldOk(c, w, x)
    BY HoldsNothing DEF AtCache
  <2> QED
    BY <2>2, <2>3, <2>4 DEF TransactionOk
<1>7. Good(b2, c, w, None, o)
  <2> HIDE DEF Cache
  <2> QED
    BY <1>1, <1>3, <1>4, <1>5, <1>6, Moves
<1> QED
  BY <1>7 DEF b2, a

\* OpenEntry, CreateEntry and AsyncDoomEntry add to what waits for the backend on a key.
LEMMA QueueOperationFields ==
    ASSUME NEW c \in Cache, NEW k \in Keys, NEW op \in Ops, NEW x \in Trans \cup {None}
    PROVE  LET d == QueueOperation(c, k, op, x) IN
           /\ d \in Cache /\ d.entries = c.entries /\ d.active = c.active /\ d.disk = c.disk
           /\ d.posted = c.posted /\ d.stack = c.stack
           /\ \A j \in Keys : j # k => d.ops[j] = c.ops[j]
           /\ d.ops[k] # NoOp /\ d.ops[k].op \in Ops
           /\ c.ops[k] = NoOp => /\ d.ops[k].op = op /\ d.ops[k].trans = x
                                 /\ d.ops[k].queue = <<>>
           /\ c.ops[k] # NoOp =>
                 /\ d.ops[k].op = c.ops[k].op /\ d.ops[k].trans = c.ops[k].trans
                 /\ d.ops[k].queue = Append(c.ops[k].queue, [op |-> op, trans |-> x])
<1> DEFINE item == [op |-> op, trans |-> x]
           z == IF c.ops[k] = NoOp THEN [op |-> op, trans |-> x, queue |-> <<>>]
                ELSE [c.ops[k] EXCEPT !.queue = Append(@, item)]
           d == QueueOperation(c, k, op, x)
<1>1. c.ops \in [Keys -> Operation \cup {NoOp}]
  BY CacheFields
<1>2. item \in Item
  BY DEF Item
<1>3. /\ z \in Operation /\ z.op \in Ops
      /\ c.ops[k] = NoOp => z.op = op /\ z.trans = x /\ z.queue = <<>>
      /\ c.ops[k] # NoOp => /\ z.op = c.ops[k].op /\ z.trans = c.ops[k].trans
                            /\ z.queue = Append(c.ops[k].queue, item)
  <2>1. CASE c.ops[k] = NoOp
    <3>1. z = [op |-> op, trans |-> x, queue |-> <<>>]
      BY <2>1
    <3>2. <<>> \in Seq(Item)
      OBVIOUS
    <3> QED
      BY ONLY <3>1, <3>2, <2>1, op \in Ops, x \in Trans \cup {None} DEF Operation
  <2>2. CASE c.ops[k] # NoOp
    <3>1. c.ops[k] \in Operation
      BY <1>1, <2>2
    <3>2. z = [c.ops[k] EXCEPT !.queue = Append(@, item)]
      BY <2>2
    <3>3. c.ops[k].queue \in Seq(Item)
      BY <3>1, OperationFields
    <3>4. Append(c.ops[k].queue, item) \in Seq(Item)
      <4> HIDE DEF item, Item
      <4> QED
        BY <3>3, <1>2
    <3> HIDE DEF item
    <3> QED
      BY ONLY <3>1, <3>2, <3>4, <2>2 DEF Operation
  <2> QED
    BY <2>1, <2>2
<1>4. d = Made(c.entries, c.active, [c.ops EXCEPT ![k] = z], c.disk, c.posted, c.stack)
  <2>1. d = [c EXCEPT !.ops[k] = z]
    BY DEF QueueOperation
  <2>2. d = [c EXCEPT !.ops = [c.ops EXCEPT ![k] = z]]
    <3> HIDE DEF z, d
    <3> QED
      BY <2>1
  <2> QED
    BY <2>2, PartsOf
<1> HIDE DEF z, d, item
<1> DEFINE p == [c.ops EXCEPT ![k] = z]
<1>5. p \in [Keys -> Operation \cup {NoOp}] /\ p[k] = z /\ \A j \in Keys : j # k => p[j] = c.ops[j]
  BY <1>1, <1>3
<1>6. z # NoOp
  BY <1>3, OperationFields
<1> HIDE DEF p
<1>7. /\ d \in Cache /\ d.entries = c.entries /\ d.active = c.active /\ d.disk = c.disk
      /\ d.posted = c.posted /\ d.stack = c.stack /\ d.ops = p
  <2>1. /\ c.entries \in [Entries -> Entry \cup {Closed}]
        /\ c.active \in [Keys -> Entries \cup {NoEntry}]
        /\ c.disk \in [Keys -> Contents] /\ c.posted \in SUBSET Entries /\ c.stack \in Seq(Frame)
    BY CacheFields
  <2>2. d = Made(c.entries, c.active, p, c.disk, c.posted, c.stack)
    BY <1>4 DEF p
  <2> QED
    BY ONLY <2>1, <2>2, <1>5 DEF Made, Cache
<1> QED
  BY <1>3, <1>5, <1>6, <1>7 DEF d, item

\* One more item.
LEMMA OneMoreItem ==
    ASSUME NEW w, NEW k, NEW q \in Seq(Item), ItemsOk(w, k, q), NEW op \in Ops,
           NEW x \in Trans \cup {None}, ItemOk(w, k, op, x), x # None => ~InItems(q, x)
    PROVE  LET r == Append(q, [op |-> op, trans |-> x]) IN
           /\ ItemsOk(w, k, r)
           /\ \A t : InItems(r, t) <=> InItems(q, t) \/ t = x
<1> DEFINE item == [op |-> op, trans |-> x]
           r == Append(q, item)
<1>1. item.op = op /\ item.trans = x /\ item \in Item
  BY DEF Item
<1>2. /\ Len(r) = Len(q) + 1 /\ r[Len(q) + 1] = item /\ Len(q) \in Nat
      /\ \A i \in 1 .. Len(q) : r[i] = q[i]
  <2> HIDE DEF item, Item
  <2> QED
    BY <1>1
<1> HIDE DEF r, item
<1>3. ASSUME NEW t PROVE InItems(r, t) <=> InItems(q, t) \/ t = x
  <2>1. ASSUME InItems(r, t) PROVE InItems(q, t) \/ t = x
    <3>1. PICK i \in 1 .. Len(r) : r[i].trans = t
      BY <2>1 DEF InItems
    <3>2. CASE i = Len(q) + 1
      BY <3>1, <3>2, <1>1, <1>2
    <3>3. CASE i # Len(q) + 1
      <4>1. i \in 1 .. Len(q) /\ q[i].trans = t
        BY <3>1, <3>3, <1>2
      <4> QED
        BY <4>1 DEF InItems
    <3> QED
      BY <3>2, <3>3
  <2>2. ASSUME InItems(q, t) PROVE InItems(r, t)
    <3>1. PICK i \in 1 .. Len(q) : q[i].trans = t
      BY <2>2 DEF InItems
    <3>2. i \in 1 .. Len(r) /\ r[i].trans = t
      BY <3>1, <1>2
    <3> QED
      BY <3>2 DEF InItems
  <2>3. ASSUME t = x PROVE InItems(r, t)
    <3>1. Len(q) + 1 \in 1 .. Len(r)
      BY <1>2
    <3> QED
      BY <3>1, <2>3, <1>1, <1>2 DEF InItems
  <2> QED
    BY <2>1, <2>2, <2>3
<1>4. Once(r)
  <2>1. ASSUME NEW i \in 1 .. Len(r), NEW j \in 1 .. Len(r), r[i].trans = r[j].trans,
               r[i].trans # None
        PROVE  i = j
    <3>1. CASE i = Len(q) + 1 /\ j # Len(q) + 1
      <4>1. j \in 1 .. Len(q) /\ q[j].trans = x /\ x # None
        BY <3>1, <2>1, <1>1, <1>2
      <4> QED
        BY <4>1 DEF InItems
    <3>2. CASE i # Len(q) + 1 /\ j = Len(q) + 1
      <4>1. i \in 1 .. Len(q) /\ q[i].trans = x /\ x # None
        BY <3>2, <2>1, <1>1, <1>2
      <4> QED
        BY <4>1 DEF InItems
    <3>3. CASE i # Len(q) + 1 /\ j # Len(q) + 1
      <4>1. i \in 1 .. Len(q) /\ j \in 1 .. Len(q)
        BY <3>3, <1>2
      <4> QED
        BY <4>1, <2>1, <1>2 DEF ItemsOk, Once
    <3> QED
      BY <3>1, <3>2, <3>3
  <2> QED
    BY <2>1 DEF Once
<1>5. ASSUME NEW i \in 1 .. Len(r) PROVE ItemOk(w, k, r[i].op, r[i].trans)
  <2>1. CASE i = Len(q) + 1
    BY <2>1, <1>1, <1>2
  <2>2. CASE i # Len(q) + 1
    <3>1. i \in 1 .. Len(q)
      BY <2>2, <1>2
    <3> QED
      BY <3>1, <1>2 DEF ItemsOk
  <2> QED
    BY <2>1, <2>2
<1>6. ItemsOk(w, k, r) /\ \A t : InItems(r, t) <=> InItems(q, t) \/ t = x
  BY <1>3, <1>4, <1>5 DEF ItemsOk
<1> QED
  BY <1>6 DEF r, item

\* The transaction in hand, or nobody, waits for an operation on a key without an entry.
LEMMA PutOperation ==
    ASSUME NEW b, NEW c, NEW w, NEW x, NEW o, Good(b, c, w, x, o), NEW k \in Keys,
           NEW op \in Ops, c.active[k] = NoEntry,
           x # None => /\ w[x].key = k /\ w[x].next = Completes(op) /\ w[x].mode # "NONE"
                       /\ w[x].entry = NoEntry /\ w[x].new = NoEntry
    PROVE  Good(b, QueueOperation(c, k, op, x), w, None, o)
<1> DEFINE d == QueueOperation(c, k, op, x)
<1>1. /\ c \in Cache /\ b \in Seq(Trans \cup {None}) /\ BackendOpOk(b, w) /\ OpsOk(c, w)
      /\ x \in Trans \cup {None}
      /\ \A j \in Keys : c.ops[j] \in Operation \cup {NoOp}
  BY CacheFields DEF Good, Typed
<1>2. x # None => x \in Trans /\ Nowhere(b, c, x)
  BY <1>1 DEF Good, TransactionsOk
<1>3. /\ d \in Cache /\ d.entries = c.entries /\ d.active = c.active /\ d.disk = c.disk
      /\ d.posted = c.posted /\ d.stack = c.stack
      /\ \A j \in Keys : j # k => d.ops[j] = c.ops[j]
      /\ d.ops[k] # NoOp /\ d.ops[k].op \in Ops
      /\ c.ops[k] = NoOp => /\ d.ops[k].op = op /\ d.ops[k].trans = x
                            /\ d.ops[k].queue = <<>>
      /\ c.ops[k] # NoOp =>
            /\ d.ops[k].op = c.ops[k].op /\ d.ops[k].trans = c.ops[k].trans
            /\ d.ops[k].queue = Append(c.ops[k].queue, [op |-> op, trans |-> x])
  BY <1>1, QueueOperationFields, SMTT(40)
<1> HIDE DEF d
<1>4. ItemOk(w, k, op, x)
  BY DEF ItemOk
<1>5. c.ops[k] # NoOp /\ x # None => c.ops[k].trans # x /\ ~InItems(c.ops[k].queue, x)
  BY <1>2, Absent
<1>6. /\ ItemOk(w, k, d.ops[k].op, d.ops[k].trans) /\ ItemsOk(w, k, d.ops[k].queue)
      /\ d.ops[k].trans # None => ~InItems(d.ops[k].queue, d.ops[k].trans)
      /\ \A t \in Trans : InOperation(d, t, k) <=> InOperation(c, t, k) \/ t = x
  <2>1. CASE c.ops[k] = NoOp
    <3>1. d.ops[k].queue = <<>> /\ d.ops[k].trans = x /\ d.ops[k].op = op
      BY <2>1, <1>3
    <3>2. \A t : ~InItems(<<>>, t)
      BY DEF InItems
    <3>3. ItemsOk(w, k, <<>>)
      BY DEF ItemsOk, Once
    <3> QED
      BY <2>1, <3>1, <3>2, <3>3, <1>3, <1>4 DEF InOperation
  <2>2. CASE c.ops[k] # NoOp
    <3> DEFINE q == c.ops[k].queue
    <3>1. /\ q \in Seq(Item) /\ ItemsOk(w, k, q) /\ ItemOk(w, k, c.ops[k].op, c.ops[k].trans)
          /\ c.ops[k].trans # None => ~InItems(q, c.ops[k].trans)
      BY <2>2, <1>1, OperationFields DEF OpsOk
    <3>2. x # None => ~InItems(q, x) /\ c.ops[k].trans # x
      BY <2>2, <1>5
    <3> DEFINE r == Append(q, [op |-> op, trans |-> x])
    <3>3. ItemsOk(w, k, r) /\ \A t : InItems(r, t) <=> InItems(q, t) \/ t = x
      BY <3>1, <3>2, <1>1, <1>4, OneMoreItem
    <3>4. d.ops[k].queue = r /\ d.ops[k].trans = c.ops[k].trans /\ d.ops[k].op = c.ops[k].op
      BY <2>2, <1>3
    <3> HIDE DEF r, q
    <3>5. \A t \in Trans : InOperation(d, t, k) <=> InOperation(c, t, k) \/ t = x
      BY <2>2, <3>3, <3>4, <1>3 DEF InOperation, q
    <3> QED
      BY <3>1, <3>2, <3>3, <3>4, <3>5
  <2> QED
    BY <2>1, <2>2
<1>7. OpsOk(d, w)
  BY <1>1, <1>3, <1>6 DEF OpsOk
<1>8. ASSUME NEW t \in Trans, t # x PROVE Waits(b, d, t) <=> Waits(b, c, t)
  <2>1. \A j \in Keys : InOperation(d, t, j) <=> InOperation(c, t, j)
    BY <1>3, <1>6, <1>8 DEF InOperation
  <2>2. \A e : Queued(d, t, e) <=> Queued(c, t, e)
    BY <1>3 DEF Queued, IsLive
  <2> QED
    BY <2>1, <2>2 DEF Waits
<1>9. x # None => TransactionOk(b, d, w, None, x)
  <2> SUFFICES ASSUME x # None PROVE TransactionOk(b, d, w, None, x)
    OBVIOUS
  <2>1. w[x].next \in {"OPEN_ENTRY_COMPLETE", "CREATE_ENTRY_COMPLETE", "DOOM_ENTRY_COMPLETE"}
    BY DEF Completes, Ops
  <2>2. InOperation(d, x, k)
    BY <1>2, <1>6
  <2>3. PlaceOk(b, d, w, x)
    BY <2>2, <1>2, <1>3 DEF PlaceOk, Waits, Nowhere
  <2>4. NewOk(d, w, None, x)
    BY <2>1 DEF NewOk
  <2>5. HoldOk(d, w, x)
    BY <2>1, HoldsNothing DEF AtCache
  <2> QED
    BY <2>3, <2>4, <2>5 DEF TransactionOk
<1>10. Good(b, d, w, None, o)
  <2> HIDE DEF Cache
  <2> QED
    BY <1>1, <1>3, <1>7, <1>8, <1>9, Moves
<1> QED
  BY <1>10 DEF d

\* A transaction that has not come to the cache, between tasks.
LEMMA TakeOutside ==
    ASSUME NEW b, NEW c, NEW w, NEW o, Good(b, c, w, None, o), c.stack = <<>>, NEW x \in Trans,
           w[x].next \in Outside
    PROVE  /\ Good(b, c, w, x, o) /\ w[x].entry = NoEntry /\ w[x].new = NoEntry /\ ~Has(b, x)
<1>1. x # None /\ c \in Cache /\ b \in Seq(Trans \cup {None}) /\ OpsOk(c, w) /\ BackendOpOk(b, w)
  BY NoneAssumption DEF Trans, Good, Typed
<1>2. w[x].next \notin AtCache \cup Turns \cup Holding
  BY DEF Outside, AtCache, Turns, Holding, AtDisk, AtNetwork
<1>3. TransactionOk(b, c, w, None, x)
  BY <1>1 DEF Good, TransactionsOk
<1>4. w[x].entry = NoEntry /\ w[x].new = NoEntry
  BY <1>2, <1>3 DEF TransactionOk, HoldOk, NewOk, AtCache, Turns
<1>5. ~OnStack(c.stack, x) /\ ~Waits(b, c, x)
  BY <1>2, Places
<1>6. ASSUME NEW e \in Entries, IsLive(c, e), Uses(c, x, e) PROVE FALSE
  <2>1. HasOrGets(c, w, None, x, e)
    BY <1>6, Places
  <2> QED
    BY <2>1, <1>4 DEF HasOrGets, Entries, NoEntry
<1>7. Nowhere(b, c, x)
  BY <1>5, <1>6 DEF Nowhere
<1>8. Good(b, c, w, x, o)
  BY <1>1, <1>7, Moves
<1> QED
  BY <1>4, <1>5, <1>8 DEF Waits

\* The user's callback is called.
LEMMA PutUser ==
    ASSUME NEW b, NEW c, NEW w, NEW x \in Trans, Good(b, c, w, x, NoEntry),
           w[x].next = "past", w[x].entry = NoEntry, w[x].new = NoEntry
    PROVE  Good(b, Call(c, <<User(x)>>), w, None, NoEntry)
<1> DEFINE f == User(x)
           d == Call(c, <<f>>)
<1>1. /\ c \in Cache /\ w \in [Trans -> Transaction] /\ b \in Seq(Trans \cup {None}) /\ x # None
      /\ c.stack \in Seq(Frame)
  BY CacheFields, NoneAssumption DEF Good, Typed, Trans
<1>2. f \in Frame /\ <<f>> \in Seq(Frame) /\ f.frame = "user" /\ f.trans = x
  <2>1. f \in Frame /\ f.frame = "user" /\ f.trans = x
    BY NewFrames
  <2> HIDE DEF f, Frame
  <2> QED
    BY <2>1
<1>3. d \in Cache /\ SameStore(c, d) /\ d.stack = <<f>> \o c.stack
  BY <1>1, <1>2, CallFields
<1>4. \A t : ~InFrame(f, t)
  BY <1>2 DEF InFrame
<1> HIDE DEF d, f
<1>5. Nowhere(b, c, x) /\ \A t \in Trans : t # x => TransactionOk(b, c, w, x, t)
  BY <1>1 DEF Good, TransactionsOk
<1>6. EntriesOk(d, w, None, NoEntry)
  <2>1. ASSUME NEW e \in Entries, IsLive(d, e) PROVE EntryOk(d, w, None, NoEntry, e)
    BY <2>1, <1>1, <1>2, <1>3, <1>4, OthersBehind, StoreOf DEF Good, EntriesOk
  <2> QED
    BY <2>1 DEF EntriesOk
<1>7. ActiveOk(d) /\ OpsOk(d, w)
  BY <1>3, StoreOf DEF Good
<1>8. StackOk(d, w, None)
  <2>1. ASSUME NEW i \in 1 .. Len(d.stack) PROVE FrameOk(d, w, d.stack[i], i = 1)
    <3>1. CASE i = 1
      <4>1. d.stack[1] = f
        BY <1>1, <1>2, <1>3, InFront
      <4> QED
        BY <3>1, <4>1, <1>2 DEF FrameOk
    <3>2. CASE i # 1
      <4>1. i - 1 \in 1 .. Len(c.stack) /\ d.stack[i] = c.stack[i - 1]
        BY <3>2, <1>1, <1>2, <1>3, InFront
      <4>2. FrameOk(c, w, c.stack[i - 1], FALSE)
        BY <4>1, <1>1 DEF Good, StackOk
      <4> QED
        BY <3>2, <4>1, <4>2, <1>3, StoreOf
    <3> QED
      BY <3>1, <3>2
  <2>2. OneFrameEach(d.stack)
    BY <1>1, <1>2, <1>3, <1>4, OneFrameInFront DEF Good, StackOk
  <2> QED
    BY <2>1, <2>2 DEF StackOk
<1>9. TransactionOk(b, d, w, None, x)
  <2>1. ~OnStack(d.stack, x) /\ ~Waits(b, d, x)
    BY <1>1, <1>2, <1>3, <1>4, <1>5, OnStackInFront, StoreOf DEF Nowhere
  <2>2. PlaceOk(b, d, w, x)
    BY <2>1 DEF PlaceOk, AtCache, Turns
  <2>3. NewOk(d, w, None, x)
    BY DEF NewOk
  <2>4. HoldOk(d, w, x)
    BY DEF HoldOk, AtCache, Turns, Holding, AtDisk, AtNetwork, Outside
  <2> QED
    BY <2>2, <2>3, <2>4 DEF TransactionOk
<1>10. \A t \in Trans : t # x => TransactionOk(b, d, w, None, t)
  BY <1>1, <1>2, <1>3, <1>4, <1>5, OthersBehind
<1>11. TransactionsOk(b, d, w, None)
  BY <1>9, <1>10 DEF TransactionsOk
<1>12. Good(b, d, w, None, NoEntry)
  BY <1>1, <1>3, <1>6, <1>7, <1>8, <1>11 DEF Good, Typed
<1> QED
  BY <1>12 DEF d, f
-----------------------------------------------------------------------------
(* One entry changes                                                       *)

\* A cache with another entry.
LEMMA WithEntry ==
    ASSUME NEW c \in Cache, NEW e \in Entries, NEW y \in Entry \cup {Closed},
           NEW d, d = [c EXCEPT !.entries[e] = y]
    PROVE  /\ d \in Cache /\ d.active = c.active /\ d.ops = c.ops /\ d.disk = c.disk
           /\ d.posted = c.posted /\ d.stack = c.stack /\ d.entries[e] = y
           /\ \A f \in Entries : f # e => d.entries[f] = c.entries[f]
<1> DEFINE g == [c.entries EXCEPT ![e] = y]
<1>1. /\ c.entries \in [Entries -> Entry \cup {Closed}]
      /\ c.active \in [Keys -> Entries \cup {NoEntry}]
      /\ c.ops \in [Keys -> Operation \cup {NoOp}]
      /\ c.disk \in [Keys -> Contents] /\ c.posted \in SUBSET Entries
      /\ c.stack \in Seq(Frame)
  BY CacheFields
<1>2. g \in [Entries -> Entry \cup {Closed}] /\ g[e] = y /\ \A f \in Entries : f # e => g[f] = c.entries[f]
  BY <1>1
<1>3. d = Made(g, c.active, c.ops, c.disk, c.posted, c.stack)
  BY PartsOf
<1> HIDE DEF g
<1> QED
  BY ONLY <1>1, <1>2, <1>3 DEF Made, Cache

\* Only the entry e, its task and who is in it differ: the transaction in hand may be put
\* into it, or y be taken from it between tasks.
EntryStep(b, c, d, w, x, o, y, p, e) ==
    /\ d \in Cache /\ y \in Trans \cup {None}
    /\ x # None => y = None \/ y = x
    /\ y = None \/ y = x \/ c.stack = <<>>
    /\ e \in Entries /\ IsLive(c, e) /\ IsLive(d, e)
    /\ o = NoEntry \/ o = e \/ o = p
    /\ d.active = c.active /\ d.ops = c.ops /\ d.disk = c.disk /\ d.stack = c.stack
    /\ \A f \in Entries : f # e => /\ d.entries[f] = c.entries[f]
                                   /\ f \in d.posted <=> f \in c.posted
    /\ d.entries[e].key = c.entries[e].key
    /\ EntryOk(d, w, y, p, e)
    /\ \A t \in Trans : t # x /\ t # y =>
           /\ Queued(c, t, e) <=> Queued(d, t, e)
           /\ Uses(c, t, e) => Uses(d, t, e)
           /\ w[t].entry = e => d.entries[e].content = c.entries[e].content
    /\ x # None /\ y = None => TransactionOk(b, d, w, None, x)
    /\ y # None => Nowhere(b, d, y)

\* Such a step keeps the invariant.
LEMMA EntryMoves ==
    ASSUME NEW b, NEW c, NEW d, NEW w, NEW x, NEW o, NEW y, NEW p, NEW e, Good(b, c, w, x, o),
           EntryStep(b, c, d, w, x, o, y, p, e)
    PROVE  Good(b, d, w, y, p)
<1>0. /\ d \in Cache /\ y \in Trans \cup {None} /\ (x # None => y = None \/ y = x)
      /\ y = None \/ y = x \/ c.stack = <<>>
      /\ e \in Entries /\ IsLive(c, e) /\ IsLive(d, e) /\ (o = NoEntry \/ o = e \/ o = p)
      /\ d.active = c.active /\ d.ops = c.ops /\ d.disk = c.disk /\ d.stack = c.stack
      /\ \A f \in Entries : f # e => /\ d.entries[f] = c.entries[f]
                                     /\ f \in d.posted <=> f \in c.posted
      /\ d.entries[e].key = c.entries[e].key /\ EntryOk(d, w, y, p, e)
      /\ \A t \in Trans : t # x /\ t # y =>
             /\ Queued(c, t, e) <=> Queued(d, t, e)
             /\ Uses(c, t, e) => Uses(d, t, e)
             /\ w[t].entry = e => d.entries[e].content = c.entries[e].content
      /\ x # None /\ y = None => TransactionOk(b, d, w, None, x)
      /\ y # None => Nowhere(b, d, y)
  BY DEF EntryStep
<1> USE <1>0
<1>1. /\ c \in Cache /\ w \in [Trans -> Transaction] /\ c.stack \in Seq(Frame)
      /\ x \in Trans \cup {None}
      /\ c.posted \in SUBSET Entries /\ d.posted \in SUBSET Entries
  BY CacheFields DEF Good, Typed
<1>2. x # None => x \in Trans /\ Nowhere(b, c, x)
  BY <1>1 DEF Good, TransactionsOk
<1>3. \A t, rv : RunsNow(c, x, t, rv) => RunsNow(d, y, t, rv)
  BY DEF RunsNow
<1>4. EntriesOk(d, w, y, p)
  <2>1. ASSUME NEW f \in Entries, IsLive(d, f) PROVE EntryOk(d, w, y, p, f)
    <3>1. CASE f = e
      BY <3>1
    <3>2. CASE f # e
      <4>1. IsLive(c, f) /\ EntryOk(c, w, x, o, f)
        BY <2>1, <3>2 DEF Good, EntriesOk, IsLive
      <4>2. f # p => f # o
        BY <3>2 DEF Entries, NoEntry
      <4> QED
        BY <3>2, <4>1, <4>2, <1>3, EntrySame
    <3> QED
      BY <3>1, <3>2
  <2> QED
    BY <2>1 DEF EntriesOk
<1>5. \A f \in Entries : IsLive(d, f) <=> IsLive(c, f)
  BY DEF IsLive
<1>6. ActiveOk(d)
  <2>1. \A k \in Keys : c.active[k] # NoEntry => c.active[k] \in Entries
    BY <1>1, CacheFields
  <2> QED
    BY <2>1, <1>1, <1>5 DEF Good, ActiveOk
<1>7. OpsOk(d, w)
  BY DEF Good, OpsOk
<1>8. ASSUME NEW t \in Trans, t # x, t # y
      PROVE  /\ Waits(b, d, t) <=> Waits(b, c, t)
             /\ \A f \in Entries : Queued(c, t, f) => Queued(d, t, f)
             /\ \A f \in Entries : IsLive(c, f) /\ Uses(c, t, f) => IsLive(d, f) /\ Uses(d, t, f)
  <2>1. \A f \in Entries : Queued(c, t, f) <=> Queued(d, t, f)
    BY <1>5, <1>8 DEF Queued
  <2>2. \A k : InOperation(c, t, k) <=> InOperation(d, t, k)
    BY DEF InOperation
  <2>3. \A f \in Entries : IsLive(c, f) /\ Uses(c, t, f) => IsLive(d, f) /\ Uses(d, t, f)
    BY <1>5, <1>8 DEF Uses
  <2> QED
    BY <2>1, <2>2, <2>3 DEF Waits
<1>9. StackOk(d, w, y)
  <2>1. c.stack = <<>> \/ \A f \in Entries, t \in Trans :
                              IsLive(c, f) /\ Uses(c, t, f) => IsLive(d, f) /\ Uses(d, t, f)
    <3>1. CASE c.stack = <<>>
      BY <3>1
    <3>2. CASE c.stack # <<>>
      <4>1. x = None => y = None
        BY <3>2
      <4>2. \A t \in Trans : t = x => \A f \in Entries : IsLive(c, f) => ~Uses(c, t, f)
        BY <1>2, NoneAssumption DEF Nowhere, Trans
      <4>3. \A t \in Trans : t # x => t # y
        BY <4>1, NoneAssumption DEF Trans
      <4> QED
        BY <4>2, <4>3, <1>8
    <3> QED
      BY <3>1, <3>2
  <2> QED
    BY <2>1, StackSame
<1>10. ASSUME NEW t \in Trans, t # y PROVE TransactionOk(b, d, w, y, t)
  <2>1. CASE t = x
    BY <2>1, <1>10, NoneAssumption DEF Trans
  <2>2. CASE t # x
    <3>1. TransactionOk(b, c, w, x, t)
      BY <2>2 DEF Good, TransactionsOk
    <3>2. w[t].entry # NoEntry =>
              d.entries[w[t].entry].content = c.entries[w[t].entry].content
      <4>1. w[t].entry \in Entries \cup {NoEntry}
        BY <1>1, TransactionFields
      <4> QED
        BY <4>1, <2>2, <1>10
    <3> QED
      BY <3>1, <3>2, <2>2, <1>1, <1>3, <1>8, <1>10, TransactionSame
  <2> QED
    BY <2>1, <2>2
<1> QED
  BY <1>1, <1>4, <1>6, <1>7, <1>9, <1>10 DEF Good, Typed, TransactionsOk

\* The transaction in hand is queued for an entry somebody looks after.
LEMMA PutQueue ==
    ASSUME NEW b, NEW c, NEW w, NEW x \in Trans, NEW o, Good(b, c, w, x, o),
           NEW e \in Entries, IsLive(c, e), o = NoEntry \/ o = e,
           c.entries[e].writer # None \/ c.entries[e].will \/ c.entries[e].readers # {},
           w[x].next = "ADD_TO_ENTRY_COMPLETE", w[x].new = e, w[x].entry = NoEntry,
           w[x].key \in Keys, w[x].mode # "NONE"
    PROVE  Good(b, [c EXCEPT !.entries[e].queue = Append(@, x)], w, None, NoEntry)
<1> DEFINE z == c.entries[e]
           q == Append(z.queue, x)
           r == [z EXCEPT !.queue = q]
           d == [c EXCEPT !.entries[e] = r]
<1>1. /\ c \in Cache /\ b \in Seq(Trans \cup {None}) /\ x # None /\ Nowhere(b, c, x)
      /\ z \in Entry /\ z.queue \in Seq(Trans) /\ EntryOk(c, w, x, o, e) /\ e # NoEntry
  BY NoneAssumption, LiveFields DEF Good, Typed, Trans, TransactionsOk, EntriesOk, Entries, NoEntry
<1>2. q \in Seq(Trans) /\ Len(q) = Len(z.queue) + 1 /\ q[Len(q)] = x /\ Len(z.queue) \in Nat
      /\ \A i \in 1 .. Len(z.queue) : q[i] = z.queue[i]
  <2> HIDE DEF z
  <2> QED
    BY <1>1
<1>3. r \in Entry /\ r.key = z.key /\ r.writer = z.writer /\ r.readers = z.readers
      /\ r.will = z.will /\ r.doomed = z.doomed /\ r.content = z.content /\ r.queue = q
  <2> HIDE DEF z, q
  <2> QED
    BY <1>1, <1>2 DEF Entry
<1>4. r # Closed
  BY <1>3, EntryFields
<1> HIDE DEF r, q
<1>5. /\ d \in Cache /\ d.active = c.active /\ d.ops = c.ops /\ d.disk = c.disk
      /\ d.posted = c.posted /\ d.stack = c.stack /\ d.entries[e] = r
      /\ \A f \in Entries : f # e => d.entries[f] = c.entries[f]
  BY <1>1, <1>3, WithEntry
<1> HIDE DEF d
<1>6. /\ IsLive(d, e) /\ \A t : Uses(c, t, e) <=> Uses(d, t, e)
      /\ \A t : Queued(d, t, e) <=> Queued(c, t, e) \/ t = x
  <2>1. \A t : Has(q, t) <=> Has(z.queue, t) \/ t = x
    <3>1. ASSUME NEW t, Has(q, t) PROVE Has(z.queue, t) \/ t = x
      <4>1. PICK i \in 1 .. Len(q) : q[i] = t
        BY <3>1 DEF Has
      <4>2. i # Len(q) => i \in 1 .. Len(z.queue)
        BY <1>2
      <4> QED
        BY <4>1, <4>2, <1>2 DEF Has
    <3>2. ASSUME NEW t, Has(z.queue, t) PROVE Has(q, t)
      <4>1. PICK i \in 1 .. Len(z.queue) : z.queue[i] = t
        BY <3>2 DEF Has
      <4>2. i \in 1 .. Len(q) /\ q[i] = t
        BY <4>1, <1>2
      <4> QED
        BY <4>2 DEF Has
    <3>3. Has(q, x)
      <4>1. Len(q) \in 1 .. Len(q)
        BY <1>2
      <4> QED
        BY <4>1, <1>2 DEF Has
    <3> QED
      BY <3>1, <3>2, <3>3
  <2> QED
    BY <2>1, <1>3, <1>4, <1>5 DEF Queued, IsLive, Uses
<1>7. EntryOk(d, w, None, NoEntry, e)
  <2>1. LockOk(d, w, None, e)
    <3>1. \A t : HasOrGets(c, w, x, t, e) => HasOrGets(d, w, None, t, e)
      BY <1>1 DEF HasOrGets, RunsNow
    <3> QED
      BY <3>1, <1>1, <1>3, <1>5 DEF EntryOk, LockOk
  <2>2. QueueOk(d, w, e)
    <3>1. \A i \in 1 .. Len(z.queue) : z.queue[i] # x
      BY <1>1, Absent
    <3>2. NoneTwice(z.queue) /\ \A i \in 1 .. Len(z.queue) :
              w[z.queue[i]].next = "ADD_TO_ENTRY_COMPLETE" /\ w[z.queue[i]].new = e
      BY <1>1 DEF EntryOk, QueueOk
    <3>3. \A i \in 1 .. Len(q) : w[q[i]].next = "ADD_TO_ENTRY_COMPLETE" /\ w[q[i]].new = e
      <4>1. \A i \in 1 .. Len(q) : i # Len(q) => i \in 1 .. Len(z.queue)
        BY <1>2
      <4>2. w[x].next = "ADD_TO_ENTRY_COMPLETE" /\ w[x].new = e
        OBVIOUS
      <4> HIDE DEF z
      <4> TAKE i \in 1 .. Len(q)
      <4>3. CASE i = Len(q)
        BY <4>2, <4>3, <1>2
      <4>4. CASE i # Len(q)
        <5>1. i \in 1 .. Len(z.queue) /\ q[i] = z.queue[i]
          BY <4>1, <4>4, <1>2
        <5> QED
          BY <5>1, <3>2
      <4> QED
        BY <4>3, <4>4
    <3>4. NoneTwice(q)
      <4> HIDE DEF z
      <4> SUFFICES ASSUME NEW i \in 1 .. Len(q), NEW j \in 1 .. Len(q), q[i] = q[j]
                   PROVE  i = j
        BY DEF NoneTwice
      <4>1. \A k \in 1 .. Len(q) :
                k = Len(q) \/ (k \in 1 .. Len(z.queue) /\ q[k] = z.queue[k])
        BY <1>2
      <4>2. CASE i = Len(q) \/ j = Len(q)
        BY <4>1, <4>2, <3>1, <1>2
      <4>3. CASE i # Len(q) /\ j # Len(q)
        <5>1. /\ i \in 1 .. Len(z.queue) /\ q[i] = z.queue[i]
              /\ j \in 1 .. Len(z.queue) /\ q[j] = z.queue[j]
          BY <4>1, <4>3
        <5> QED
          BY <5>1, <3>2 DEF NoneTwice
      <4> QED
        BY <4>2, <4>3
    <3> QED
      BY <3>3, <3>4, <1>3, <1>5 DEF QueueOk
  <2>3. LinkOk(d, e) /\ ContentOk(d, w, e)
    BY <1>1, <1>3, <1>5 DEF EntryOk, LinkOk, ContentOk
  <2>4. AttendedOk(d, w, None, e)
    BY <1>3, <1>5 DEF AttendedOk
  <2> QED
    BY <2>1, <2>2, <2>3, <2>4 DEF EntryOk
<1>8. TransactionOk(b, d, w, None, x)
  <2>1. PlaceOk(b, d, w, x)
    BY <1>1, <1>5, <1>6 DEF PlaceOk, Waits, Nowhere
  <2>2. NewOk(d, w, None, x)
    BY <1>1, <1>6 DEF NewOk
  <2>3. HoldOk(d, w, x)
    BY HoldsNothing DEF AtCache
  <2> QED
    BY <2>1, <2>2, <2>3 DEF TransactionOk
<1>9. Good(b, d, w, None, NoEntry)
  <2>1. \A t \in Trans : t # x /\ t # None =>
            /\ Queued(c, t, e) <=> Queued(d, t, e)
            /\ Uses(c, t, e) => Uses(d, t, e)
            /\ w[t].entry = e => d.entries[e].content = c.entries[e].content
    BY <1>3, <1>5, <1>6
  <2>2. \A f \in Entries : f # e => /\ d.entries[f] = c.entries[f]
                                     /\ f \in d.posted <=> f \in c.posted
    BY <1>5
  <2>3. d.entries[e].key = c.entries[e].key
    BY <1>3, <1>5
  <2> HIDE DEF Cache, z
  <2>4. EntryStep(b, c, d, w, x, o, None, NoEntry, e)
    BY <2>1, <2>2, <2>3, <1>1, <1>5, <1>6, <1>7, <1>8 DEF EntryStep
  <2> QED
    BY <2>4, EntryMoves
<1>10. [c EXCEPT !.entries[e].queue = Append(@, x)] = d
  BY DEF d, r, q
<1> QED
  BY <1>9, <1>10

\* The task that looks after an entry that has no writer is posted.
LEMMA PostTask ==
    ASSUME NEW b, NEW c, NEW w, NEW x, NEW o, Good(b, c, w, x, o), NEW e \in Entries,
           IsLive(c, e), c.entries[e].writer = None, o = NoEntry \/ o = e
    PROVE  /\ Good(b, ProcessPendingQueue(c, e), w, x, NoEntry)
           /\ ProcessPendingQueue(c, e).stack = c.stack
<1> DEFINE z == c.entries[e]
           r == [z EXCEPT !.will = TRUE]
           g == c.posted \cup {e}
           d == [c EXCEPT !.entries[e] = r, !.posted = g]
<1>1. /\ c \in Cache /\ b \in Seq(Trans \cup {None}) /\ x \in Trans \cup {None}
      /\ z \in Entry /\ EntryOk(c, w, x, o, e) /\ e # NoEntry
      /\ g \in SUBSET Entries
  BY LiveFields, CacheFields DEF Good, Typed, EntriesOk, Entries, NoEntry
<1>2. r \in Entry /\ r.key = z.key /\ r.writer = z.writer /\ r.readers = z.readers
      /\ r.will = TRUE /\ r.doomed = z.doomed /\ r.content = z.content /\ r.queue = z.queue
  <2> HIDE DEF z
  <2> QED
    BY <1>1 DEF Entry
<1>3. r # Closed
  BY <1>2, EntryFields
<1> HIDE DEF r, g
<1>4. /\ d \in Cache /\ d.active = c.active /\ d.ops = c.ops /\ d.disk = c.disk
      /\ d.posted = g /\ d.stack = c.stack /\ d.entries[e] = r
      /\ \A f \in Entries : f # e => d.entries[f] = c.entries[f]
  <2> DEFINE h == [c.entries EXCEPT ![e] = r]
  <2>1. d = Made(h, c.active, c.ops, c.disk, g, c.stack)
    <3>1. \A v, p : [c EXCEPT !.entries = v, !.posted = p]
                       = Made(v, c.active, c.ops, c.disk, p, c.stack)
      BY ONLY <1>1, PartsOf
    <3>2. d = [c EXCEPT !.entries = h, !.posted = g]
      OBVIOUS
    <3> HIDE DEF h
    <3> QED
      BY <3>1, <3>2
  <2>2. /\ c.entries \in [Entries -> Entry \cup {Closed}]
        /\ c.active \in [Keys -> Entries \cup {NoEntry}]
        /\ c.ops \in [Keys -> Operation \cup {NoOp}]
        /\ c.disk \in [Keys -> Contents] /\ c.stack \in Seq(Frame)
    BY <1>1, CacheFields
  <2>3. h \in [Entries -> Entry \cup {Closed}] /\ h[e] = r
        /\ \A f \in Entries : f # e => h[f] = c.entries[f]
    BY <1>2, <2>2
  <2> HIDE DEF d, h
  <2> QED
    BY ONLY <2>1, <2>2, <2>3, <1>1 DEF Made, Cache
<1> USE DEF g
<1>5. CASE z.will
  <2>1. ProcessPendingQueue(c, e) = c
    BY <1>5 DEF ProcessPendingQueue
  <2>2. EntriesOk(c, w, x, NoEntry)
    <3>1. ASSUME NEW f \in Entries, IsLive(c, f) PROVE EntryOk(c, w, x, NoEntry, f)
      <4>1. EntryOk(c, w, x, o, f) /\ f # NoEntry
        BY <3>1 DEF Good, EntriesOk, Entries, NoEntry
      <4>2. f = e => AttendedOk(c, w, x, f)
        BY <1>5 DEF AttendedOk
      <4> QED
        BY <4>1, <4>2 DEF EntryOk
    <3> QED
      BY <3>1 DEF EntriesOk
  <2> QED
    BY <2>1, <2>2 DEF Good
<1>6. CASE ~z.will
  <2>1. ProcessPendingQueue(c, e) = d
    BY <1>6 DEF ProcessPendingQueue, r, g
  <2> HIDE DEF d
  <2>2. /\ IsLive(d, e) /\ \A t : Uses(c, t, e) <=> Uses(d, t, e)
        /\ \A t : Queued(d, t, e) <=> Queued(c, t, e)
    BY <1>2, <1>3, <1>4 DEF Queued, IsLive, Uses
  <2>3. EntryOk(d, w, x, NoEntry, e)
    <3>1. LockOk(d, w, x, e)
      <4>1. \A t : HasOrGets(c, w, x, t, e) => HasOrGets(d, w, x, t, e)
        BY <1>4 DEF HasOrGets, RunsNow
      <4> QED
        BY <4>1, <1>1, <1>2, <1>4 DEF EntryOk, LockOk
    <3>2. QueueOk(d, w, e) /\ LinkOk(d, e) /\ ContentOk(d, w, e) /\ AttendedOk(d, w, x, e)
      BY <1>1, <1>2, <1>4 DEF EntryOk, QueueOk, LinkOk, ContentOk, AttendedOk
    <3> QED
      BY <3>1, <3>2 DEF EntryOk
  <2>4. x # None => Nowhere(b, d, x)
    <3>1. x # None => Nowhere(b, c, x)
      BY DEF Good, TransactionsOk
    <3>2. \A f \in Entries : /\ Queued(d, x, f) <=> Queued(c, x, f)
                             /\ IsLive(d, f) <=> IsLive(c, f)
                             /\ Uses(d, x, f) <=> Uses(c, x, f)
      BY <1>4, <2>2 DEF Queued, IsLive, Uses
    <3>3. \A k : InOperation(d, x, k) <=> InOperation(c, x, k)
      BY <1>4 DEF InOperation
    <3> QED
      BY <3>1, <3>2, <3>3, <1>4 DEF Nowhere, Waits
  <2>5. \A f \in Entries : f # e => /\ d.entries[f] = c.entries[f]
                                     /\ f \in d.posted <=> f \in c.posted
    BY <1>4
  <2>6. d.entries[e].key = c.entries[e].key
        /\ \A t \in Trans : t # x /\ t # x =>
               /\ Queued(c, t, e) <=> Queued(d, t, e)
               /\ Uses(c, t, e) => Uses(d, t, e)
               /\ w[t].entry = e => d.entries[e].content = c.entries[e].content
    BY <1>2, <1>4, <2>2
  <2>7. Good(b, d, w, x, NoEntry)
    <3> HIDE DEF Cache, z
    <3>1. EntryStep(b, c, d, w, x, o, x, NoEntry, e)
      BY <1>1, <1>4, <2>2, <2>3, <2>4, <2>5, <2>6 DEF EntryStep
    <3> QED
      BY <3>1, EntryMoves
  <2> QED
    BY <2>1, <2>7, <1>4
<1> QED
  BY <1>5, <1>6
-----------------------------------------------------------------------------
(* A transaction is taken from an entry, between tasks                     *)

\* What there is with r in the place of the entry e.
LEMMA EntryReplaced ==
    ASSUME NEW c \in Cache, NEW e \in Entries, IsLive(c, e), NEW r \in Entry, NEW d,
           d.entries[e] = r, d.ops = c.ops,
           \A f \in Entries : f # e => d.entries[f] = c.entries[f]
    PROVE  /\ IsLive(d, e) /\ \A f \in Entries : IsLive(d, f) <=> IsLive(c, f)
           /\ \A t : Uses(d, t, e) <=> t = r.writer \/ t \in r.readers
           /\ \A t : Queued(d, t, e) <=> Has(r.queue, t)
           /\ \A t : \A f \in Entries : f # e => /\ Uses(d, t, f) <=> Uses(c, t, f)
                                                 /\ Queued(d, t, f) <=> Queued(c, t, f)
           /\ \A t, k : InOperation(d, t, k) <=> InOperation(c, t, k)
<1>1. r # Closed
  BY EntryFields
<1> QED
  BY <1>1 DEF IsLive, Uses, Queued, InOperation

\* The transaction that holds an entry, between tasks, is in no other place.
LEMMA HolderPlaces ==
    ASSUME NEW b, NEW c, NEW w, NEW o, Good(b, c, w, None, o), c.stack = <<>>, NEW t \in Trans,
           w[t].entry # NoEntry
    PROVE  LET e == w[t].entry IN
           /\ e \in Entries /\ IsLive(c, e) /\ Uses(c, t, e) /\ w[t].next \in Holding
           /\ w[t].new = NoEntry /\ w[t].mode # "NONE" /\ w[t].key \in Keys
           /\ ~OnStack(c.stack, t) /\ ~Waits(b, c, t) /\ ~Has(b, t)
           /\ \A f \in Entries : f # e /\ IsLive(c, f) => ~Uses(c, t, f)
           /\ c.entries[e].writer # None => c.entries[e].writer = t /\ c.entries[e].readers = {}
                                            /\ ~c.entries[e].will /\ Writes(w[t].mode)
           /\ c.entries[e].writer = None => t \in c.entries[e].readers /\ w[t].mode = "READ"
           /\ c.entries[e].writer # None => \A u \in Trans : w[u].entry = e => u = t
<1> DEFINE e == w[t].entry
<1>1. c \in Cache /\ w \in [Trans -> Transaction] /\ t # None /\ TransactionOk(b, c, w, None, t)
      /\ e \in Entries
  BY NoneAssumption, TransactionFields DEF Good, Typed, Trans, TransactionsOk
<1>2. IsLive(c, e) /\ Uses(c, t, e) /\ w[t].next \in Holding
  BY <1>1 DEF TransactionOk, HoldOk
<1>3. w[t].next \notin AtCache \cup Turns \cup Outside
  BY <1>2 DEF AtCache, Turns, Holding, AtDisk, AtNetwork, Outside
<1>4. w[t].new = NoEntry /\ w[t].mode # "NONE" /\ w[t].key \in Keys
  BY <1>1, <1>2, <1>3 DEF TransactionOk, HoldOk, NewOk, AtCache, Turns
<1>5. ~OnStack(c.stack, t) /\ ~Waits(b, c, t) /\ ~Has(b, t)
  BY <1>3, Places DEF Waits
<1>6. \A u, rv : ~RunsNow(c, None, u, rv)
  BY DEF RunsNow
<1>7. \A f \in Entries : f # e /\ IsLive(c, f) => ~Uses(c, t, f)
  BY <1>6, Places DEF HasOrGets
<1>8. LockOk(c, w, None, e)
  BY <1>1, <1>2 DEF Good, EntriesOk, EntryOk
<1>9. \A u \in Trans : w[u].entry = e => Uses(c, u, e) /\ u # None
  BY <1>1, NoneAssumption DEF Good, TransactionsOk, TransactionOk, HoldOk, Entries, NoEntry, Trans
<1> HIDE DEF e
<1>10. c.entries[e].writer # None => c.entries[e].writer = t /\ c.entries[e].readers = {}
                                     /\ ~c.entries[e].will /\ Writes(w[t].mode)
  BY <1>2, <1>8 DEF LockOk, Uses
<1>11. c.entries[e].writer = None => t \in c.entries[e].readers /\ w[t].mode = "READ"
  BY <1>1, <1>2, <1>8 DEF LockOk, Uses
<1>12. c.entries[e].writer # None => \A u \in Trans : w[u].entry = e => u = t
  BY <1>9, <1>10 DEF Uses
<1> QED
  BY <1>1, <1>2, <1>4, <1>5, <1>7, <1>10, <1>11, <1>12 DEF e

\* The cache without the writer of e, which leaves z.
WriterLeft(c, e, z) == [c EXCEPT !.entries[e].writer = None, !.entries[e].content = z]

\* The holder of an entry, as its writer, is taken from it.
LEMMA TakeWriter ==
    ASSUME NEW b, NEW c, NEW w, Good(b, c, w, None, NoEntry), c.stack = <<>>, NEW t \in Trans,
           NEW e, e = w[t].entry, e # NoEntry, c.entries[e].writer # None,
           NEW z \in Contents, z \notin {"absent", "partial"}
    PROVE  Good(b, WriterLeft(c, e, z), w, t, e)
<1> DEFINE y == c.entries[e]
           r == [y EXCEPT !.writer = None, !.content = z]
           d == [c EXCEPT !.entries[e] = r]
<1>1. /\ e \in Entries /\ IsLive(c, e) /\ y.writer = t /\ y.readers = {} /\ ~y.will
      /\ ~OnStack(c.stack, t) /\ ~Waits(b, c, t)
      /\ \A f \in Entries : f # e /\ IsLive(c, f) => ~Uses(c, t, f)
      /\ \A u \in Trans : w[u].entry = e => u = t
  BY HolderPlaces
<1>2. c \in Cache /\ y \in Entry /\ EntryOk(c, w, None, NoEntry, e) /\ t # None
  BY <1>1, LiveFields, NoneAssumption DEF Good, Typed, EntriesOk, Trans
<1>3. r \in Entry /\ r.key = y.key /\ r.writer = None /\ r.readers = y.readers
      /\ r.will = y.will /\ r.doomed = y.doomed /\ r.content = z /\ r.queue = y.queue
  <2> HIDE DEF y
  <2> QED
    BY <1>2 DEF Entry
<1> HIDE DEF r
<1>4. /\ d \in Cache /\ d.active = c.active /\ d.ops = c.ops /\ d.disk = c.disk
      /\ d.posted = c.posted /\ d.stack = c.stack /\ d.entries[e] = r
      /\ \A f \in Entries : f # e => d.entries[f] = c.entries[f]
  BY <1>1, <1>2, <1>3, WithEntry
<1> HIDE DEF d
<1>5. /\ IsLive(d, e) /\ \A f \in Entries : IsLive(d, f) <=> IsLive(c, f)
      /\ \A u : Uses(d, u, e) <=> u = r.writer \/ u \in r.readers
      /\ \A u : Queued(d, u, e) <=> Has(r.queue, u)
      /\ \A u : \A f \in Entries : f # e => /\ Uses(d, u, f) <=> Uses(c, u, f)
                                            /\ Queued(d, u, f) <=> Queued(c, u, f)
      /\ \A u, k : InOperation(d, u, k) <=> InOperation(c, u, k)
  BY <1>1, <1>2, <1>3, <1>4, EntryReplaced
<1>6. \A u : Queued(c, u, e) <=> Has(y.queue, u)
  BY <1>1 DEF Queued
<1>7. EntryOk(d, w, t, e, e)
  <2>1. LockOk(d, w, t, e)
    BY <1>1, <1>3, <1>4 DEF LockOk
  <2>2. QueueOk(d, w, e)
    <3>1. d.entries[e].queue = c.entries[e].queue /\ QueueOk(c, w, e)
      BY <1>2, <1>3, <1>4 DEF EntryOk
    <3> QED
      BY <3>1 DEF QueueOk
  <2>3. LinkOk(d, e)
    BY <1>2, <1>3, <1>4 DEF EntryOk, LinkOk
  <2>4. ContentOk(d, w, e)
    BY <1>2, <1>3, <1>4 DEF EntryOk, ContentOk
  <2> QED
    BY <2>1, <2>2, <2>3, <2>4 DEF EntryOk
<1>8. Nowhere(b, d, t)
  <2>1. ~Waits(b, d, t)
    BY <1>1, <1>3, <1>5, <1>6 DEF Waits
  <2>2. \A f \in Entries : IsLive(d, f) => ~Uses(d, t, f)
    BY <1>1, <1>2, <1>3, <1>5
  <2> QED
    BY <2>1, <2>2, <1>1, <1>4 DEF Nowhere
<1>9. Good(b, d, w, t, e)
  <2>1. \A u \in Trans : u # None /\ u # t =>
            /\ Queued(c, u, e) <=> Queued(d, u, e)
            /\ Uses(c, u, e) => Uses(d, u, e)
            /\ w[u].entry = e => d.entries[e].content = c.entries[e].content
    BY <1>1, <1>3, <1>5, <1>6 DEF Uses
  <2>2. \A f \in Entries : f # e => /\ d.entries[f] = c.entries[f]
                                     /\ f \in d.posted <=> f \in c.posted
    BY <1>4
  <2>3. d.entries[e].key = c.entries[e].key
    BY <1>3, <1>4
  <2> HIDE DEF Cache, y
  <2>4. EntryStep(b, c, d, w, None, NoEntry, t, e, e)
    BY <2>1, <2>2, <2>3, <1>1, <1>4, <1>5, <1>7, <1>8 DEF EntryStep
  <2> QED
    BY <2>4, EntryMoves
<1>10. WriterLeft(c, e, z) = d
  BY ZenonT(60) DEF d, r, WriterLeft
<1> QED
  BY <1>9, <1>10

\* The holder of an entry, as one of its readers, is taken from it.
LEMMA TakeReader ==
    ASSUME NEW b, NEW c, NEW w, Good(b, c, w, None, NoEntry), c.stack = <<>>, NEW t \in Trans,
           NEW e, e = w[t].entry, e # NoEntry, c.entries[e].writer = None
    PROVE  Good(b, [c EXCEPT !.entries[e].readers = @ \ {t}], w, t, e)
<1> DEFINE y == c.entries[e]
           r == [y EXCEPT !.readers = @ \ {t}]
           d == [c EXCEPT !.entries[e] = r]
<1>1. /\ e \in Entries /\ IsLive(c, e)
      /\ ~OnStack(c.stack, t) /\ ~Waits(b, c, t)
      /\ \A f \in Entries : f # e /\ IsLive(c, f) => ~Uses(c, t, f)
  BY HolderPlaces
<1>2. c \in Cache /\ y \in Entry /\ y.writer = None /\ EntryOk(c, w, None, NoEntry, e) /\ t # None
  BY <1>1, LiveFields, NoneAssumption DEF Good, Typed, EntriesOk, Trans
<1>3. r \in Entry /\ r.key = y.key /\ r.writer = None /\ r.readers = y.readers \ {t}
      /\ r.will = y.will /\ r.doomed = y.doomed /\ r.content = y.content /\ r.queue = y.queue
  <2> HIDE DEF y
  <2> QED
    BY <1>2 DEF Entry
<1> HIDE DEF r
<1>4. /\ d \in Cache /\ d.active = c.active /\ d.ops = c.ops /\ d.disk = c.disk
      /\ d.posted = c.posted /\ d.stack = c.stack /\ d.entries[e] = r
      /\ \A f \in Entries : f # e => d.entries[f] = c.entries[f]
  BY <1>1, <1>2, <1>3, WithEntry
<1> HIDE DEF d
<1>5. /\ IsLive(d, e) /\ \A f \in Entries : IsLive(d, f) <=> IsLive(c, f)
      /\ \A u : Uses(d, u, e) <=> u = r.writer \/ u \in r.readers
      /\ \A u : Queued(d, u, e) <=> Has(r.queue, u)
      /\ \A u : \A f \in Entries : f # e => /\ Uses(d, u, f) <=> Uses(c, u, f)
                                            /\ Queued(d, u, f) <=> Queued(c, u, f)
      /\ \A u, k : InOperation(d, u, k) <=> InOperation(c, u, k)
  BY <1>1, <1>2, <1>3, <1>4, EntryReplaced
<1>6. \A u : Queued(c, u, e) <=> Has(y.queue, u)
  BY <1>1 DEF Queued
<1>7. EntryOk(d, w, t, e, e)
  <2>1. LockOk(d, w, t, e)
    <3>1. \A u : HasOrGets(c, w, None, u, e) => HasOrGets(d, w, t, u, e)
      BY DEF HasOrGets, RunsNow
    <3> QED
      BY <3>1, <1>2, <1>3, <1>4 DEF EntryOk, LockOk
  <2>2. QueueOk(d, w, e)
    <3>1. d.entries[e].queue = c.entries[e].queue /\ QueueOk(c, w, e)
      BY <1>2, <1>3, <1>4 DEF EntryOk
    <3> QED
      BY <3>1 DEF QueueOk
  <2>3. LinkOk(d, e)
    BY <1>2, <1>3, <1>4 DEF EntryOk, LinkOk
  <2>4. ContentOk(d, w, e)
    BY <1>2, <1>3, <1>4 DEF EntryOk, ContentOk
  <2> QED
    BY <2>1, <2>2, <2>3, <2>4 DEF EntryOk
<1>8. Nowhere(b, d, t)
  <2>1. ~Waits(b, d, t)
    BY <1>1, <1>3, <1>5, <1>6 DEF Waits
  <2>2. \A f \in Entries : IsLive(d, f) => ~Uses(d, t, f)
    BY <1>1, <1>2, <1>3, <1>5
  <2> QED
    BY <2>1, <2>2, <1>1, <1>4 DEF Nowhere
<1>9. Good(b, d, w, t, e)
  <2>1. \A u \in Trans : u # None /\ u # t =>
            /\ Queued(c, u, e) <=> Queued(d, u, e)
            /\ Uses(c, u, e) => Uses(d, u, e)
            /\ w[u].entry = e => d.entries[e].content = c.entries[e].content
    BY <1>1, <1>2, <1>3, <1>4, <1>5, <1>6 DEF Uses
  <2>2. \A f \in Entries : f # e => /\ d.entries[f] = c.entries[f]
                                     /\ f \in d.posted <=> f \in c.posted
    BY <1>4
  <2>3. d.entries[e].key = c.entries[e].key
    BY <1>3, <1>4
  <2> HIDE DEF Cache, y
  <2>4. EntryStep(b, c, d, w, None, NoEntry, t, e, e)
    BY <2>1, <2>2, <2>3, <1>1, <1>4, <1>5, <1>7, <1>8 DEF EntryStep
  <2> QED
    BY <2>4, EntryMoves
<1>10. [c EXCEPT !.entries[e].readers = @ \ {t}] = d
  BY DEF d, r
<1> QED
  BY <1>9, <1>10

\* Without y.
IsWithout(q, p, y) == NoneTwice(p) /\ \A t : Has(p, t) <=> Has(q, t) /\ t # y

\* A transaction is taken from the queue of an entry.
LEMMA TakeQueued ==
    ASSUME NEW b, NEW c, NEW w, NEW o, Good(b, c, w, None, o), c.stack = <<>>, NEW t \in Trans,
           NEW e \in Entries, Queued(c, t, e), NEW q \in Seq(Trans),
           IsWithout(c.entries[e].queue, q, t), o = NoEntry \/ o = e
    PROVE  Good(b, [c EXCEPT !.entries[e].queue = q], w, t, o)
<1> DEFINE y == c.entries[e]
           r == [y EXCEPT !.queue = q]
           d == [c EXCEPT !.entries[e] = r]
<1>1. c \in Cache /\ IsLive(c, e) /\ t # None /\ TransactionOk(b, c, w, None, t)
      /\ EntryOk(c, w, None, o, e)
  BY NoneAssumption DEF Good, Typed, EntriesOk, Trans, TransactionsOk, Queued
<1>2. y \in Entry /\ y.queue \in Seq(Trans)
  BY <1>1, LiveFields
<1>3. r \in Entry /\ r.key = y.key /\ r.writer = y.writer /\ r.readers = y.readers
      /\ r.will = y.will /\ r.doomed = y.doomed /\ r.content = y.content /\ r.queue = q
  <2> HIDE DEF y
  <2> QED
    BY <1>2 DEF Entry
<1> HIDE DEF r
<1>4. /\ d \in Cache /\ d.active = c.active /\ d.ops = c.ops /\ d.disk = c.disk
      /\ d.posted = c.posted /\ d.stack = c.stack /\ d.entries[e] = r
      /\ \A f \in Entries : f # e => d.entries[f] = c.entries[f]
  BY <1>1, <1>2, <1>3, WithEntry
<1> HIDE DEF d
<1>5. /\ IsLive(d, e) /\ \A f \in Entries : IsLive(d, f) <=> IsLive(c, f)
      /\ \A u : Uses(d, u, e) <=> u = r.writer \/ u \in r.readers
      /\ \A u : Queued(d, u, e) <=> Has(r.queue, u)
      /\ \A u : \A f \in Entries : f # e => /\ Uses(d, u, f) <=> Uses(c, u, f)
                                            /\ Queued(d, u, f) <=> Queued(c, u, f)
      /\ \A u, k : InOperation(d, u, k) <=> InOperation(c, u, k)
  BY <1>1, <1>2, <1>3, <1>4, EntryReplaced
<1>6. /\ \A u : Queued(c, u, e) <=> Has(y.queue, u)
      /\ \A u : Uses(c, u, e) <=> Uses(d, u, e)
  BY <1>1, <1>3, <1>5 DEF Queued, Uses
<1>7. EntryOk(d, w, t, o, e)
  <2>1. LockOk(d, w, t, e)
    <3>1. \A u : HasOrGets(c, w, None, u, e) => HasOrGets(d, w, t, u, e)
      BY DEF HasOrGets, RunsNow
    <3> QED
      BY <3>1, <1>1, <1>3, <1>4 DEF EntryOk, LockOk
  <2>2. QueueOk(d, w, e)
    <3>1. ASSUME NEW i \in 1 .. Len(q)
          PROVE  w[q[i]].next = "ADD_TO_ENTRY_COMPLETE" /\ w[q[i]].new = e
      <4>1. Has(q, q[i])
        BY DEF Has
      <4>2. Has(y.queue, q[i])
        BY <4>1 DEF IsWithout
      <4> QED
        BY <4>2, <1>1 DEF Has, EntryOk, QueueOk
    <3> QED
      BY <3>1, <1>3, <1>4 DEF QueueOk, IsWithout
  <2>3. LinkOk(d, e) /\ ContentOk(d, w, e)
    BY <1>1, <1>3, <1>4 DEF EntryOk, LinkOk, ContentOk
  <2>4. e # o => AttendedOk(d, w, t, e)
    BY <1>1, <1>3, <1>4 DEF EntryOk, AttendedOk, IsAboutToAdd, RunsNow
  <2> QED
    BY <2>1, <2>2, <2>3, <2>4 DEF EntryOk
<1>8. Nowhere(b, d, t)
  <2>1. w[t].next = "ADD_TO_ENTRY_COMPLETE" /\ w[t].new = e
    BY Places
  <2>2. ~Has(b, t) /\ (\A k \in Keys : ~InOperation(c, t, k))
        /\ \A f \in Entries : f # e => ~Queued(c, t, f)
    BY <2>1, Places
  <2>3. ~Has(q, t)
    BY DEF IsWithout
  <2>4. ~Waits(b, d, t)
    BY <2>2, <2>3, <1>3, <1>5 DEF Waits
  <2>5. w[t].entry = NoEntry
    BY <2>1, <1>1 DEF TransactionOk, HoldOk, Holding, AtDisk, AtNetwork
  <2>6. \A f \in Entries : IsLive(c, f) => ~Uses(c, t, f)
    BY <2>5, Places DEF HasOrGets, RunsNow, Entries, NoEntry
  <2>7. \A f \in Entries : IsLive(d, f) => ~Uses(d, t, f)
    BY <2>6, <1>5, <1>6
  <2> QED
    BY <2>4, <2>7, <1>4 DEF Nowhere, OnStack
<1>9. Good(b, d, w, t, o)
  <2>1. \A u \in Trans : u # None /\ u # t =>
            /\ Queued(c, u, e) <=> Queued(d, u, e)
            /\ Uses(c, u, e) => Uses(d, u, e)
            /\ w[u].entry = e => d.entries[e].content = c.entries[e].content
    BY <1>3, <1>4, <1>5, <1>6 DEF IsWithout
  <2>2. \A f \in Entries : f # e => /\ d.entries[f] = c.entries[f]
                                     /\ f \in d.posted <=> f \in c.posted
    BY <1>4
  <2>3. d.entries[e].key = c.entries[e].key
    BY <1>3, <1>4
  <2> HIDE DEF Cache, y
  <2>4. EntryStep(b, c, d, w, None, o, t, o, e)
    BY <2>1, <2>2, <2>3, <1>1, <1>4, <1>5, <1>7, <1>8 DEF EntryStep
  <2> QED
    BY <2>4, EntryMoves
<1>10. [c EXCEPT !.entries[e].queue = q] = d
  BY DEF d, r
<1> QED
  BY <1>9, <1>10

\* The cache when the task of an entry runs.
TaskTaken(c, e) == [c EXCEPT !.posted = @ \ {e}, !.entries[e].will = FALSE]

\* The task of an entry is no longer posted.
LEMMA TakeTask ==
    ASSUME NEW b, NEW c, NEW w, Good(b, c, w, None, NoEntry), c.stack = <<>>,
           NEW e \in c.posted
    PROVE  LET d == TaskTaken(c, e) IN
           /\ e \in Entries /\ IsLive(c, e) /\ c.entries[e].writer = None
           /\ Good(b, d, w, None, e)
           /\ d.entries[e].writer = None /\ d.entries[e].will = FALSE
           /\ d.entries[e].readers = c.entries[e].readers /\ d.entries[e].queue = c.entries[e].queue
           /\ IsLive(d, e) /\ d.stack = c.stack
<1> DEFINE y == c.entries[e]
           r == [y EXCEPT !.will = FALSE]
           g == c.posted \ {e}
           h == [c.entries EXCEPT ![e] = r]
           d == TaskTaken(c, e)
<1>1. c \in Cache /\ e \in Entries /\ IsLive(c, e) /\ EntryOk(c, w, None, NoEntry, e)
      /\ g \in SUBSET Entries
  <2>1. c \in Cache /\ c.posted \in SUBSET Entries
    BY CacheFields DEF Good, Typed
  <2>2. IsLive(c, e)
    BY DEF Good, ActiveOk
  <2> QED
    BY <2>1, <2>2 DEF Good, EntriesOk
<1>2. y \in Entry /\ y.will /\ y.writer = None
  BY <1>1, LiveFields DEF EntryOk, LinkOk, LockOk
<1>3. r \in Entry /\ r.key = y.key /\ r.writer = None /\ r.readers = y.readers
      /\ r.will = FALSE /\ r.doomed = y.doomed /\ r.content = y.content /\ r.queue = y.queue
  <2> HIDE DEF y
  <2> QED
    BY <1>2 DEF Entry
<1>4. /\ d \in Cache /\ d.active = c.active /\ d.ops = c.ops /\ d.disk = c.disk
      /\ d.posted = g /\ d.stack = c.stack /\ d.entries[e] = r
      /\ \A f \in Entries : f # e => d.entries[f] = c.entries[f]
  <2>1. d = Made(h, c.active, c.ops, c.disk, g, c.stack)
    BY <1>1, TasksThenEntries, ZenonT(60) DEF TaskTaken
  <2>2. /\ c.entries \in [Entries -> Entry \cup {Closed}]
        /\ c.active \in [Keys -> Entries \cup {NoEntry}]
        /\ c.ops \in [Keys -> Operation \cup {NoOp}]
        /\ c.disk \in [Keys -> Contents] /\ c.stack \in Seq(Frame)
    BY <1>1, CacheFields
  <2> HIDE DEF r
  <2>3. h \in [Entries -> Entry \cup {Closed}] /\ h[e] = r
        /\ \A f \in Entries : f # e => h[f] = c.entries[f]
    BY <1>1, <1>3, <2>2
  <2> HIDE DEF d, h, g
  <2> QED
    BY ONLY <2>1, <2>2, <2>3, <1>1 DEF Made, Cache
<1> HIDE DEF r, d
<1>5. /\ IsLive(d, e) /\ \A f \in Entries : IsLive(d, f) <=> IsLive(c, f)
      /\ \A u : Uses(d, u, e) <=> u = r.writer \/ u \in r.readers
      /\ \A u : Queued(d, u, e) <=> Has(r.queue, u)
  BY <1>1, <1>2, <1>3, <1>4, EntryReplaced
<1>6. /\ \A u : Queued(c, u, e) <=> Queued(d, u, e)
      /\ \A u : Uses(c, u, e) <=> Uses(d, u, e)
  BY <1>1, <1>2, <1>3, <1>5 DEF Queued, Uses
<1>7. EntryOk(d, w, None, e, e)
  <2>1. LockOk(d, w, None, e)
    <3>1. \A u : HasOrGets(c, w, None, u, e) => HasOrGets(d, w, None, u, e)
      BY <1>4 DEF HasOrGets, RunsNow
    <3> QED
      BY <3>1, <1>1, <1>2, <1>3, <1>4 DEF EntryOk, LockOk
  <2>2. QueueOk(d, w, e) /\ LinkOk(d, e) /\ ContentOk(d, w, e)
    BY <1>1, <1>2, <1>3, <1>4 DEF EntryOk, QueueOk, LinkOk, ContentOk
  <2> QED
    BY <2>1, <2>2 DEF EntryOk
<1>8. Good(b, d, w, None, e)
  <2>1. \A u \in Trans : u # None /\ u # None =>
            /\ Queued(c, u, e) <=> Queued(d, u, e)
            /\ Uses(c, u, e) => Uses(d, u, e)
            /\ w[u].entry = e => d.entries[e].content = c.entries[e].content
    BY <1>3, <1>4, <1>6
  <2>2. \A f \in Entries : f # e => /\ d.entries[f] = c.entries[f]
                                     /\ f \in d.posted <=> f \in c.posted
    BY <1>4
  <2>3. d.entries[e].key = c.entries[e].key
    BY <1>3, <1>4
  <2> HIDE DEF Cache, y
  <2>4. EntryStep(b, c, d, w, None, NoEntry, None, e, e)
    BY <2>1, <2>2, <2>3, <1>1, <1>4, <1>5, <1>7 DEF EntryStep
  <2> QED
    BY <2>4, EntryMoves
<1> QED
  BY <1>1, <1>2, <1>3, <1>4, <1>5, <1>8 DEF d
-----------------------------------------------------------------------------
(* The holder of an entry goes on                                          *)

\* Between tasks, t goes on with its entry e, which changes no more than t may change.
HolderStep(b, c, d, w, v, o, p, t, e) ==
    /\ c.stack = <<>> /\ t \in Trans /\ e = w[t].entry /\ e # NoEntry
    /\ v \in [Trans -> Transaction] /\ Differ(w, v, t)
    /\ v[t].entry = e /\ v[t].new = NoEntry /\ v[t].next \in Holding
    /\ d \in Cache /\ IsLive(d, e)
    /\ o = NoEntry \/ o = e \/ o = p
    /\ d.active = c.active /\ d.ops = c.ops /\ d.disk = c.disk /\ d.stack = c.stack
    /\ \A f \in Entries : f # e => /\ d.entries[f] = c.entries[f]
                                   /\ f \in d.posted <=> f \in c.posted
    /\ d.entries[e].key = c.entries[e].key /\ d.entries[e].queue = c.entries[e].queue
    /\ EntryOk(d, v, None, p, e)
    /\ \A u \in Trans : u # t =>
           /\ Uses(c, u, e) => Uses(d, u, e)
           /\ w[u].entry = e => d.entries[e].content = c.entries[e].content
    /\ HoldOk(d, v, t)

\* Such a step keeps the invariant.
LEMMA HolderMoves ==
    ASSUME NEW b, NEW c, NEW d, NEW w, NEW v, NEW o, NEW p, NEW t, NEW e,
           Good(b, c, w, None, o), HolderStep(b, c, d, w, v, o, p, t, e)
    PROVE  Good(b, d, v, None, p)
<1>0. /\ c.stack = <<>> /\ t \in Trans /\ e = w[t].entry /\ e # NoEntry
      /\ v \in [Trans -> Transaction] /\ Differ(w, v, t)
      /\ v[t].entry = e /\ v[t].new = NoEntry /\ v[t].next \in Holding
      /\ d \in Cache /\ IsLive(d, e) /\ (o = NoEntry \/ o = e \/ o = p)
      /\ d.active = c.active /\ d.ops = c.ops /\ d.disk = c.disk /\ d.stack = c.stack
      /\ \A f \in Entries : f # e => /\ d.entries[f] = c.entries[f]
                                     /\ f \in d.posted <=> f \in c.posted
      /\ d.entries[e].key = c.entries[e].key /\ d.entries[e].queue = c.entries[e].queue
      /\ EntryOk(d, v, None, p, e)
      /\ \A u \in Trans : u # t =>
             /\ Uses(c, u, e) => Uses(d, u, e)
             /\ w[u].entry = e => d.entries[e].content = c.entries[e].content
      /\ HoldOk(d, v, t)
  BY DEF HolderStep
<1> USE <1>0
<1>1. /\ c \in Cache /\ w \in [Trans -> Transaction] /\ t # None /\ b \in Seq(Trans \cup {None})
      /\ c.posted \in SUBSET Entries /\ d.posted \in SUBSET Entries
      /\ \A k \in Keys : c.ops[k] \in Operation \cup {NoOp}
  BY CacheFields, NoneAssumption DEF Good, Typed, Trans
<1>2. /\ e \in Entries /\ IsLive(c, e) /\ w[t].next \in Holding
      /\ ~OnStack(c.stack, t) /\ ~Waits(b, c, t) /\ ~Has(b, t)
      /\ \A f \in Entries : f # e /\ IsLive(c, f) => ~Uses(c, t, f)
  BY HolderPlaces
<1>3. \A x, y, u, rv : ~RunsNow(c, x, u, rv) /\ ~RunsNow(d, y, u, rv)
  BY DEF RunsNow
<1>4. \A f \in Entries : /\ IsLive(d, f) <=> IsLive(c, f)
                         /\ \A u : Queued(d, u, f) <=> Queued(c, u, f)
  BY <1>2 DEF IsLive, Queued
<1>5. (\A u, k : InOperation(d, u, k) <=> InOperation(c, u, k))
      /\ \A u : Waits(b, d, u) <=> Waits(b, c, u)
  <2>1. \A u, k : InOperation(d, u, k) <=> InOperation(c, u, k)
    BY DEF InOperation
  <2> QED
    BY <2>1, <1>4 DEF Waits
<1>6. EntriesOk(d, v, None, p)
  <2>1. ASSUME NEW f \in Entries, IsLive(d, f), f # e PROVE EntryOk(d, v, None, p, f)
    <3>1. IsLive(c, f) /\ EntryOk(c, w, None, o, f) /\ (f # p => f # o)
      BY <2>1, <1>4 DEF Good, EntriesOk, Entries, NoEntry
    <3>2. EntryOk(d, w, t, p, f)
      BY <2>1, <3>1, <1>3, EntrySame
    <3>3. d.entries[f].writer # t /\ t \notin d.entries[f].readers
      BY <2>1, <3>1, <1>2 DEF Uses
    <3>4. \A i \in 1 .. Len(d.entries[f].queue) : d.entries[f].queue[i] # t
      <4>1. ~Queued(d, t, f)
        BY <1>2, <1>5 DEF Waits
      <4> QED
        BY <4>1, <2>1 DEF Queued, Has
    <3>5. EntryOk(d, v, t, p, f)
      BY <2>1, <3>2, <3>3, <3>4, EntryElsewhere
    <3> QED
      BY <3>5, <1>3, EntrySame
  <2> QED
    BY <2>1 DEF EntriesOk
<1>7. ActiveOk(d)
  <2>1. \A k \in Keys : c.active[k] # NoEntry => c.active[k] \in Entries
    BY <1>1, CacheFields
  <2> QED
    BY <2>1, <1>1, <1>2, <1>4 DEF Good, ActiveOk
<1>8. OpsOk(d, v)
  <2>1. ASSUME NEW k \in Keys, c.ops[k] # NoOp
        PROVE  /\ ItemOk(v, k, c.ops[k].op, c.ops[k].trans) /\ ItemsOk(v, k, c.ops[k].queue)
    <3>1. ItemOk(w, k, c.ops[k].op, c.ops[k].trans) /\ ItemsOk(w, k, c.ops[k].queue)
      BY <2>1 DEF Good, OpsOk
    <3>2. c.ops[k].trans # t /\ ~InItems(c.ops[k].queue, t)
      BY <2>1, <1>2 DEF Waits, InOperation
    <3>3. c.ops[k].trans \in Trans \cup {None} /\ c.ops[k].queue \in Seq(Item)
      BY <2>1, <1>1, OperationFields
    <3> QED
      BY <3>1, <3>2, <3>3, ItemsElsewhere DEF ItemOk, Differ
  <2> QED
    BY <2>1 DEF Good, OpsOk
<1>9. StackOk(d, v, None)
  BY DEF StackOk, OneFrameEach
<1>10. BackendOpOk(b, v)
  <2>1. \A i \in 1 .. Len(b) : b[i] # t /\ b[i] \in Trans \cup {None}
    BY <1>1, <1>2 DEF Has
  <2> QED
    BY <2>1 DEF Good, BackendOpOk, Differ
<1>11. TransactionOk(b, d, v, None, t)
  <2>1. v[t].next \notin AtCache \cup Turns
    BY DEF AtCache, Turns, Holding, AtDisk, AtNetwork
  <2>2. PlaceOk(b, d, v, t)
    BY <2>1, <1>2, <1>5 DEF PlaceOk
  <2>3. NewOk(d, v, None, t)
    BY <2>1 DEF NewOk, AtCache, Turns
  <2> QED
    BY <2>2, <2>3 DEF TransactionOk
<1>12. ASSUME NEW u \in Trans, u # t PROVE TransactionOk(b, d, v, None, u)
  <2>1. TransactionOk(b, c, w, None, u) /\ v[u] = w[u] /\ w[u] \in Transaction
    BY <1>1, <1>12, NoneAssumption DEF Good, TransactionsOk, Differ, Trans
  <2>2. \A f \in Entries : IsLive(c, f) /\ Uses(c, u, f) => IsLive(d, f) /\ Uses(d, u, f)
    BY <1>4, <1>12 DEF Uses
  <2>3. w[u].entry # NoEntry => d.entries[w[u].entry].content = c.entries[w[u].entry].content
    <3>1. w[u].entry \in Entries \cup {NoEntry}
      BY <2>1, TransactionFields
    <3> QED
      BY <3>1, <1>12
  <2>4. Has(c.stack, Run(u, "ERR_CACHE_RACE")) => Has(d.stack, Run(u, "ERR_CACHE_RACE"))
    OBVIOUS
  <2> QED
    BY <2>1, <2>2, <2>3, <2>4, <1>3, <1>4, <1>5, TransactionSame
<1> QED
  BY <1>1, <1>6, <1>7, <1>8, <1>9, <1>10, <1>11, <1>12 DEF Good, Typed, TransactionsOk

\* Only t's record changes.
LEMMA HolderRecord ==
    ASSUME NEW b, NEW c, NEW w, Good(b, c, w, None, NoEntry), c.stack = <<>>, NEW t \in Trans,
           NEW e, e = w[t].entry, e # NoEntry, NEW r \in Transaction,
           r.entry = e, r.new = NoEntry, r.next \in Holding,
           Writes(w[t].mode) => Writes(r.mode), w[t].mode = "READ" => r.mode = "READ",
           w[t].mode = "WRITE" => r.mode = "WRITE",
           HoldOk(c, [w EXCEPT ![t] = r], t)
    PROVE  Good(b, c, [w EXCEPT ![t] = r], None, NoEntry)
<1> DEFINE v == [w EXCEPT ![t] = r]
           y == c.entries[e]
<1>1. c \in Cache /\ w \in [Trans -> Transaction] /\ t # None
  BY NoneAssumption DEF Good, Typed, Trans
<1>2. v \in [Trans -> Transaction] /\ v[t] = r /\ Differ(w, v, t)
  <2> HIDE DEF Transaction
  <2> QED
    BY <1>1 DEF Differ
<1> HIDE DEF v
<1>3. /\ e \in Entries /\ IsLive(c, e) /\ ~Queued(c, t, e)
      /\ y.writer # None => y.writer = t /\ y.readers = {}
  BY HolderPlaces DEF Waits
<1>4. y.queue \in Seq(Trans) /\ y.readers \subseteq Trans /\ EntryOk(c, w, None, NoEntry, e)
      /\ y.writer \in Trans \cup {None}
  BY <1>1, <1>3, LiveFields DEF Good, EntriesOk
<1>5. EntryOk(c, v, None, NoEntry, e)
  <2>1. LockOk(c, v, None, e)
    <3>1. \A u \in Trans : HasOrGets(c, w, None, u, e) => HasOrGets(c, v, None, u, e)
      BY <1>2 DEF HasOrGets, Differ, RunsNow
    <3>2. \A u \in Trans : /\ Writes(w[u].mode) => Writes(v[u].mode)
                           /\ w[u].mode = "READ" => v[u].mode = "READ"
      BY <1>2 DEF Differ
    <3> QED
      BY <3>1, <3>2, <1>4 DEF EntryOk, LockOk
  <2>2. QueueOk(c, v, e)
    <3>1. \A i \in 1 .. Len(y.queue) : y.queue[i] # t /\ y.queue[i] \in Trans
      BY <1>3, <1>4 DEF Queued, Has
    <3> QED
      BY <3>1, <1>2, <1>4 DEF EntryOk, QueueOk, Differ
  <2>3. LinkOk(c, e) /\ ContentOk(c, v, e)
    BY <1>2, <1>3, <1>4 DEF EntryOk, LinkOk, ContentOk
  <2>4. AttendedOk(c, v, None, e)
    BY <1>3, <1>4 DEF EntryOk, AttendedOk, IsAboutToAdd, RunsNow, Entries, NoEntry
  <2> QED
    BY <2>1, <2>2, <2>3, <2>4 DEF EntryOk
<1>6. HoldOk(c, v, t)
  BY DEF v
<1>7. HolderStep(b, c, c, w, v, NoEntry, NoEntry, t, e)
  BY <1>1, <1>2, <1>3, <1>5, <1>6 DEF HolderStep
<1>8. Good(b, c, v, None, NoEntry)
  BY <1>7, HolderMoves
<1> QED
  BY <1>8 DEF v

\* The writer changes what is in the entry.
LEMMA HolderContent ==
    ASSUME NEW b, NEW c, NEW w, Good(b, c, w, None, NoEntry), c.stack = <<>>, NEW t \in Trans,
           NEW e, e = w[t].entry, e # NoEntry, c.entries[e].writer # None, NEW r \in Transaction,
           r.entry = e, r.new = NoEntry, r.next \in Holding, Writes(r.mode),
           NEW z \in Contents, z # "absent", z = "partial" => r.mode = "WRITE",
           HoldOk([c EXCEPT !.entries[e].content = z], [w EXCEPT ![t] = r], t)
    PROVE  Good(b, [c EXCEPT !.entries[e].content = z], [w EXCEPT ![t] = r], None, NoEntry)
<1> DEFINE v == [w EXCEPT ![t] = r]
           y == c.entries[e]
           a == [y EXCEPT !.content = z]
           d == [c EXCEPT !.entries[e] = a]
<1>0. [c EXCEPT !.entries[e].content = z] = d
  OBVIOUS
<1>1. c \in Cache /\ w \in [Trans -> Transaction] /\ t # None
  BY NoneAssumption DEF Good, Typed, Trans
<1>2. v \in [Trans -> Transaction] /\ v[t] = r /\ Differ(w, v, t)
  <2> HIDE DEF Transaction
  <2> QED
    BY <1>1 DEF Differ
<1>6. HoldOk(d, v, t)
  BY <1>0
<1> HIDE DEF v
<1>3. /\ e \in Entries /\ IsLive(c, e) /\ ~Queued(c, t, e)
      /\ y.writer = t /\ y.readers = {} /\ ~y.will
      /\ \A u \in Trans : w[u].entry = e => u = t
  BY HolderPlaces DEF Waits
<1>4. y \in Entry /\ y.queue \in Seq(Trans) /\ EntryOk(c, w, None, NoEntry, e)
  BY <1>1, <1>3, LiveFields DEF Good, EntriesOk
<1>5. a \in Entry /\ a.key = y.key /\ a.writer = t /\ a.readers = {}
      /\ a.will = y.will /\ a.doomed = y.doomed /\ a.content = z /\ a.queue = y.queue
  <2> HIDE DEF y
  <2> QED
    BY <1>3, <1>4 DEF Entry
<1> HIDE DEF a
<1>7. /\ d \in Cache /\ d.active = c.active /\ d.ops = c.ops /\ d.disk = c.disk
      /\ d.posted = c.posted /\ d.stack = c.stack /\ d.entries[e] = a
      /\ \A f \in Entries : f # e => d.entries[f] = c.entries[f]
  BY <1>1, <1>3, <1>4, <1>5, WithEntry
<1> HIDE DEF d
<1>8. IsLive(d, e) /\ \A u : Uses(d, u, e) <=> Uses(c, u, e)
  <2>1. a # Closed
    BY <1>5, EntryFields
  <2> QED
    BY <2>1, <1>3, <1>5, <1>7 DEF IsLive, Uses
<1>9. EntryOk(d, v, None, NoEntry, e)
  <2>1. LockOk(d, v, None, e)
    BY <1>2, <1>3, <1>5, <1>7 DEF LockOk, HasOrGets
  <2>2. QueueOk(d, v, e)
    <3>1. \A i \in 1 .. Len(y.queue) : y.queue[i] # t /\ y.queue[i] \in Trans
      BY <1>3, <1>4 DEF Queued, Has
    <3>2. d.entries[e].queue = c.entries[e].queue /\ QueueOk(c, w, e)
      BY <1>4, <1>5, <1>7 DEF EntryOk
    <3>3. \A i \in 1 .. Len(y.queue) : v[y.queue[i]] = w[y.queue[i]]
      BY <3>1, <1>2 DEF Differ
    <3> QED
      BY <3>2, <3>3 DEF QueueOk
  <2>3. LinkOk(d, e)
    BY <1>4, <1>5, <1>7 DEF EntryOk, LinkOk
  <2>4. ContentOk(d, v, e)
    BY <1>1, <1>2, <1>5, <1>7 DEF ContentOk
  <2>5. AttendedOk(d, v, None, e)
    BY <1>1, <1>5, <1>7 DEF AttendedOk
  <2> QED
    BY <2>1, <2>2, <2>3, <2>4, <2>5 DEF EntryOk
<1>10. HolderStep(b, c, d, w, v, NoEntry, NoEntry, t, e)
  <2>1. \A u \in Trans : u # t =>
             /\ Uses(c, u, e) => Uses(d, u, e)
             /\ w[u].entry = e => d.entries[e].content = c.entries[e].content
    BY <1>3, <1>8
  <2>2. d.entries[e].key = c.entries[e].key /\ d.entries[e].queue = c.entries[e].queue
    BY <1>5, <1>7
  <2> HIDE DEF y
  <2> QED
    BY <2>1, <2>2, <1>1, <1>2, <1>6, <1>7, <1>8, <1>9 DEF HolderStep
<1>11. Good(b, d, v, None, NoEntry)
  BY <1>10, HolderMoves
<1> QED
  BY <1>0, <1>11 DEF v

\* The writer becomes a reader.
LEMMA WriterConverted ==
    ASSUME NEW b, NEW c, NEW w, Good(b, c, w, None, NoEntry), c.stack = <<>>, NEW t \in Trans,
           NEW e, e = w[t].entry, e # NoEntry, c.entries[e].writer # None, NEW r \in Transaction,
           r.entry = e, r.new = NoEntry, r.next = "headers", r.mode = "READ", r.key \in Keys,
           c.entries[e].content = "whole"
    PROVE  Good(b, ConvertWriterToReader(c, e), [w EXCEPT ![t] = r], None, NoEntry)
<1> DEFINE v == [w EXCEPT ![t] = r]
           y == c.entries[e]
           a == [y EXCEPT !.readers = @ \cup {y.writer}, !.writer = None]
           d == [c EXCEPT !.entries[e] = a]
<1>0. ConvertWriterToReader(c, e) = ProcessPendingQueue(d, e)
  BY DEF ConvertWriterToReader
<1>1. c \in Cache /\ w \in [Trans -> Transaction] /\ t # None
  BY NoneAssumption DEF Good, Typed, Trans
<1>2. v \in [Trans -> Transaction] /\ v[t] = r /\ Differ(w, v, t)
  <2> HIDE DEF Transaction
  <2> QED
    BY <1>1 DEF Differ
<1> HIDE DEF v
<1>3. /\ e \in Entries /\ IsLive(c, e) /\ ~Queued(c, t, e)
      /\ y.writer = t /\ y.readers = {} /\ ~y.will
  BY HolderPlaces DEF Waits
<1>4. y \in Entry /\ y.queue \in Seq(Trans) /\ EntryOk(c, w, None, NoEntry, e)
  BY <1>1, <1>3, LiveFields DEF Good, EntriesOk
<1>5. a \in Entry /\ a.key = y.key /\ a.writer = None /\ a.readers = {t}
      /\ a.will = y.will /\ a.doomed = y.doomed /\ a.content = y.content /\ a.queue = y.queue
  <2> HIDE DEF y
  <2> QED
    BY <1>3, <1>4 DEF Entry
<1> HIDE DEF a
<1>7. /\ d \in Cache /\ d.active = c.active /\ d.ops = c.ops /\ d.disk = c.disk
      /\ d.posted = c.posted /\ d.stack = c.stack /\ d.entries[e] = a
      /\ \A f \in Entries : f # e => d.entries[f] = c.entries[f]
  BY <1>1, <1>3, <1>4, <1>5, WithEntry
<1> HIDE DEF d
<1>8. IsLive(d, e) /\ \A u : u # None => (Uses(d, u, e) <=> Uses(c, u, e))
  <2>1. a # Closed
    BY <1>5, EntryFields
  <2> QED
    BY <2>1, <1>3, <1>5, <1>7 DEF IsLive, Uses
<1>9. EntryOk(d, v, None, NoEntry, e)
  <2>1. LockOk(d, v, None, e)
    BY <1>2, <1>5, <1>7 DEF LockOk, HasOrGets
  <2>2. QueueOk(d, v, e)
    <3>1. \A i \in 1 .. Len(y.queue) : y.queue[i] # t /\ y.queue[i] \in Trans
      BY <1>3, <1>4 DEF Queued, Has
    <3>2. d.entries[e].queue = c.entries[e].queue /\ QueueOk(c, w, e)
      BY <1>4, <1>5, <1>7 DEF EntryOk
    <3>3. \A i \in 1 .. Len(y.queue) : v[y.queue[i]] = w[y.queue[i]]
      BY <3>1, <1>2 DEF Differ
    <3> QED
      BY <3>2, <3>3 DEF QueueOk
  <2>3. LinkOk(d, e)
    BY <1>4, <1>5, <1>7 DEF EntryOk, LinkOk
  <2>4. ContentOk(d, v, e)
    BY <1>5, <1>7 DEF ContentOk
  <2>5. AttendedOk(d, v, None, e)
    BY <1>5, <1>7 DEF AttendedOk
  <2> QED
    BY <2>1, <2>2, <2>3, <2>4, <2>5 DEF EntryOk
<1>10. HoldOk(d, v, t)
  <2>1. r.next \in Holding /\ r.next \notin AtNetwork \cup Outside
    BY DEF Holding, AtNetwork, Outside
  <2> QED
    BY <2>1, <1>2, <1>3, <1>5, <1>7, <1>8, <1>1 DEF HoldOk, Uses
<1>11. HolderStep(b, c, d, w, v, NoEntry, NoEntry, t, e)
  <2>1. \A u \in Trans : u # t =>
             /\ Uses(c, u, e) => Uses(d, u, e)
             /\ w[u].entry = e => d.entries[e].content = c.entries[e].content
    BY <1>5, <1>7, <1>8, NoneAssumption DEF Trans
  <2>2. d.entries[e].key = c.entries[e].key /\ d.entries[e].queue = c.entries[e].queue
    BY <1>5, <1>7
  <2>3. r.next \in Holding
    BY DEF Holding
  <2> HIDE DEF y
  <2> QED
    BY <2>1, <2>2, <2>3, <1>1, <1>2, <1>7, <1>8, <1>9, <1>10 DEF HolderStep
<1>12. Good(b, d, v, None, NoEntry)
  BY <1>11, HolderMoves
<1>13. Good(b, ProcessPendingQueue(d, e), v, None, NoEntry)
  BY <1>3, <1>5, <1>7, <1>8, <1>12, PostTask
<1> QED
  BY <1>0, <1>13 DEF v

-----------------------------------------------------------------------------
(* The transaction in hand gets an entry                                   *)

\* The cache with y in the place of the entry e.
With(c, e, y) == [c EXCEPT !.entries[e] = y]

\* What it is.
LEMMA WithFields ==
    ASSUME NEW c \in Cache, NEW e \in Entries, NEW y \in Entry
    PROVE  /\ With(c, e, y) \in Cache /\ With(c, e, y).active = c.active
           /\ With(c, e, y).ops = c.ops /\ With(c, e, y).disk = c.disk
           /\ With(c, e, y).posted = c.posted /\ With(c, e, y).stack = c.stack
           /\ With(c, e, y).entries[e] = y
           /\ \A f \in Entries : f # e => With(c, e, y).entries[f] = c.entries[f]
<1> DEFINE g == [c.entries EXCEPT ![e] = y]
           d == With(c, e, y)
<1>1. /\ c.entries \in [Entries -> Entry \cup {Closed}]
      /\ c.active \in [Keys -> Entries \cup {NoEntry}]
      /\ c.ops \in [Keys -> Operation \cup {NoOp}]
      /\ c.disk \in [Keys -> Contents] /\ c.posted \in SUBSET Entries
      /\ c.stack \in Seq(Frame)
  BY CacheFields
<1>2. g \in [Entries -> Entry \cup {Closed}] /\ g[e] = y
      /\ \A f \in Entries : f # e => g[f] = c.entries[f]
  BY <1>1
<1>3. d = Made(g, c.active, c.ops, c.disk, c.posted, c.stack)
  BY PartsOf DEF With
<1> HIDE DEF g, d
<1>4. /\ d \in Cache /\ d.active = c.active /\ d.ops = c.ops /\ d.disk = c.disk
      /\ d.posted = c.posted /\ d.stack = c.stack /\ d.entries[e] = y
      /\ \A f \in Entries : f # e => d.entries[f] = c.entries[f]
  BY ONLY <1>1, <1>2, <1>3 DEF Made, Cache
<1> QED
  BY <1>4 DEF d

\* It joins an entry that has no writer and no task, as its writer if nobody reads.
LEMMA PutJoin ==
    ASSUME NEW b, NEW c, NEW w, NEW x \in Trans, NEW o, Good(b, c, w, x, o), NEW e \in Entries,
           IsLive(c, e), o = NoEntry \/ o = e, w[x].next = "ADD_TO_ENTRY_COMPLETE",
           w[x].new = e, w[x].entry = NoEntry, w[x].key \in Keys, w[x].mode # "NONE",
           c.entries[e].writer = None, ~c.entries[e].will, NEW y \in Entry,
           y.key = c.entries[e].key, y.queue = c.entries[e].queue, y.will = c.entries[e].will,
           y.doomed = c.entries[e].doomed, y.content = c.entries[e].content,
           \/ Writes(w[x].mode) /\ y.writer = x /\ y.readers = {} /\ c.entries[e].readers = {}
           \/ w[x].mode = "READ" /\ y.writer = None /\ y.readers = c.entries[e].readers \cup {x}
    PROVE  Good(b, Call([c EXCEPT !.entries[e] = y], <<Run(x, "OK")>>), w, None, NoEntry)
<1> DEFINE f == Run(x, "OK")
           h == [c EXCEPT !.entries[e] = y]
           d == Call(h, <<f>>)
<1>1. /\ c \in Cache /\ w \in [Trans -> Transaction] /\ b \in Seq(Trans \cup {None}) /\ x # None
      /\ c.stack \in Seq(Frame) /\ EntryOk(c, w, x, o, e) /\ e # NoEntry
  BY CacheFields, NoneAssumption DEF Good, Typed, Trans, EntriesOk, Entries, NoEntry
<1>2. /\ f \in Frame /\ <<f>> \in Seq(Frame) /\ f.frame = "run" /\ f.trans = x /\ f.rv = "OK"
      /\ \A t : InFrame(f, t) <=> t = x
  <2>1. f \in Frame /\ f.frame = "run" /\ f.trans = x /\ f.rv = "OK"
    BY NewFrames DEF Results
  <2>2. \A t : InFrame(f, t) <=> t = x
    BY <2>1 DEF InFrame
  <2> HIDE DEF f, Frame
  <2> QED
    BY <2>1, <2>2
<1>3. /\ h \in Cache /\ h.active = c.active /\ h.ops = c.ops /\ h.disk = c.disk
      /\ h.posted = c.posted /\ h.stack = c.stack /\ h.entries[e] = y
      /\ \A g \in Entries : g # e => h.entries[g] = c.entries[g]
  <2>1. h = With(c, e, y)
    BY DEF With
  <2> HIDE DEF h
  <2> QED
    BY <2>1, <1>1, WithFields
<1> HIDE DEF h
<1>4. d \in Cache /\ SameStore(h, d) /\ d.stack = <<f>> \o h.stack
  BY <1>2, <1>3, CallFields
<1>5. /\ d.active = c.active /\ d.ops = c.ops /\ d.disk = c.disk /\ d.posted = c.posted
      /\ d.stack = <<f>> \o c.stack /\ d.entries[e] = y
      /\ \A g \in Entries : g # e => d.entries[g] = c.entries[g]
  BY <1>3, <1>4 DEF SameStore
<1>6. RunsNow(d, None, x, "OK") /\ \A t, rv : ~RunsNow(c, x, t, rv)
  BY <1>1, <1>2, <1>5, InFront DEF RunsNow, f
<1> HIDE DEF d, f
<1>7. /\ Nowhere(b, c, x) /\ \A t \in Trans : t # x => TransactionOk(b, c, w, x, t)
      /\ ~OnStack(c.stack, x) /\ ~Waits(b, c, x)
  BY <1>1 DEF Good, TransactionsOk, Nowhere
<1>8. /\ IsLive(d, e) /\ Uses(d, x, e)
      /\ \A g \in Entries : IsLive(d, g) <=> IsLive(c, g)
      /\ \A u, g : g \in Entries => (Queued(d, u, g) <=> Queued(c, u, g))
      /\ \A u : u # None => \A g \in Entries : Uses(c, u, g) => Uses(d, u, g)
  BY <1>1, <1>5, EntryFields, ZenonT(60) DEF IsLive, Uses, Queued
<1>9. \A u : Waits(b, d, u) <=> Waits(b, c, u)
  BY <1>5, <1>8 DEF Waits, InOperation
<1>10. EntriesOk(d, w, None, NoEntry)
  <2>1. ASSUME NEW g \in Entries, IsLive(d, g), g # e PROVE EntryOk(d, w, None, NoEntry, g)
    <3>1. EntryOk(c, w, x, o, g) /\ g # o
      BY <2>1, <1>8 DEF Good, EntriesOk, Entries, NoEntry
    <3> QED
      BY <2>1, <3>1, <1>5, <1>6, EntrySame
  <2>2. LockOk(d, w, None, e)
    <3>1. \A u : HasOrGets(c, w, x, u, e) => HasOrGets(d, w, None, u, e)
      BY <1>6 DEF HasOrGets
    <3>2. HasOrGets(d, w, None, x, e)
      BY <1>6 DEF HasOrGets
    <3>3. \A u \in c.entries[e].readers : w[u].mode = "READ" /\ HasOrGets(d, w, None, u, e)
      BY <3>1, <1>1 DEF EntryOk, LockOk
    <3> QED
      BY <3>2, <3>3, <1>5 DEF LockOk
  <2>3. QueueOk(d, w, e)
    <3>1. d.entries[e].queue = c.entries[e].queue /\ QueueOk(c, w, e)
      BY <1>1, <1>5 DEF EntryOk
    <3> QED
      BY <3>1 DEF QueueOk
  <2>4. LinkOk(d, e)
    BY <1>1, <1>5 DEF EntryOk, LinkOk
  <2>5. ContentOk(d, w, e)
    BY <1>1, <1>5 DEF EntryOk, ContentOk
  <2>6. AttendedOk(d, w, None, e)
    BY <1>1, <1>5 DEF AttendedOk
  <2> QED
    BY <2>1, <2>2, <2>3, <2>4, <2>5, <2>6 DEF EntriesOk, EntryOk
<1>11. ActiveOk(d)
  <2>1. (\A k \in Keys : c.active[k] # NoEntry => c.active[k] \in Entries)
        /\ c.posted \in SUBSET Entries
    BY <1>1, CacheFields
  <2> QED
    BY <2>1, <1>5, <1>8 DEF Good, ActiveOk
<1>12. OpsOk(d, w)
  BY <1>5 DEF Good, OpsOk
<1>13. StackOk(d, w, None)
  <2>1. ASSUME NEW i \in 1 .. Len(d.stack) PROVE FrameOk(d, w, d.stack[i], i = 1)
    <3>1. CASE i = 1
      <4>1. d.stack[1] = f
        BY <1>1, <1>2, <1>5, InFront
      <4>2. RunOk(d, w, x, "OK", TRUE)
        BY <1>8 DEF RunOk, AtCache, Turns
      <4> QED
        BY <3>1, <4>1, <4>2, <1>2 DEF FrameOk
    <3>2. CASE i # 1
      <4>1. i - 1 \in 1 .. Len(c.stack) /\ d.stack[i] = c.stack[i - 1]
        BY <3>2, <1>1, <1>2, <1>5, InFront
      <4> DEFINE j == i - 1
                 r == c.stack[j]
      <4>2. FrameOk(c, w, r, FALSE)
        BY <4>1, <1>1 DEF Good, StackOk
      <4>3. r.frame = "run" =>
                /\ w[r.trans].key \in Keys
                /\ w[r.trans].next = "ADD_TO_ENTRY_COMPLETE" => w[r.trans].new \in Entries
        BY <4>1, KeysOfCalls
      <4>4. r \in Frame
        BY <4>1, <1>1
      <4>5. \A g \in Entries, t \in Trans : r = Run(t, "OK") /\ IsLive(c, g) /\ Uses(c, t, g)
                                                => IsLive(d, g) /\ Uses(d, t, g)
        BY <1>8, NoneAssumption DEF Trans
      <4>6. (\A k \in Keys : c.active[k] = NoEntry => d.active[k] = NoEntry)
            /\ (FALSE => FALSE)
        BY <1>5
      <4> HIDE DEF r, j
      <4>7. FrameOk(d, w, r, FALSE)
        BY ONLY <1>1, <4>2, <4>3, <4>4, <4>5, <4>6, FrameSame
      <4> QED
        BY <3>2, <4>1, <4>7 DEF r, j
    <3> QED
      BY <3>1, <3>2
  <2>2. OneFrameEach(d.stack)
    BY <1>1, <1>2, <1>5, <1>7, OneFrameInFront DEF Good, StackOk
  <2> QED
    BY <2>1, <2>2 DEF StackOk
<1>14. TransactionOk(b, d, w, None, x)
  <2>1. OnStack(d.stack, x)
    BY <1>1, <1>2, <1>5, OnStackInFront
  <2>2. PlaceOk(b, d, w, x)
    BY <2>1, <1>7, <1>9 DEF PlaceOk
  <2>3. NewOk(d, w, None, x)
    <3> DEFINE r == w[x]
    <3>1. RunsNow(d, None, x, "OK") /\ IsLive(d, r.new) /\ Uses(d, x, r.new) /\ r.new # NoEntry
      BY <1>1, <1>6, <1>8
    <3> QED
      BY <3>1 DEF NewOk
  <2>4. HoldOk(d, w, x)
    BY HoldsNothing DEF AtCache
  <2> QED
    BY <2>2, <2>3, <2>4 DEF TransactionOk
<1>15. ASSUME NEW u \in Trans, u # x PROVE TransactionOk(b, d, w, None, u)
  <2>1. TransactionOk(b, c, w, x, u) /\ w[u] \in Transaction /\ u # None
    BY <1>1, <1>7, <1>15, NoneAssumption DEF Trans
  <2>2. OnStack(d.stack, u) <=> OnStack(c.stack, u)
    BY <1>1, <1>2, <1>5, <1>15, OnStackInFront
  <2>3. Has(c.stack, Run(u, "ERR_CACHE_RACE")) => Has(d.stack, Run(u, "ERR_CACHE_RACE"))
    <3>1. Len(d.stack) = Len(c.stack) + 1 /\ Len(c.stack) \in Nat
          /\ \A i \in 1 .. Len(c.stack) : d.stack[i + 1] = c.stack[i]
      BY <1>1, <1>2, <1>5, InFront
    <3>2. \A i \in 1 .. Len(c.stack) : i + 1 \in 1 .. Len(d.stack)
      BY <3>1
    <3> QED
      BY <3>1, <3>2 DEF Has
  <2>4. w[u].entry # NoEntry => d.entries[w[u].entry].content = c.entries[w[u].entry].content
    BY <2>1, <1>5, TransactionFields
  <2>5. /\ \A g \in Entries : Queued(c, u, g) => Queued(d, u, g)
        /\ \A g \in Entries : IsLive(c, g) /\ Uses(c, u, g) => IsLive(d, g) /\ Uses(d, u, g)
    BY <2>1, <1>8
  <2> QED
    BY <2>1, <2>2, <2>3, <2>4, <2>5, <1>6, <1>9, TransactionSame
<1> QED
  BY <1>1, <1>4, <1>10, <1>11, <1>12, <1>13, <1>14, <1>15 DEF Good, Typed, TransactionsOk, d, h, f

\* A task that is posted before or after a call.
LEMMA CallThenTask ==
    ASSUME NEW c \in Cache, NEW e \in Entries, NEW s \in Seq(Frame)
    PROVE  Call(ProcessPendingQueue(c, e), s) = ProcessPendingQueue(Call(c, s), e)
<1> DEFINE st == s \o c.stack
           en == [c.entries EXCEPT ![e].will = TRUE]
           po == c.posted \cup {e}
           d == Made(c.entries, c.active, c.ops, c.disk, c.posted, st)
<1>1. Call(c, s) = d
  BY PartsOf DEF Call
<1>2. d.entries = c.entries /\ d.posted = c.posted /\ d.stack = st
      /\ d.active = c.active /\ d.ops = c.ops /\ d.disk = c.disk
  BY DEF Made
<1>3. CASE c.entries[e].will
  <2>1. d.entries[e].will
    BY <1>2, <1>3
  <2> QED
    BY <1>1, <1>3, <2>1 DEF ProcessPendingQueue
<1>4. CASE ~c.entries[e].will
  <2> DEFINE m == Made(en, c.active, c.ops, c.disk, po, c.stack)
  <2>1. ProcessPendingQueue(c, e) = m
    <3>1. ProcessPendingQueue(c, e) = [c EXCEPT !.entries = en, !.posted = po]
      BY <1>4 DEF ProcessPendingQueue
    <3> HIDE DEF en, po
    <3>2. [c EXCEPT !.entries = en, !.posted = po] = m
      BY PartsOf, ZenonT(60)
    <3> QED
      BY <3>1, <3>2
  <2>2. Call(m, s) = Made(en, c.active, c.ops, c.disk, po, st)
    <3>1. m.stack = c.stack
      BY DEF Made
    <3>2. Call(m, s) = [m EXCEPT !.stack = st]
      <4> HIDE DEF m
      <4> QED
        BY <3>1 DEF Call
    <3> HIDE DEF en, po, st
    <3>3. [m EXCEPT !.stack = st] = Made(en, c.active, c.ops, c.disk, po, st)
      BY DEF Made
    <3> QED
      BY <3>2, <3>3
  <2>3. ProcessPendingQueue(d, e) = [d EXCEPT !.entries = en, !.posted = po]
    <3> HIDE DEF d
    <3> QED
      BY <1>2, <1>4 DEF ProcessPendingQueue
  <2>4. [d EXCEPT !.entries = en, !.posted = po] = Made(en, c.active, c.ops, c.disk, po, st)
    <3>1. d \in Cache
      BY <1>1, CallFields
    <3> HIDE DEF en, po, st, d
    <3>2. [d EXCEPT !.entries = en, !.posted = po]
              = Made(en, d.active, d.ops, d.disk, po, d.stack)
      BY <3>1, PartsOf, ZenonT(60)
    <3> QED
      BY <3>2, <1>2
  <2> HIDE DEF m, d
  <2> QED
    BY <1>1, <2>1, <2>2, <2>3, <2>4
<1> QED
  BY <1>3, <1>4

\* AddTransactionToEntry, and the call of DoLoop that follows if it does not have to wait.
LEMMA PutAdded ==
    ASSUME NEW b, NEW c, NEW w, NEW x \in Trans, NEW o, Good(b, c, w, x, o), NEW e \in Entries,
           IsLive(c, e), o = NoEntry \/ o = e, w[x].next = "ADD_TO_ENTRY_COMPLETE",
           w[x].new = e, w[x].entry = NoEntry, w[x].key \in Keys, w[x].mode # "NONE",
           tr[x].mode = w[x].mode
    PROVE  Good(b, IF MustQueue(c, e, x) THEN AddTransactionToEntry(c, e, x)
                   ELSE Call(AddTransactionToEntry(c, e, x), <<Run(x, "OK")>>), w, None, NoEntry)
<1> DEFINE y == c.entries[e]
           f == <<Run(x, "OK")>>
<1>1. /\ c \in Cache /\ w \in [Trans -> Transaction] /\ y \in Entry /\ w[x].mode \in Modes
      /\ y.readers \in SUBSET Trans
  BY LiveFields, TransactionFields DEF Good, Typed
<1>2. CASE MustQueue(c, e, x)
  <2>1. y.writer # None \/ y.will \/ y.readers # {}
    BY <1>2 DEF MustQueue
  <2>2. Good(b, [c EXCEPT !.entries[e].queue = Append(@, x)], w, None, NoEntry)
    BY <2>1, PutQueue
  <2> QED
    BY <1>2, <2>2 DEF AddTransactionToEntry
<1>3. CASE ~MustQueue(c, e, x)
  <2>1. y.writer = None /\ ~y.will /\ (Writes(w[x].mode) => y.readers = {})
    BY <1>3 DEF MustQueue
  <2>2. CASE Writes(w[x].mode)
    <3> DEFINE r == [y EXCEPT !.writer = x]
               d == [c EXCEPT !.entries[e].writer = x]
    <3>1. AddTransactionToEntry(c, e, x) = d
      BY <1>3, <2>2 DEF AddTransactionToEntry
    <3>2. d = [c EXCEPT !.entries[e] = r]
      OBVIOUS
    <3>3. /\ r \in Entry /\ r.key = y.key /\ r.writer = x /\ r.readers = y.readers
          /\ r.will = y.will /\ r.doomed = y.doomed /\ r.content = y.content /\ r.queue = y.queue
      <4> HIDE DEF y
      <4> QED
        BY <1>1 DEF Entry
    <3> HIDE DEF r, d
    <3>4. Good(b, Call([c EXCEPT !.entries[e] = r], f), w, None, NoEntry)
      BY <2>1, <2>2, <3>3, PutJoin
    <3> QED
      BY <1>3, <3>1, <3>2, <3>4
  <2>3. CASE ~Writes(w[x].mode)
    <3> DEFINE r == [y EXCEPT !.readers = @ \cup {x}]
               d == [c EXCEPT !.entries[e].readers = @ \cup {x}]
    <3>1. d = With(c, e, r)
      BY DEF With
    <3>2. w[x].mode = "READ"
      BY <1>1, <2>3 DEF Modes, Writes
    <3>3. /\ r \in Entry /\ r.key = y.key /\ r.readers = y.readers \cup {x} /\ r.writer = y.writer
          /\ r.will = y.will /\ r.doomed = y.doomed /\ r.content = y.content /\ r.queue = y.queue
      <4> HIDE DEF y
      <4> QED
        BY <1>1 DEF Entry
    <3> HIDE DEF r
    <3>4. Good(b, Call([c EXCEPT !.entries[e] = r], f), w, None, NoEntry)
      BY <2>1, <3>2, <3>3, PutJoin
    <3>5. /\ d \in Cache /\ d.entries[e] = r /\ f \in Seq(Frame)
          /\ Call(d, f) \in Cache /\ SameStore(d, Call(d, f))
      <4>1. Run(x, "OK") \in Frame
        BY NewFrames DEF Results
      <4>2. f \in Seq(Frame)
        <5> HIDE DEF Frame
        <5> QED
          BY <4>1
      <4>3. d \in Cache /\ d.entries[e] = r
        <5> HIDE DEF d
        <5> QED
          BY <1>1, <3>1, <3>3, WithFields
      <4> HIDE DEF d, f
      <4> QED
        BY <4>2, <4>3, CallFields
    <3>6. Good(b, Call(d, f), w, None, NoEntry)
      BY <3>1, <3>4 DEF With
    <3>7. Good(b, ProcessPendingQueue(Call(d, f), e), w, None, NoEntry)
      <4> DEFINE g == Call(d, f)
      <4>1. IsLive(g, e) /\ g.entries[e].writer = None
        BY <2>1, <3>3, <3>5, EntryFields DEF SameStore, IsLive
      <4> HIDE DEF g
      <4>2. Good(b, g, w, None, NoEntry)
        BY <3>6 DEF g
      <4>3. Good(b, ProcessPendingQueue(g, e), w, None, NoEntry)
        BY <4>1, <4>2, PostTask
      <4> QED
        BY <4>3 DEF g
    <3>8. ProcessPendingQueue(Call(d, f), e) = Call(ProcessPendingQueue(d, e), f)
      <4> HIDE DEF d, f
      <4> QED
        BY <3>5, CallThenTask
    <3>9. AddTransactionToEntry(c, e, x) = IF r.queue = <<>> THEN d ELSE ProcessPendingQueue(d, e)
      BY <1>3, <2>3, <3>5 DEF AddTransactionToEntry
    <3> QED
      BY <1>3, <3>6, <3>7, <3>8, <3>9
  <2> QED
    BY <2>2, <2>3
<1> QED
  BY <1>2, <1>3

\* A frame may come to the front.
LEMMA FirstNow ==
    ASSUME NEW c, NEW w, NEW f, NEW first, FrameOk(c, w, f, FALSE)
    PROVE  FrameOk(c, w, f, first)
BY DEF FrameOk, RunOk

\* DoLoop of a transaction that has joined an entry is called, and it holds it.
LEMMA BecomesHolder ==
    ASSUME NEW b, NEW c, NEW w, Good(b, c, w, None, NoEntry), c.stack # <<>>, NEW t \in Trans,
           Head(c.stack) = Run(t, "OK"), w[t].next = "ADD_TO_ENTRY_COMPLETE",
           NEW r \in Transaction, r.new = NoEntry, r.entry = w[t].new, r.mode = w[t].mode,
           r.key = w[t].key, r.next = IF w[t].mode = "WRITE" THEN "SEND_REQUEST_COMPLETE"
                                      ELSE "CACHE_READ_RESPONSE_COMPLETE"
    PROVE  Good(b, Rest(c), [w EXCEPT ![t] = r], None, NoEntry)
<1> DEFINE d == Rest(c)
           s == Tail(c.stack)
           f == Head(c.stack)
           v == [w EXCEPT ![t] = r]
           e == w[t].new
<1>1. /\ c \in Cache /\ w \in [Trans -> Transaction] /\ b \in Seq(Trans \cup {None}) /\ t # None
      /\ c.stack \in Seq(Frame) /\ \A k \in Keys : c.ops[k] \in Operation \cup {NoOp}
  BY CacheFields, NoneAssumption DEF Good, Typed, Trans
<1>2. /\ f \in Frame /\ s \in Seq(Frame) /\ c.stack = <<f>> \o s /\ f = c.stack[1]
      /\ Len(s) = Len(c.stack) - 1 /\ Len(c.stack) \in Nat /\ 1 \in 1 .. Len(c.stack)
      /\ \A i \in 1 .. Len(s) : i + 1 \in 2 .. Len(c.stack) /\ s[i] = c.stack[i + 1]
  <2> HIDE DEF Frame
  <2> QED
    BY <1>1, FirstOf
<1>3. d \in Cache /\ SameStore(c, d) /\ d.stack = s
  BY <1>1, RestFields
<1>4. v \in [Trans -> Transaction] /\ v[t] = r /\ Differ(w, v, t)
  <2> HIDE DEF Transaction
  <2> QED
    BY <1>1 DEF Differ
<1>5. /\ f.frame = "run" /\ f.trans = t /\ f.rv = "OK" /\ \A u, rv : f = Run(u, rv) => u = t
      /\ \A u : InFrame(f, u) <=> u = t
  BY DEF Run, InFrame
<1>6. /\ w[t].key \in Keys /\ w[t].mode # "NONE" /\ TransactionOk(b, c, w, None, t)
      /\ IsLive(c, e) /\ Uses(c, t, e) /\ e \in Entries
  <2>1. /\ RunOk(c, w, t, "OK", TRUE) /\ TransactionOk(b, c, w, None, t) /\ w[t].key \in Keys
        /\ w[t].mode # "NONE" /\ w[t] \in Transaction
    <3> DEFINE rv == "OK"
    <3>1. rv \in Results /\ w[t].next # "GET_BACKEND_COMPLETE" /\ Head(c.stack) = Run(t, rv)
      BY DEF Results
    <3> HIDE DEF rv
    <3>2. Called(b, c, w, t, rv)
      BY ONLY <3>1, Good(b, c, w, None, NoEntry), c.stack # <<>>, t \in Trans, TakeRun
    <3> QED
      BY <3>1, <3>2 DEF rv, Called
  <2> QED
    BY <2>1, TransactionFields DEF RunOk, TransactionOk, NewOk
<1> HIDE DEF d, s, v
<1>7. ~OnStack(s, t) /\ ~Waits(b, c, t)
  <2>1. ASSUME NEW i \in 1 .. Len(s), InFrame(s[i], t) PROVE FALSE
    <3>1. i + 1 \in 1 .. Len(c.stack) /\ i + 1 # 1 /\ InFrame(c.stack[i + 1], t)
      BY <2>1, <1>2
    <3> QED
      BY <3>1, <1>2, <1>5 DEF Good, StackOk, OneFrameEach
  <2>2. OnStack(c.stack, t)
    BY <1>2, <1>5 DEF OnStack
  <2> QED
    BY <2>1, <2>2, <1>6 DEF OnStack, TransactionOk, PlaceOk
<1>8. \A u, rv : RunsNow(c, None, u, rv) => u = t
  BY <1>5 DEF RunsNow
<1>9. /\ \A g \in Entries : IsLive(c, g) =>
             \A i \in 1 .. Len(c.entries[g].queue) : c.entries[g].queue[i] # t
      /\ \A k \in Keys : c.ops[k] # NoOp => c.ops[k].trans # t /\ ~InItems(c.ops[k].queue, t)
      /\ \A i \in 1 .. Len(b) : b[i] # t
  BY <1>7 DEF Waits, Queued, Has, InOperation
<1> HIDE DEF f, e
<1>10. w[t].entry = NoEntry
  BY <1>6 DEF TransactionOk, HoldOk, Holding, AtDisk, AtNetwork
<1>11. EntriesOk(d, v, None, NoEntry)
  <2>1. ASSUME NEW g \in Entries, IsLive(d, g) PROVE EntryOk(d, v, None, NoEntry, g)
    <3> DEFINE y == c.entries[g]
    <3>1. IsLive(c, g) /\ EntryOk(c, w, None, NoEntry, g) /\ g # NoEntry /\ d.entries[g] = y
      BY <2>1, <1>3, StoreOf DEF Good, EntriesOk, Entries, NoEntry, SameStore
    <3>2. y.queue \in Seq(Trans) /\ y.readers \subseteq Trans /\ y.writer \in Trans \cup {None}
      BY <1>1, <3>1, LiveFields
    <3>3. LockOk(d, v, None, g)
      <4>1. ASSUME NEW u \in Trans, HasOrGets(c, w, None, u, g) PROVE HasOrGets(d, v, None, u, g)
        <5>1. CASE u = t
          BY <5>1, <4>1, <3>1, <1>4, <1>10 DEF HasOrGets, e
        <5>2. CASE u # t
          BY <5>2, <4>1, <1>4, <1>8 DEF HasOrGets, Differ
        <5> QED
          BY <5>1, <5>2
      <4>2. \A u \in Trans : v[u].mode = w[u].mode
        BY <1>4 DEF Differ
      <4> QED
        BY <4>1, <4>2, <3>1, <3>2 DEF EntryOk, LockOk
    <3>4. QueueOk(d, v, g)
      <4>1. \A i \in 1 .. Len(y.queue) : y.queue[i] # t /\ y.queue[i] \in Trans
        BY <3>1, <3>2, <1>9
      <4>2. \A i \in 1 .. Len(y.queue) : v[y.queue[i]] = w[y.queue[i]]
        BY <4>1, <1>4 DEF Differ
      <4>3. QueueOk(c, w, g)
        BY <3>1 DEF EntryOk
      <4> QED
        BY <4>2, <4>3, <3>1 DEF QueueOk
    <3>5. ContentOk(d, v, g)
      <4>1. \A u \in Trans : v[u].mode = w[u].mode
        BY <1>4 DEF Differ
      <4> QED
        BY <4>1, <3>1, <3>2 DEF EntryOk, ContentOk
    <3>6. LinkOk(d, g)
      BY <3>1, <1>3, StoreOf DEF EntryOk
    <3>7. AttendedOk(d, v, None, g)
      <4>1. \A u \in Trans : ~IsAboutToAdd(c, w, None, u, g)
        BY <1>8 DEF IsAboutToAdd
      <4> QED
        BY <4>1, <3>1 DEF EntryOk, AttendedOk
    <3> QED
      BY <3>3, <3>4, <3>5, <3>6, <3>7 DEF EntryOk
  <2> QED
    BY <2>1 DEF EntriesOk
<1>12. ActiveOk(d)
  BY <1>3, StoreOf DEF Good
<1>13. OpsOk(d, v)
  <2>1. ASSUME NEW k \in Keys, c.ops[k] # NoOp
        PROVE  /\ ItemOk(v, k, c.ops[k].op, c.ops[k].trans) /\ ItemsOk(v, k, c.ops[k].queue)
    <3>1. ItemOk(w, k, c.ops[k].op, c.ops[k].trans) /\ ItemsOk(w, k, c.ops[k].queue)
      BY <2>1 DEF Good, OpsOk
    <3>2. c.ops[k].trans # t /\ ~InItems(c.ops[k].queue, t)
      BY <2>1, <1>9
    <3>3. c.ops[k].trans \in Trans \cup {None} /\ c.ops[k].queue \in Seq(Item)
      BY <2>1, <1>1, OperationFields
    <3> QED
      BY <3>1, <3>2, <3>3, <1>4, ItemsElsewhere DEF ItemOk, Differ
  <2> QED
    BY <2>1, <1>3 DEF Good, OpsOk, SameStore
<1>14. StackOk(d, v, None)
  <2>1. ASSUME NEW i \in 1 .. Len(s) PROVE FrameOk(d, v, s[i], i = 1)
    <3>1. i + 1 \in 1 .. Len(c.stack) /\ i + 1 # 1 /\ s[i] = c.stack[i + 1] /\ s[i] \in Frame
      BY <1>2
    <3>2. FrameOk(c, w, s[i], FALSE) /\ ~InFrame(s[i], t)
      BY <3>1, <1>7 DEF Good, StackOk, OnStack
    <3>3. FrameOk(d, v, s[i], FALSE)
      BY <3>1, <3>2, <1>3, <1>4, FrameElsewhere, StoreOf
    <3> QED
      BY <3>3, FirstNow
  <2>2. OneFrameEach(s)
    <3>1. ASSUME NEW i \in 1 .. Len(s), NEW j \in 1 .. Len(s), NEW u \in Trans,
                 InFrame(s[i], u), InFrame(s[j], u)
          PROVE  i = j
      <4>1. /\ i + 1 \in 1 .. Len(c.stack) /\ s[i] = c.stack[i + 1]
            /\ j + 1 \in 1 .. Len(c.stack) /\ s[j] = c.stack[j + 1]
        BY <1>2
      <4>2. i + 1 = j + 1
        BY <4>1, <3>1 DEF Good, StackOk, OneFrameEach
      <4> QED
        BY <4>2
    <3> QED
      BY <3>1 DEF OneFrameEach
  <2> QED
    BY <2>1, <2>2, <1>3 DEF StackOk
<1>15. BackendOpOk(b, v)
  <2>1. \A i \in 1 .. Len(b) : b[i] # t /\ b[i] \in Trans \cup {None}
    BY <1>1, <1>9
  <2> QED
    BY <2>1, <1>4 DEF Good, BackendOpOk, Differ
<1>16. TransactionOk(b, d, v, None, t)
  <2>1. v[t].next \in {"SEND_REQUEST_COMPLETE", "CACHE_READ_RESPONSE_COMPLETE"}
    BY <1>4
  <2>2. PlaceOk(b, d, v, t)
    BY <2>1, <1>3, <1>7, StoreOf DEF PlaceOk, AtCache, Turns
  <2>3. NewOk(d, v, None, t)
    BY <2>1, <1>4 DEF NewOk
  <2>4. HoldOk(d, v, t)
    <3>1. v[t].next \in Holding /\ v[t].next \notin AtCache \cup Turns \cup Outside
      BY <2>1 DEF Holding, AtDisk, AtNetwork, AtCache, Turns, Outside
    <3>2. v[t].entry = e /\ e # NoEntry /\ IsLive(d, e) /\ Uses(d, t, e)
      BY <1>3, <1>4, <1>6, StoreOf DEF e, Entries, NoEntry
    <3>3. v[t].next \in AtNetwork <=> v[t].next = "SEND_REQUEST_COMPLETE"
      BY <2>1 DEF AtNetwork
    <3>4. v[t].next = "SEND_REQUEST_COMPLETE" => v[t].mode = "WRITE"
      BY <1>4
    <3>5. v[t].key \in Keys /\ v[t].mode # "NONE"
      BY <1>4, <1>6
    <3> QED
      BY <2>1, <3>1, <3>2, <3>3, <3>4, <3>5 DEF HoldOk, Writes
  <2> QED
    BY <2>2, <2>3, <2>4 DEF TransactionOk
<1>17. ASSUME NEW u \in Trans, u # t PROVE TransactionOk(b, d, v, None, u)
  <2>1. TransactionOk(b, c, w, None, u) /\ v[u] = w[u] /\ w[u] \in Transaction
    BY <1>1, <1>4, <1>17, NoneAssumption DEF Good, TransactionsOk, Differ, Trans
  <2>2. OnStack(d.stack, u) <=> OnStack(c.stack, u)
    BY <1>2, <1>3, <1>5, <1>17, OnStackInFront
  <2>3. Has(c.stack, Run(u, "ERR_CACHE_RACE")) => Has(d.stack, Run(u, "ERR_CACHE_RACE"))
    <3>1. ASSUME NEW i \in 1 .. Len(c.stack), c.stack[i] = Run(u, "ERR_CACHE_RACE")
          PROVE  \E j \in 1 .. Len(s) : s[j] = Run(u, "ERR_CACHE_RACE")
      <4>1. i # 1
        BY <3>1, <1>2, <1>5, <1>17
      <4>2. i - 1 \in 1 .. Len(s) /\ s[i - 1] = c.stack[(i - 1) + 1] /\ (i - 1) + 1 = i
        BY <4>1, <1>2
      <4> QED
        BY <4>2, <3>1
    <3> QED
      BY <3>1, <1>3 DEF Has
  <2>4. ~RunsNow(c, None, u, "OK")
    BY <1>8, <1>17
  <2> QED
    BY <2>1, <2>2, <2>3, <2>4, <1>3, StoreOf, TransactionSame DEF SameStore
<1> QED
  BY <1>1, <1>3, <1>4, <1>11, <1>12, <1>13, <1>14, <1>15, <1>16, <1>17
     DEF Good, Typed, TransactionsOk, d, v

-----------------------------------------------------------------------------
(* Entries are doomed and destroyed                                        *)

\* The active entry of a key is doomed.
Doomed(c, k) ==
    [c EXCEPT !.entries[c.active[k]].doomed = TRUE, !.active[k] = NoEntry, !.disk[k] = "absent"]

\* What it is.
LEMMA DoomedFields ==
    ASSUME NEW c \in Cache, NEW k \in Keys, c.active[k] # NoEntry, IsLive(c, c.active[k])
    PROVE  LET d == Doomed(c, k)
               e == c.active[k]
           IN
           /\ d \in Cache /\ d.ops = c.ops /\ d.posted = c.posted /\ d.stack = c.stack
           /\ d.entries = [c.entries EXCEPT ![e].doomed = TRUE]
           /\ d.active = [c.active EXCEPT ![k] = NoEntry]
           /\ d.disk = [c.disk EXCEPT ![k] = "absent"]
<1> DEFINE d == Doomed(c, k)
           e == c.active[k]
           y == c.entries[e]
           r == [y EXCEPT !.doomed = TRUE]
           en == [c.entries EXCEPT ![e].doomed = TRUE]
           ac == [c.active EXCEPT ![k] = NoEntry]
           di == [c.disk EXCEPT ![k] = "absent"]
<1>1. /\ c.entries \in [Entries -> Entry \cup {Closed}]
      /\ c.active \in [Keys -> Entries \cup {NoEntry}]
      /\ c.ops \in [Keys -> Operation \cup {NoOp}]
      /\ c.disk \in [Keys -> Contents] /\ c.posted \in SUBSET Entries
      /\ c.stack \in Seq(Frame) /\ e \in Entries
  BY CacheFields
<1>2. y \in Entry
  BY <1>1, LiveFields
<1>3. r \in Entry
  <2> HIDE DEF y
  <2> QED
    BY <1>2 DEF Entry
<1>4. en = [c.entries EXCEPT ![e] = r]
  OBVIOUS
<1>5. d = [c EXCEPT !.entries = en, !.active = ac, !.disk = di]
  BY DEF Doomed
<1> HIDE DEF r
<1>6. /\ en \in [Entries -> Entry \cup {Closed}]
      /\ ac \in [Keys -> Entries \cup {NoEntry}] /\ di \in [Keys -> Contents]
  <2>1. en \in [Entries -> Entry \cup {Closed}]
    <3> HIDE DEF en
    <3> QED
      BY <1>1, <1>3, <1>4
  <2>2. "absent" \in Contents
    BY DEF Contents
  <2> QED
    BY <1>1, <2>1, <2>2
<1> HIDE DEF en, ac, di, d
<1>7. [c EXCEPT !.entries = en, !.active = ac, !.disk = di]
          = Made(en, ac, c.ops, di, c.posted, c.stack)
  <2>1. \A v, a, p : [c EXCEPT !.entries = v, !.active = a, !.disk = p]
                         = Made(v, a, c.ops, p, c.posted, c.stack)
    BY ONLY c \in Cache, PartsOf
  <2> QED
    BY ONLY <2>1, Zenon
<1>8. /\ d \in Cache /\ d.ops = c.ops /\ d.posted = c.posted /\ d.stack = c.stack
      /\ d.entries = en /\ d.active = ac /\ d.disk = di
  BY ONLY <1>1, <1>5, <1>6, <1>7 DEF Made, Cache
<1> QED
  BY <1>8 DEF d, en, ac, di

\* The invariant is kept; nobody is about to join the entry from the top of the stack.
LEMMA DoomHit ==
    ASSUME NEW b, NEW c, NEW w, NEW x, NEW o, Good(b, c, w, x, o), NEW k \in Keys,
           c.active[k] # NoEntry, x # None \/ c.stack = <<>>
    PROVE  /\ Good(b, Doomed(c, k), w, x, o)
           /\ Doomed(c, k).active[k] = NoEntry /\ Doomed(c, k).stack = c.stack
           /\ \A g \in Entries :
                  /\ IsLive(Doomed(c, k), g) <=> IsLive(c, g)
                  /\ \A u : Uses(Doomed(c, k), u, g) <=> Uses(c, u, g)
                  /\ IsLive(c, g) =>
                        /\ Doomed(c, k).entries[g].writer = c.entries[g].writer
                        /\ Doomed(c, k).entries[g].readers = c.entries[g].readers
                        /\ Doomed(c, k).entries[g].will = c.entries[g].will
                        /\ Doomed(c, k).entries[g].content = c.entries[g].content
<1> DEFINE d == Doomed(c, k)
           e == c.active[k]
           y == c.entries[e]
           r == [y EXCEPT !.doomed = TRUE]
<1>1. /\ c \in Cache /\ w \in [Trans -> Transaction] /\ c.stack \in Seq(Frame)
      /\ e \in Entries /\ IsLive(c, e) /\ y.key = k /\ e # NoEntry
      /\ c.posted \in SUBSET Entries
  <2>1. c \in Cache /\ w \in [Trans -> Transaction] /\ c.stack \in Seq(Frame) /\ e \in Entries
        /\ c.posted \in SUBSET Entries
    BY CacheFields DEF Good, Typed
  <2> QED
    BY <2>1 DEF Good, ActiveOk
<1>2. y \in Entry /\ EntryOk(c, w, x, o, e)
  BY <1>1, LiveFields DEF Good, EntriesOk
<1>3. r \in Entry /\ r.key = y.key /\ r.writer = y.writer /\ r.readers = y.readers
      /\ r.will = y.will /\ r.doomed = TRUE /\ r.content = y.content /\ r.queue = y.queue
      /\ r # Closed
  <2>1. r \in Entry /\ r.key = y.key /\ r.writer = y.writer /\ r.readers = y.readers
        /\ r.will = y.will /\ r.doomed = TRUE /\ r.content = y.content /\ r.queue = y.queue
    <3> HIDE DEF y
    <3> QED
      BY <1>2 DEF Entry
  <2> HIDE DEF r
  <2> QED
    BY <2>1, EntryFields
<1>4. /\ d \in Cache /\ d.ops = c.ops /\ d.posted = c.posted /\ d.stack = c.stack
      /\ d.entries[e] = r /\ \A g \in Entries : g # e => d.entries[g] = c.entries[g]
      /\ d.active[k] = NoEntry /\ \A j \in Keys : j # k => d.active[j] = c.active[j]
      /\ d.disk[k] = "absent" /\ \A j \in Keys : j # k => d.disk[j] = c.disk[j]
  <2>1. /\ d \in Cache /\ d.ops = c.ops /\ d.posted = c.posted /\ d.stack = c.stack
        /\ d.entries = [c.entries EXCEPT ![e].doomed = TRUE]
        /\ d.active = [c.active EXCEPT ![k] = NoEntry]
        /\ d.disk = [c.disk EXCEPT ![k] = "absent"]
    BY <1>1, DoomedFields
  <2>2. c.entries \in [Entries -> Entry \cup {Closed}] /\ c.active \in [Keys -> Entries \cup {NoEntry}]
        /\ c.disk \in [Keys -> Contents]
    BY <1>1, CacheFields
  <2> HIDE DEF d
  <2> QED
    BY <1>1, <2>1, <2>2
<1> HIDE DEF d, r
<1>5. /\ \A g \in Entries : IsLive(d, g) <=> IsLive(c, g)
      /\ \A u : \A g \in Entries : /\ Uses(d, u, g) <=> Uses(c, u, g)
                                   /\ Queued(d, u, g) <=> Queued(c, u, g)
      /\ \A u, j : InOperation(d, u, j) <=> InOperation(c, u, j)
      /\ \A u, rv : ~RunsNow(c, x, u, rv)
  BY <1>1, <1>3, <1>4 DEF IsLive, Uses, Queued, InOperation, RunsNow
<1>6. \A u : Waits(b, d, u) <=> Waits(b, c, u)
  BY <1>5 DEF Waits
<1>7. EntriesOk(d, w, x, o)
  <2>1. ASSUME NEW g \in Entries, IsLive(d, g), g # e PROVE EntryOk(d, w, x, o, g)
    <3>1. EntryOk(c, w, x, o, g) /\ IsLive(c, g) /\ g # NoEntry
      BY <2>1, <1>5 DEF Good, EntriesOk, Entries, NoEntry
    <3>2. c.entries[g].key \in Keys
      BY <1>1, <3>1, LiveFields
    <3>3. c.active[c.entries[g].key] = g <=> d.active[c.entries[g].key] = g
      BY <2>1, <1>1, <1>4, <3>1, <3>2
    <3> QED
      BY <2>1, <3>1, <3>3, <1>4, <1>5, EntrySame
  <2>2. LockOk(d, w, x, e)
    <3>1. \A u : HasOrGets(c, w, x, u, e) => HasOrGets(d, w, x, u, e)
      BY <1>5 DEF HasOrGets
    <3> QED
      BY <3>1, <1>2, <1>3, <1>4 DEF EntryOk, LockOk
  <2>3. QueueOk(d, w, e)
    <3>1. d.entries[e].queue = c.entries[e].queue /\ QueueOk(c, w, e)
      BY <1>2, <1>3, <1>4 DEF EntryOk
    <3> QED
      BY <3>1 DEF QueueOk
  <2>4. LinkOk(d, e)
    BY <1>1, <1>2, <1>3, <1>4 DEF EntryOk, LinkOk
  <2>5. ContentOk(d, w, e)
    BY <1>2, <1>3, <1>4 DEF EntryOk, ContentOk
  <2>6. e # o => AttendedOk(d, w, x, e)
    BY <1>2, <1>3, <1>4, <1>5 DEF EntryOk, AttendedOk, IsAboutToAdd
  <2> QED
    BY <2>1, <2>2, <2>3, <2>4, <2>5, <2>6 DEF EntriesOk, EntryOk
<1>8. ActiveOk(d)
  <2>1. \A j \in Keys : c.active[j] # NoEntry => c.active[j] \in Entries
    BY <1>1, CacheFields
  <2>2. \A j \in Keys : d.active[j] # NoEntry => IsLive(d, d.active[j]) /\ d.entries[d.active[j]].key = j
    BY <2>1, <1>1, <1>3, <1>4, <1>5 DEF Good, ActiveOk
  <2> QED
    BY <2>2, <1>1, <1>4, <1>5 DEF Good, ActiveOk
<1>9. OpsOk(d, w)
  BY <1>4 DEF Good, OpsOk
<1>10. StackOk(d, w, x)
  <2>1. \A j \in Keys : c.active[j] = NoEntry => d.active[j] = NoEntry
    BY <1>4
  <2>2. \A g \in Entries, u \in Trans : IsLive(c, g) /\ Uses(c, u, g) => IsLive(d, g) /\ Uses(d, u, g)
    BY <1>5
  <2> QED
    BY ONLY <2>1, <2>2, <1>4, Good(b, c, w, x, o), StackSame
<1>11. ASSUME NEW u \in Trans, u # x PROVE TransactionOk(b, d, w, x, u)
  <2>1. TransactionOk(b, c, w, x, u) /\ w[u] \in Transaction
    BY <1>1, <1>11 DEF Good, TransactionsOk
  <2>2. w[u].entry # NoEntry => d.entries[w[u].entry].content = c.entries[w[u].entry].content
    <3>1. w[u].entry \in Entries \cup {NoEntry}
      BY <2>1, TransactionFields
    <3> QED
      BY <3>1, <1>3, <1>4
  <2> QED
    BY <2>1, <2>2, <1>4, <1>5, <1>6, TransactionSame
<1>12. x # None => Nowhere(b, d, x)
  <2>1. x # None => Nowhere(b, c, x)
    BY DEF Good, TransactionsOk
  <2> QED
    BY <2>1, <1>4, <1>5, <1>6 DEF Nowhere
<1>13. Good(b, d, w, x, o)
  BY <1>4, <1>7, <1>8, <1>9, <1>10, <1>11, <1>12 DEF Good, Typed, TransactionsOk
<1>14. \A g \in Entries : IsLive(c, g) => /\ d.entries[g].writer = c.entries[g].writer
                                          /\ d.entries[g].readers = c.entries[g].readers
                                          /\ d.entries[g].will = c.entries[g].will
                                          /\ d.entries[g].content = c.entries[g].content
  BY <1>3, <1>4
<1> QED
  BY <1>4, <1>5, <1>13, <1>14 DEF d

\* DoomEntry without waiting for the answer, between tasks.
LEMMA DoomUnderWay ==
    ASSUME NEW b, NEW c, NEW w, Good(b, c, w, None, NoEntry), c.stack = <<>>, NEW k \in Keys
    PROVE  /\ Good(b, DoomEntry(c, k, None), w, None, NoEntry)
           /\ DoomEntry(c, k, None).stack = <<>>
           /\ \A g \in Entries : IsLive(c, g) =>
                  /\ DoomEntry(c, k, None).entries[g].writer = c.entries[g].writer
                  /\ DoomEntry(c, k, None).entries[g].readers = c.entries[g].readers
                  /\ DoomEntry(c, k, None).entries[g].will = c.entries[g].will
                  /\ DoomEntry(c, k, None).entries[g].content = c.entries[g].content
<1>1. CASE c.active[k] = NoEntry
  <2> DEFINE x == None
             op == "DOOM"
             d == QueueOperation(c, k, op, x)
  <2>1. DoomEntry(c, k, None) = d
    BY <1>1 DEF DoomEntry, FindActiveEntry
  <2>2. c \in Cache /\ x \in Trans \cup {None} /\ op \in Ops
    BY DEF Good, Typed, Ops
  <2>5. Good(b, c, w, x, NoEntry) /\ x = None
    OBVIOUS
  <2> HIDE DEF x, op
  <2>3. d.entries = c.entries /\ d.stack = c.stack
    <3> DEFINE z == IF c.ops[k] = NoOp THEN [op |-> op, trans |-> x, queue |-> <<>>]
                    ELSE [c.ops[k] EXCEPT !.queue = Append(@, [op |-> op, trans |-> x])]
               en == [c.ops EXCEPT ![k] = z]
    <3>1. d = [c EXCEPT !.ops = en]
      BY DEF QueueOperation
    <3> HIDE DEF en, d
    <3>2. [c EXCEPT !.ops = en] = Made(c.entries, c.active, en, c.disk, c.posted, c.stack)
      BY ONLY <2>2, PartsOf
    <3> QED
      BY <3>1, <3>2 DEF Made
  <2>4. Good(b, d, w, None, NoEntry)
    BY ONLY <2>2, <2>5, <1>1, k \in Keys, PutOperation
  <2> QED
    BY <2>1, <2>3, <2>4
<1>2. CASE c.active[k] # NoEntry
  <2>1. DoomEntry(c, k, None) = Doomed(c, k)
    BY <1>2 DEF DoomEntry, FindActiveEntry, Doomed
  <2> QED
    BY <2>1, <1>2, DoomHit
<1> QED
  BY <1>1, <1>2

\* Between tasks, an entry that nobody uses is destroyed, and those who waited for it are
\* told.
DestroyStep(c, d, e) ==
    LET q == c.entries[e].queue IN
    /\ c.stack = <<>> /\ e \in Entries /\ IsLive(c, e)
    /\ c.entries[e].writer = None /\ c.entries[e].readers = {} /\ ~c.entries[e].will
    /\ d \in Cache /\ d.ops = c.ops /\ d.posted = c.posted
    /\ d.entries[e] = Closed /\ \A f \in Entries : f # e => d.entries[f] = c.entries[f]
    /\ \A k \in Keys : d.active[k] = IF c.active[k] = e THEN NoEntry ELSE c.active[k]
    /\ \A k \in Keys : d.disk[k] # "partial"
    /\ Len(d.stack) = Len(q) /\ \A i \in 1 .. Len(q) : d.stack[i] = Run(q[i], "ERR_CACHE_RACE")

\* Such a step keeps the invariant.
LEMMA Destroyed ==
    ASSUME NEW b, NEW c, NEW d, NEW w, NEW x, NEW e, Good(b, c, w, x, e), DestroyStep(c, d, e)
    PROVE  Good(b, d, w, x, NoEntry)
<1> DEFINE q == c.entries[e].queue
<1>0. /\ c.stack = <<>> /\ e \in Entries /\ IsLive(c, e)
      /\ c.entries[e].writer = None /\ c.entries[e].readers = {} /\ ~c.entries[e].will
      /\ d \in Cache /\ d.ops = c.ops /\ d.posted = c.posted
      /\ d.entries[e] = Closed /\ \A f \in Entries : f # e => d.entries[f] = c.entries[f]
      /\ \A k \in Keys : d.active[k] = IF c.active[k] = e THEN NoEntry ELSE c.active[k]
      /\ \A k \in Keys : d.disk[k] # "partial"
      /\ Len(d.stack) = Len(q) /\ \A i \in 1 .. Len(q) : d.stack[i] = Run(q[i], "ERR_CACHE_RACE")
  BY DEF DestroyStep
<1>1. /\ c \in Cache /\ w \in [Trans -> Transaction] /\ x \in Trans \cup {None}
      /\ b \in Seq(Trans \cup {None}) /\ q \in Seq(Trans) /\ EntryOk(c, w, x, e, e)
      /\ c.posted \in SUBSET Entries
      /\ \A k \in Keys : c.active[k] \in Entries \cup {NoEntry}
  BY <1>0, LiveFields, CacheFields DEF Good, Typed, EntriesOk
<1>2. /\ NoneTwice(q) /\ Len(q) \in Nat
      /\ \A i \in 1 .. Len(q) : /\ q[i] \in Trans /\ w[q[i]].next = "ADD_TO_ENTRY_COMPLETE"
                                /\ w[q[i]].new = e
  BY <1>1 DEF EntryOk, QueueOk
<1> HIDE DEF q
<1>3. \A i \in 1 .. Len(q) : /\ d.stack[i].frame = "run" /\ d.stack[i].trans = q[i]
                             /\ d.stack[i].rv = "ERR_CACHE_RACE"
                             /\ \A u : InFrame(d.stack[i], u) <=> u = q[i]
  <2>1. ASSUME NEW i \in 1 .. Len(q)
        PROVE  /\ d.stack[i].frame = "run" /\ d.stack[i].trans = q[i]
               /\ d.stack[i].rv = "ERR_CACHE_RACE"
    <3> DEFINE r == d.stack[i]
    <3>1. r = Run(q[i], "ERR_CACHE_RACE")
      BY <1>0
    <3> HIDE DEF r
    <3> QED
      BY <3>1 DEF Run, r
  <2> QED
    BY <2>1 DEF InFrame
<1>4. \A u : /\ OnStack(d.stack, u) <=> Has(q, u)
             /\ Has(q, u) => Has(d.stack, Run(u, "ERR_CACHE_RACE"))
  <2>1. Len(d.stack) = Len(q) /\ \A i \in 1 .. Len(q) : d.stack[i] = Run(q[i], "ERR_CACHE_RACE")
    BY <1>0
  <2> QED
    BY ONLY <2>1, <1>3 DEF OnStack, Has
<1>5. /\ \A u, rv : ~RunsNow(c, x, u, rv)
      /\ \A g \in Entries : g # e => /\ IsLive(d, g) <=> IsLive(c, g)
                                     /\ \A u : /\ Uses(d, u, g) <=> Uses(c, u, g)
                                               /\ Queued(d, u, g) <=> Queued(c, u, g)
      /\ ~IsLive(d, e) /\ \A u : /\ ~Queued(d, u, e)
                                 /\ Queued(c, u, e) <=> Has(q, u)
                                 /\ u # None => ~Uses(c, u, e)
      /\ \A u, k : InOperation(d, u, k) <=> InOperation(c, u, k)
  BY <1>0 DEF RunsNow, IsLive, Uses, Queued, InOperation, q
<1>6. EntriesOk(d, w, x, NoEntry)
  <2>1. ASSUME NEW g \in Entries, IsLive(d, g) PROVE EntryOk(d, w, x, NoEntry, g)
    <3>1. g # e /\ EntryOk(c, w, x, e, g) /\ IsLive(c, g)
      BY <2>1, <1>0, <1>5 DEF Good, EntriesOk
    <3>2. c.entries[g].key \in Keys
      BY <1>1, <3>1, LiveFields
    <3>3. c.active[c.entries[g].key] = g <=> d.active[c.entries[g].key] = g
      BY <1>0, <3>1, <3>2 DEF Entries, NoEntry
    <3> QED
      BY <3>1, <3>3, <1>0, <1>5, EntrySame
  <2> QED
    BY <2>1 DEF EntriesOk
<1>7. ActiveOk(d)
  <2>1. e \notin c.posted
    BY <1>0, <1>1 DEF EntryOk, LinkOk
  <2> QED
    BY <2>1, <1>0, <1>1, <1>5 DEF Good, ActiveOk
<1>8. OpsOk(d, w)
  BY <1>0 DEF Good, OpsOk
<1>9. StackOk(d, w, x)
  <2>1. ASSUME NEW i \in 1 .. Len(d.stack), NEW first PROVE FrameOk(d, w, d.stack[i], first)
    <3>1. i \in 1 .. Len(q) /\ w[q[i]].next = "ADD_TO_ENTRY_COMPLETE"
      BY <1>0, <1>2
    <3>2. RunOk(d, w, q[i], "ERR_CACHE_RACE", first)
      BY <3>1 DEF RunOk, AtCache, Turns
    <3> QED
      BY <3>1, <3>2, <1>3 DEF FrameOk
  <2>2. OneFrameEach(d.stack)
    <3> SUFFICES ASSUME NEW i \in 1 .. Len(d.stack), NEW j \in 1 .. Len(d.stack), NEW u \in Trans,
                        InFrame(d.stack[i], u), InFrame(d.stack[j], u)
                 PROVE  i = j
      BY DEF OneFrameEach
    <3>1. i \in 1 .. Len(q) /\ j \in 1 .. Len(q)
      BY <1>0
    <3>2. u = q[i] /\ u = q[j]
      BY <3>1, <1>3
    <3> QED
      BY <3>1, <3>2, <1>2 DEF NoneTwice
  <2> QED
    BY <2>1, <2>2 DEF StackOk
<1>10. ASSUME NEW u \in Trans, u # x, Has(q, u) PROVE TransactionOk(b, d, w, x, u)
  <2>1. w[u].next = "ADD_TO_ENTRY_COMPLETE" /\ w[u].new = e
    BY <1>2, <1>10 DEF Has
  <2>2. ~Waits(b, d, u)
    <3>1. ~Has(b, u) /\ (\A k \in Keys : ~InOperation(c, u, k))
          /\ \A f \in Entries : f # e => ~Queued(c, u, f)
      BY <2>1, Places
    <3> QED
      BY <3>1, <1>5 DEF Waits
  <2>3. PlaceOk(b, d, w, u)
    BY <2>2, <1>4, <1>10 DEF PlaceOk
  <2>4. NewOk(d, w, x, u)
    BY <2>1, <1>0, <1>4, <1>10 DEF NewOk, Entries, NoEntry
  <2>5. HoldOk(c, w, u)
    BY <1>10 DEF Good, TransactionsOk, TransactionOk
  <2>6. /\ w[u].next \in AtCache \cup Turns /\ w[u].next \notin Holding \cup Outside
    BY <2>1 DEF AtCache, Holding, AtDisk, AtNetwork, Outside
  <2>7. w[u].entry = NoEntry /\ w[u].key \in Keys /\ w[u].mode # "NONE"
    BY <2>1, <2>5, <2>6 DEF HoldOk
  <2>8. HoldOk(d, w, u)
    BY <2>6, <2>7, HoldsNothing
  <2> QED
    BY <2>3, <2>4, <2>8 DEF TransactionOk
<1>11. ASSUME NEW u \in Trans, u # x, ~Has(q, u) PROVE TransactionOk(b, d, w, x, u)
  <2>1. TransactionOk(b, c, w, x, u) /\ w[u] \in Transaction /\ u # None
    BY <1>1, <1>11, NoneAssumption DEF Good, TransactionsOk, Trans
  <2>2. (OnStack(d.stack, u) <=> OnStack(c.stack, u)) /\ ~Has(c.stack, Run(u, "ERR_CACHE_RACE"))
    <3>1. Len(c.stack) = 0 /\ ~OnStack(d.stack, u)
      BY <1>0, <1>4, <1>11
    <3> QED
      BY <3>1 DEF OnStack, Has
  <2>3. /\ \A g \in Entries : Queued(c, u, g) <=> Queued(d, u, g)
        /\ \A g \in Entries : IsLive(c, g) /\ Uses(c, u, g) => IsLive(d, g) /\ Uses(d, u, g)
    BY <2>1, <1>5, <1>11
  <2>4. Waits(b, d, u) <=> Waits(b, c, u)
    BY <2>3, <1>5 DEF Waits
  <2>5. w[u].entry # NoEntry => d.entries[w[u].entry].content = c.entries[w[u].entry].content
    <3>1. w[u].entry \in Entries \cup {NoEntry} /\ w[u].entry # e
      BY <2>1, <1>0, <1>5, TransactionFields DEF TransactionOk, HoldOk, Entries, NoEntry
    <3> QED
      BY <3>1, <1>0
  <2> QED
    BY <2>1, <2>2, <2>3, <2>4, <2>5, <1>5, TransactionSame
<1>12. x # None => Nowhere(b, d, x)
  <2> SUFFICES ASSUME x # None PROVE Nowhere(b, d, x)
    OBVIOUS
  <2>1. Nowhere(b, c, x)
    BY DEF Good, TransactionsOk
  <2>2. ~Has(q, x)
    BY <2>1, <1>0, <1>5 DEF Nowhere, Waits
  <2>3. ~Waits(b, d, x)
    <3>1. \A g \in Entries : Queued(d, x, g) => Queued(c, x, g)
      BY <1>5
    <3> QED
      BY <3>1, <2>1, <1>5 DEF Waits, Nowhere
  <2> QED
    BY <2>1, <2>2, <2>3, <1>4, <1>5 DEF Nowhere
<1> QED
  BY <1>0, <1>1, <1>6, <1>7, <1>8, <1>9, <1>10, <1>11, <1>12 DEF Good, Typed, TransactionsOk


\* The cache with other entries.
LEMMA SetEntries ==
    ASSUME NEW c \in Cache, NEW v \in [Entries -> Entry \cup {Closed}], NEW d,
           d = [c EXCEPT !.entries = v]
    PROVE  /\ d \in Cache /\ d.entries = v /\ d.active = c.active /\ d.ops = c.ops
           /\ d.disk = c.disk /\ d.posted = c.posted /\ d.stack = c.stack
<1>1. /\ c.active \in [Keys -> Entries \cup {NoEntry}]
      /\ c.ops \in [Keys -> Operation \cup {NoOp}]
      /\ c.disk \in [Keys -> Contents] /\ c.posted \in SUBSET Entries /\ c.stack \in Seq(Frame)
  BY CacheFields
<1>2. [c EXCEPT !.entries = v] = Made(v, c.active, c.ops, c.disk, c.posted, c.stack)
  <2>1. \A u : [c EXCEPT !.entries = u] = Made(u, c.active, c.ops, c.disk, c.posted, c.stack)
    BY ONLY c \in Cache, PartsOf
  <2> QED
    BY ONLY <2>1, Zenon
<1>3. v \in [Entries -> Entry \cup {Closed}] /\ d = [c EXCEPT !.entries = v]
  OBVIOUS
<1> QED
  BY ONLY <1>1, <1>2, <1>3 DEF Made, Cache

\* What is left when an entry is destroyed.
LEMMA DestroyParts ==
    ASSUME NEW c \in Cache, NEW e \in Entries, IsLive(c, e)
    PROVE  LET d == DestroyEntry(c, e)
               y == c.entries[e]
           IN
           /\ d \in Cache /\ d.ops = c.ops /\ d.posted = c.posted /\ d.stack = c.stack
           /\ d.entries = [c.entries EXCEPT ![e] = Closed]
           /\ d.active = IF y.doomed THEN c.active ELSE [c.active EXCEPT ![y.key] = NoEntry]
           /\ d.disk = IF y.doomed THEN c.disk ELSE [c.disk EXCEPT ![y.key] = y.content]
<1> DEFINE d == DestroyEntry(c, e)
           y == c.entries[e]
           en == [c.entries EXCEPT ![e] = Closed]
           ac == [c.active EXCEPT ![y.key] = NoEntry]
           di == [c.disk EXCEPT ![y.key] = y.content]
<1>1. /\ c.entries \in [Entries -> Entry \cup {Closed}]
      /\ c.active \in [Keys -> Entries \cup {NoEntry}]
      /\ c.ops \in [Keys -> Operation \cup {NoOp}]
      /\ c.disk \in [Keys -> Contents] /\ c.posted \in SUBSET Entries
      /\ c.stack \in Seq(Frame) /\ y.key \in Keys /\ y.content \in Contents
  BY CacheFields, LiveFields
<1>2. /\ en \in [Entries -> Entry \cup {Closed}]
      /\ ac \in [Keys -> Entries \cup {NoEntry}] /\ di \in [Keys -> Contents]
  <2> HIDE DEF Entry, Closed
  <2> QED
    BY <1>1
<1>3. CASE y.doomed
  <2>1. d = [c EXCEPT !.entries = en]
    BY <1>3 DEF DestroyEntry
  <2> HIDE DEF en, d
  <2>2. /\ d \in Cache /\ d.entries = en /\ d.active = c.active /\ d.ops = c.ops
        /\ d.disk = c.disk /\ d.posted = c.posted /\ d.stack = c.stack
    BY <2>1, <1>2, SetEntries
  <2> QED
    BY <2>2, <1>3 DEF en, d
<1>4. CASE ~y.doomed
  <2>1. d = [c EXCEPT !.active = ac, !.disk = di, !.entries = en]
    BY <1>4 DEF DestroyEntry
  <2> HIDE DEF en, ac, di, d
  <2> DEFINE m == [c EXCEPT !.entries = en, !.active = ac, !.disk = di]
  <2>2. d = m
    BY ONLY <2>1
  <2>3. m = Made(en, ac, c.ops, di, c.posted, c.stack)
    <3>1. \A v, a, p : [c EXCEPT !.entries = v, !.active = a, !.disk = p]
                           = Made(v, a, c.ops, p, c.posted, c.stack)
      BY ONLY c \in Cache, PartsOf
    <3> QED
      BY ONLY <3>1, Zenon
  <2> HIDE DEF m
  <2>4. /\ d \in Cache /\ d.ops = c.ops /\ d.posted = c.posted /\ d.stack = c.stack
        /\ d.entries = en /\ d.active = ac /\ d.disk = di
    BY ONLY <1>1, <1>2, <2>2, <2>3 DEF Made, Cache
  <2> QED
    BY <2>4, <1>4 DEF en, ac, di, d
<1> QED
  BY <1>3, <1>4

\* An entry that nobody uses or waits for is destroyed.
LEMMA DestroyIdle ==
    ASSUME NEW b, NEW c, NEW w, NEW x, NEW e \in Entries, Good(b, c, w, x, e), c.stack = <<>>,
           IsLive(c, e), c.entries[e].writer = None, c.entries[e].readers = {},
           ~c.entries[e].will, c.entries[e].queue = <<>>
    PROVE  Good(b, DestroyEntry(c, e), w, x, NoEntry)
<1> DEFINE d == DestroyEntry(c, e)
           y == c.entries[e]
<1>1. c \in Cache /\ EntryOk(c, w, x, e, e) /\ ActiveOk(c)
  BY DEF Good, Typed, EntriesOk
<1>2. /\ d \in Cache /\ d.ops = c.ops /\ d.posted = c.posted /\ d.stack = c.stack
      /\ d.entries = [c.entries EXCEPT ![e] = Closed]
      /\ d.active = IF y.doomed THEN c.active ELSE [c.active EXCEPT ![y.key] = NoEntry]
      /\ d.disk = IF y.doomed THEN c.disk ELSE [c.disk EXCEPT ![y.key] = y.content]
  BY <1>1, DestroyParts
<1>3. /\ c.entries \in [Entries -> Entry \cup {Closed}] /\ y.key \in Keys /\ y.content # "partial"
      /\ c.active \in [Keys -> Entries \cup {NoEntry}] /\ c.disk \in [Keys -> Contents]
      /\ y.doomed <=> c.active[y.key] # e
  BY <1>1, CacheFields, LiveFields DEF EntryOk, ContentOk, LinkOk
<1>4. \A k \in Keys : c.active[k] = e => k = y.key
  BY <1>1 DEF ActiveOk, Entries, NoEntry
<1>5. \A k \in Keys : c.disk[k] # "partial"
  BY <1>1 DEF ActiveOk
<1> HIDE DEF d, y
<1>6. \A k \in Keys : d.active[k] = IF c.active[k] = e THEN NoEntry ELSE c.active[k]
  BY <1>2, <1>3, <1>4
<1>7. \A k \in Keys : d.disk[k] # "partial"
  BY <1>2, <1>3, <1>5
<1>8. d.entries[e] = Closed /\ \A f \in Entries : f # e => d.entries[f] = c.entries[f]
  BY <1>2, <1>3
<1>9. DestroyStep(c, d, e)
  BY <1>2, <1>6, <1>7, <1>8 DEF DestroyStep
<1> QED
  BY <1>9, Destroyed DEF d

\* What a writer that failed leaves behind.
LEMMA DoneWritingParts ==
    ASSUME NEW c \in Cache, NEW e \in Entries, IsLive(c, e)
    PROVE  LET d == DoneWritingToEntry(c, e, FALSE)
               y == c.entries[e]
           IN
           /\ d \in Cache /\ d.ops = c.ops /\ d.posted = c.posted
           /\ d.stack = [i \in 1 .. Len(y.queue) |-> Run(y.queue[i], "ERR_CACHE_RACE")] \o c.stack
           /\ d.entries = [c.entries EXCEPT ![e] = Closed]
           /\ d.active = IF y.doomed THEN c.active ELSE [c.active EXCEPT ![y.key] = NoEntry]
           /\ d.disk = IF y.doomed THEN c.disk ELSE [c.disk EXCEPT ![y.key] = "absent"]
<1> DEFINE y == c.entries[e]
           y1 == [y EXCEPT !.writer = None]
           y2 == [y1 EXCEPT !.queue = <<>>, !.content = "absent"]
           c1 == [c EXCEPT !.entries[e].writer = None]
           c2 == [c1 EXCEPT !.entries[e].queue = <<>>, !.entries[e].content = "absent"]
           s == [i \in 1 .. Len(y.queue) |-> Run(y.queue[i], "ERR_CACHE_RACE")]
           en1 == [c.entries EXCEPT ![e] = y1]
           en2 == [c.entries EXCEPT ![e] = y2]
<1>1. /\ c.entries \in [Entries -> Entry \cup {Closed}] /\ y \in Entry /\ y.queue \in Seq(Trans)
  BY CacheFields, LiveFields
<1>2. y1 \in Entry /\ y2 \in Entry /\ y2.doomed = y.doomed /\ y2.key = y.key /\ y2.content = "absent"
  <2> HIDE DEF y
  <2>1. y1 \in Entry /\ y1.doomed = y.doomed /\ y1.key = y.key
    BY <1>1 DEF Entry
  <2> HIDE DEF y1
  <2>2. y2 = [[y1 EXCEPT !.queue = <<>>] EXCEPT !.content = "absent"]
    OBVIOUS
  <2> DEFINE y3 == [y1 EXCEPT !.queue = <<>>]
  <2>3. y3 \in Entry /\ y3.doomed = y1.doomed /\ y3.key = y1.key
    <3>1. <<>> \in Seq(Trans)
      OBVIOUS
    <3> QED
      BY <2>1, <3>1 DEF Entry
  <2> HIDE DEF y3
  <2>4. "absent" \in Contents
    BY DEF Contents
  <2>5. y2 = [y3 EXCEPT !.content = "absent"]
    BY <2>2 DEF y3
  <2>6. y2 \in Entry /\ y2.doomed = y3.doomed /\ y2.key = y3.key /\ y2.content = "absent"
    <3> HIDE DEF y2
    <3> QED
      BY <2>3, <2>4, <2>5 DEF Entry
  <2> QED
    BY <2>1, <2>3, <2>6
<1>3. en1 \in [Entries -> Entry \cup {Closed}] /\ en2 \in [Entries -> Entry \cup {Closed}]
  <2> HIDE DEF y1, y2, Entry, Closed
  <2> QED
    BY <1>1, <1>2
<1>4. c1 = [c EXCEPT !.entries = en1]
  BY <1>1
<1>5. /\ c1 \in Cache /\ c1.entries = en1 /\ c1.active = c.active /\ c1.ops = c.ops
      /\ c1.disk = c.disk /\ c1.posted = c.posted /\ c1.stack = c.stack
  <2> HIDE DEF c1, en1
  <2> QED
    BY <1>3, <1>4, SetEntries
<1>6. c2 = [c1 EXCEPT !.entries = en2]
  <2>1. c1.entries[e] = y1
    <3> HIDE DEF c1, y1
    <3> QED
      BY <1>1, <1>5
  <2>2. [c1.entries EXCEPT ![e] = y2] = en2
    <3> HIDE DEF c1, y1, y2
    <3> QED
      BY <1>1, <1>5
  <2>3. c2 = [c1 EXCEPT !.entries = [c1.entries EXCEPT ![e] = y2]]
    <3> HIDE DEF c1, y1
    <3> QED
      BY <2>1
  <2> HIDE DEF c1, c2, y2, en2
  <2> QED
    BY <2>2, <2>3
<1>7. /\ c2 \in Cache /\ c2.entries = en2 /\ c2.active = c.active /\ c2.ops = c.ops
      /\ c2.disk = c.disk /\ c2.posted = c.posted /\ c2.stack = c.stack
  <2> HIDE DEF c1, c2, en2
  <2> QED
    BY <1>3, <1>5, <1>6, SetEntries
<1>8. c2.entries[e] = y2 /\ IsLive(c2, e) /\ [c2.entries EXCEPT ![e] = Closed] = [c.entries EXCEPT ![e] = Closed]
  <2>1. y2 # Closed
    <3> HIDE DEF y2
    <3> QED
      BY <1>2, EntryFields
  <2> HIDE DEF c1, c2, y1, y2
  <2> QED
    BY <1>1, <1>7, <2>1 DEF IsLive
<1> DEFINE g == DestroyEntry(c2, e)
<1>9. /\ g \in Cache /\ g.ops = c.ops /\ g.posted = c.posted /\ g.stack = c.stack
      /\ g.entries = [c.entries EXCEPT ![e] = Closed]
      /\ g.active = IF y.doomed THEN c.active ELSE [c.active EXCEPT ![y.key] = NoEntry]
      /\ g.disk = IF y.doomed THEN c.disk ELSE [c.disk EXCEPT ![y.key] = "absent"]
  <2> HIDE DEF c1, c2, y1, y2, y, en2
  <2>1. /\ g \in Cache /\ g.ops = c2.ops /\ g.posted = c2.posted /\ g.stack = c2.stack
        /\ g.entries = [c2.entries EXCEPT ![e] = Closed]
        /\ g.active = IF c2.entries[e].doomed THEN c2.active
                      ELSE [c2.active EXCEPT ![c2.entries[e].key] = NoEntry]
        /\ g.disk = IF c2.entries[e].doomed THEN c2.disk
                    ELSE [c2.disk EXCEPT ![c2.entries[e].key] = c2.entries[e].content]
    BY <1>7, <1>8, DestroyParts
  <2> HIDE DEF g
  <2> QED
    BY <2>1, <1>2, <1>7, <1>8
<1>10. s \in Seq(Frame)
  <2>1. "ERR_CACHE_RACE" \in Results
    BY DEF Results
  <2>2. \A i \in 1 .. Len(y.queue) : Run(y.queue[i], "ERR_CACHE_RACE") \in Frame
    BY <1>1, <2>1, NewFrames
  <2>3. Len(y.queue) \in Nat
    BY <1>1
  <2> HIDE DEF y
  <2> QED
    BY <2>2, <2>3
<1>11. DoneWritingToEntry(c, e, FALSE) = Call(g, s)
  BY DEF DoneWritingToEntry
<1> HIDE DEF g, s
<1>12. Call(g, s) \in Cache /\ SameStore(g, Call(g, s)) /\ Call(g, s).stack = s \o g.stack
  BY <1>9, <1>10, CallFields
<1> QED
  BY <1>9, <1>11, <1>12 DEF SameStore, s

\* Whoever writes gives up, and its entry with it.
LEMMA WriterFails ==
    ASSUME NEW b, NEW c, NEW w, Good(b, c, w, None, NoEntry), c.stack = <<>>, NEW t \in Trans,
           NEW e, e = w[t].entry, e # NoEntry, c.entries[e].writer # None
    PROVE  Good(b, DoneWritingToEntry(c, e, FALSE), w, t, NoEntry)
<1> DEFINE d == DoneWritingToEntry(c, e, FALSE)
           c1 == WriterLeft(c, e, "new")
           y == c.entries[e]
           y1 == [y EXCEPT !.writer = None, !.content = "new"]
<1>1. /\ c \in Cache /\ e \in Entries /\ IsLive(c, e) /\ y.readers = {} /\ ~y.will
      /\ EntryOk(c, w, None, NoEntry, e) /\ ActiveOk(c)
  <2>1. /\ e \in Entries /\ IsLive(c, e) /\ y.readers = {} /\ ~y.will
    BY HolderPlaces
  <2> QED
    BY <2>1 DEF Good, Typed, EntriesOk
<1>2. Good(b, c1, w, t, e)
  <2>1. "new" \in Contents \ {"absent", "partial"}
    BY DEF Contents
  <2> DEFINE z == "new"
  <2>2. z \in Contents /\ z \notin {"absent", "partial"}
    BY <2>1
  <2> HIDE DEF z
  <2>3. Good(b, WriterLeft(c, e, z), w, t, e)
    BY <2>2, TakeWriter
  <2> QED
    BY <2>3 DEF z
<1>3. /\ d \in Cache /\ d.ops = c.ops /\ d.posted = c.posted
      /\ d.stack = [i \in 1 .. Len(y.queue) |-> Run(y.queue[i], "ERR_CACHE_RACE")] \o c.stack
      /\ d.entries = [c.entries EXCEPT ![e] = Closed]
      /\ d.active = IF y.doomed THEN c.active ELSE [c.active EXCEPT ![y.key] = NoEntry]
      /\ d.disk = IF y.doomed THEN c.disk ELSE [c.disk EXCEPT ![y.key] = "absent"]
  BY <1>1, DoneWritingParts
<1>4. /\ c.entries \in [Entries -> Entry \cup {Closed}] /\ y \in Entry /\ y.key \in Keys
      /\ y.queue \in Seq(Trans)
      /\ c.active \in [Keys -> Entries \cup {NoEntry}] /\ c.disk \in [Keys -> Contents]
      /\ y.doomed <=> c.active[y.key] # e
  BY <1>1, CacheFields, LiveFields DEF EntryOk, LinkOk
<1>5. \A k \in Keys : c.active[k] = e => k = y.key
  BY <1>1 DEF ActiveOk, Entries, NoEntry
<1>6. \A k \in Keys : c.disk[k] # "partial"
  BY <1>1 DEF ActiveOk
<1>7. /\ y1.writer = None /\ y1.readers = {} /\ ~y1.will /\ y1.queue = y.queue /\ y1 \in Entry
  <2> HIDE DEF y
  <2> QED
    BY <1>1, <1>4 DEF Entry, Contents
<1>8. /\ c1.active = c.active /\ c1.ops = c.ops /\ c1.posted = c.posted /\ c1.stack = c.stack
      /\ c1.entries = [c.entries EXCEPT ![e] = y1]
  <2> DEFINE v == [c.entries EXCEPT ![e] = y1]
  <2>1. c1 = [c EXCEPT !.entries = v]
    BY <1>4, ZenonT(60) DEF WriterLeft
  <2>2. v \in [Entries -> Entry \cup {Closed}]
    <3> HIDE DEF y1, Entry, Closed
    <3> QED
      BY <1>4, <1>7
  <2> HIDE DEF v, c1
  <2>3. /\ c1 \in Cache /\ c1.entries = v /\ c1.active = c.active /\ c1.ops = c.ops
        /\ c1.disk = c.disk /\ c1.posted = c.posted /\ c1.stack = c.stack
    BY <1>1, <2>1, <2>2, SetEntries
  <2> QED
    BY <2>3 DEF v
<1> HIDE DEF d, c1, y, y1
<1>9. \A k \in Keys : d.active[k] = IF c1.active[k] = e THEN NoEntry ELSE c1.active[k]
  BY <1>3, <1>4, <1>5, <1>8
<1>10. \A k \in Keys : d.disk[k] # "partial"
  BY <1>3, <1>4, <1>6
<1>11. /\ c1.entries[e] = y1 /\ IsLive(c1, e)
       /\ d.entries[e] = Closed /\ \A f \in Entries : f # e => d.entries[f] = c1.entries[f]
  <2>1. y1 # Closed
    BY <1>7, EntryFields
  <2> QED
    BY <2>1, <1>1, <1>3, <1>4, <1>8 DEF IsLive
<1>12. Len(d.stack) = Len(y.queue)
       /\ \A i \in 1 .. Len(y.queue) : d.stack[i] = Run(y.queue[i], "ERR_CACHE_RACE")
  <2>1. Len(y.queue) \in Nat
    BY <1>4
  <2> DEFINE s == [i \in 1 .. Len(y.queue) |-> Run(y.queue[i], "ERR_CACHE_RACE")]
  <2>2. s \in Seq({Run(y.queue[i], "ERR_CACHE_RACE") : i \in 1 .. Len(y.queue)}) /\ Len(s) = Len(y.queue)
    BY <2>1
  <2>3. \A i \in 1 .. Len(y.queue) : s[i] = Run(y.queue[i], "ERR_CACHE_RACE")
    OBVIOUS
  <2>4. d.stack = s \o <<>>
    BY <1>3
  <2> HIDE DEF s
  <2>5. s \o <<>> = s
    BY <2>2
  <2> QED
    BY <2>2, <2>3, <2>4, <2>5
<1>13. DestroyStep(c1, d, e)
  BY <1>1, <1>3, <1>7, <1>8, <1>9, <1>10, <1>11, <1>12 DEF DestroyStep
<1> QED
  BY <1>2, <1>13, Destroyed DEF d

-----------------------------------------------------------------------------
(* A transaction leaves its entry                                          *)

\* The cache when the content of an entry is z; when nobody writes it.
Filled(c, e, z) == [c EXCEPT !.entries[e].content = z]
Unwritten(c, e) == [c EXCEPT !.entries[e].writer = None]

\* The entry's content is settled before or while its writer leaves.
LEMMA WriterLeftSame ==
    ASSUME NEW c \in Cache, NEW e \in Entries, IsLive(c, e), NEW z \in Contents
    PROVE  /\ Unwritten(Filled(c, e, z), e) = WriterLeft(c, e, z)
           /\ z = c.entries[e].content => Unwritten(c, e) = WriterLeft(c, e, z)
           /\ WriterLeft(c, e, z) \in Cache /\ IsLive(WriterLeft(c, e, z), e)
           /\ WriterLeft(c, e, z).entries[e].writer = None
           /\ WriterLeft(c, e, z).stack = c.stack
<1> DEFINE y == c.entries[e]
           y1 == [y EXCEPT !.content = z]
           y2 == [y EXCEPT !.writer = None, !.content = z]
           c1 == [c EXCEPT !.entries[e].content = z]
           c2 == [c1 EXCEPT !.entries[e].writer = None]
           en1 == [c.entries EXCEPT ![e] = y1]
           en2 == [c.entries EXCEPT ![e] = y2]
<1>1. c.entries \in [Entries -> Entry \cup {Closed}] /\ y \in Entry
  BY CacheFields, LiveFields
<1>2. /\ y1 \in Entry /\ y2 \in Entry /\ y2.writer = None /\ [y1 EXCEPT !.writer = None] = y2
      /\ z = y.content => [y EXCEPT !.writer = None] = y2
  <2> HIDE DEF y
  <2>1. y2 = [[y EXCEPT !.writer = None] EXCEPT !.content = z]
    OBVIOUS
  <2> QED
    BY <1>1, <2>1 DEF Entry
<1>3. en1 \in [Entries -> Entry \cup {Closed}] /\ en2 \in [Entries -> Entry \cup {Closed}]
  <2> HIDE DEF y1, y2, Entry, Closed
  <2> QED
    BY <1>1, <1>2
<1>4. c1 = [c EXCEPT !.entries = en1]
  BY <1>1
<1> DEFINE m1 == Made(en1, c.active, c.ops, c.disk, c.posted, c.stack)
           m2 == Made(en2, c.active, c.ops, c.disk, c.posted, c.stack)
<1>5. /\ c1 = m1 /\ [c EXCEPT !.entries = en2] = m2
  <2> HIDE DEF c1, en1, en2, m1, m2
  <2>1. \A v : [c EXCEPT !.entries = v] = Made(v, c.active, c.ops, c.disk, c.posted, c.stack)
    BY ONLY c \in Cache, PartsOf
  <2> QED
    BY <1>4, <2>1 DEF m1, m2
<1>6. WriterLeft(c, e, z) = m2
  <2>1. WriterLeft(c, e, z) = [c EXCEPT !.entries = en2]
    BY <1>1 DEF WriterLeft
  <2> HIDE DEF en2, m2
  <2> QED
    BY <2>1, <1>5
<1>7. [m1 EXCEPT !.entries[e].writer = None] = m2
  <2> HIDE DEF y1, y2
  <2>1. m1.entries[e] = y1 /\ m1.entries = en1
    BY <1>1 DEF Made
  <2>2. [m1 EXCEPT !.entries[e].writer = None] = [m1 EXCEPT !.entries = en2]
    <3>1. [en1 EXCEPT ![e] = y2] = en2
      BY <1>1
    <3>2. [m1 EXCEPT !.entries[e].writer = None] = [m1 EXCEPT !.entries = [en1 EXCEPT ![e] = y2]]
      <4> HIDE DEF m1, en1, en2
      <4> QED
        BY <2>1, <1>2
    <3> HIDE DEF en2, en1, m1
    <3> QED
      BY <3>1, <3>2
  <2>3. [m1 EXCEPT !.entries = en2] = m2
    <3> HIDE DEF en1, en2
    <3> QED
      BY DEF Made
  <2> HIDE DEF m1, m2, en2
  <2> QED
    BY <2>2, <2>3
<1>8. c2 = m2
  <2> HIDE DEF c1, m1, m2
  <2> QED
    BY <1>5, <1>7
<1>9. z = y.content => [c EXCEPT !.entries[e].writer = None] = m2
  <2> SUFFICES ASSUME z = y.content PROVE [c EXCEPT !.entries[e].writer = None] = m2
    OBVIOUS
  <2>1. [c EXCEPT !.entries[e].writer = None] = [c EXCEPT !.entries = en2]
    <3> HIDE DEF y2
    <3>1. [c EXCEPT !.entries[e].writer = None]
              = [c EXCEPT !.entries = [c.entries EXCEPT ![e] = [y EXCEPT !.writer = None]]]
      OBVIOUS
    <3>2. [y EXCEPT !.writer = None] = y2
      BY <1>2
    <3> QED
      BY <3>1, <3>2
  <2> HIDE DEF en2, m2
  <2> QED
    BY <2>1, <1>5
<1>10. m2 \in Cache /\ m2.entries = en2 /\ m2.stack = c.stack
  <2> HIDE DEF en2
  <2>1. /\ c.active \in [Keys -> Entries \cup {NoEntry}]
        /\ c.ops \in [Keys -> Operation \cup {NoOp}] /\ c.disk \in [Keys -> Contents]
        /\ c.posted \in SUBSET Entries /\ c.stack \in Seq(Frame)
    BY CacheFields
  <2> QED
    BY ONLY <1>3, <2>1 DEF Made, Cache
<1>11. m2.entries[e] = y2 /\ IsLive(m2, e)
  <2> HIDE DEF m2, y2
  <2> QED
    BY <1>1, <1>2, <1>10, EntryFields DEF IsLive
<1>12. /\ Unwritten(Filled(c, e, z), e) = c2
       /\ Unwritten(c, e) = [c EXCEPT !.entries[e].writer = None]
  BY DEF Unwritten, Filled
<1> HIDE DEF m2, y2, c2
<1> QED
  BY <1>2, <1>6, <1>8, <1>9, <1>10, <1>11, <1>12

\* Whoever writes leaves the entry to the next.
LEMMA WriterLeaves ==
    ASSUME NEW b, NEW c, NEW w, Good(b, c, w, None, NoEntry), c.stack = <<>>, NEW t \in Trans,
           NEW e, e = w[t].entry, e # NoEntry, c.entries[e].writer # None,
           NEW z \in Contents, z \notin {"absent", "partial"}
    PROVE  /\ Good(b, DoneWritingToEntry(Filled(c, e, z), e, TRUE), w, t, NoEntry)
           /\ z = c.entries[e].content => Good(b, DoneWritingToEntry(c, e, TRUE), w, t, NoEntry)
<1> DEFINE d == WriterLeft(c, e, z)
<1>1. Good(b, d, w, t, e)
  BY TakeWriter
<1>2. c \in Cache /\ e \in Entries /\ IsLive(c, e)
  BY HolderPlaces DEF Good, Typed
<1>3. /\ Unwritten(Filled(c, e, z), e) = d
      /\ z = c.entries[e].content => Unwritten(c, e) = d
      /\ IsLive(d, e) /\ d.entries[e].writer = None
  BY <1>2, WriterLeftSame
<1> HIDE DEF d
<1>4. Good(b, ProcessPendingQueue(d, e), w, t, NoEntry)
  BY <1>1, <1>2, <1>3, PostTask
<1>5. \A m : DoneWritingToEntry(m, e, TRUE) = ProcessPendingQueue(Unwritten(m, e), e)
  BY DEF DoneWritingToEntry, Unwritten
<1> QED
  BY <1>3, <1>4, <1>5

\* Whoever reads leaves the entry.
LEMMA ReaderLeaves ==
    ASSUME NEW b, NEW c, NEW w, Good(b, c, w, None, NoEntry), c.stack = <<>>, NEW t \in Trans,
           NEW e, e = w[t].entry, e # NoEntry, c.entries[e].writer = None
    PROVE  Good(b, DoneReadingFromEntry(c, e, t), w, t, NoEntry)
<1> DEFINE d == [c EXCEPT !.entries[e].readers = @ \ {t}]
           y == c.entries[e]
           y1 == [y EXCEPT !.readers = @ \ {t}]
           v == [c.entries EXCEPT ![e] = y1]
<1>1. Good(b, d, w, t, e)
  BY TakeReader
<1>2. c \in Cache /\ e \in Entries /\ IsLive(c, e)
  BY HolderPlaces DEF Good, Typed
<1>3. c.entries \in [Entries -> Entry \cup {Closed}] /\ y \in Entry
  BY <1>2, CacheFields, LiveFields
<1>4. y1 \in Entry /\ y1.writer = y.writer
  <2> HIDE DEF y
  <2> QED
    BY <1>3 DEF Entry
<1>5. v \in [Entries -> Entry \cup {Closed}]
  <2> HIDE DEF y1, Entry, Closed
  <2> QED
    BY <1>3, <1>4
<1>6. d = [c EXCEPT !.entries = v]
  OBVIOUS
<1>7. d.entries = v
  <2> HIDE DEF v, d
  <2> QED
    BY <1>2, <1>5, <1>6, SetEntries
<1>8. IsLive(d, e) /\ d.entries[e].writer = None
  <2> HIDE DEF y1, d
  <2>1. d.entries[e] = y1
    BY <1>2, <1>3, <1>7
  <2> QED
    BY <2>1, <1>4, EntryFields DEF IsLive
<1> HIDE DEF d
<1>9. Good(b, ProcessPendingQueue(d, e), w, t, NoEntry)
  BY <1>1, <1>2, <1>8, PostTask
<1> QED
  BY <1>9 DEF DoneReadingFromEntry, d

\* Whoever holds an entry leaves it, and gives up if it writes.
LEMMA HolderLeaves ==
    ASSUME NEW b, NEW c, NEW w, Good(b, c, w, None, NoEntry), c.stack = <<>>, NEW t \in Trans,
           NEW e, e = w[t].entry, e # NoEntry
    PROVE  Good(b, DoneWithEntry(c, e, t, FALSE), w, t, NoEntry)
<1>1. CASE c.entries[e].writer # None
  <2>1. ~c.entries[e].will
    BY <1>1, HolderPlaces
  <2> QED
    BY <1>1, <2>1, WriterFails DEF DoneWithEntry
<1>2. CASE c.entries[e].writer = None
  <2>1. c.entries[e].readers # {}
    BY <1>2, HolderPlaces
  <2> QED
    BY <1>2, <2>1, ReaderLeaves DEF DoneWithEntry
<1> QED
  BY <1>1, <1>2

\* Whoever writes is destroyed and what it has got is kept.
LEMMA WriterKept ==
    ASSUME NEW b, NEW c, NEW w, Good(b, c, w, None, NoEntry), c.stack = <<>>, NEW t \in Trans,
           NEW e, e = w[t].entry, e # NoEntry, c.entries[e].writer # None,
           NEW z \in Contents, z \notin {"absent", "partial"}
    PROVE  Good(b, DoneWithEntry(Filled(c, e, z), e, t, TRUE), w, t, NoEntry)
<1> DEFINE y == c.entries[e]
           y1 == [y EXCEPT !.content = z]
           v == [c.entries EXCEPT ![e] = y1]
           d == Filled(c, e, z)
<1>1. c \in Cache /\ e \in Entries /\ IsLive(c, e) /\ ~y.will
  <2>1. e \in Entries /\ IsLive(c, e) /\ ~y.will
    BY HolderPlaces
  <2> QED
    BY <2>1 DEF Good, Typed
<1>2. c.entries \in [Entries -> Entry \cup {Closed}] /\ y \in Entry
  BY <1>1, CacheFields, LiveFields
<1>3. y1 \in Entry /\ y1.writer = y.writer /\ y1.will = y.will
  <2> HIDE DEF y
  <2> QED
    BY <1>2 DEF Entry
<1>4. v \in [Entries -> Entry \cup {Closed}]
  <2> HIDE DEF y1, Entry, Closed
  <2> QED
    BY <1>2, <1>3
<1>5. d = [c EXCEPT !.entries = v]
  BY DEF Filled
<1>6. d.entries = v
  <2> HIDE DEF v, d
  <2> QED
    BY <1>1, <1>4, <1>5, SetEntries
<1>7. ~d.entries[e].will /\ d.entries[e].writer # None
  <2> HIDE DEF y1, d
  <2>1. d.entries[e] = y1
    BY <1>1, <1>2, <1>6
  <2> QED
    BY <2>1, <1>1, <1>3
<1>8. Good(b, DoneWritingToEntry(d, e, TRUE), w, t, NoEntry)
  BY WriterLeaves
<1> HIDE DEF d
<1>9. DoneWithEntry(d, e, t, TRUE) = DoneWritingToEntry(d, e, TRUE)
  BY <1>7 DEF DoneWithEntry
<1> QED
  BY <1>8, <1>9 DEF d

-----------------------------------------------------------------------------
(* A truncated response is of no use                                       *)

\* A frame behind a stack.
LEMMA Behind ==
    ASSUME NEW s \in Seq(Frame), NEW f \in Frame
    PROVE  /\ s \o <<f>> \in Seq(Frame) /\ Len(s \o <<f>>) = Len(s) + 1 /\ Len(s) \in Nat
           /\ (s \o <<f>>)[Len(s) + 1] = f
           /\ \A i \in 1 .. Len(s) : (s \o <<f>>)[i] = s[i]
<1> HIDE DEF Frame
<1> QED
  OBVIOUS

\* DoLoop of the transaction in hand goes on when those that were told of the loss of an
\* entry have run.
LEMMA PutLast ==
    ASSUME NEW b, NEW c, NEW v, NEW x \in Trans, Good(b, c, v, x, NoEntry),
           v[x].next = "INIT_ENTRY", v[x].entry = NoEntry, v[x].new = NoEntry,
           v[x].key \in Keys, v[x].mode # "NONE",
           NEW d \in Cache, SameStore(c, d), d.stack = c.stack \o <<Run(x, "OK")>>
    PROVE  Good(b, d, v, None, NoEntry)
<1> DEFINE f == Run(x, "OK")
           n == Len(c.stack)
<1>1. /\ c \in Cache /\ v \in [Trans -> Transaction] /\ b \in Seq(Trans \cup {None})
      /\ c.stack \in Seq(Frame) /\ x # None /\ Nowhere(b, c, x)
      /\ StackOk(c, v, x)
  BY CacheFields, NoneAssumption DEF Good, Typed, TransactionsOk, Trans
<1>2. f \in Frame /\ f.frame = "run" /\ f.trans = x /\ f.rv = "OK"
  <2>1. "OK" \in Results
    BY DEF Results
  <2> QED
    BY <2>1, NewFrames
<1>3. /\ Len(d.stack) = n + 1 /\ n \in Nat /\ d.stack[n + 1] = f
      /\ \A i \in 1 .. n : d.stack[i] = c.stack[i]
  BY <1>1, <1>2, Behind
<1>4. \A u : InFrame(f, u) <=> u = x
  BY <1>2 DEF InFrame
<1> HIDE DEF f
<1>5. \A u : OnStack(d.stack, u) <=> OnStack(c.stack, u) \/ u = x
  BY ONLY <1>3, <1>4 DEF OnStack, n
<1>6. \A u, rv : ~RunsNow(c, x, u, rv)
  BY <1>1 DEF RunsNow
<1>7. EntriesOk(d, v, None, NoEntry)
  <2>1. ASSUME NEW g \in Entries, IsLive(d, g) PROVE EntryOk(d, v, None, NoEntry, g)
    <3>1. IsLive(c, g) /\ EntryOk(c, v, x, NoEntry, g)
      BY <2>1 DEF SameStore, IsLive, Good, EntriesOk
    <3>2. d.entries = c.entries /\ d.active = c.active /\ d.posted = c.posted
      BY DEF SameStore
    <3> QED
      BY <3>1, <3>2, <1>6, EntrySame
  <2> QED
    BY <2>1 DEF EntriesOk
<1>8. ActiveOk(d) /\ OpsOk(d, v)
  BY StoreOf DEF Good
<1>9. StackOk(d, v, None)
  <2>1. ASSUME NEW i \in 1 .. Len(d.stack) PROVE FrameOk(d, v, d.stack[i], i = 1)
    <3>1. CASE i \in 1 .. n
      <4>1. FrameOk(c, v, c.stack[i], FALSE)
        BY <1>1, <3>1 DEF StackOk
      <4>2. FrameOk(d, v, c.stack[i], FALSE)
        BY <4>1, StoreOf
      <4> QED
        BY <4>2, <3>1, <1>3, FirstNow
    <3>2. CASE i \notin 1 .. n
      <4>1. d.stack[i] = f
        BY <3>2, <1>3
      <4>2. RunOk(d, v, x, "OK", FALSE)
        BY DEF RunOk, AtCache, Turns
      <4>3. FrameOk(d, v, f, FALSE)
        BY <4>2, <1>2 DEF FrameOk
      <4> QED
        BY <4>1, <4>3, FirstNow
    <3> QED
      BY <3>1, <3>2
  <2>2. OneFrameEach(d.stack)
    <3> SUFFICES ASSUME NEW i \in 1 .. Len(d.stack), NEW j \in 1 .. Len(d.stack), NEW u \in Trans,
                        InFrame(d.stack[i], u), InFrame(d.stack[j], u)
                 PROVE  i = j
      BY DEF OneFrameEach
    <3>1. OneFrameEach(c.stack) /\ ~OnStack(c.stack, x)
      BY <1>1 DEF StackOk, Nowhere
    <3>2. CASE i \in 1 .. n /\ j \in 1 .. n
      BY <3>1, <3>2, <1>3 DEF OneFrameEach
    <3>3. CASE i \notin 1 .. n \/ j \notin 1 .. n
      <4>1. u = x
        BY <3>3, <1>3, <1>4
      <4>2. i \notin 1 .. n /\ j \notin 1 .. n
        BY <4>1, <3>1, <1>3 DEF OnStack
      <4> QED
        BY <4>2, <1>3
    <3> QED
      BY <3>2, <3>3
  <2> QED
    BY <2>1, <2>2 DEF StackOk
<1>10. ASSUME NEW u \in Trans, u # x PROVE TransactionOk(b, d, v, None, u)
  <2>1. TransactionOk(b, c, v, x, u) /\ v[u] \in Transaction
    BY <1>1, <1>10 DEF Good, TransactionsOk
  <2>2. OnStack(d.stack, u) <=> OnStack(c.stack, u)
    BY <1>5, <1>10
  <2>3. /\ Waits(b, d, u) <=> Waits(b, c, u)
        /\ \A g \in Entries : Queued(c, u, g) => Queued(d, u, g)
        /\ \A g \in Entries : IsLive(c, g) /\ Uses(c, u, g) => IsLive(d, g) /\ Uses(d, u, g)
    BY StoreOf
  <2>4. Has(c.stack, Run(u, "ERR_CACHE_RACE")) => Has(d.stack, Run(u, "ERR_CACHE_RACE"))
    BY ONLY <1>3 DEF Has, n
  <2>5. d.entries = c.entries
    BY DEF SameStore
  <2> QED
    BY <2>1, <2>2, <2>3, <2>4, <2>5, <1>6, TransactionSame
<1>11. TransactionOk(b, d, v, None, x)
  <2>1. PlaceOk(b, d, v, x)
    <3>1. ~Waits(b, d, x)
      BY <1>1, StoreOf DEF Nowhere
    <3> QED
      BY <3>1, <1>5 DEF PlaceOk
  <2>2. NewOk(d, v, None, x)
    BY DEF NewOk
  <2>3. HoldOk(d, v, x)
    BY HoldsNothing DEF Turns
  <2> QED
    BY <2>1, <2>2, <2>3 DEF TransactionOk
<1> QED
  BY <1>1, <1>7, <1>8, <1>9, <1>10, <1>11 DEF Good, Typed, TransactionsOk

\* An entry is doomed in the same way whatever runs.
LEMMA DoomedTwice ==
    ASSUME NEW c \in Cache, NEW d \in Cache, SameStore(c, d), NEW k \in Keys,
           c.active[k] # NoEntry => IsLive(c, c.active[k])
    PROVE  /\ DoomEntry(c, k, None) \in Cache /\ DoomEntry(d, k, None) \in Cache
           /\ SameStore(DoomEntry(c, k, None), DoomEntry(d, k, None))
           /\ DoomEntry(d, k, None).stack = d.stack
<1>1. d.entries = c.entries /\ d.active = c.active /\ d.ops = c.ops /\ d.disk = c.disk
      /\ d.posted = c.posted
  BY DEF SameStore
<1>2. CASE c.active[k] = NoEntry
  <2> DEFINE x == None
             op == "DOOM"
             z == IF c.ops[k] = NoOp THEN [op |-> op, trans |-> x, queue |-> <<>>]
                  ELSE [c.ops[k] EXCEPT !.queue = Append(@, [op |-> op, trans |-> x])]
             en == [c.ops EXCEPT ![k] = z]
  <2>1. /\ DoomEntry(c, k, None) = QueueOperation(c, k, op, x)
        /\ DoomEntry(d, k, None) = QueueOperation(d, k, op, x)
    BY <1>1, <1>2 DEF DoomEntry, FindActiveEntry
  <2>2. x \in Trans \cup {None} /\ op \in Ops
    BY DEF Ops
  <2>3. QueueOperation(c, k, op, x) = [c EXCEPT !.ops = en]
    BY DEF QueueOperation
  <2>4. QueueOperation(d, k, op, x) = [d EXCEPT !.ops = en]
    BY <1>1 DEF QueueOperation
  <2> HIDE DEF x, op, en
  <2>5. QueueOperation(c, k, op, x) \in Cache /\ QueueOperation(d, k, op, x) \in Cache
    BY <2>2, QueueOperationFields
  <2>6. /\ [c EXCEPT !.ops = en] = Made(c.entries, c.active, en, c.disk, c.posted, c.stack)
        /\ [d EXCEPT !.ops = en] = Made(d.entries, d.active, en, d.disk, d.posted, d.stack)
    BY ONLY c \in Cache, d \in Cache, PartsOf
  <2>7. /\ SameStore(QueueOperation(c, k, op, x), QueueOperation(d, k, op, x))
        /\ QueueOperation(d, k, op, x).stack = d.stack
    BY ONLY <1>1, <2>3, <2>4, <2>6 DEF Made, SameStore
  <2> QED
    BY <2>1, <2>5, <2>7
<1>3. CASE c.active[k] # NoEntry
  <2>1. DoomEntry(c, k, None) = Doomed(c, k) /\ DoomEntry(d, k, None) = Doomed(d, k)
    BY <1>1, <1>3 DEF DoomEntry, FindActiveEntry, Doomed
  <2>2. d.active[k] # NoEntry /\ IsLive(c, c.active[k]) /\ IsLive(d, d.active[k])
    BY <1>1, <1>3 DEF IsLive
  <2>3. LET m == Doomed(c, k) IN
        /\ m \in Cache /\ m.ops = c.ops /\ m.posted = c.posted /\ m.stack = c.stack
        /\ m.entries = [c.entries EXCEPT ![c.active[k]].doomed = TRUE]
        /\ m.active = [c.active EXCEPT ![k] = NoEntry]
        /\ m.disk = [c.disk EXCEPT ![k] = "absent"]
    BY <2>2, <1>3, DoomedFields
  <2>4. LET m == Doomed(d, k) IN
        /\ m \in Cache /\ m.ops = d.ops /\ m.posted = d.posted /\ m.stack = d.stack
        /\ m.entries = [d.entries EXCEPT ![d.active[k]].doomed = TRUE]
        /\ m.active = [d.active EXCEPT ![k] = NoEntry]
        /\ m.disk = [d.disk EXCEPT ![k] = "absent"]
    BY <2>2, DoomedFields
  <2> QED
    BY <2>1, <2>3, <2>4, <1>1 DEF SameStore
<1> QED
  BY <1>2, <1>3

\* A writer fails in the same way whatever runs.
LEMMA FailsTwice ==
    ASSUME NEW c \in Cache, NEW d \in Cache, SameStore(c, d), NEW e \in Entries, IsLive(c, e),
           NEW f \in Frame, c.stack = <<>>, d.stack = <<f>>
    PROVE  LET m == DoneWritingToEntry(c, e, FALSE)
               n == DoneWritingToEntry(d, e, FALSE)
           IN  /\ SameStore(m, n) /\ n.stack = m.stack \o <<f>> /\ n \in Cache
<1> DEFINE m == DoneWritingToEntry(c, e, FALSE)
           n == DoneWritingToEntry(d, e, FALSE)
           y == c.entries[e]
           s == [i \in 1 .. Len(y.queue) |-> Run(y.queue[i], "ERR_CACHE_RACE")]
<1>1. d.entries = c.entries /\ d.active = c.active /\ d.ops = c.ops /\ d.disk = c.disk
      /\ d.posted = c.posted /\ IsLive(d, e)
  BY DEF SameStore, IsLive
<1>2. /\ m \in Cache /\ m.ops = c.ops /\ m.posted = c.posted /\ m.stack = s \o c.stack
      /\ m.entries = [c.entries EXCEPT ![e] = Closed]
      /\ m.active = IF y.doomed THEN c.active ELSE [c.active EXCEPT ![y.key] = NoEntry]
      /\ m.disk = IF y.doomed THEN c.disk ELSE [c.disk EXCEPT ![y.key] = "absent"]
  BY DoneWritingParts
<1>3. /\ n \in Cache /\ n.ops = c.ops /\ n.posted = c.posted /\ n.stack = s \o d.stack
      /\ n.entries = [c.entries EXCEPT ![e] = Closed]
      /\ n.active = IF y.doomed THEN c.active ELSE [c.active EXCEPT ![y.key] = NoEntry]
      /\ n.disk = IF y.doomed THEN c.disk ELSE [c.disk EXCEPT ![y.key] = "absent"]
  <2>1. LET g == DoneWritingToEntry(d, e, FALSE)
            u == d.entries[e]
        IN
        /\ g \in Cache /\ g.ops = d.ops /\ g.posted = d.posted
        /\ g.stack = [i \in 1 .. Len(u.queue) |-> Run(u.queue[i], "ERR_CACHE_RACE")] \o d.stack
        /\ g.entries = [d.entries EXCEPT ![e] = Closed]
        /\ g.active = IF u.doomed THEN d.active ELSE [d.active EXCEPT ![u.key] = NoEntry]
        /\ g.disk = IF u.doomed THEN d.disk ELSE [d.disk EXCEPT ![u.key] = "absent"]
    BY <1>1, DoneWritingParts
  <2> QED
    BY <2>1, <1>1
<1> HIDE DEF m, n
<1>4. SameStore(m, n)
  BY <1>2, <1>3 DEF SameStore
<1>5. s \o c.stack = s
  <2>1. s \in Seq({Run(y.queue[i], "ERR_CACHE_RACE") : i \in 1 .. Len(y.queue)})
    <3>1. Len(y.queue) \in Nat
      BY LiveFields
    <3> QED
      BY <3>1
  <2> HIDE DEF s
  <2> QED
    BY <2>1
<1> QED
  BY <1>2, <1>3, <1>4, <1>5 DEF m, n

\* A truncated response is dropped and its transaction starts again as a writer.
LEMMA Dropped ==
    ASSUME NEW b, NEW c, NEW w, Good(b, c, w, None, NoEntry), c.stack = <<>>, NEW t \in Trans,
           NEW e, e = w[t].entry, e # NoEntry, c.entries[e].writer # None, NEW k \in Keys,
           NEW r \in Transaction, r.next = "INIT_ENTRY", r.entry = NoEntry, r.new = NoEntry,
           r.key \in Keys, r.mode # "NONE"
    PROVE  Good(b, DoneWithEntry(DoomEntry(Call(c, <<Run(t, "OK")>>), k, None), e, t, FALSE),
                [w EXCEPT ![t] = r], None, NoEntry)
<1> DEFINE f == Run(t, "OK")
           c1 == DoomEntry(c, k, None)
           c2 == Call(c, <<f>>)
           d == DoomEntry(c2, k, None)
           m == DoneWritingToEntry(c1, e, FALSE)
           n == DoneWritingToEntry(d, e, FALSE)
           v == [w EXCEPT ![t] = r]
<1>1. /\ e \in Entries /\ IsLive(c, e) /\ ~c.entries[e].will
  BY HolderPlaces
<1>2. c \in Cache /\ w \in [Trans -> Transaction] /\ ActiveOk(c)
  BY DEF Good, Typed
<1>3. f \in Frame
  <2>1. "OK" \in Results
    BY DEF Results
  <2> QED
    BY <2>1, NewFrames
<1>4. /\ Good(b, c1, w, None, NoEntry) /\ c1.stack = <<>>
      /\ c1.entries[e].writer = c.entries[e].writer /\ c1.entries[e].will = c.entries[e].will
  BY <1>1, DoomUnderWay
<1> HIDE DEF f
<1>5. c2 \in Cache /\ SameStore(c, c2) /\ c2.stack = <<f>>
  <2>1. <<f>> \in Seq(Frame)
    BY <1>3
  <2>2. c2 \in Cache /\ SameStore(c, c2) /\ c2.stack = <<f>> \o c.stack
    BY <1>2, <2>1, CallFields
  <2> HIDE DEF c2
  <2> QED
    BY <2>2
<1> HIDE DEF c2
<1>6. c1 \in Cache /\ d \in Cache /\ SameStore(c1, d) /\ d.stack = <<f>>
  <2>1. c.active[k] # NoEntry => IsLive(c, c.active[k])
    BY <1>2 DEF ActiveOk
  <2> QED
    BY <1>2, <1>5, <2>1, DoomedTwice
<1> HIDE DEF c1, d
<1>7. IsLive(c1, e) /\ c1.entries[e].writer # None
  BY <1>4, HolderPlaces
<1>8. SameStore(m, n) /\ n.stack = m.stack \o <<f>> /\ n \in Cache
  BY <1>1, <1>3, <1>4, <1>6, <1>7, FailsTwice
<1>9. Good(b, m, w, t, NoEntry)
  BY <1>4, <1>7, WriterFails
<1> HIDE DEF m, n
<1>10. Good(b, m, v, t, NoEntry)
  BY <1>9, InHand
<1>11. v[t] = r
  BY <1>2
<1> HIDE DEF v
<1>12. Good(b, n, v, None, NoEntry)
  BY <1>8, <1>10, <1>11, PutLast DEF f
<1>13. DoneWithEntry(d, e, t, FALSE) = n
  <2>1. ~d.entries[e].will /\ d.entries[e].writer # None
    BY <1>1, <1>4, <1>6, <1>7 DEF SameStore
  <2> QED
    BY <2>1 DEF DoneWithEntry, n
<1> QED
  BY <1>12, <1>13 DEF v, d, c2, f

\* Records of transactions that have no business with the cache.
LEMMA Blank ==
    /\ Unborn \in Transaction /\ Unborn.next = "UNBORN"
    /\ Past \in Transaction /\ Past.next = "past"
    /\ [Unborn EXCEPT !.next = "GONE"] \in Transaction
    /\ [Unborn EXCEPT !.next = "GONE"].next = "GONE"
    /\ Past.entry = NoEntry /\ Past.new = NoEntry
    /\ [Unborn EXCEPT !.next = "GONE"].entry = NoEntry /\ [Unborn EXCEPT !.next = "GONE"].new = NoEntry
    /\ Past.mode = "NONE" /\ Unborn.entry = NoEntry /\ Unborn.new = NoEntry
<1>1. \A s \in Outside : LET r == [Unborn EXCEPT !.next = s] IN
          r \in Transaction /\ r.next = s /\ r.entry = NoEntry /\ r.new = NoEntry /\ r.mode = "NONE"
  BY DEF Unborn, Transaction, Modes, Outside
<1>2. Unborn \in Transaction /\ Unborn.next = "UNBORN"
      /\ Unborn.entry = NoEntry /\ Unborn.new = NoEntry
  BY DEF Unborn, Transaction, Modes, Outside
<1> QED
  BY <1>1, <1>2 DEF Past, Outside

\* The transaction in hand leaves the cache.
LEMMA Leaves ==
    ASSUME NEW b, NEW c, NEW w, NEW t \in Trans, NEW o, Good(b, c, w, t, o), NEW r \in Transaction,
           r.next \in Outside, r.entry = NoEntry, r.new = NoEntry
    PROVE  Good(b, c, [w EXCEPT ![t] = r], None, o)
<1> DEFINE v == [w EXCEPT ![t] = r]
<1>1. Good(b, c, v, t, o)
  BY InHand
<1>2. v[t] = r
  BY DEF Good, Typed
<1> HIDE DEF v
<1>3. Good(b, c, v, None, o)
  BY <1>1, <1>2, PutOutside
<1> QED
  BY <1>3 DEF v

-----------------------------------------------------------------------------
(* A transaction that waits is destroyed                                   *)

\* Where the j-th element of a sequence without its n-th element was before.
Skip(n, j) == IF j < n THEN j ELSE j + 1

\* r is q without its n-th element.
IsRest(S, q, n, r) ==
    /\ r \in Seq(S) /\ Len(r) = Len(q) - 1 /\ Len(q) \in Nat
    /\ \A j \in 1 .. Len(r) : Skip(n, j) \in 1 .. Len(q) /\ Skip(n, j) # n /\ r[j] = q[Skip(n, j)]
    /\ \A i \in 1 .. Len(q) : i # n => \E j \in 1 .. Len(r) : Skip(n, j) = i /\ r[j] = q[i]
    /\ \A i, j \in 1 .. Len(r) : Skip(n, i) = Skip(n, j) => i = j
    /\ n # 1 => \A j \in 2 .. Len(r) : Skip(n, j) \in 2 .. Len(q)

\* Such is what RemoveAt makes.
LEMMA WithoutOne ==
    ASSUME NEW S, NEW q \in Seq(S), NEW n \in 1 .. Len(q)
    PROVE  IsRest(S, q, n, RemoveAt(q, n))
<1> DEFINE r == RemoveAt(q, n)
<1>1. /\ r \in Seq(S) /\ Len(r) = Len(q) - 1
      /\ \A j \in 1 .. Len(q) - 1 : r[j] = IF j < n THEN q[j] ELSE q[j + 1]
  BY RemovedOne
<1>2. Len(q) \in Nat /\ n \in Nat
  OBVIOUS
<1> HIDE DEF r
<1>3. ASSUME NEW j \in 1 .. Len(r)
      PROVE  LET p == IF j < n THEN j ELSE j + 1 IN
             p \in 1 .. Len(q) /\ p # n /\ r[j] = q[p]
  <2>1. CASE j < n
    BY <2>1, <1>1, <1>2
  <2>2. CASE ~(j < n)
    BY <2>2, <1>1, <1>2
  <2> QED
    BY <2>1, <2>2
<1>4. ASSUME NEW i \in 1 .. Len(q), i # n
      PROVE  \E j \in 1 .. Len(r) : (IF j < n THEN j ELSE j + 1) = i /\ r[j] = q[i]
  <2>1. CASE i < n
    <3>1. i \in 1 .. Len(r) /\ r[i] = q[i]
      BY <2>1, <1>1, <1>2
    <3> QED
      BY <3>1, <2>1
  <2>2. CASE ~(i < n)
    <3>1. i - 1 \in 1 .. Len(r) /\ ~(i - 1 < n) /\ (i - 1) + 1 = i /\ r[i - 1] = q[i]
      BY <2>2, <1>1, <1>2, <1>4
    <3> QED
      BY <3>1
  <2> QED
    BY <2>1, <2>2
<1>5. /\ \A i, j \in 1 .. Len(r) : Skip(n, i) = Skip(n, j) => i = j
      /\ n # 1 => \A j \in 2 .. Len(r) : Skip(n, j) \in 2 .. Len(q)
  BY <1>1, <1>2 DEF Skip
<1> QED
  BY <1>1, <1>2, <1>3, <1>4, <1>5 DEF r, Skip, IsRest

\* The items of a queue without the first one of t.
WithoutItem(q, t) == RemoveFirstMatch(q, LAMBDA i : i.trans = t)

\* No other goes.
LEMMA ItemRemoved ==
    ASSUME NEW w, NEW k, NEW q \in Seq(Item), ItemsOk(w, k, q), NEW t \in Trans
    PROVE  LET r == WithoutItem(q, t) IN
           /\ r \in Seq(Item) /\ ItemsOk(w, k, r)
           /\ \A u : InItems(r, u) <=> InItems(q, u) /\ u # t
<1> DEFINE r == WithoutItem(q, t)
<1>0. t # None
  BY NoneAssumption DEF Trans
<1>1. CASE ~InItems(q, t)
  <2>1. r = q
    BY <1>1 DEF WithoutItem, RemoveFirstMatch, InItems
  <2> QED
    BY <1>1, <2>1 DEF InItems
<1>2. CASE InItems(q, t)
  <2>1. PICK n \in 1 .. Len(q) : q[n].trans = t
    BY <1>2 DEF InItems
  <2>2. {i \in 1 .. Len(q) : q[i].trans = t} = {n}
    BY <2>1, <1>0 DEF ItemsOk, Once
  <2>3. Min({n}) = n
    BY DEF Min
  <2>4. r = RemoveAt(q, n)
    BY <2>1, <2>2, <2>3 DEF WithoutItem, RemoveFirstMatch, SelectInSeq
  <2> HIDE DEF r, Item
  <2>10. IsRest(Item, q, n, r)
    BY <2>4, WithoutOne
  <2>5. /\ r \in Seq(Item) /\ Len(r) = Len(q) - 1 /\ Len(q) \in Nat
        /\ \A j \in 1 .. Len(r) : Skip(n, j) \in 1 .. Len(q) /\ Skip(n, j) # n /\ r[j] = q[Skip(n, j)]
        /\ \A i \in 1 .. Len(q) : i # n => \E j \in 1 .. Len(r) : Skip(n, j) = i /\ r[j] = q[i]
    BY <2>10 DEF IsRest
  <2>6. \A i, j \in 1 .. Len(r) : Skip(n, i) = Skip(n, j) => i = j
    BY <2>10 DEF IsRest
  <2>7. \A u : InItems(r, u) <=> InItems(q, u) /\ u # t
    <3>1. ASSUME NEW u, NEW j \in 1 .. Len(r), r[j].trans = u PROVE InItems(q, u) /\ u # t
      BY <3>1, <2>2, <2>5 DEF InItems
    <3>2. ASSUME NEW u, NEW i \in 1 .. Len(q), q[i].trans = u, u # t PROVE InItems(r, u)
      BY <3>2, <2>1, <2>5 DEF InItems
    <3> QED
      BY <3>1, <3>2 DEF InItems
  <2>8. Once(r)
    <3> SUFFICES ASSUME NEW i \in 1 .. Len(r), NEW j \in 1 .. Len(r), r[i].trans = r[j].trans,
                        r[i].trans # None
                 PROVE  i = j
      BY DEF Once
    <3>1. /\ Skip(n, i) \in 1 .. Len(q) /\ r[i] = q[Skip(n, i)] /\ Skip(n, j) \in 1 .. Len(q) /\ r[j] = q[Skip(n, j)]
      BY <2>5
    <3>2. Skip(n, i) = Skip(n, j)
      BY <3>1 DEF ItemsOk, Once
    <3> QED
      BY <3>2, <2>6
  <2>9. \A i \in 1 .. Len(r) : ItemOk(w, k, r[i].op, r[i].trans)
    BY <2>5 DEF ItemsOk
  <2> QED
    BY <2>5, <2>7, <2>8, <2>9 DEF ItemsOk, r
<1> QED
  BY <1>1, <1>2

\* Whoever waits for the backend does not any more.
LEMMA BackendRemoved ==
    ASSUME NEW w, NEW b \in Seq(Trans \cup {None}), BackendOpOk(b, w), NEW t \in Trans
    PROVE  LET a == IF Contains(b, t)
                    THEN IF Head(b) = t THEN <<None>> \o Tail(b) ELSE RemoveFirst(b, t)
                    ELSE b
           IN
           /\ a \in Seq(Trans \cup {None}) /\ BackendOpOk(a, w)
           /\ \A u \in Trans : Has(a, u) <=> Has(b, u) /\ u # t
<1> DEFINE a == IF Contains(b, t)
                THEN IF Head(b) = t THEN <<None>> \o Tail(b) ELSE RemoveFirst(b, t)
                ELSE b
<1>0. t # None /\ \A u \in Trans : u # None
  BY NoneAssumption DEF Trans
<1>1. Contains(b, t) <=> Has(b, t)
  BY DEF Contains, Has
<1>2. CASE ~Has(b, t)
  BY <1>1, <1>2
<1>3. CASE Has(b, t) /\ Head(b) = t
  <2> DEFINE S == Trans \cup {None}
             s == Tail(b)
  <2>1. a = <<None>> \o s
    BY <1>1, <1>3
  <2>2. b # <<>>
    BY <1>3 DEF Has
  <2>3. /\ b[1] = t /\ s \in Seq(S) /\ Len(b) \in Nat /\ Len(s) = Len(b) - 1 /\ 1 \in 1 .. Len(b)
        /\ \A i \in 1 .. Len(s) : s[i] = b[i + 1]
    BY <2>2, <1>3, FirstOf
  <2>4. None \in S
    OBVIOUS
  <2> HIDE DEF S, s, a
  <2>5. /\ a \in Seq(S) /\ Len(a) = Len(b) /\ a[1] = None
        /\ \A i \in 2 .. Len(a) : a[i] = b[i]
    <3>1. /\ <<None>> \o s \in Seq(S) /\ Len(<<None>> \o s) = Len(s) + 1
          /\ (<<None>> \o s)[1] = None
          /\ \A i \in 2 .. Len(s) + 1 : (<<None>> \o s)[i] = s[i - 1]
      BY <2>3, <2>4, InFront
    <3> QED
      BY <2>1, <2>3, <3>1
  <2>6. \A i \in 2 .. Len(a) : a[i] # None
    BY <2>5 DEF BackendOpOk
  <2>7. BackendOpOk(a, w)
    <3>1. NoneTwice(a)
      <4> SUFFICES ASSUME NEW i \in 1 .. Len(a), NEW j \in 1 .. Len(a), a[i] = a[j] PROVE i = j
        BY DEF NoneTwice
      <4>1. CASE i = 1 \/ j = 1
        BY <4>1, <2>3, <2>5, <2>6
      <4>2. CASE i # 1 /\ j # 1
        BY <4>2, <2>3, <2>5 DEF BackendOpOk, NoneTwice
      <4> QED
        BY <4>1, <4>2
    <3>2. \A i \in 1 .. Len(a) : a[i] # None => w[a[i]].next = "GET_BACKEND_COMPLETE"
      BY <2>3, <2>5 DEF BackendOpOk
    <3> QED
      BY <2>6, <3>1, <3>2 DEF BackendOpOk
  <2>8. ASSUME NEW u \in Trans PROVE Has(a, u) <=> Has(b, u) /\ u # t
    <3>1. Has(a, u) => Has(b, u) /\ u # t
      <4> SUFFICES ASSUME NEW i \in 1 .. Len(a), a[i] = u PROVE Has(b, u) /\ u # t
        BY DEF Has
      <4>1. i # 1 /\ i \in 2 .. Len(a) /\ i \in 1 .. Len(b)
        BY <1>0, <2>3, <2>5
      <4> QED
        BY <4>1, <2>3, <2>5 DEF BackendOpOk, NoneTwice, Has
    <3>2. Has(b, u) /\ u # t => Has(a, u)
      <4> SUFFICES ASSUME NEW i \in 1 .. Len(b), b[i] = u, u # t PROVE Has(a, u)
        BY DEF Has
      <4>1. i # 1 /\ i \in 2 .. Len(a) /\ i \in 1 .. Len(a)
        BY <2>3, <2>5
      <4> QED
        BY <4>1, <2>5 DEF Has
    <3> QED
      BY <3>1, <3>2
  <2> QED
    BY <2>5, <2>7, <2>8 DEF a, S
<1>4. CASE Has(b, t) /\ Head(b) # t
  <2> DEFINE S == Trans \cup {None}
  <2>1. PICK n \in 1 .. Len(b) : b[n] = t
    BY <1>4 DEF Has
  <2>2. {i \in 1 .. Len(b) : b[i] = t} = {n}
    BY <2>1 DEF BackendOpOk, NoneTwice
  <2>3. Min({n}) = n
    BY DEF Min
  <2>4. a = RemoveAt(b, n)
    BY <1>1, <1>4, <2>1, <2>2, <2>3 DEF RemoveFirst, SelectInSeq
  <2>5. n # 1 /\ b \in Seq(S)
    BY <1>4, <2>1
  <2> HIDE DEF a, S
  <2>10. IsRest(S, b, n, a)
    BY <2>4, <2>5, WithoutOne
  <2>6. /\ a \in Seq(S) /\ Len(a) = Len(b) - 1 /\ Len(b) \in Nat
        /\ \A j \in 1 .. Len(a) : Skip(n, j) \in 1 .. Len(b) /\ Skip(n, j) # n /\ a[j] = b[Skip(n, j)]
        /\ \A i \in 1 .. Len(b) : i # n => \E j \in 1 .. Len(a) : Skip(n, j) = i /\ a[j] = b[i]
    BY <2>10, <2>5 DEF IsRest
  <2>7. /\ \A i, j \in 1 .. Len(a) : Skip(n, i) = Skip(n, j) => i = j
        /\ \A i \in 2 .. Len(a) : Skip(n, i) \in 2 .. Len(b)
    BY <2>10, <2>5 DEF IsRest
  <2>8. BackendOpOk(a, w)
    <3>1. NoneTwice(a)
      <4> SUFFICES ASSUME NEW i \in 1 .. Len(a), NEW j \in 1 .. Len(a), a[i] = a[j] PROVE i = j
        BY DEF NoneTwice
      <4>1. Skip(n, i) = Skip(n, j)
        BY <2>6 DEF BackendOpOk, NoneTwice
      <4> QED
        BY <4>1, <2>7
    <3>2. ASSUME NEW i \in 1 .. Len(a), a[i] # None PROVE w[a[i]].next = "GET_BACKEND_COMPLETE"
      <4>1. Skip(n, i) \in 1 .. Len(b) /\ a[i] = b[Skip(n, i)]
        BY <2>6
      <4> QED
        BY <3>2, <4>1 DEF BackendOpOk
    <3>3. \A i \in 2 .. Len(a) : a[i] # None
      <4> SUFFICES ASSUME NEW i \in 2 .. Len(a) PROVE a[i] # None
        OBVIOUS
      <4>1. i \in 1 .. Len(a) /\ Skip(n, i) \in 2 .. Len(b)
        BY <2>6, <2>7
      <4> QED
        BY <4>1, <2>6 DEF BackendOpOk
    <3> QED
      BY <3>1, <3>2, <3>3 DEF BackendOpOk
  <2>9. ASSUME NEW u \in Trans PROVE Has(a, u) <=> Has(b, u) /\ u # t
    <3>1. ASSUME NEW j \in 1 .. Len(a), a[j] = u PROVE Has(b, u) /\ u # t
      BY <3>1, <2>1, <2>2, <2>6 DEF Has
    <3>2. ASSUME NEW i \in 1 .. Len(b), b[i] = u, u # t PROVE Has(a, u)
      BY <3>2, <2>1, <2>6 DEF Has
    <3> QED
      BY <3>1, <3>2 DEF Has
  <2> QED
    BY <2>6, <2>8, <2>9 DEF a, S
<1> QED
  BY <1>2, <1>3, <1>4

\* The operations of key k without t.
OutOfOperation(c, k, t) ==
    IF c.ops[k] = NoOp THEN c
    ELSE IF c.ops[k].trans = t THEN [c EXCEPT !.ops[k].trans = None]
    ELSE [c EXCEPT !.ops[k].queue = WithoutItem(@, t)]

\* What they are.
LEMMA OperationRemoved ==
    ASSUME NEW b, NEW c, NEW w, NEW o, Good(b, c, w, None, o), NEW t \in Trans, NEW k \in Keys
    PROVE  LET d == OutOfOperation(c, k, t) IN
           /\ d \in Cache /\ d.entries = c.entries /\ d.active = c.active /\ d.posted = c.posted
           /\ d.disk = c.disk /\ d.stack = c.stack /\ OpsOk(d, w)
           /\ \A u \in Trans, j \in Keys :
                  InOperation(d, u, j) <=> InOperation(c, u, j) /\ ~(u = t /\ j = k)
<1> DEFINE d == OutOfOperation(c, k, t)
           y == c.ops[k]
           q == WithoutItem(y.queue, t)
<1>1. /\ c \in Cache /\ OpsOk(c, w) /\ t # None /\ \A u \in Trans : u # None
      /\ \A j \in Keys : c.ops[j] \in Operation \cup {NoOp}
      /\ c.ops \in [Keys -> Operation \cup {NoOp}]
  BY CacheFields, NoneAssumption DEF Good, Typed, Trans
<1>2. CASE y = NoOp
  <2>1. d = c
    BY <1>2 DEF OutOfOperation
  <2>2. \A u : ~InOperation(c, u, k)
    BY <1>2 DEF InOperation
  <2> QED
    BY <1>1, <2>1, <2>2
<1>3. CASE y # NoOp
  <2>1. /\ y \in Operation /\ y.op \in Ops /\ y.trans \in Trans \cup {None} /\ y.queue \in Seq(Item)
        /\ c.active[k] = NoEntry /\ ItemOk(w, k, y.op, y.trans) /\ ItemsOk(w, k, y.queue)
        /\ y.trans # None => ~InItems(y.queue, y.trans)
    BY <1>1, <1>3, OperationFields DEF OpsOk
  <2>2. q \in Seq(Item) /\ ItemsOk(w, k, q) /\ \A u : InItems(q, u) <=> InItems(y.queue, u) /\ u # t
    BY <2>1, ItemRemoved
  <2> DEFINE z == IF y.trans = t THEN [y EXCEPT !.trans = None] ELSE [y EXCEPT !.queue = q]
             v == [c.ops EXCEPT ![k] = z]
  <2>3. d = [c EXCEPT !.ops = v]
    BY <1>3 DEF OutOfOperation
  <2> HIDE DEF q
  <2>4. /\ z \in Operation /\ z.op = y.op
        /\ z.trans = IF y.trans = t THEN None ELSE y.trans
        /\ z.queue = IF y.trans = t THEN y.queue ELSE q
    <3> HIDE DEF y, Item
    <3>1. CASE y.trans = t
      BY <2>1, <3>1 DEF Operation
    <3>2. CASE y.trans # t
      BY <2>1, <2>2, <3>2 DEF Operation
    <3> QED
      BY <3>1, <3>2
  <2>5. z # NoOp
    BY <2>4, OperationFields
  <2> HIDE DEF z, d
  <2>6. v \in [Keys -> Operation \cup {NoOp}] /\ v[k] = z /\ \A j \in Keys : j # k => v[j] = c.ops[j]
    <3> HIDE DEF Operation, NoOp
    <3> QED
      BY <1>1, <2>4
  <2> HIDE DEF v
  <2>7. [c EXCEPT !.ops = v] = Made(c.entries, c.active, v, c.disk, c.posted, c.stack)
    BY ONLY <1>1, PartsOf
  <2>8. /\ d \in Cache /\ d.entries = c.entries /\ d.active = c.active /\ d.posted = c.posted
        /\ d.disk = c.disk /\ d.stack = c.stack /\ d.ops = v
    <3>1. /\ c.entries \in [Entries -> Entry \cup {Closed}]
          /\ c.active \in [Keys -> Entries \cup {NoEntry}]
          /\ c.disk \in [Keys -> Contents] /\ c.posted \in SUBSET Entries
          /\ c.stack \in Seq(Frame)
      BY <1>1, CacheFields
    <3> QED
      BY ONLY <3>1, <2>3, <2>6, <2>7 DEF Made, Cache
  <2>9. /\ ItemOk(w, k, z.op, z.trans) /\ ItemsOk(w, k, z.queue)
        /\ z.trans # None => ~InItems(z.queue, z.trans)
    <3>1. CASE y.trans = t
      BY <3>1, <2>1, <2>4 DEF ItemOk
    <3>2. CASE y.trans # t
      BY <3>2, <2>1, <2>2, <2>4
    <3> QED
      BY <3>1, <3>2
  <2>10. OpsOk(d, w)
    BY <1>1, <2>1, <2>6, <2>8, <2>9 DEF OpsOk
  <2>11. ASSUME NEW u \in Trans PROVE InOperation(d, u, k) <=> InOperation(c, u, k) /\ u # t
    <3>1. InOperation(d, u, k) <=> z.trans = u \/ InItems(z.queue, u)
      BY <2>5, <2>6, <2>8 DEF InOperation
    <3>2. InOperation(c, u, k) <=> y.trans = u \/ InItems(y.queue, u)
      BY <1>3 DEF InOperation
    <3>3. CASE y.trans = t
      BY <3>1, <3>2, <3>3, <2>1, <2>4, <1>1
    <3>4. CASE y.trans # t
      BY <3>1, <3>2, <3>4, <2>2, <2>4
    <3> QED
      BY <3>3, <3>4
  <2>12. \A u \in Trans, j \in Keys : j # k => (InOperation(d, u, j) <=> InOperation(c, u, j))
    BY <2>6, <2>8 DEF InOperation
  <2> QED
    BY <2>8, <2>10, <2>11, <2>12 DEF d
<1> QED
  BY <1>2, <1>3

\* Between tasks, a transaction that waits for the cache is taken from where it waits.
LEMMA TakeWaiting ==
    ASSUME NEW b, NEW c, NEW w, Good(b, c, w, None, NoEntry), c.stack = <<>>, NEW t \in Trans,
           w[t].next \in AtCache, tr[t].key = w[t].key, NEW a,
           a = IF Contains(b, t)
               THEN IF Head(b) = t THEN <<None>> \o Tail(b) ELSE RemoveFirst(b, t)
               ELSE b
    PROVE  Good(a, RemovePendingTransaction(c, t), w, t, NoEntry)
<1> DEFINE k == w[t].key
           queued == {e \in Entries : c.entries[e] # Closed /\ Contains(c.entries[e].queue, t)}
<1>1. /\ c \in Cache /\ b \in Seq(Trans \cup {None}) /\ BackendOpOk(b, w) /\ t # None
      /\ TransactionOk(b, c, w, None, t)
  BY NoneAssumption DEF Good, Typed, TransactionsOk, Trans
<1>2. /\ a \in Seq(Trans \cup {None}) /\ BackendOpOk(a, w)
      /\ \A u \in Trans : Has(a, u) <=> Has(b, u) /\ u # t
  BY <1>1, BackendRemoved
<1>3. \A e : e \in queued <=> e \in Entries /\ Queued(c, t, e)
  BY DEF Queued, IsLive, Contains, Has
<1>4. /\ k \in Keys /\ w[t].entry = NoEntry
  <2>1. w[t].next \notin Holding
    BY DEF AtCache, Holding, AtDisk, AtNetwork
  <2> QED
    BY <2>1, <1>1 DEF TransactionOk, HoldOk
<1>5. CASE queued # {}
  <2> DEFINE e == CHOOSE f \in queued : TRUE
             q == RemoveFirst(c.entries[e].queue, t)
  <2>1. e \in Entries /\ Queued(c, t, e)
    BY <1>3, <1>5
  <2>2. RemovePendingTransaction(c, t) = [c EXCEPT !.entries[e].queue = q]
    BY <1>5 DEF RemovePendingTransaction
  <2> HIDE DEF e
  <2>3. IsLive(c, e) /\ c.entries[e].queue \in Seq(Trans) /\ NoneTwice(c.entries[e].queue)
    BY <2>1, <1>1, LiveFields DEF Queued, Good, EntriesOk, EntryOk, QueueOk
  <2>4. q \in Seq(Trans) /\ IsWithout(c.entries[e].queue, q, t)
    <3> DEFINE s == c.entries[e].queue
    <3> HIDE DEF s
    <3>1. s \in Seq(Trans) /\ NoneTwice(s) /\ q = RemoveFirst(s, t)
      BY <2>3 DEF s
    <3>2. /\ q \in Seq(Trans) /\ NoneTwice(q)
          /\ \A j \in 1 .. Len(q) : q[j] # t /\ \E i \in 1 .. Len(s) : q[j] = s[i]
      BY <3>1, RemovedFirst
    <3>3. \A i \in 1 .. Len(s) : s[i] # t => \E j \in 1 .. Len(q) : q[j] = s[i]
      BY <3>1, RemovedKeeps
    <3> HIDE DEF q
    <3>4. IsWithout(s, q, t)
      BY <3>2, <3>3, ZenonT(60) DEF IsWithout, Has
    <3> QED
      BY <3>2, <3>4 DEF s
  <2> HIDE DEF q
  <2>5. Good(b, [c EXCEPT !.entries[e].queue = q], w, t, NoEntry)
    BY <2>1, <2>4, TakeQueued
  <2>6. a = b
    <3>1. w[t].next = "ADD_TO_ENTRY_COMPLETE"
      BY <2>1, Places
    <3>2. ~Has(b, t)
      BY <3>1, Places
    <3> QED
      BY <3>2 DEF Has, Contains
  <2> QED
    BY <2>2, <2>5, <2>6
<1>6. CASE queued = {}
  <2> DEFINE d == OutOfOperation(c, k, t)
  <2>1. RemovePendingTransaction(c, t) = d
    BY <1>6 DEF RemovePendingTransaction, OutOfOperation, WithoutItem
  <2>2. /\ d \in Cache /\ d.entries = c.entries /\ d.active = c.active /\ d.posted = c.posted
        /\ d.disk = c.disk /\ d.stack = c.stack /\ OpsOk(d, w)
        /\ \A u \in Trans, j \in Keys :
               InOperation(d, u, j) <=> InOperation(c, u, j) /\ ~(u = t /\ j = k)
    BY <1>4, OperationRemoved
  <2> HIDE DEF d
  <2>3. /\ \A u, e : Queued(d, u, e) <=> Queued(c, u, e)
        /\ \A u, e : Uses(d, u, e) <=> Uses(c, u, e)
        /\ \A e : IsLive(d, e) <=> IsLive(c, e)
    BY <2>2 DEF Queued, IsLive, Uses
  <2>4. \A u \in Trans : u # t => (Waits(a, d, u) <=> Waits(b, c, u))
    BY <1>2, <2>2, <2>3 DEF Waits
  <2>5. Nowhere(a, d, t)
    <3>1. ~OnStack(d.stack, t)
      <4>1. Len(d.stack) = 0
        BY <2>2
      <4> QED
        BY <4>1 DEF OnStack
    <3>2. ~Waits(a, d, t)
      <4>1. ~Has(a, t)
        BY <1>2
      <4>2. \A e \in Entries : ~Queued(d, t, e)
        BY <2>3, <1>3, <1>6
      <4>3. \A j \in Keys : ~InOperation(d, t, j)
        BY <2>2, Places
      <4> QED
        BY <4>1, <4>2, <4>3 DEF Waits
    <3>3. ASSUME NEW e \in Entries, IsLive(d, e), Uses(d, t, e) PROVE FALSE
      <4>1. HasOrGets(c, w, None, t, e)
        BY <3>3, <2>3, Places
      <4> QED
        BY <4>1, <1>4 DEF HasOrGets, RunsNow, Entries, NoEntry
    <3> QED
      BY <3>1, <3>2, <3>3 DEF Nowhere
  <2>6. Good(a, d, w, t, NoEntry)
    <3> DEFINE x == None
    <3>1. x = None /\ Good(b, c, w, x, NoEntry) /\ t \in Trans \cup {None}
      OBVIOUS
    <3> HIDE DEF x
    <3> QED
      BY <3>1, <2>2, <2>4, <2>5, <1>2, Moves
  <2> QED
    BY <2>1, <2>6
<1> QED
  BY <1>5, <1>6

-----------------------------------------------------------------------------
(* An operation ends                                                       *)

\* Two calls are one.
LEMMA CallTwice ==
    ASSUME NEW c \in Cache, NEW r \in Seq(Frame), NEW s \in Seq(Frame)
    PROVE  Call(Call(c, s), r) = Call(c, r \o s)
<1> DEFINE d == Made(c.entries, c.active, c.ops, c.disk, c.posted, s \o c.stack)
<1>0. c.stack \in Seq(Frame)
  BY CacheFields
<1>1. Call(c, s) = d /\ Call(c, r \o s) = Made(c.entries, c.active, c.ops, c.disk, c.posted, (r \o s) \o c.stack)
  <2>1. \A v : [c EXCEPT !.stack = v] = Made(c.entries, c.active, c.ops, c.disk, c.posted, v)
    BY PartsOf
  <2> QED
    BY <2>1 DEF Call
<1>2. d \in Cache /\ d.stack = s \o c.stack /\ d.entries = c.entries /\ d.active = c.active
      /\ d.ops = c.ops /\ d.disk = c.disk /\ d.posted = c.posted
  <2>1. d \in Cache
    BY <1>1, CallFields
  <2> QED
    BY <2>1 DEF Made
<1> HIDE DEF d
<1>3. Call(d, r) = Made(c.entries, c.active, c.ops, c.disk, c.posted, r \o (s \o c.stack))
  <2>1. \A v : [d EXCEPT !.stack = v] = Made(d.entries, d.active, d.ops, d.disk, d.posted, v)
    BY <1>2, PartsOf
  <2> QED
    BY <1>2, <2>1 DEF Call
<1>4. r \o (s \o c.stack) = (r \o s) \o c.stack
  <2>1. ASSUME NEW v \in Seq(Frame) PROVE r \o (s \o v) = (r \o s) \o v
    OBVIOUS
  <2> QED
    BY <1>0, <2>1
<1> QED
  BY <1>1, <1>3, <1>4

\* The operation on key k ends with rv and the cache is d; e is the entry that is new, if any.
OperationEnds(c, d, k, rv, fail, e) ==
    LET y == c.ops[k] IN
    /\ c.stack = <<>> /\ k \in Keys /\ y # NoOp
    /\ d \in Cache /\ d.posted = c.posted
    /\ d.ops[k] = NoOp /\ \A j \in Keys : j # k => d.ops[j] = c.ops[j]
    /\ rv \in {"OK", "ERR_FAILED"} /\ fail \in BOOLEAN
    /\ d.stack = IF y.queue = <<>> THEN <<>> ELSE <<Items(k, y.op, rv, fail, y.queue)>>
    /\ \A j \in Keys : d.disk[j] # "partial"
    /\ \/ e = NoEntry /\ d.entries = c.entries /\ d.active = c.active
       \/ /\ rv = "OK" /\ e \in Entries /\ ~IsLive(c, e)
          /\ \A f \in Entries : f # e => d.entries[f] = c.entries[f]
          /\ IsLive(d, e) /\ d.entries[e].key = k /\ d.entries[e].writer = None
          /\ d.entries[e].readers = {} /\ d.entries[e].queue = <<>> /\ ~d.entries[e].will
          /\ ~d.entries[e].doomed /\ d.entries[e].content \notin {"absent", "partial"}
          /\ d.active[k] = e /\ \A j \in Keys : j # k => d.active[j] = c.active[j]

\* Its transaction is in hand then, and the new entry unattended.
LEMMA OperationEnded ==
    ASSUME NEW b, NEW c, NEW d, NEW w, Good(b, c, w, None, NoEntry), NEW k, NEW rv, NEW fail,
           NEW e, OperationEnds(c, d, k, rv, fail, e)
    PROVE  Good(b, d, w, c.ops[k].trans, e)
<1> DEFINE y == c.ops[k]
           x == y.trans
           q == y.queue
<1>0. /\ c.stack = <<>> /\ k \in Keys /\ y # NoOp
      /\ d \in Cache /\ d.posted = c.posted
      /\ d.ops[k] = NoOp /\ \A j \in Keys : j # k => d.ops[j] = c.ops[j]
      /\ rv \in {"OK", "ERR_FAILED"} /\ fail \in BOOLEAN
      /\ d.stack = IF q = <<>> THEN <<>> ELSE <<Items(k, y.op, rv, fail, q)>>
      /\ \A j \in Keys : d.disk[j] # "partial"
  BY DEF OperationEnds
<1>1. /\ c \in Cache /\ w \in [Trans -> Transaction] /\ b \in Seq(Trans \cup {None})
      /\ \A u \in Trans : u # None
      /\ c.active \in [Keys -> Entries \cup {NoEntry}]
      /\ OpsOk(c, w) /\ ActiveOk(c) /\ y \in Operation
  BY <1>0, CacheFields, NoneAssumption DEF Good, Typed, Trans
<1>2. /\ y.op \in Ops /\ x \in Trans \cup {None} /\ q \in Seq(Item) /\ Len(q) \in Nat
      /\ c.active[k] = NoEntry /\ ItemOk(w, k, y.op, x) /\ ItemsOk(w, k, q)
      /\ x # None => ~InItems(q, x)
  <2>1. y.op \in Ops /\ x \in Trans \cup {None} /\ q \in Seq(Item)
    BY <1>1, OperationFields
  <2> QED
    BY <2>1, <1>0, <1>1 DEF OpsOk
<1>3. \A u \in Trans : InOperation(c, u, k) <=> u = x \/ InItems(q, u)
  BY <1>0 DEF InOperation
<1> DEFINE f == Items(k, y.op, rv, fail, q)
<1>4. /\ f \in Frame /\ f.frame = "items" /\ f.key = k /\ f.items = q /\ f.rv = rv
  BY <1>0, <1>2, NewFrames
<1> HIDE DEF f, y, x, q
<1>5. /\ q = <<>> => d.stack = <<>> /\ Len(d.stack) = 0
      /\ q # <<>> => Len(d.stack) = 1 /\ d.stack[1] = f
  BY <1>0 DEF f, q, y
<1>6. \A u : OnStack(d.stack, u) <=> InItems(q, u)
  <2>1. CASE q = <<>>
    BY <2>1, <1>5 DEF OnStack, InItems
  <2>2. CASE q # <<>>
    BY <2>2, <1>4, <1>5 DEF OnStack, InFrame
  <2> QED
    BY <2>1, <2>2
<1>7. /\ \A u, rv2 : ~RunsNow(c, None, u, rv2)
      /\ \A u : ~OnStack(c.stack, u) /\ ~Has(c.stack, Run(u, "ERR_CACHE_RACE"))
  <2>1. Len(c.stack) = 0
    BY <1>0
  <2> QED
    BY <2>1, <1>0 DEF RunsNow, OnStack, Has
<1>8. /\ \A g \in Entries : IsLive(c, g) => g # e /\ d.entries[g] = c.entries[g] /\ IsLive(d, g)
      /\ \A g \in Entries : IsLive(d, g) => IsLive(c, g) \/ g = e
      /\ \A g \in Entries : IsLive(d, g) /\ g = e =>
            /\ d.entries[e].key = k /\ d.entries[e].writer = None
            /\ d.entries[e].readers = {} /\ d.entries[e].queue = <<>> /\ ~d.entries[e].will
            /\ ~d.entries[e].doomed /\ d.entries[e].content \notin {"absent", "partial"}
            /\ d.active[k] = e /\ ~IsLive(c, e)
      /\ rv # "OK" => d.active[k] = NoEntry
      /\ d.active[k] # NoEntry => d.active[k] = e /\ e \in Entries /\ IsLive(d, e)
      /\ \A j \in Keys : j # k => d.active[j] = c.active[j]
  <2>1. NoEntry \notin Entries
    BY DEF Entries, NoEntry
  <2>2. CASE e = NoEntry /\ d.entries = c.entries /\ d.active = c.active
    BY <2>1, <2>2, <1>2 DEF IsLive
  <2>3. CASE e # NoEntry
    <3>1. /\ rv = "OK" /\ e \in Entries /\ ~IsLive(c, e)
          /\ \A g \in Entries : g # e => d.entries[g] = c.entries[g]
          /\ IsLive(d, e) /\ d.entries[e].key = k /\ d.entries[e].writer = None
          /\ d.entries[e].readers = {} /\ d.entries[e].queue = <<>> /\ ~d.entries[e].will
          /\ ~d.entries[e].doomed /\ d.entries[e].content \notin {"absent", "partial"}
          /\ d.active[k] = e /\ \A j \in Keys : j # k => d.active[j] = c.active[j]
      BY <2>3 DEF OperationEnds
    <3> QED
      BY <3>1 DEF IsLive
  <2> QED
    BY <2>1, <2>2, <2>3 DEF OperationEnds
<1>9. EntriesOk(d, w, x, e)
  <2>1. ASSUME NEW g \in Entries, IsLive(d, g) PROVE EntryOk(d, w, x, e, g)
    <3>1. CASE IsLive(c, g)
      <4>1. EntryOk(c, w, None, NoEntry, g) /\ c.entries[g].key \in Keys /\ g # NoEntry
        BY <3>1, <1>1, LiveFields DEF Good, EntriesOk, Entries, NoEntry
      <4>2. c.active[c.entries[g].key] = g <=> d.active[c.entries[g].key] = g
        BY <4>1, <3>1, <1>2, <1>8
      <4> QED
        BY <3>1, <4>1, <4>2, <1>0, <1>7, <1>8, EntrySame
    <3>2. CASE ~IsLive(c, g)
      <4>1. g = e
        BY <2>1, <3>2, <1>8
      <4>2. LockOk(d, w, x, g)
        BY <2>1, <4>1, <1>8 DEF LockOk
      <4>3. QueueOk(d, w, g)
        BY <2>1, <4>1, <1>8 DEF QueueOk, NoneTwice
      <4>4. g \notin d.posted
        BY <1>0, <1>1, <3>2 DEF ActiveOk
      <4>5. LinkOk(d, g) /\ ContentOk(d, w, g)
        BY <2>1, <4>1, <4>4, <1>8 DEF LinkOk, ContentOk
      <4> QED
        BY <4>1, <4>2, <4>3, <4>5 DEF EntryOk
    <3> QED
      BY <3>1, <3>2
  <2> QED
    BY <2>1 DEF EntriesOk
<1>10. ActiveOk(d)
  <2>1. ASSUME NEW j \in Keys, d.active[j] # NoEntry
        PROVE  IsLive(d, d.active[j]) /\ d.entries[d.active[j]].key = j
    <3>1. CASE j = k
      BY <2>1, <3>1, <1>8
    <3>2. CASE j # k
      <4>1. d.active[j] = c.active[j] /\ c.active[j] \in Entries /\ IsLive(c, c.active[j])
            /\ c.entries[c.active[j]].key = j
        BY <2>1, <3>2, <1>1, <1>8 DEF ActiveOk
      <4> QED
        BY <4>1, <1>8
    <3> QED
      BY <3>1, <3>2
  <2>2. \A g \in d.posted : IsLive(d, g)
    <3>1. d.posted \in SUBSET Entries
      BY <1>0, CacheFields
    <3> QED
      BY <3>1, <1>0, <1>1, <1>8 DEF ActiveOk
  <2> QED
    BY <2>1, <2>2, <1>0 DEF ActiveOk
<1>11. OpsOk(d, w)
  BY <1>0, <1>1, <1>8 DEF OpsOk
<1>12. StackOk(d, w, x)
  <2>1. CASE q = <<>>
    BY <2>1, <1>5 DEF StackOk, OneFrameEach
  <2>2. CASE q # <<>>
    <3>1. \A first : FrameOk(d, w, f, first)
      BY <2>2, <1>2, <1>4, <1>8 DEF FrameOk
    <3> QED
      BY <2>2, <3>1, <1>5 DEF StackOk, OneFrameEach
  <2> QED
    BY <2>1, <2>2
<1>13. /\ \A u \in Trans : \A g \in Entries : Queued(d, u, g) <=> Queued(c, u, g)
       /\ \A u \in Trans : \A g \in Entries : IsLive(d, g) /\ Uses(d, u, g) <=> IsLive(c, g) /\ Uses(c, u, g)
  <2>1. ASSUME NEW u \in Trans, NEW g \in Entries
        PROVE  /\ Queued(d, u, g) <=> Queued(c, u, g)
               /\ IsLive(d, g) /\ Uses(d, u, g) <=> IsLive(c, g) /\ Uses(c, u, g)
    <3>1. CASE IsLive(c, g)
      BY <3>1, <1>8 DEF Queued, Uses
    <3>2. CASE ~IsLive(c, g) /\ IsLive(d, g)
      BY <3>2, <1>1, <1>8 DEF Queued, Uses, Has
    <3>3. CASE ~IsLive(c, g) /\ ~IsLive(d, g)
      BY <3>3 DEF Queued
    <3> QED
      BY <3>1, <3>2, <3>3
  <2> QED
    BY <2>1
<1>14. \A u \in Trans : u = x \/ InItems(q, u) => ~Waits(b, d, u)
  <2> SUFFICES ASSUME NEW u \in Trans, u = x \/ InItems(q, u) PROVE ~Waits(b, d, u)
    OBVIOUS
  <2>1. InOperation(c, u, k)
    BY <1>3
  <2>2. w[u].key = k /\ w[u].next \in {"OPEN_ENTRY_COMPLETE", "CREATE_ENTRY_COMPLETE", "DOOM_ENTRY_COMPLETE"}
    BY <2>1, <1>0, Places
  <2>3. ~Has(b, u)
    BY <2>2, Places
  <2>4. \A g \in Entries : ~Queued(d, u, g)
    BY <2>2, <1>13, Places
  <2>5. \A j \in Keys : ~InOperation(d, u, j)
    <3> SUFFICES ASSUME NEW j \in Keys, InOperation(d, u, j) PROVE FALSE
      OBVIOUS
    <3>1. j # k
      BY <1>0 DEF InOperation
    <3>2. InOperation(c, u, j)
      BY <3>1, <1>0 DEF InOperation
    <3> QED
      BY <3>1, <3>2, <2>2, Places
  <2> QED
    BY <2>3, <2>4, <2>5 DEF Waits
<1>15. ASSUME NEW u \in Trans, u # x PROVE TransactionOk(b, d, w, x, u)
  <2>1. TransactionOk(b, c, w, None, u) /\ w[u] \in Transaction
    BY <1>1 DEF Good, TransactionsOk
  <2>2. CASE InItems(q, u)
    <3>1. w[u].next \in {"OPEN_ENTRY_COMPLETE", "CREATE_ENTRY_COMPLETE", "DOOM_ENTRY_COMPLETE"}
      BY <2>2, <1>0, <1>3, Places
    <3>2. PlaceOk(b, d, w, u)
      BY <2>2, <1>6, <1>14 DEF PlaceOk
    <3>3. w[u].new = NoEntry
      BY <3>1, <2>1, <1>7 DEF TransactionOk, NewOk
    <3>4. NewOk(d, w, x, u)
      BY <3>1, <3>3 DEF NewOk
    <3>5. w[u].next \in AtCache \cup Turns /\ w[u].next \notin Holding \cup Outside
      BY <3>1 DEF AtCache, Holding, AtDisk, AtNetwork, Outside
    <3>6. w[u].entry = NoEntry /\ w[u].key \in Keys /\ w[u].mode # "NONE"
      BY <3>1, <3>5, <2>1 DEF TransactionOk, HoldOk
    <3>7. HoldOk(d, w, u)
      BY <3>5, <3>6, HoldsNothing
    <3> QED
      BY <3>2, <3>4, <3>7 DEF TransactionOk
  <2>3. CASE ~InItems(q, u)
    <3>1. OnStack(d.stack, u) <=> OnStack(c.stack, u)
      BY <2>3, <1>6, <1>7
    <3>2. \A j \in Keys : InOperation(d, u, j) <=> InOperation(c, u, j)
      <4> SUFFICES ASSUME NEW j \in Keys PROVE InOperation(d, u, j) <=> InOperation(c, u, j)
        OBVIOUS
      <4>1. CASE j = k
        BY <4>1, <1>0, <1>3, <1>15, <2>3 DEF InOperation
      <4>2. CASE j # k
        BY <4>2, <1>0 DEF InOperation
      <4> QED
        BY <4>1, <4>2
    <3>3. Waits(b, d, u) <=> Waits(b, c, u)
      BY <3>2, <1>13 DEF Waits
    <3>4. w[u].entry # NoEntry => d.entries[w[u].entry].content = c.entries[w[u].entry].content
      <4>1. w[u].entry # NoEntry => w[u].entry \in Entries /\ IsLive(c, w[u].entry)
        BY <2>1, TransactionFields DEF TransactionOk, HoldOk
      <4> QED
        BY <4>1, <1>8
    <3> QED
      BY <2>1, <3>1, <3>3, <3>4, <1>7, <1>13, TransactionSame
  <2> QED
    BY <2>2, <2>3
<1>16. ASSUME x # None PROVE Nowhere(b, d, x)
  <2>1. x \in Trans /\ ~OnStack(d.stack, x)
    BY <1>2, <1>6, <1>16
  <2>2. ~Waits(b, d, x)
    BY <2>1, <1>14
  <2>3. w[x].next \in {"OPEN_ENTRY_COMPLETE", "CREATE_ENTRY_COMPLETE", "DOOM_ENTRY_COMPLETE"}
    BY <2>1, <1>0, <1>3, Places
  <2>4. w[x].entry = NoEntry
    <3>1. w[x].next \notin Holding
      BY <2>3 DEF Holding, AtDisk, AtNetwork
    <3> QED
      BY <3>1, <2>1, <1>1 DEF Good, TransactionsOk, TransactionOk, HoldOk
  <2>5. ASSUME NEW g \in Entries, IsLive(d, g), Uses(d, x, g) PROVE FALSE
    <3>1. HasOrGets(c, w, None, x, g)
      BY <2>1, <2>5, <1>13, Places
    <3> QED
      BY <3>1, <2>4, <1>7 DEF HasOrGets, Entries, NoEntry
  <2> QED
    BY <2>1, <2>2, <2>5 DEF Nowhere
<1> QED
  BY <1>0, <1>1, <1>2, <1>9, <1>10, <1>11, <1>12, <1>15, <1>16 DEF Good, Typed, TransactionsOk, x, y
=============================================================================
