----------------------------- MODULE CacheProofs -----------------------------
(***************************************************************************)
(* The invariant of the HTTP cache is inductive (Invariance, from the      *)
(* moves of HttpCacheInvariant), and what follows from it: entries are     *)
(* locked, pointers to them are good, nobody is forgotten, unfinished      *)
(* responses are not served, and nobody gets at a doomed entry.  And, of   *)
(* the disk cache beneath it, that until an accident a node is never in    *)
(* two of its lists, nor twice in one (the last section): proved of the    *)
(* abstract lists, which the writes of the rankings implement.             *)
(***************************************************************************)
EXTENDS HttpCacheInvariant

-----------------------------------------------------------------------------
(* The answer of the backend                                               *)

\* An entry is activated.
LEMMA Activated ==
    ASSUME NEW c \in Cache, NEW k \in Keys, NEW z \in Contents,
           \E f \in Entries : c.entries[f] = Closed
    PROVE  LET d == ActivateEntry(c, k, z)
               e == d.active[k]
           IN
           /\ d \in Cache /\ d.ops = c.ops /\ d.disk = c.disk /\ d.posted = c.posted
           /\ d.stack = c.stack
           /\ e \in Entries /\ ~IsLive(c, e) /\ IsLive(d, e)
           /\ \A f \in Entries : f # e => d.entries[f] = c.entries[f]
           /\ d.entries[e].key = k /\ d.entries[e].writer = None /\ d.entries[e].readers = {}
           /\ d.entries[e].queue = <<>> /\ ~d.entries[e].will /\ ~d.entries[e].doomed
           /\ d.entries[e].content = z
           /\ \A j \in Keys : j # k => d.active[j] = c.active[j]
<1> DEFINE d == ActivateEntry(c, k, z)
           e == CHOOSE f \in Entries : c.entries[f] = Closed
           y == [key |-> k, writer |-> None, readers |-> {}, queue |-> <<>>, will |-> FALSE,
                 doomed |-> FALSE, content |-> z]
           en == [c.entries EXCEPT ![e] = y]
           ac == [c.active EXCEPT ![k] = e]
<1>1. /\ c.entries \in [Entries -> Entry \cup {Closed}]
      /\ c.active \in [Keys -> Entries \cup {NoEntry}]
      /\ c.ops \in [Keys -> Operation \cup {NoOp}]
      /\ c.disk \in [Keys -> Contents] /\ c.posted \in SUBSET Entries
      /\ c.stack \in Seq(Frame)
  BY CacheFields
<1>2. e \in Entries /\ c.entries[e] = Closed
  OBVIOUS
<1>3. d = [c EXCEPT !.entries = en, !.active = ac]
  BY DEF ActivateEntry
<1>4. y \in Entry
  BY DEF Entry
<1>5. /\ y.key = k /\ y.writer = None /\ y.readers = {} /\ y.queue = <<>> /\ ~y.will
      /\ ~y.doomed /\ y.content = z /\ y # Closed
  BY <1>4, EntryFields
<1> HIDE DEF e, y
<1>6. en \in [Entries -> Entry \cup {Closed}] /\ ac \in [Keys -> Entries \cup {NoEntry}]
  <2> HIDE DEF Entry, Closed
  <2> QED
    BY <1>1, <1>2, <1>4
<1>7. /\ en[e] = y /\ \A f \in Entries : f # e => en[f] = c.entries[f]
      /\ ac[k] = e /\ \A j \in Keys : j # k => ac[j] = c.active[j]
  BY <1>1, <1>2
<1> HIDE DEF en, ac, d
<1>8. [c EXCEPT !.entries = en, !.active = ac] = Made(en, ac, c.ops, c.disk, c.posted, c.stack)
  <2>1. \A v, a : [c EXCEPT !.entries = v, !.active = a]
                      = Made(v, a, c.ops, c.disk, c.posted, c.stack)
    BY ONLY c \in Cache, PartsOf
  <2> QED
    BY ONLY <2>1, Zenon
<1>9. /\ d \in Cache /\ d.entries = en /\ d.active = ac /\ d.ops = c.ops /\ d.disk = c.disk
      /\ d.posted = c.posted /\ d.stack = c.stack
  BY ONLY <1>1, <1>3, <1>6, <1>8 DEF Made, Cache
<1>10. ~IsLive(c, e) /\ IsLive(d, e)
  BY <1>2, <1>5, <1>7, <1>9 DEF IsLive
<1> QED
  BY <1>2, <1>5, <1>7, <1>9, <1>10 DEF d

\* The operations of a key are at an end.
Ended(c, k) == [c EXCEPT !.ops[k] = NoOp]

\* Nothing else is.
LEMMA EndedFields ==
    ASSUME NEW c \in Cache, NEW k \in Keys
    PROVE  /\ Ended(c, k) \in Cache /\ Ended(c, k).entries = c.entries
           /\ Ended(c, k).active = c.active /\ Ended(c, k).disk = c.disk
           /\ Ended(c, k).posted = c.posted /\ Ended(c, k).stack = c.stack
           /\ Ended(c, k).ops[k] = NoOp
           /\ \A j \in Keys : j # k => Ended(c, k).ops[j] = c.ops[j]
<1> DEFINE op == [c.ops EXCEPT ![k] = NoOp]
<1>1. /\ c.entries \in [Entries -> Entry \cup {Closed}]
      /\ c.active \in [Keys -> Entries \cup {NoEntry}]
      /\ c.ops \in [Keys -> Operation \cup {NoOp}]
      /\ c.disk \in [Keys -> Contents] /\ c.posted \in SUBSET Entries
      /\ c.stack \in Seq(Frame)
  BY CacheFields
<1>2. op \in [Keys -> Operation \cup {NoOp}]
  <2> HIDE DEF Operation, NoOp
  <2> QED
    BY <1>1
<1>3. op[k] = NoOp /\ \A j \in Keys : j # k => op[j] = c.ops[j]
  BY <1>1
<1>4. Ended(c, k) = [c EXCEPT !.ops = op]
  BY DEF Ended
<1> HIDE DEF op
<1>5. [c EXCEPT !.ops = op] = Made(c.entries, c.active, op, c.disk, c.posted, c.stack)
  <2>1. \A v : [c EXCEPT !.ops = v] = Made(c.entries, c.active, v, c.disk, c.posted, c.stack)
    BY ONLY c \in Cache, PartsOf
  <2> QED
    BY ONLY <2>1, Zenon
<1>6. /\ Ended(c, k) \in Cache /\ Ended(c, k).entries = c.entries
      /\ Ended(c, k).active = c.active /\ Ended(c, k).disk = c.disk
      /\ Ended(c, k).posted = c.posted /\ Ended(c, k).stack = c.stack
      /\ Ended(c, k).ops = op
  BY ONLY <1>1, <1>2, <1>4, <1>5 DEF Made, Cache
<1> QED
  BY <1>3, <1>6

\* What is stored under a key is gone.
LEMMA Erased ==
    ASSUME NEW c \in Cache, NEW k \in Keys
    PROVE  LET d == [c EXCEPT !.disk[k] = "absent"] IN
           /\ d \in Cache /\ d.entries = c.entries /\ d.active = c.active /\ d.ops = c.ops
           /\ d.posted = c.posted /\ d.stack = c.stack
           /\ d.disk = [c.disk EXCEPT ![k] = "absent"]
<1> DEFINE di == [c.disk EXCEPT ![k] = "absent"]
           d == [c EXCEPT !.disk[k] = "absent"]
<1>1. /\ c.entries \in [Entries -> Entry \cup {Closed}]
      /\ c.active \in [Keys -> Entries \cup {NoEntry}]
      /\ c.ops \in [Keys -> Operation \cup {NoOp}]
      /\ c.disk \in [Keys -> Contents] /\ c.posted \in SUBSET Entries
      /\ c.stack \in Seq(Frame)
  BY CacheFields
<1>2. di \in [Keys -> Contents]
  <2>1. "absent" \in Contents
    BY DEF Contents
  <2> HIDE DEF Contents
  <2> QED
    BY <1>1, <2>1
<1>4. d = [c EXCEPT !.disk = di]
  OBVIOUS
<1> HIDE DEF di, d
<1>5. [c EXCEPT !.disk = di] = Made(c.entries, c.active, c.ops, di, c.posted, c.stack)
  <2>1. \A v : [c EXCEPT !.disk = v] = Made(c.entries, c.active, c.ops, v, c.posted, c.stack)
    BY ONLY c \in Cache, PartsOf
  <2> QED
    BY ONLY <2>1, Zenon
<1>6. /\ d \in Cache /\ d.entries = c.entries /\ d.active = c.active /\ d.disk = di
      /\ d.posted = c.posted /\ d.stack = c.stack /\ d.ops = c.ops
  BY ONLY <1>1, <1>2, <1>4, <1>5 DEF Made, Cache
<1> QED
  BY <1>6 DEF d, di

\* The answer of the backend.
LEMMA BackendAnswers ==
    ASSUME IInv, NEW k \in Keys, NEW rv \in {"OK", "ERR_FAILED"}, OnIOComplete(k, rv)
    PROVE  IInv'
<1> DEFINE y == cache.ops[k]
           t == y.trans
           q == y.queue
           activates == rv = "OK" /\ y.op # "DOOM" /\ t # None
           z == IF y.op = "CREATE" THEN "new" ELSE cache.disk[k]
           fail == (rv = "OK" /\ y.op # "DOOM" /\ t = None) \/ (rv = "OK" /\ y.op = "DOOM")
           c0 == Ended(cache, k)
           c1 == IF activates THEN ActivateEntry(c0, k, z)
                 ELSE IF rv = "OK" /\ y.op = "DOOM" THEN [c0 EXCEPT !.disk[k] = "absent"]
                 ELSE c0
           rest == IF q = <<>> THEN <<>> ELSE <<Items(k, y.op, rv, fail, q)>>
           e == IF activates THEN c1.active[k] ELSE NoEntry
           b == backendOp
<1>1. /\ cache.stack = <<>> /\ y # NoOp /\ rv \in Answers(y.op, cache.disk[k])
      /\ activates => \E f \in Entries : cache.entries[f] = Closed
      /\ cache' = Call(c1, (IF t = None THEN <<>> ELSE <<Run(t, rv)>>) \o rest)
      /\ tr' = IF activates THEN [tr EXCEPT ![t].new = c1.active[k]] ELSE tr
      /\ backend' = backend /\ backendOp' = b
  BY DEF OnIOComplete, Idle, FindActiveEntry, Ended
<1>2. /\ Good(b, cache, tr, None, NoEntry)
      /\ cache \in Cache /\ tr \in [Trans -> Transaction] /\ y \in Operation
      /\ \A j \in Keys : cache.disk[j] \in Contents /\ cache.disk[j] # "partial"
      /\ cache.active \in [Keys -> Entries \cup {NoEntry}]
  BY <1>1, CacheFields DEF IInv, Good, Typed, ActiveOk
<1>3. /\ y.op \in Ops /\ t \in Trans \cup {None} /\ q \in Seq(Item)
      /\ cache.active[k] = NoEntry /\ ItemOk(tr, k, y.op, t)
      /\ \A u \in Trans : u # None
  BY <1>1, <1>2, OperationFields, NoneAssumption DEF Good, OpsOk, Trans
<1>4. /\ c0 \in Cache /\ c0.entries = cache.entries /\ c0.active = cache.active
      /\ c0.disk = cache.disk /\ c0.posted = cache.posted /\ c0.stack = cache.stack
      /\ c0.ops[k] = NoOp /\ \A j \in Keys : j # k => c0.ops[j] = cache.ops[j]
  <2> HIDE DEF y
  <2> QED
    BY <1>2, EndedFields
<1> HIDE DEF c0
<1>5. activates => z \in Contents /\ z \notin {"absent", "partial"}
  <2> SUFFICES ASSUME activates PROVE z \in Contents /\ z \notin {"absent", "partial"}
    OBVIOUS
  <2>1. CASE y.op = "CREATE"
    BY <2>1 DEF Contents
  <2>2. CASE y.op # "CREATE"
    BY <2>2, <1>1, <1>2 DEF Answers
  <2> QED
    BY <2>1, <2>2
<1> DEFINE Settled ==
      /\ c1 \in Cache /\ c1.stack = <<>> /\ c1.posted = cache.posted /\ c1.ops = c0.ops
      /\ \A j \in Keys : c1.disk[j] # "partial"
      /\ activates => e # NoEntry
      /\ \/ e = NoEntry /\ c1.entries = cache.entries /\ c1.active = cache.active
         \/ /\ rv = "OK" /\ e \in Entries /\ ~IsLive(cache, e)
            /\ \A f \in Entries : f # e => c1.entries[f] = cache.entries[f]
            /\ IsLive(c1, e) /\ c1.entries[e].key = k /\ c1.entries[e].writer = None
            /\ c1.entries[e].readers = {} /\ c1.entries[e].queue = <<>> /\ ~c1.entries[e].will
            /\ ~c1.entries[e].doomed /\ c1.entries[e].content \notin {"absent", "partial"}
            /\ c1.active[k] = e /\ \A j \in Keys : j # k => c1.active[j] = cache.active[j]
<1>6. Settled
  <2>1. CASE activates
    <3>1. c1 = ActivateEntry(c0, k, z) /\ e = c1.active[k]
      BY <2>1
    <3>2. \E f \in Entries : c0.entries[f] = Closed
      BY <2>1, <1>1, <1>4
    <3>3. z \in Contents /\ z \notin {"absent", "partial"} /\ rv = "OK"
      BY <2>1, <1>5
    <3> HIDE DEF c1, e, z, activates, y
    <3>4. /\ c1 \in Cache /\ c1.ops = c0.ops /\ c1.disk = c0.disk /\ c1.posted = c0.posted
          /\ c1.stack = c0.stack
          /\ e \in Entries /\ ~IsLive(c0, e) /\ IsLive(c1, e)
          /\ \A f \in Entries : f # e => c1.entries[f] = c0.entries[f]
          /\ c1.entries[e].key = k /\ c1.entries[e].writer = None /\ c1.entries[e].readers = {}
          /\ c1.entries[e].queue = <<>> /\ ~c1.entries[e].will /\ ~c1.entries[e].doomed
          /\ c1.entries[e].content = z
          /\ \A j \in Keys : j # k => c1.active[j] = c0.active[j]
      BY <3>1, <3>2, <3>3, <1>4, Activated, SMTT(40)
    <3> QED
      BY <3>1, <3>3, <3>4, <1>1, <1>2, <1>4 DEF IsLive, Entries, NoEntry
  <2>2. CASE ~activates /\ rv = "OK" /\ y.op = "DOOM"
    <3>1. c1 = [c0 EXCEPT !.disk[k] = "absent"] /\ e = NoEntry
      BY <2>2
    <3>2. ~activates
      BY <2>2
    <3> HIDE DEF c1, e, activates, y
    <3>3. /\ c1 \in Cache /\ c1.entries = c0.entries /\ c1.active = c0.active /\ c1.ops = c0.ops
          /\ c1.posted = c0.posted /\ c1.stack = c0.stack
          /\ c1.disk = [c0.disk EXCEPT ![k] = "absent"]
      BY <3>1, <1>4, Erased
    <3>4. \A j \in Keys : c1.disk[j] # "partial"
      <4>1. c0.disk \in [Keys -> Contents]
        BY <1>4, CacheFields
      <4> QED
        BY <4>1, <3>3, <1>2, <1>4
    <3> QED
      BY <3>1, <3>2, <3>3, <3>4, <1>1, <1>4
  <2>3. CASE ~activates /\ ~(rv = "OK" /\ y.op = "DOOM")
    <3>1. c1 = c0 /\ e = NoEntry /\ ~activates
      BY <2>3
    <3> HIDE DEF c1, e, activates, y
    <3> QED
      BY <3>1, <1>1, <1>2, <1>4
  <2> QED
    BY <2>1, <2>2, <2>3
<1>7. e = NoEntry \/ (activates /\ e = c1.active[k])
  OBVIOUS
<1>8. fail \in BOOLEAN
  OBVIOUS
<1> HIDE DEF c1, e, fail
<1>9. rest \in Seq(Frame)
  <2>1. CASE q = <<>>
    BY <2>1
  <2>2. CASE q # <<>>
    <3>1. Items(k, y.op, rv, fail, q) \in Frame
      <4> HIDE DEF y, q
      <4> QED
        BY <1>3, <1>8, NewFrames
    <3> QED
      BY <2>2, <3>1
  <2> QED
    BY <2>1, <2>2
<1> DEFINE d == Call(c1, rest)
<1>10. d \in Cache /\ SameStore(c1, d) /\ d.stack = rest
  <2> HIDE DEF rest, y
  <2>1. d \in Cache /\ SameStore(c1, d) /\ d.stack = rest \o <<>>
    BY <1>6, <1>9, CallFields
  <2> QED
    BY <2>1, <1>9
<1>11. OperationEnds(cache, d, k, rv, fail, e)
  <2> HIDE DEF d, activates
  <2> QED
    BY <1>1, <1>4, <1>6, <1>8, <1>10 DEF OperationEnds, SameStore, IsLive
<1> HIDE DEF d
<1>12. Good(b, d, tr, t, e)
  BY <1>2, <1>11, OperationEnded
<1>13. CASE t = None
  <2>1. ~activates /\ e = NoEntry
    BY <1>7, <1>13
  <2>2. cache' = d /\ tr' = tr
    <3>1. cache' = Call(c1, <<>> \o rest) /\ tr' = tr
      BY <2>1, <1>1, <1>13
    <3> QED
      BY <3>1, <1>9 DEF d
  <2> QED
    BY <2>1, <2>2, <1>1, <1>12, <1>13 DEF IInv
<1>14. CASE t # None
  <2> DEFINE r == IF activates THEN [tr[t] EXCEPT !.new = e] ELSE tr[t]
             v == [tr EXCEPT ![t] = r]
  <2>1. /\ t \in Trans /\ tr[t] \in Transaction /\ tr[t].key = k /\ tr[t].next = Completes(y.op)
        /\ TransactionOk(b, cache, tr, None, t)
    BY <1>2, <1>3, <1>14 DEF ItemOk, Good, TransactionsOk
  <2>2. e \in Entries \cup {NoEntry}
    BY <1>6
  <2>3. /\ tr[t].next \in {"OPEN_ENTRY_COMPLETE", "CREATE_ENTRY_COMPLETE", "DOOM_ENTRY_COMPLETE"}
        /\ y.op = "OPEN" <=> tr[t].next = "OPEN_ENTRY_COMPLETE"
        /\ y.op = "CREATE" <=> tr[t].next = "CREATE_ENTRY_COMPLETE"
        /\ y.op = "DOOM" <=> tr[t].next = "DOOM_ENTRY_COMPLETE"
    BY <2>1, <1>3 DEF Completes, Ops
  <2>4. /\ tr[t].entry = NoEntry /\ tr[t].mode # "NONE" /\ tr[t].new = NoEntry
    <3>1. tr[t].next \notin Holding \cup Outside \cup {"ADD_TO_ENTRY_COMPLETE", "GET_BACKEND_COMPLETE"}
      BY <2>3 DEF Holding, AtDisk, AtNetwork, Outside
    <3>2. ~RunsNow(cache, None, t, "OK")
      BY <1>1 DEF RunsNow
    <3> QED
      BY <3>1, <3>2, <2>1 DEF TransactionOk, HoldOk, NewOk
  <2>5. tr' = v
    <3>1. CASE activates
      BY <3>1, <1>1, <1>2, <1>7, <2>1, <1>6
    <3>2. CASE ~activates
      <4>1. r = tr[t] /\ tr' = tr
        BY <3>2, <1>1
      <4> QED
        BY <4>1, <1>2, <2>1
    <3> QED
      BY <3>1, <3>2
  <2>6. /\ r \in Transaction /\ r.next = tr[t].next /\ r.key = k /\ r.mode = tr[t].mode
        /\ r.entry = NoEntry /\ r.new = e
    <3>1. CASE activates
      BY <3>1, <2>1, <2>2, <2>4 DEF Transaction
    <3>2. CASE ~activates
      BY <3>2, <2>1, <2>4, <1>7
    <3> QED
      BY <3>1, <3>2
  <2>7. v[t] = r
    BY <1>2, <2>1
  <2>8. Good(b, d, v, t, e)
    <3> HIDE DEF r, t
    <3> QED
      BY <1>12, <2>1, <2>6, InHand
  <2>9. e # NoEntry => rv = "OK" /\ y.op # "DOOM"
    BY <1>7
  <2>10. rv = "OK" /\ y.op # "DOOM" => e # NoEntry
    BY <1>6, <1>14
  <2>11. d.active[k] = e
    BY <1>3, <1>6, <1>10 DEF SameStore
  <2> HIDE DEF r, v, y, t, q, activates, rest
  <2>12. RunOk(d, v, t, rv, TRUE)
    BY <2>3, <2>6, <2>7, <2>9, <2>10, <2>11 DEF RunOk, AtCache, Turns
  <2>13. Joins(v, t, rv, e)
    BY <2>3, <2>6, <2>7, <2>9 DEF Joins
  <2>14. HoldOk(d, v, t)
    BY <2>1, <2>3, <2>4, <2>6, <2>7, HoldsNothing DEF AtCache
  <2>15. /\ v[t].new # NoEntry => /\ rv = "OK" /\ v[t].new = d.active[v[t].key]
                                  /\ v[t].next \in {"OPEN_ENTRY_COMPLETE", "CREATE_ENTRY_COMPLETE", "ADD_TO_ENTRY"}
         /\ v[t].next # "ADD_TO_ENTRY" /\ v[t].next # "ADD_TO_ENTRY_COMPLETE"
    BY <2>3, <2>6, <2>7, <2>9, <2>11
  <2>16. rv \in Results
    BY DEF Results
  <2>17. Good(b, Call(d, <<Run(t, rv)>>), v, None, NoEntry)
    BY <2>1, <2>8, <2>12, <2>13, <2>14, <2>15, <2>16, PutRun
  <2>18. cache' = Call(d, <<Run(t, rv)>>)
    <3>1. <<Run(t, rv)>> \in Seq(Frame)
      BY <2>1, <2>16, NewFrames
    <3>2. Call(Call(c1, rest), <<Run(t, rv)>>) = Call(c1, <<Run(t, rv)>> \o rest)
      BY <3>1, <1>6, <1>9, CallTwice
    <3> QED
      BY <3>2, <1>1, <1>14 DEF d, t, rest
  <2> QED
    BY <2>5, <2>17, <2>18, <1>1 DEF IInv
<1> QED
  BY <1>13, <1>14

-----------------------------------------------------------------------------
(* An item is answered                                                     *)

\* Items and the first of them.
LEMMA FirstItem ==
    ASSUME NEW w, NEW k, NEW q \in Seq(Item), q # <<>>, ItemsOk(w, k, q)
    PROVE  /\ Head(q) \in Item /\ Tail(q) \in Seq(Item) /\ Len(q) \in Nat \ {0}
           /\ ItemOk(w, k, Head(q).op, Head(q).trans) /\ ItemsOk(w, k, Tail(q))
           /\ Head(q).trans # None => ~InItems(Tail(q), Head(q).trans)
           /\ \A u : InItems(q, u) <=> u = Head(q).trans \/ InItems(Tail(q), u)
           /\ Len(q) = 1 => Tail(q) = <<>>
           /\ Len(q) # 1 => Tail(q) # <<>>
<1> DEFINE s == Tail(q)
           x == Head(q).trans
<1>1. /\ Head(q) = q[1] /\ Head(q) \in Item /\ s \in Seq(Item) /\ Len(q) \in Nat
      /\ 1 \in 1 .. Len(q) /\ Len(s) = Len(q) - 1
      /\ \A i \in 1 .. Len(s) : i + 1 \in 2 .. Len(q) /\ s[i] = q[i + 1]
      /\ \A i \in 2 .. Len(q) : i - 1 \in 1 .. Len(s) /\ q[i] = s[i - 1]
  <2> HIDE DEF Item
  <2> QED
    BY FirstOf
<1> HIDE DEF s
<1>2. Once(q) /\ \A i \in 1 .. Len(q) : ItemOk(w, k, q[i].op, q[i].trans)
  BY DEF ItemsOk
<1>3. ItemOk(w, k, Head(q).op, x)
  BY <1>1, <1>2
<1>4. ItemsOk(w, k, s)
  <2>1. Once(s)
    <3> SUFFICES ASSUME NEW i \in 1 .. Len(s), NEW j \in 1 .. Len(s), s[i].trans = s[j].trans,
                        s[i].trans # None
                 PROVE  i = j
      BY DEF Once
    <3>1. i + 1 \in 1 .. Len(q) /\ j + 1 \in 1 .. Len(q) /\ s[i] = q[i + 1] /\ s[j] = q[j + 1]
      BY <1>1
    <3>2. i + 1 = j + 1
      BY <3>1, <1>2 DEF Once
    <3> QED
      BY <3>2
  <2>2. \A i \in 1 .. Len(s) : ItemOk(w, k, s[i].op, s[i].trans)
    BY <1>1, <1>2
  <2> QED
    BY <2>1, <2>2 DEF ItemsOk
<1>5. ASSUME x # None, InItems(s, x) PROVE FALSE
  <2>1. PICK i \in 1 .. Len(s) : s[i].trans = x
    BY <1>5 DEF InItems
  <2>2. i + 1 \in 1 .. Len(q) /\ i + 1 # 1 /\ q[i + 1].trans = x /\ q[1].trans = x
    BY <2>1, <1>1
  <2> QED
    BY <2>2, <1>1, <1>2, <1>5 DEF Once
<1>6. ASSUME NEW u PROVE InItems(q, u) <=> u = x \/ InItems(s, u)
  <2>1. ASSUME InItems(q, u) PROVE u = x \/ InItems(s, u)
    <3>1. PICK i \in 1 .. Len(q) : q[i].trans = u
      BY <2>1 DEF InItems
    <3>2. CASE i = 1
      BY <3>1, <3>2, <1>1
    <3>3. CASE i # 1
      <4>1. i \in 2 .. Len(q)
        BY <3>3, <1>1
      <4> QED
        BY <4>1, <3>1, <1>1 DEF InItems
    <3> QED
      BY <3>2, <3>3
  <2>2. ASSUME u = x \/ InItems(s, u) PROVE InItems(q, u)
    <3>1. CASE u = x
      BY <3>1, <1>1 DEF InItems
    <3>2. CASE InItems(s, u)
      <4>1. PICK i \in 1 .. Len(s) : s[i].trans = u
        BY <3>2 DEF InItems
      <4>2. i + 1 \in 1 .. Len(q) /\ q[i + 1].trans = u
        BY <4>1, <1>1
      <4> QED
        BY <4>2 DEF InItems
    <3> QED
      BY <2>2, <3>1, <3>2
  <2> QED
    BY <2>1, <2>2
<1>7. /\ Len(q) = 1 => s = <<>>
      /\ Len(q) # 1 => s # <<>>
  <2>1. Len(s) = 0 <=> s = <<>>
    <3> HIDE DEF Item
    <3> QED
      BY <1>1, EmptySeq
  <2> QED
    BY <2>1, <1>1
<1>8. Len(q) \in Nat \ {0}
  BY <1>1
<1> QED
  BY <1>1, <1>3, <1>4, <1>5, <1>6, <1>7, <1>8 DEF s

\* The stack whose first frame, of items, has lost its first item.
ItemGone(s, f, r) ==
    \/ Len(f.items) = 1 /\ r = Tail(s)
    \/ /\ Len(f.items) # 1
       /\ \E g \in Frame : /\ g.frame = "items" /\ g.key = f.key /\ g.rv = f.rv
                           /\ g.items = Tail(f.items) /\ r = <<g>> \o Tail(s)

\* The transaction of the item is in hand then.
LEMMA TakeItem ==
    ASSUME NEW b, NEW c, NEW w, Good(b, c, w, None, NoEntry), c.stack # <<>>,
           Head(c.stack).frame = "items", NEW d \in Cache, SameStore(c, d),
           ItemGone(c.stack, Head(c.stack), d.stack)
    PROVE  LET q == Head(c.stack).items
               x == q[1].trans
           IN
           /\ Good(b, d, w, x, NoEntry)
           /\ q # <<>> /\ q[1] \in Item /\ ItemOk(w, Head(c.stack).key, q[1].op, x)
           /\ Head(c.stack).rv # "OK" => c.active[Head(c.stack).key] = NoEntry
           /\ x # None => TransactionOk(b, c, w, None, x)
<1> DEFINE f == Head(c.stack)
           s == Tail(c.stack)
           q == f.items
           k == f.key
           x == q[1].trans
           p == Tail(q)
<1>1. /\ c \in Cache /\ w \in [Trans -> Transaction] /\ b \in Seq(Trans \cup {None})
      /\ \A u \in Trans : u # None
      /\ c.stack \in Seq(Frame)
  BY CacheFields, NoneAssumption DEF Good, Typed, Trans
<1>2. /\ f \in Frame /\ s \in Seq(Frame) /\ c.stack = <<f>> \o s /\ f = c.stack[1]
      /\ Len(s) = Len(c.stack) - 1 /\ Len(c.stack) \in Nat /\ 1 \in 1 .. Len(c.stack)
      /\ \A i \in 1 .. Len(s) : i + 1 \in 2 .. Len(c.stack) /\ s[i] = c.stack[i + 1]
      /\ \A i \in 2 .. Len(c.stack) : i - 1 \in 1 .. Len(s) /\ c.stack[i] = s[i - 1]
  <2> HIDE DEF Frame
  <2> QED
    BY <1>1, FirstOf
<1>3. f.frame = "items" /\ k \in Keys /\ q \in Seq(Item)
  <2> HIDE DEF f
  <2>1. f.frame = "items"
    BY DEF f
  <2> QED
    BY <2>1, <1>2, FrameFields
<1>4. q # <<>> /\ ItemsOk(w, k, q) /\ (f.rv # "OK" => c.active[k] = NoEntry)
  <2>1. \E first : FrameOk(c, w, f, first)
    BY <1>2 DEF Good, StackOk
  <2> QED
    BY <2>1, <1>3 DEF FrameOk
<1>5. /\ q[1] \in Item /\ Head(q) = q[1] /\ p \in Seq(Item) /\ Len(q) \in Nat \ {0}
      /\ ItemOk(w, k, q[1].op, x) /\ ItemsOk(w, k, p)
      /\ x # None => ~InItems(p, x)
      /\ \A u : InItems(q, u) <=> u = x \/ InItems(p, u)
      /\ Len(q) = 1 => p = <<>>
      /\ Len(q) # 1 => p # <<>>
  <2>1. Head(q) = q[1]
    BY DEF Head
  <2> HIDE DEF q, p, k
  <2> QED
    BY <2>1, <1>3, <1>4, FirstItem DEF p
<1>6. x \in Trans \cup {None}
  BY <1>5 DEF Item
<1> HIDE DEF f, s, q, k, x, p
<1>7. \A u : InFrame(f, u) <=> InItems(q, u)
  BY <1>3 DEF InFrame, q
<1>8. \A u : OnStack(c.stack, u) <=> InItems(q, u) \/ OnStack(s, u)
  <2> SUFFICES ASSUME NEW u PROVE OnStack(c.stack, u) <=> InItems(q, u) \/ OnStack(s, u)
    OBVIOUS
  <2>1. OnStack(<<f>> \o s, u) <=> InFrame(f, u) \/ OnStack(s, u)
    BY <1>2, OnStackInFront
  <2> QED
    BY <2>1, <1>2, <1>7
<1>9. \A u \in Trans : InItems(q, u) => ~OnStack(s, u)
  <2> SUFFICES ASSUME NEW u \in Trans, InItems(q, u), NEW i \in 1 .. Len(s), InFrame(s[i], u)
               PROVE  FALSE
    BY DEF OnStack
  <2>1. i + 1 \in 1 .. Len(c.stack) /\ i + 1 # 1 /\ InFrame(c.stack[i + 1], u)
        /\ InFrame(c.stack[1], u)
    BY <1>2, <1>7, SMTT(40)
  <2> QED
    BY <2>1, <1>2 DEF Good, StackOk, OneFrameEach
<1>10. ASSUME NEW i \in 1 .. Len(s) PROVE FrameOk(d, w, s[i], FALSE)
  <2>1. i + 1 \in 1 .. Len(c.stack) /\ i + 1 # 1 /\ s[i] = c.stack[i + 1]
    BY <1>2
  <2>2. FrameOk(c, w, c.stack[i + 1], FALSE)
    BY <2>1 DEF Good, StackOk
  <2> QED
    BY <2>1, <2>2, StoreOf
<1>11. OneFrameEach(s)
  <2>1. ASSUME NEW i \in 1 .. Len(s), NEW j \in 1 .. Len(s), NEW u \in Trans,
               InFrame(s[i], u), InFrame(s[j], u)
        PROVE  i = j
    <3>1. /\ i + 1 \in 1 .. Len(c.stack) /\ s[i] = c.stack[i + 1]
          /\ j + 1 \in 1 .. Len(c.stack) /\ s[j] = c.stack[j + 1]
      BY <1>2
    <3>2. i + 1 = j + 1
      BY <3>1, <2>1 DEF Good, StackOk, OneFrameEach
    <3> QED
      BY <3>2
  <2> QED
    BY <2>1 DEF OneFrameEach
<1> DEFINE HasRun(r, u) == Has(r, Run(u, "ERR_CACHE_RACE"))
<1>12. \A u \in Trans : HasRun(c.stack, u) => HasRun(s, u)
  <2> SUFFICES ASSUME NEW u \in Trans, NEW i \in 1 .. Len(c.stack),
                      c.stack[i] = Run(u, "ERR_CACHE_RACE")
               PROVE  \E j \in 1 .. Len(s) : s[j] = Run(u, "ERR_CACHE_RACE")
    BY DEF Has
  <2>1. i # 1
    <3>1. "ERR_CACHE_RACE" \in Results
      BY DEF Results
    <3>2. Run(u, "ERR_CACHE_RACE").frame = "run"
      BY <3>1, NewFrames
    <3> QED
      BY <3>2, <1>2, <1>3
  <2>2. i \in 2 .. Len(c.stack)
    BY <2>1
  <2> QED
    BY <2>2, <1>2
<1>13. /\ StackOk(d, w, x)
       /\ \A u : OnStack(d.stack, u) <=> InItems(p, u) \/ OnStack(s, u)
       /\ \A u \in Trans : HasRun(c.stack, u) => HasRun(d.stack, u)
  <2>1. CASE Len(q) = 1
    <3>1. d.stack = s /\ \A u : ~InItems(p, u)
      <4>1. d.stack = s
        BY <2>1 DEF ItemGone, q, f, s
      <4> QED
        BY <4>1, <2>1, <1>5 DEF InItems
    <3>2. StackOk(d, w, x)
      <4>1. \A i \in 1 .. Len(s) : \A first : FrameOk(d, w, s[i], first)
        BY <1>10, FirstNow
      <4> QED
        BY <3>1, <4>1, <1>11 DEF StackOk
    <3> QED
      BY <3>1, <3>2, <1>12
  <2>2. CASE Len(q) # 1
    <3>1. PICK g \in Frame : /\ g.frame = "items" /\ g.key = k /\ g.rv = f.rv /\ g.items = p
                             /\ d.stack = <<g>> \o s
      BY <2>2 DEF ItemGone, q, f, s, p, k
    <3>2. \A u : InFrame(g, u) <=> InItems(p, u)
      BY <3>1 DEF InFrame
    <3>3. /\ Len(d.stack) = Len(s) + 1 /\ Len(s) \in Nat /\ d.stack[1] = g
          /\ \A i \in 1 .. Len(s) : d.stack[i + 1] = s[i]
          /\ \A i \in 2 .. Len(s) + 1 : d.stack[i] = s[i - 1]
      <4> HIDE DEF Frame
      <4> QED
        BY <3>1, <1>2, InFront
    <3>4. \A first : FrameOk(d, w, g, first)
      <4>1. d.active = c.active
        BY DEF SameStore
      <4> QED
        BY <2>2, <3>1, <4>1, <1>4, <1>5 DEF FrameOk
    <3>5. ASSUME NEW i \in 1 .. Len(d.stack) PROVE FrameOk(d, w, d.stack[i], i = 1 /\ x = None)
      <4>1. CASE i = 1
        BY <4>1, <3>3, <3>4
      <4>2. CASE i # 1
        <5>1. i - 1 \in 1 .. Len(s) /\ d.stack[i] = s[i - 1] /\ (i = 1 /\ x = None) = FALSE
          BY <4>2, <3>3
        <5> QED
          BY <5>1, <1>10
      <4> QED
        BY <4>1, <4>2
    <3>6. \A u \in Trans : InFrame(g, u) => ~OnStack(s, u)
      BY <3>2, <1>5, <1>9
    <3>7. OneFrameEach(d.stack)
      BY <3>1, <3>6, <1>2, <1>11, OneFrameInFront
    <3>8. ASSUME NEW u PROVE OnStack(d.stack, u) <=> InItems(p, u) \/ OnStack(s, u)
      <4>1. OnStack(<<g>> \o s, u) <=> InFrame(g, u) \/ OnStack(s, u)
        BY <1>2, OnStackInFront
      <4> QED
        BY <3>1, <3>2, <4>1
    <3>9. \A u : HasRun(s, u) => HasRun(d.stack, u)
      <4> SUFFICES ASSUME NEW u, NEW i \in 1 .. Len(s), s[i] = Run(u, "ERR_CACHE_RACE")
                   PROVE  \E j \in 1 .. Len(d.stack) : d.stack[j] = Run(u, "ERR_CACHE_RACE")
        BY DEF Has
      <4>1. i + 1 \in 1 .. Len(d.stack) /\ d.stack[i + 1] = s[i]
        BY <3>3
      <4> QED
        BY <4>1
    <3> QED
      BY <3>5, <3>7, <3>8, <3>9, <1>12 DEF StackOk
  <2> QED
    BY <2>1, <2>2
<1>14. \A u, rv, y : ~RunsNow(c, y, u, rv)
  <2>1. \A u, rv : Run(u, rv).frame = "run"
    BY DEF Run
  <2> QED
    BY <2>1, <1>3 DEF RunsNow, f
<1>15. EntriesOk(d, w, x, NoEntry)
  <2>1. ASSUME NEW e \in Entries, IsLive(d, e) PROVE EntryOk(d, w, x, NoEntry, e)
    <3>1. IsLive(c, e) /\ EntryOk(c, w, None, NoEntry, e)
      BY <2>1, StoreOf DEF Good, EntriesOk
    <3>2. d.entries[e] = c.entries[e] /\ d.posted = c.posted /\ d.active = c.active
      BY DEF SameStore
    <3> QED
      BY <3>1, <3>2, <1>14, EntrySame
  <2> QED
    BY <2>1 DEF EntriesOk
<1>16. ActiveOk(d) /\ OpsOk(d, w)
  BY StoreOf DEF Good
<1>17. ASSUME NEW u \in Trans, u # x PROVE TransactionOk(b, d, w, x, u)
  <2>1. TransactionOk(b, c, w, None, u)
    BY <1>1 DEF Good, TransactionsOk
  <2>2. OnStack(d.stack, u) <=> OnStack(c.stack, u)
    BY <1>5, <1>8, <1>13, <1>17
  <2>3. Has(c.stack, Run(u, "ERR_CACHE_RACE")) => Has(d.stack, Run(u, "ERR_CACHE_RACE"))
    BY <1>13
  <2> QED
    BY <2>1, <2>2, <2>3, <1>1, <1>14, StoreOf, TransactionSame DEF SameStore
<1>18. ASSUME x # None PROVE TransactionOk(b, c, w, None, x) /\ Nowhere(b, d, x)
  <2>1. x \in Trans /\ InItems(q, x)
    BY <1>5, <1>6, <1>18
  <2>2. TransactionOk(b, c, w, None, x)
    BY <2>1, <1>1 DEF Good, TransactionsOk
  <2>3. ~Waits(b, d, x)
    BY <2>1, <2>2, <1>8, StoreOf DEF TransactionOk, PlaceOk
  <2>4. ~OnStack(d.stack, x)
    BY <2>1, <1>5, <1>9, <1>13, <1>18
  <2>5. w[x].next \in AtCache \cup Turns
    BY <2>1, <1>8, Places
  <2>6. w[x].entry = NoEntry
    BY <2>2, <2>5 DEF TransactionOk, HoldOk, AtCache, Turns, Holding, AtDisk, AtNetwork
  <2>7. ASSUME NEW e \in Entries, IsLive(d, e), Uses(d, x, e) PROVE FALSE
    <3>1. IsLive(c, e) /\ Uses(c, x, e)
      BY <2>7, StoreOf
    <3>2. HasOrGets(c, w, None, x, e)
      BY <2>1, <3>1, Places
    <3> QED
      BY <3>2, <2>6, <1>14 DEF HasOrGets, Entries, NoEntry
  <2> QED
    BY <2>2, <2>3, <2>4, <2>7 DEF Nowhere
<1>19. Good(b, d, w, x, NoEntry)
  BY <1>1, <1>6, <1>13, <1>15, <1>16, <1>17, <1>18 DEF Good, Typed, TransactionsOk
<1> QED
  BY <1>4, <1>5, <1>18, <1>19 DEF x, q, f, k

\* What is left of a frame of items.
Remaining(f, fail) == [f EXCEPT !.items = Tail(@), !.fail = fail]

\* It is such a frame.
LEMMA RemainingFields ==
    ASSUME NEW f \in Frame, f.frame = "items", f.items # <<>>, NEW fail \in BOOLEAN
    PROVE  /\ Remaining(f, fail) \in Frame /\ Remaining(f, fail).frame = "items"
           /\ Remaining(f, fail).key = f.key /\ Remaining(f, fail).rv = f.rv
           /\ Remaining(f, fail).items = Tail(f.items)
<1> DEFINE p == Tail(f.items)
<1>1. f \in ItemsFrame /\ f.items \in Seq(Item)
  BY FrameFields DEF Frame, RunFrame, UserFrame, ItemsFrame
<1>2. p \in Seq(Item)
  <2> HIDE DEF Item
  <2> QED
    BY <1>1, FirstOf
<1>3. Remaining(f, fail) = [[f EXCEPT !.items = p] EXCEPT !.fail = fail]
  BY <1>1 DEF Remaining, ItemsFrame
<1> HIDE DEF p
<1>4. [f EXCEPT !.items = p] \in ItemsFrame
  BY <1>1, <1>2 DEF ItemsFrame
<1> DEFINE g == [f EXCEPT !.items = p]
<1>5. /\ g.key = f.key /\ g.rv = f.rv /\ g.items = p
  BY <1>1 DEF ItemsFrame
<1> HIDE DEF g
<1>6. [g EXCEPT !.fail = fail] \in ItemsFrame
  BY <1>4 DEF ItemsFrame, g
<1>7. /\ [g EXCEPT !.fail = fail].key = g.key /\ [g EXCEPT !.fail = fail].rv = g.rv
      /\ [g EXCEPT !.fail = fail].items = g.items /\ [g EXCEPT !.fail = fail].frame = "items"
  <2>1. g \in ItemsFrame
    BY <1>4 DEF g
  <2> QED
    BY <2>1 DEF ItemsFrame
<1>8. Remaining(f, fail) = [g EXCEPT !.fail = fail]
  BY <1>3 DEF g
<1> QED
  BY <1>5, <1>6, <1>7, <1>8 DEF Frame, p

\* Those who waited for an operation are answered one by one.
LEMMA ItemAnswered ==
    ASSUME IInv, NotifyItem
    PROVE  IInv'
<1> DEFINE f == Head(cache.stack)
           k == f.key
           item == f.items[1]
           x == item.trans
           entry == IF f.rv = "OK" THEN FindActiveEntry(cache, k) ELSE NoEntry
           failed == f.fail \/ item.op = "DOOM" \/ (f.rv = "OK" /\ entry = NoEntry)
           race == \/ item.op = "CREATE" /\ f.rv # "OK" /\ f.op # "CREATE"
                   \/ item.op = "OPEN" /\ f.rv # "OK" /\ f.op = "CREATE"
           answer == IF failed \/ race THEN "ERR_CACHE_RACE"
                     ELSE IF item.op = "CREATE" /\ f.rv = "OK" THEN "ERR_CREATE_FAILURE"
                     ELSE f.rv
           g == Remaining(f, failed \/ race)
           rest == IF Len(f.items) = 1 THEN <<>> ELSE <<g>>
           n == IF answer = "OK" THEN entry ELSE NoEntry
           c == Rest(cache)
           b == backendOp
           d == Call(c, rest)
<1>1. /\ cache.stack # <<>> /\ f.frame = "items"
      /\ cache' = Call(c, (IF x = None THEN <<>> ELSE <<Run(x, answer)>>) \o rest)
      /\ tr' = IF x = None THEN tr ELSE [tr EXCEPT ![x].new = n]
      /\ backend' = backend /\ backendOp' = b
  <2>1. Head(f.items) = item
    BY DEF Head
  <2> QED
    BY <2>1 DEF NotifyItem, Idle, Rest, Popped, Remaining
<1>2. /\ Good(b, cache, tr, None, NoEntry)
      /\ cache \in Cache /\ tr \in [Trans -> Transaction]
      /\ cache.active \in [Keys -> Entries \cup {NoEntry}]
      /\ \A u \in Trans : u # None
  BY <1>1, CacheFields, NoneAssumption DEF IInv, Good, Typed, Trans
<1>3. /\ c \in Cache /\ SameStore(cache, c) /\ c.stack = Tail(cache.stack)
      /\ Tail(cache.stack) \in Seq(Frame) /\ f \in Frame
  BY <1>1, <1>2, RestFields
<1>4. /\ k \in Keys /\ f.op \in Ops /\ f.rv \in {"OK", "ERR_FAILED"} /\ f.fail \in BOOLEAN
      /\ f.items \in Seq(Item)
  <2> HIDE DEF f
  <2> QED
    BY <1>1, <1>3, FrameFields
<1>5. f.items # <<>>
  <2>1. f = cache.stack[1] /\ 1 \in 1 .. Len(cache.stack)
    <3>1. cache.stack \in Seq(Frame)
      BY <1>2, CacheFields
    <3> HIDE DEF Frame
    <3> QED
      BY <1>1, <3>1, FirstOf
  <2>2. \E first : FrameOk(cache, tr, f, first)
    BY <2>1, <1>2 DEF Good, StackOk
  <2> QED
    BY <2>2, <1>1 DEF FrameOk
<1>6. (failed \/ race) \in BOOLEAN
  <2>1. failed \in BOOLEAN /\ race \in BOOLEAN
    <3> HIDE DEF f
    <3> QED
      BY <1>4
  <2> QED
    BY <2>1
<1>7. /\ g \in Frame /\ g.frame = "items" /\ g.key = k /\ g.rv = f.rv /\ g.items = Tail(f.items)
  <2> HIDE DEF f, failed, race
  <2> QED
    BY <1>1, <1>3, <1>5, <1>6, RemainingFields DEF f
<1> HIDE DEF g
<1>8. rest \in Seq(Frame)
  BY <1>7
<1>9. d \in Cache /\ SameStore(cache, d) /\ ItemGone(cache.stack, f, d.stack)
  <2>1. d \in Cache /\ SameStore(c, d) /\ d.stack = rest \o Tail(cache.stack)
    <3> HIDE DEF rest, c, f
    <3> QED
      BY <1>3, <1>8, CallFields
  <2>2. Len(f.items) = 1 => d.stack = Tail(cache.stack)
    <3> SUFFICES ASSUME Len(f.items) = 1 PROVE d.stack = Tail(cache.stack)
      OBVIOUS
    <3>1. d.stack = <<>> \o Tail(cache.stack)
      BY <2>1
    <3> QED
      BY <3>1, <1>3
  <2>3. Len(f.items) # 1 => d.stack = <<g>> \o Tail(cache.stack)
    BY <2>1
  <2> HIDE DEF d, c
  <2> QED
    BY <2>1, <2>2, <2>3, <1>3, <1>7 DEF ItemGone, SameStore
<1> HIDE DEF d, c, rest
<1>10. /\ Good(b, d, tr, x, NoEntry)
       /\ item \in Item /\ ItemOk(tr, k, item.op, x)
       /\ f.rv # "OK" => cache.active[k] = NoEntry
       /\ x # None => TransactionOk(b, cache, tr, None, x)
  BY <1>1, <1>2, <1>9, TakeItem
<1>11. item.op \in Ops /\ x \in Trans \cup {None}
  <2> HIDE DEF item
  <2> QED
    BY <1>10 DEF Item
<1>12. /\ answer \in Results
       /\ n # NoEntry => answer = "OK" /\ n = cache.active[k] /\ item.op = "OPEN"
       /\ item.op = "OPEN" /\ answer = "OK" => n # NoEntry
       /\ item.op = "OPEN" /\ answer = "ERR_FAILED" => cache.active[k] = NoEntry
       /\ item.op # "OPEN" => answer # "OK" \/ item.op = "CREATE"
       /\ item.op = "CREATE" => answer # "OK"
       /\ item.op = "DOOM" => answer = "ERR_CACHE_RACE"
       /\ n \in Entries \cup {NoEntry}
  <2>1. cache.active[k] \in Entries \cup {NoEntry}
    BY <1>2, <1>4
  <2> HIDE DEF f, k, item
  <2> QED
    BY <2>1, <1>4, <1>10, <1>11 DEF FindActiveEntry, Results, Ops, f, k
<1> HIDE DEF answer, n
<1>13. CASE x = None
  <2>1. cache' = d /\ tr' = tr
    <3>1. cache' = Call(c, <<>> \o rest) /\ tr' = tr
      BY <1>1, <1>13
    <3> QED
      BY <3>1, <1>8 DEF d
  <2> QED
    BY <2>1, <1>1, <1>10, <1>13 DEF IInv
<1>14. CASE x # None
  <2> DEFINE r == [tr[x] EXCEPT !.new = n]
             v == [tr EXCEPT ![x] = r]
  <2>1. /\ x \in Trans /\ tr[x] \in Transaction /\ tr[x].key = k /\ tr[x].next = Completes(item.op)
        /\ TransactionOk(b, cache, tr, None, x)
    BY <1>2, <1>10, <1>11, <1>14 DEF ItemOk
  <2>2. /\ tr[x].next \in {"OPEN_ENTRY_COMPLETE", "CREATE_ENTRY_COMPLETE", "DOOM_ENTRY_COMPLETE"}
        /\ item.op = "OPEN" <=> tr[x].next = "OPEN_ENTRY_COMPLETE"
        /\ item.op = "CREATE" <=> tr[x].next = "CREATE_ENTRY_COMPLETE"
        /\ item.op = "DOOM" <=> tr[x].next = "DOOM_ENTRY_COMPLETE"
    BY <2>1, <1>11 DEF Completes, Ops
  <2>3. /\ tr[x].entry = NoEntry /\ tr[x].mode # "NONE"
    <3>1. tr[x].next \notin Holding \cup Outside \cup {"GET_BACKEND_COMPLETE"}
      BY <2>2 DEF Holding, AtDisk, AtNetwork, Outside
    <3> QED
      BY <3>1, <2>1 DEF TransactionOk, HoldOk
  <2>4. tr' = v
    BY <1>1, <1>2, <1>14, <2>1
  <2>5. /\ r \in Transaction /\ r.next = tr[x].next /\ r.key = k /\ r.mode = tr[x].mode
        /\ r.entry = NoEntry /\ r.new = n
    BY <2>1, <2>3, <1>12 DEF Transaction
  <2>6. v[x] = r
    BY <1>2, <2>1
  <2>7. Good(b, d, v, x, NoEntry)
    <3> HIDE DEF r, x
    <3> QED
      BY <1>10, <2>1, <2>5, InHand
  <2>8. d.active = cache.active
    BY <1>9 DEF SameStore
  <2> HIDE DEF r, v, x, item, f, k
  <2>9. RunOk(d, v, x, answer, TRUE)
    BY <2>2, <2>5, <2>6, <2>8, <1>12 DEF RunOk, AtCache, Turns
  <2>10. Joins(v, x, answer, NoEntry)
    BY DEF Joins
  <2>11. HoldOk(d, v, x)
    <3>1. v[x].next \in AtCache \cup Turns
      BY <2>2, <2>5, <2>6 DEF AtCache
    <3> QED
      BY <3>1, <2>3, <2>5, <2>6, <1>4, HoldsNothing
  <2>12. /\ v[x].new # NoEntry => /\ answer = "OK" /\ v[x].new = d.active[v[x].key]
                                  /\ v[x].next \in {"OPEN_ENTRY_COMPLETE", "CREATE_ENTRY_COMPLETE", "ADD_TO_ENTRY"}
         /\ v[x].next # "ADD_TO_ENTRY" /\ v[x].next # "ADD_TO_ENTRY_COMPLETE"
    BY <2>2, <2>5, <2>6, <2>8, <1>12
  <2>13. Good(b, Call(d, <<Run(x, answer)>>), v, None, NoEntry)
    BY <2>1, <2>7, <2>9, <2>10, <2>11, <2>12, <1>12, PutRun
  <2>14. cache' = Call(d, <<Run(x, answer)>>)
    <3>1. <<Run(x, answer)>> \in Seq(Frame)
      BY <2>1, <1>12, NewFrames
    <3>2. Call(Call(c, rest), <<Run(x, answer)>>) = Call(c, <<Run(x, answer)>> \o rest)
      BY <3>1, <1>3, <1>8, CallTwice
    <3> QED
      BY <3>2, <1>1, <1>14 DEF d
  <2> QED
    BY <2>4, <2>13, <2>14, <1>1 DEF IInv
<1> QED
  BY <1>13, <1>14

-----------------------------------------------------------------------------
(* The posted task                                                         *)

\* An entry that somebody uses, or a task is posted for, does not want anybody.
LEMMA Attended ==
    ASSUME NEW b, NEW c, NEW w, NEW x, NEW e, Good(b, c, w, x, e),
           c.entries[e].writer # None \/ c.entries[e].readers # {} \/ c.entries[e].will
    PROVE  Good(b, c, w, x, NoEntry)
<1>1. EntriesOk(c, w, x, NoEntry)
  <2>1. ASSUME NEW f \in Entries, IsLive(c, f) PROVE EntryOk(c, w, x, NoEntry, f)
    <3>1. EntryOk(c, w, x, e, f)
      BY <2>1 DEF Good, EntriesOk
    <3> QED
      BY <3>1 DEF EntryOk, AttendedOk
  <2> QED
    BY <2>1 DEF EntriesOk
<1> QED
  BY <1>1 DEF Good

\* The first of a queue leaves it.
LEMMA FirstLeaves ==
    ASSUME NEW q \in Seq(Trans), q # <<>>, NoneTwice(q)
    PROVE  /\ Tail(q) \in Seq(Trans) /\ q[1] \in Trans /\ Has(q, q[1])
           /\ IsWithout(q, Tail(q), q[1])
<1> DEFINE s == Tail(q)
<1>1. /\ Head(q) = q[1] /\ Head(q) \in Trans /\ s \in Seq(Trans) /\ Len(q) \in Nat
      /\ 1 \in 1 .. Len(q) /\ Len(s) = Len(q) - 1
      /\ \A i \in 1 .. Len(s) : i + 1 \in 2 .. Len(q) /\ s[i] = q[i + 1]
      /\ \A i \in 2 .. Len(q) : i - 1 \in 1 .. Len(s) /\ q[i] = s[i - 1]
  <2> HIDE DEF Trans
  <2> QED
    BY FirstOf
<1> HIDE DEF s
<1>2. NoneTwice(s)
  <2> SUFFICES ASSUME NEW i \in 1 .. Len(s), NEW j \in 1 .. Len(s), s[i] = s[j]
               PROVE  i = j
    BY DEF NoneTwice
  <2>1. i + 1 \in 1 .. Len(q) /\ j + 1 \in 1 .. Len(q) /\ s[i] = q[i + 1] /\ s[j] = q[j + 1]
    BY <1>1
  <2>2. i + 1 = j + 1
    BY <2>1 DEF NoneTwice
  <2> QED
    BY <2>2
<1>3. ASSUME NEW u, Has(s, u) PROVE Has(q, u) /\ u # q[1]
  <2>1. PICK i \in 1 .. Len(s) : s[i] = u
    BY <1>3 DEF Has
  <2>2. i + 1 \in 1 .. Len(q) /\ i + 1 # 1 /\ q[i + 1] = u
    BY <2>1, <1>1
  <2> QED
    BY <2>2, <1>1 DEF Has, NoneTwice
<1>4. ASSUME NEW u, Has(q, u), u # q[1] PROVE Has(s, u)
  <2>1. PICK i \in 1 .. Len(q) : q[i] = u
    BY <1>4 DEF Has
  <2>2. i \in 2 .. Len(q)
    BY <2>1, <1>1, <1>4
  <2> QED
    BY <2>1, <2>2, <1>1 DEF Has
<1>5. Has(q, q[1])
  BY <1>1 DEF Has
<1> QED
  BY <1>1, <1>2, <1>3, <1>4, <1>5 DEF IsWithout, s

\* The queue of an entry is replaced.
Queue(c, e, q) == [c EXCEPT !.entries[e].queue = q]

\* So does one that waits for an entry, between tasks.
LEMMA NextInQueue ==
    ASSUME NEW b, NEW c, NEW w, NEW e \in Entries, Good(b, c, w, None, e), c.stack = <<>>,
           IsLive(c, e), c.entries[e].queue # <<>>
    PROVE  LET x == c.entries[e].queue[1]
               d == Queue(c, e, Tail(c.entries[e].queue))
           IN
           /\ x \in Trans /\ Good(b, d, w, x, e) /\ IsLive(d, e)
           /\ w[x].next = "ADD_TO_ENTRY_COMPLETE" /\ w[x].new = e /\ w[x].entry = NoEntry
           /\ w[x].key \in Keys /\ w[x].mode # "NONE"
<1> DEFINE y == c.entries[e]
           q == y.queue
           x == q[1]
           r == [y EXCEPT !.queue = Tail(q)]
           d == Queue(c, e, Tail(q))
<1>1. /\ c \in Cache /\ y \in Entry /\ q \in Seq(Trans) /\ EntryOk(c, w, None, e, e)
      /\ w \in [Trans -> Transaction]
  BY LiveFields DEF Good, Typed, EntriesOk
<1>2. NoneTwice(q)
  BY <1>1 DEF EntryOk, QueueOk
<1>3. Tail(q) \in Seq(Trans) /\ x \in Trans /\ Has(q, x) /\ IsWithout(q, Tail(q), x)
  BY <1>1, <1>2, FirstLeaves
<1>4. Queued(c, x, e)
  BY <1>3 DEF Queued
<1>5. Good(b, d, w, x, e)
  <2> HIDE DEF x
  <2> QED
    BY <1>3, <1>4, TakeQueued DEF Queue
<1>6. IsLive(d, e)
  <2> HIDE DEF y
  <2>1. r \in Entry
    BY <1>1, <1>3 DEF Entry
  <2>2. r # Closed
    BY <2>1, EntryFields
  <2>3. d = With(c, e, r)
    BY DEF Queue, With, y
  <2> HIDE DEF r, d
  <2>4. d.entries[e] = r
    BY <2>1, <2>3, <1>1, WithFields
  <2> QED
    BY <2>2, <2>4 DEF IsLive
<1>7. /\ w[x].next = "ADD_TO_ENTRY_COMPLETE" /\ w[x].new = e
  <2> HIDE DEF x
  <2> QED
    BY <1>3, <1>4, Places
<1>8. /\ w[x].entry = NoEntry /\ w[x].key \in Keys /\ w[x].mode # "NONE"
  <2>1. HoldOk(c, w, x)
    BY <1>3, NoneAssumption DEF Good, TransactionsOk, TransactionOk, Trans
  <2> HIDE DEF x
  <2> QED
    BY <2>1, <1>7 DEF HoldOk, AtCache, Holding, AtDisk, AtNetwork, Outside
<1> QED
  BY <1>3, <1>5, <1>6, <1>7, <1>8

\* The posted task.
LEMMA TaskRuns ==
    ASSUME IInv, NEW e \in Entries, OnProcessPendingQueue(e)
    PROVE  IInv'
<1> DEFINE c == TaskTaken(cache, e)
           q == c.entries[e].queue
           d == Queue(c, e, Tail(q))
           x == q[1]
           b == backendOp
<1>1. /\ cache.stack = <<>> /\ e \in cache.posted
      /\ cache' = IF q = <<>>
                  THEN IF c.entries[e].readers = {} THEN DestroyEntry(c, e) ELSE c
                  ELSE IF Writes(tr[x].mode) /\ c.entries[e].readers # {} THEN c
                  ELSE IF MustQueue(d, e, x) THEN AddTransactionToEntry(d, e, x)
                  ELSE Call(AddTransactionToEntry(d, e, x), <<Run(x, "OK")>>)
      /\ backend' = backend /\ backendOp' = b /\ tr' = tr
  BY DEF OnProcessPendingQueue, Idle, Queue, TaskTaken
<1>2. Good(b, cache, tr, None, NoEntry)
  BY DEF IInv
<1>3. /\ Good(b, c, tr, None, e) /\ c.entries[e].writer = None /\ c.entries[e].will = FALSE
      /\ IsLive(c, e) /\ c.stack = <<>>
  BY <1>1, <1>2, TakeTask, ZenonT(60)
<1> HIDE DEF c
<1>4. c.entries[e].readers # {} => Good(b, c, tr, None, NoEntry)
  BY <1>3, Attended
<1>5. CASE q = <<>> /\ c.entries[e].readers = {}
  <2>1. Good(b, DestroyEntry(c, e), tr, None, NoEntry)
    BY <1>3, <1>5, DestroyIdle
  <2> QED
    BY <2>1, <1>1, <1>5 DEF IInv
<1>6. CASE c.entries[e].readers # {} /\ (q = <<>> \/ Writes(tr[x].mode))
  BY <1>1, <1>4, <1>6 DEF IInv
<1>7. CASE q # <<>> /\ ~(Writes(tr[x].mode) /\ c.entries[e].readers # {})
  <2>1. /\ x \in Trans /\ Good(b, d, tr, x, e) /\ IsLive(d, e)
        /\ tr[x].next = "ADD_TO_ENTRY_COMPLETE" /\ tr[x].new = e /\ tr[x].entry = NoEntry
        /\ tr[x].key \in Keys /\ tr[x].mode # "NONE"
    BY <1>3, <1>7, NextInQueue
  <2> HIDE DEF x, d
  <2>2. Good(b, IF MustQueue(d, e, x) THEN AddTransactionToEntry(d, e, x)
                ELSE Call(AddTransactionToEntry(d, e, x), <<Run(x, "OK")>>), tr, None, NoEntry)
    BY <2>1, PutAdded
  <2> QED
    BY <2>2, <1>1, <1>7 DEF IInv
<1> QED
  BY <1>5, <1>6, <1>7

-----------------------------------------------------------------------------
(* DoLoop                                                                  *)

\* Records of transactions that change, and the functions they are in.
States == AtCache \cup Turns \cup Holding \cup Outside
Moved(r, s) == [r EXCEPT !.next = s]
WithNew(r, s, e) == [r EXCEPT !.next = s, !.new = e]
WithMode(r, s, m) == [r EXCEPT !.next = s, !.mode = m]

\* What they are.
LEMMA MovedFields ==
    ASSUME NEW r \in Transaction, NEW s \in States
    PROVE  /\ Moved(r, s) \in Transaction /\ Moved(r, s).next = s /\ Moved(r, s).key = r.key
           /\ Moved(r, s).mode = r.mode /\ Moved(r, s).entry = r.entry
           /\ Moved(r, s).new = r.new
BY DEF Moved, Transaction, States

\* With another entry.
LEMMA WithNewFields ==
    ASSUME NEW r \in Transaction, NEW s \in States, NEW e \in Entries \cup {NoEntry}
    PROVE  /\ WithNew(r, s, e) \in Transaction /\ WithNew(r, s, e).next = s
           /\ WithNew(r, s, e).key = r.key /\ WithNew(r, s, e).mode = r.mode
           /\ WithNew(r, s, e).entry = r.entry /\ WithNew(r, s, e).new = e
<1>1. WithNew(r, s, e) = [Moved(r, s) EXCEPT !.new = e]
  BY DEF WithNew, Moved, Transaction
<1>2. Moved(r, s) \in Transaction
  BY MovedFields
<1> DEFINE q == Moved(r, s)
<1>3. q \in Transaction
  BY <1>2
<1> HIDE DEF q
<1>4. /\ [q EXCEPT !.new = e] \in Transaction /\ [q EXCEPT !.new = e].next = q.next
      /\ [q EXCEPT !.new = e].key = q.key /\ [q EXCEPT !.new = e].mode = q.mode
      /\ [q EXCEPT !.new = e].entry = q.entry /\ [q EXCEPT !.new = e].new = e
  BY <1>3 DEF Transaction
<1> QED
  BY <1>1, <1>4, MovedFields DEF q

\* With another mode.
LEMMA WithModeFields ==
    ASSUME NEW r \in Transaction, NEW s \in States, NEW m \in Modes
    PROVE  /\ WithMode(r, s, m) \in Transaction /\ WithMode(r, s, m).next = s
           /\ WithMode(r, s, m).key = r.key /\ WithMode(r, s, m).mode = m
           /\ WithMode(r, s, m).entry = r.entry /\ WithMode(r, s, m).new = r.new
<1>1. WithMode(r, s, m) = [Moved(r, s) EXCEPT !.mode = m]
  BY DEF WithMode, Moved, Transaction
<1>2. Moved(r, s) \in Transaction
  BY MovedFields
<1> DEFINE q == Moved(r, s)
<1>3. q \in Transaction
  BY <1>2
<1> HIDE DEF q
<1>4. /\ [q EXCEPT !.mode = m] \in Transaction /\ [q EXCEPT !.mode = m].next = q.next
      /\ [q EXCEPT !.mode = m].key = q.key /\ [q EXCEPT !.mode = m].mode = m
      /\ [q EXCEPT !.mode = m].entry = q.entry /\ [q EXCEPT !.mode = m].new = q.new
  BY <1>3 DEF Transaction
<1> QED
  BY <1>1, <1>4, MovedFields DEF q

\* The transaction in hand goes on with the next turn of its DoLoop.
LEMMA GoesOn ==
    ASSUME NEW b, NEW c, NEW w, NEW t \in Trans, NEW o, Good(b, c, w, t, o),
           NEW r \in Transaction, r.next \in Turns, r.entry = NoEntry, r.key \in Keys,
           r.mode # "NONE", r.next = "CREATE_ENTRY" => c.active[r.key] = NoEntry,
           o = r.new, r.new # NoEntry => r.new = c.active[r.key],
           r.next = "ADD_TO_ENTRY" <=> r.new # NoEntry
    PROVE  Good(b, Call(c, <<Run(t, "OK")>>), [w EXCEPT ![t] = r], None, NoEntry)
<1> DEFINE v == [w EXCEPT ![t] = r]
           rv == "OK"
<1>1. Good(b, c, v, t, o) /\ v[t] = r
  BY InHand DEF Good, Typed
<1>2. rv \in Results
  BY DEF Results
<1>3. r.next \in {"INIT_ENTRY", "CREATE_ENTRY", "ADD_TO_ENTRY"}
  BY DEF Turns
<1> HIDE DEF v
<1>4. RunOk(c, v, t, rv, TRUE)
  BY <1>1, <1>3 DEF RunOk, Turns
<1>5. Joins(v, t, rv, o)
  BY <1>1, <1>3 DEF Joins
<1>6. HoldOk(c, v, t)
  BY <1>1, <1>3, HoldsNothing DEF Turns
<1>7. /\ v[t].new # NoEntry => /\ rv = "OK" /\ v[t].new = c.active[v[t].key]
                               /\ v[t].next \in {"OPEN_ENTRY_COMPLETE", "CREATE_ENTRY_COMPLETE",
                                                 "ADD_TO_ENTRY"}
      /\ v[t].next = "ADD_TO_ENTRY" => v[t].new # NoEntry
      /\ v[t].next # "ADD_TO_ENTRY_COMPLETE"
  BY <1>1, <1>3
<1> HIDE DEF rv
<1>8. Good(b, Call(c, <<Run(t, rv)>>), v, None, NoEntry)
  BY <1>1, <1>2, <1>4, <1>5, <1>6, <1>7, PutRun
<1> QED
  BY <1>8 DEF rv, v

\* The transaction in hand has no more to do with the cache, and its user may be called.
LEMMA LeavesCache ==
    ASSUME NEW b, NEW c, NEW w, NEW t \in Trans, Good(b, c, w, t, NoEntry)
    PROVE  /\ Good(b, c, [w EXCEPT ![t] = Past], None, NoEntry)
           /\ Good(b, Finish(c, t), [w EXCEPT ![t] = Past], None, NoEntry)
<1> DEFINE v == [w EXCEPT ![t] = Past]
<1>1. Past \in Transaction /\ Past.next = "past" /\ Past.entry = NoEntry /\ Past.new = NoEntry
  BY Blank
<1>2. Good(b, c, v, t, NoEntry)
  <2> HIDE DEF Past
  <2> QED
    BY <1>1, InHand
<1>3. v[t] = Past
  BY DEF Good, Typed
<1> HIDE DEF v
<1>4. Good(b, c, v, None, NoEntry)
  BY <1>1, <1>2, <1>3, PutOutside DEF Outside
<1>5. Good(b, Call(c, <<User(t)>>), v, None, NoEntry)
  BY <1>1, <1>2, <1>3, PutUser
<1> QED
  BY <1>4, <1>5 DEF Finish, v

\* DoLoop of t runs in state s.
Ready(t, s) ==
    /\ Good(backendOp, cache, tr, None, NoEntry)
    /\ cache.stack # <<>> /\ Result \in Results /\ Head(cache.stack) = Run(t, Result)
    /\ tr[t].next = s /\ tr[t] \in Transaction /\ tr \in [Trans -> Transaction]
    /\ Popped \in Cache /\ SameStore(cache, Popped) /\ Popped.active = cache.active
    /\ RunOk(cache, tr, t, Result, TRUE)
    /\ tr[t].entry = NoEntry /\ tr[t].key \in Keys
    /\ s # "GET_BACKEND_COMPLETE" => tr[t].mode # "NONE"
    /\ Result # "OK" /\ s # "ADD_TO_ENTRY_COMPLETE" => tr[t].new = NoEntry
    /\ tr[t].new # NoEntry => s \in {"OPEN_ENTRY_COMPLETE", "CREATE_ENTRY_COMPLETE",
                                     "ADD_TO_ENTRY", "ADD_TO_ENTRY_COMPLETE"}
    /\ tr[t].new # NoEntry /\ s # "ADD_TO_ENTRY_COMPLETE" =>
           tr[t].new = cache.active[tr[t].key]
    /\ s # "ADD_TO_ENTRY_COMPLETE" =>
           Good(backendOp, Popped, tr, t, tr[t].new)
    /\ Result = "ERR_CACHE_RACE" => Good(backendOp, Popped, tr, t, NoEntry)
    /\ \A k \in Keys : cache.active[k] # NoEntry =>
           cache.active[k] \in Entries /\ IsLive(cache, cache.active[k]) /\ IsLive(Popped, cache.active[k])
    /\ \A k \in Keys : cache.active[k] \in Entries \cup {NoEntry}

\* What is known when DoLoop of t runs.
LEMMA Running ==
    ASSUME IInv, NEW t \in Trans, NEW s, Runs(t, s)
    PROVE  Ready(t, s)
<1>1. /\ Good(backendOp, cache, tr, None, NoEntry) /\ cache \in Cache
      /\ tr \in [Trans -> Transaction] /\ ActiveOk(cache)
  BY DEF IInv, Good, Typed
<1>2. cache.stack # <<>> /\ Head(cache.stack).frame = "run" /\ Head(cache.stack).trans = t /\ tr[t].next = s
  BY DEF Runs, Idle
<1>3. Popped \in Cache /\ SameStore(cache, Popped) /\ Head(cache.stack) \in Frame
  <2>1. Popped = Rest(cache)
    BY DEF Popped, Rest
  <2> QED
    BY <1>1, <1>2, <2>1, RestFields
<1>4. Result \in Results /\ Head(cache.stack) = Run(t, Result)
  <2> DEFINE f == Head(cache.stack)
  <2> HIDE DEF f
  <2>1. f.rv \in Results /\ f = Run(t, f.rv)
    BY <1>2, <1>3, FrameFields DEF f
  <2> QED
    BY <2>1 DEF Result, f
<1> DEFINE rv == Result
<1>5. rv \in Results /\ Head(cache.stack) = Run(t, rv)
  BY <1>4
<1> HIDE DEF rv
<1>6a. Called(backendOp, cache, tr, t, rv)
  BY <1>1, <1>2, <1>5, TakeRun
<1>6. /\ RunOk(cache, tr, t, rv, TRUE)
      /\ tr[t].entry = NoEntry /\ tr[t].key \in Keys /\ tr[t] \in Transaction
      /\ tr[t].next # "GET_BACKEND_COMPLETE" => tr[t].mode # "NONE"
      /\ rv # "OK" /\ tr[t].next # "ADD_TO_ENTRY_COMPLETE" => tr[t].new = NoEntry
      /\ tr[t].new # NoEntry => tr[t].next \in {"OPEN_ENTRY_COMPLETE", "CREATE_ENTRY_COMPLETE",
                                                "ADD_TO_ENTRY", "ADD_TO_ENTRY_COMPLETE"}
      /\ tr[t].new # NoEntry /\ tr[t].next # "ADD_TO_ENTRY_COMPLETE" =>
             tr[t].new = cache.active[tr[t].key]
      /\ tr[t].next # "ADD_TO_ENTRY_COMPLETE" =>
             Good(backendOp, Rest(cache), tr, t, tr[t].new)
      /\ rv = "ERR_CACHE_RACE" => Good(backendOp, Rest(cache), tr, t, NoEntry)
  BY <1>6a DEF Called
<1>7. /\ tr[t].next # "ADD_TO_ENTRY_COMPLETE" => Good(backendOp, Popped, tr, t, tr[t].new)
      /\ rv = "ERR_CACHE_RACE" => Good(backendOp, Popped, tr, t, NoEntry)
  BY <1>6 DEF Popped, Rest
<1>8. \A k \in Keys : cache.active[k] \in Entries \cup {NoEntry}
  BY <1>1, CacheFields
<1>9. /\ \A k \in Keys : cache.active[k] # NoEntry =>
             cache.active[k] \in Entries /\ IsLive(cache, cache.active[k]) /\ IsLive(Popped, cache.active[k])
      /\ Popped.active = cache.active
  BY <1>1, <1>3, <1>8 DEF ActiveOk, SameStore, IsLive
<1> QED
  BY <1>1, <1>2, <1>3, <1>5, <1>6, <1>7, <1>8, <1>9 DEF rv, Ready

\* DoGetBackendComplete.
LEMMA GetBackendCompletes ==
    ASSUME IInv, NEW t \in Trans, DoGetBackendComplete(t)
    PROVE  IInv'
<1> DEFINE b == backendOp
           c == Popped
           s == "GET_BACKEND_COMPLETE"
<1>1. Runs(t, s) /\ backend' = backend /\ backendOp' = b
  BY DEF DoGetBackendComplete
<1> HIDE DEF s
<1>2. /\ Good(b, c, tr, t, tr[t].new) /\ tr[t].new = NoEntry /\ tr[t] \in Transaction
      /\ tr \in [Trans -> Transaction] /\ tr[t].entry = NoEntry /\ tr[t].key \in Keys
  <2>1. Ready(t, s)
    BY <1>1, Running
  <2> QED
    BY <2>1 DEF Ready, s
<1>3. CASE backend # "ready" \/ tr[t].mode = "NONE"
  <2>1. Leave(t)
    BY <1>3 DEF DoGetBackendComplete
  <2>2. /\ Good(b, c, [tr EXCEPT ![t] = Past], None, NoEntry)
        /\ Good(b, Finish(c, t), [tr EXCEPT ![t] = Past], None, NoEntry)
    <3>1. Good(b, c, tr, t, NoEntry)
      BY <1>2
    <3> HIDE DEF c, b
    <3> QED
      BY <3>1, LeavesCache
  <2> QED
    BY <2>1, <2>2, <1>1 DEF Leave, IInv
<1>4. CASE ~(backend # "ready" \/ tr[t].mode = "NONE")
  <2> DEFINE r == Moved(tr[t], "INIT_ENTRY")
  <2>1. cache' = Call(c, <<Run(t, "OK")>>) /\ tr' = [tr EXCEPT ![t] = r]
    BY <1>2, <1>4 DEF DoGetBackendComplete, GoOn, Moved
  <2>2. /\ r \in Transaction /\ r.next = "INIT_ENTRY" /\ r.key = tr[t].key
        /\ r.mode = tr[t].mode /\ r.entry = tr[t].entry /\ r.new = tr[t].new
    BY <1>2, MovedFields DEF States, Turns
  <2> HIDE DEF r, c, b
  <2>3. Good(b, Call(c, <<Run(t, "OK")>>), [tr EXCEPT ![t] = r], None, NoEntry)
    BY <2>2, <1>2, <1>4, GoesOn DEF Turns
  <2> QED
    BY <2>1, <2>3, <1>1 DEF IInv, b
<1> QED
  BY <1>3, <1>4

\* DoOpenEntry.
LEMMA Opens ==
    ASSUME IInv, NEW t \in Trans, DoOpenEntry(t)
    PROVE  IInv'
<1> DEFINE b == backendOp
           c == Popped
           k == tr[t].key
           e == cache.active[k]
           s == "INIT_ENTRY"
           r == WithNew(tr[t], "OPEN_ENTRY_COMPLETE", e)
           v == [tr EXCEPT ![t] = r]
<1>1. /\ Runs(t, s) /\ backend' = backend /\ backendOp' = b
      /\ cache' = IF e # NoEntry THEN Call(c, <<Run(t, "OK")>>)
                  ELSE QueueOperation(c, k, "OPEN", t)
  BY DEF DoOpenEntry, FindActiveEntry
<1> HIDE DEF s
<1>2. /\ Good(b, c, tr, t, tr[t].new) /\ tr[t].new = NoEntry /\ tr[t] \in Transaction
      /\ tr \in [Trans -> Transaction] /\ tr[t].entry = NoEntry /\ k \in Keys
      /\ tr[t].mode # "NONE" /\ e \in Entries \cup {NoEntry} /\ c.active = cache.active
  <2>1. Ready(t, s)
    BY <1>1, Running
  <2> QED
    BY <2>1 DEF Ready, s
<1>3. tr' = v
  BY <1>2 DEF DoOpenEntry, FindActiveEntry, WithNew
<1>4. /\ r \in Transaction /\ r.next = "OPEN_ENTRY_COMPLETE" /\ r.key = k
      /\ r.mode = tr[t].mode /\ r.entry = NoEntry /\ r.new = e
  BY <1>2, WithNewFields DEF States, AtCache
<1>5. v[t] = r
  BY <1>2
<1>6. Good(b, c, v, t, NoEntry)
  <2>1. Good(b, c, tr, t, NoEntry)
    BY <1>2
  <2> HIDE DEF r, c, b
  <2> QED
    BY <2>1, <1>4, InHand
<1>7. HoldOk(c, v, t)
  BY <1>2, <1>4, <1>5, HoldsNothing DEF AtCache
<1>8. CASE e # NoEntry
  <2> DEFINE rv == "OK"
  <2>1. rv \in Results
    BY DEF Results
  <2>2. RunOk(c, v, t, rv, TRUE)
    BY <1>4, <1>5, <1>8 DEF RunOk, AtCache, Turns
  <2>3. Joins(v, t, rv, NoEntry)
    BY DEF Joins
  <2>4. /\ v[t].new # NoEntry => /\ rv = "OK" /\ v[t].new = c.active[v[t].key]
                                 /\ v[t].next \in {"OPEN_ENTRY_COMPLETE", "CREATE_ENTRY_COMPLETE",
                                                   "ADD_TO_ENTRY"}
        /\ v[t].next # "ADD_TO_ENTRY" /\ v[t].next # "ADD_TO_ENTRY_COMPLETE"
    BY <1>2, <1>4, <1>5
  <2> HIDE DEF rv, v, c, b
  <2>5. Good(b, Call(c, <<Run(t, rv)>>), v, None, NoEntry)
    BY <2>1, <2>2, <2>3, <2>4, <1>6, <1>7, PutRun
  <2> QED
    BY <2>5, <1>1, <1>3, <1>8 DEF IInv, rv, b
<1>9. CASE e = NoEntry
  <2>1. c.active[k] = NoEntry
    BY <1>2, <1>9
  <2>2. /\ t # None => /\ v[t].key = k /\ v[t].next = Completes("OPEN") /\ v[t].mode # "NONE"
                       /\ v[t].entry = NoEntry /\ v[t].new = NoEntry
    BY <1>2, <1>4, <1>5, <1>9 DEF Completes
  <2> DEFINE op == "OPEN"
  <2>3. op \in Ops
    BY DEF Ops
  <2> HIDE DEF v, c, b, k, op
  <2>4. Good(b, QueueOperation(c, k, op, t), v, None, NoEntry)
    BY <2>1, <2>2, <2>3, <1>2, <1>6, PutOperation DEF op
  <2> QED
    BY <2>4, <1>1, <1>3, <1>9 DEF IInv, op, b
<1> QED
  BY <1>8, <1>9

\* DoOpenEntryComplete.
LEMMA OpenCompletes ==
    ASSUME IInv, NEW t \in Trans, DoOpenEntryComplete(t)
    PROVE  IInv'
<1> DEFINE b == backendOp
           c == Popped
           k == tr[t].key
           s == "OPEN_ENTRY_COMPLETE"
           rv == Result
<1>1. Runs(t, s) /\ backend' = backend /\ backendOp' = b
  BY DEF DoOpenEntryComplete
<1> HIDE DEF s
<1>2. /\ Good(b, c, tr, t, tr[t].new) /\ tr[t] \in Transaction /\ tr[t].next = s
      /\ tr \in [Trans -> Transaction] /\ tr[t].entry = NoEntry /\ k \in Keys
      /\ tr[t].mode # "NONE" /\ c.active = cache.active
      /\ RunOk(cache, tr, t, rv, TRUE)
      /\ rv # "OK" => tr[t].new = NoEntry
      /\ tr[t].new # NoEntry => tr[t].new = cache.active[k]
  <2>1. Ready(t, s)
    BY <1>1, Running
  <2> QED
    BY <2>1 DEF Ready, s
<1>3. /\ rv = "OK" => tr[t].new # NoEntry
      /\ rv = "ERR_FAILED" => cache.active[k] = NoEntry
  BY <1>2 DEF RunOk, s
<1>4. CASE rv = "OK"
  <2> DEFINE r == Moved(tr[t], "ADD_TO_ENTRY")
  <2>0. GoOn(t, "ADD_TO_ENTRY", "OK", c)
    BY <1>4 DEF DoOpenEntryComplete
  <2>1. cache' = Call(c, <<Run(t, "OK")>>) /\ tr' = [tr EXCEPT ![t] = r]
    BY <2>0 DEF GoOn, Moved
  <2>2. /\ r \in Transaction /\ r.next = "ADD_TO_ENTRY" /\ r.key = tr[t].key
        /\ r.mode = tr[t].mode /\ r.entry = tr[t].entry /\ r.new = tr[t].new
    BY <1>2, MovedFields DEF States, Turns
  <2> HIDE DEF r, c, b, rv
  <2>3. Good(b, Call(c, <<Run(t, "OK")>>), [tr EXCEPT ![t] = r], None, NoEntry)
    BY <2>2, <1>2, <1>3, <1>4, GoesOn DEF Turns
  <2> QED
    BY <2>1, <2>3, <1>1 DEF IInv, b
<1>5. CASE rv = "ERR_CACHE_RACE"
  <2> DEFINE r == Moved(tr[t], "INIT_ENTRY")
  <2>0. GoOn(t, "INIT_ENTRY", "OK", c)
    BY <1>5 DEF DoOpenEntryComplete
  <2>1. cache' = Call(c, <<Run(t, "OK")>>) /\ tr' = [tr EXCEPT ![t] = r]
    BY <2>0 DEF GoOn, Moved
  <2>2. /\ r \in Transaction /\ r.next = "INIT_ENTRY" /\ r.key = tr[t].key
        /\ r.mode = tr[t].mode /\ r.entry = tr[t].entry /\ r.new = tr[t].new
    BY <1>2, MovedFields DEF States, Turns
  <2> HIDE DEF r, c, b
  <2>3. Good(b, Call(c, <<Run(t, "OK")>>), [tr EXCEPT ![t] = r], None, NoEntry)
    BY <2>2, <1>2, <1>5, GoesOn DEF Turns
  <2> QED
    BY <2>1, <2>3, <1>1 DEF IInv, b
<1>6. CASE rv = "ERR_FAILED" /\ tr[t].mode = "READ_WRITE"
  <2> DEFINE r == WithMode(tr[t], "CREATE_ENTRY", "WRITE")
  <2>0. /\ tr' = [tr EXCEPT ![t].next = "CREATE_ENTRY", ![t].mode = "WRITE"]
        /\ cache' = Call(c, <<Run(t, "OK")>>)
    BY <1>6 DEF DoOpenEntryComplete
  <2>1. cache' = Call(c, <<Run(t, "OK")>>) /\ tr' = [tr EXCEPT ![t] = r]
    BY <2>0, <1>2 DEF WithMode
  <2>2. /\ r \in Transaction /\ r.next = "CREATE_ENTRY" /\ r.key = tr[t].key
        /\ r.mode = "WRITE" /\ r.entry = tr[t].entry /\ r.new = tr[t].new
    BY <1>2, WithModeFields DEF States, Turns, Modes
  <2> HIDE DEF r, c, b
  <2>3. Good(b, Call(c, <<Run(t, "OK")>>), [tr EXCEPT ![t] = r], None, NoEntry)
    BY <2>2, <1>2, <1>3, <1>6, GoesOn DEF Turns
  <2> QED
    BY <2>1, <2>3, <1>1 DEF IInv, b
<1>7. CASE rv # "OK" /\ rv # "ERR_CACHE_RACE" /\ ~(rv = "ERR_FAILED" /\ tr[t].mode = "READ_WRITE")
  <2>1. Leave(t)
    BY <1>7 DEF DoOpenEntryComplete
  <2>2. /\ Good(b, c, [tr EXCEPT ![t] = Past], None, NoEntry)
        /\ Good(b, Finish(c, t), [tr EXCEPT ![t] = Past], None, NoEntry)
    <3>1. Good(b, c, tr, t, NoEntry)
      BY <1>2, <1>7
    <3> HIDE DEF c, b
    <3> QED
      BY <3>1, LeavesCache
  <2> QED
    BY <2>1, <2>2, <1>1 DEF Leave, IInv
<1> QED
  BY <1>4, <1>5, <1>6, <1>7

\* DoCreateEntry.
LEMMA Creates ==
    ASSUME IInv, NEW t \in Trans, DoCreateEntry(t)
    PROVE  IInv'
<1> DEFINE b == backendOp
           c == Popped
           k == tr[t].key
           s == "CREATE_ENTRY"
           op == "CREATE"
           r == Moved(tr[t], "CREATE_ENTRY_COMPLETE")
           v == [tr EXCEPT ![t] = r]
<1>1. /\ Runs(t, s) /\ backend' = backend /\ backendOp' = b
      /\ cache' = QueueOperation(c, k, op, t) /\ tr' = v
  BY DEF DoCreateEntry, Moved
<1> HIDE DEF s
<1>2. /\ Good(b, c, tr, t, tr[t].new) /\ tr[t].new = NoEntry /\ tr[t] \in Transaction
      /\ tr \in [Trans -> Transaction] /\ tr[t].entry = NoEntry /\ k \in Keys
      /\ tr[t].mode # "NONE" /\ c.active[k] = NoEntry
  <2>1. Ready(t, s)
    BY <1>1, Running
  <2> QED
    BY <2>1 DEF Ready, s, RunOk
<1>3. /\ r \in Transaction /\ r.next = "CREATE_ENTRY_COMPLETE" /\ r.key = k
      /\ r.mode = tr[t].mode /\ r.entry = NoEntry /\ r.new = NoEntry
  BY <1>2, MovedFields DEF States, AtCache
<1>4. v[t] = r
  BY <1>2
<1>5. Good(b, c, v, t, NoEntry)
  <2>1. Good(b, c, tr, t, NoEntry)
    BY <1>2
  <2> HIDE DEF r, c, b
  <2> QED
    BY <2>1, <1>3, InHand
<1>6. /\ t # None => /\ v[t].key = k /\ v[t].next = Completes(op) /\ v[t].mode # "NONE"
                     /\ v[t].entry = NoEntry /\ v[t].new = NoEntry
  BY <1>2, <1>3, <1>4 DEF Completes
<1>7. op \in Ops
  BY DEF Ops
<1> HIDE DEF v, c, b, k, op
<1>8. Good(b, QueueOperation(c, k, op, t), v, None, NoEntry)
  BY <1>2, <1>5, <1>6, <1>7, PutOperation
<1> QED
  BY <1>8, <1>1 DEF IInv, b

\* DoCreateEntryComplete.
LEMMA CreateCompletes ==
    ASSUME IInv, NEW t \in Trans, DoCreateEntryComplete(t)
    PROVE  IInv'
<1> DEFINE b == backendOp
           c == Popped
           k == tr[t].key
           s == "CREATE_ENTRY_COMPLETE"
           rv == Result
<1>1. Runs(t, s) /\ backend' = backend /\ backendOp' = b
  BY DEF DoCreateEntryComplete
<1> HIDE DEF s
<1>2. /\ Good(b, c, tr, t, tr[t].new) /\ tr[t] \in Transaction /\ tr[t].next = s
      /\ tr \in [Trans -> Transaction] /\ tr[t].entry = NoEntry /\ k \in Keys
      /\ tr[t].mode # "NONE" /\ c.active = cache.active
      /\ RunOk(cache, tr, t, rv, TRUE)
      /\ rv # "OK" => tr[t].new = NoEntry
      /\ tr[t].new # NoEntry => tr[t].new = cache.active[k]
  <2>1. Ready(t, s)
    BY <1>1, Running
  <2> QED
    BY <2>1 DEF Ready, s
<1>3. rv = "OK" => tr[t].new # NoEntry
  BY <1>2 DEF RunOk, s
<1>4. CASE rv = "OK"
  <2> DEFINE r == Moved(tr[t], "ADD_TO_ENTRY")
  <2>0. GoOn(t, "ADD_TO_ENTRY", "OK", c)
    BY <1>4 DEF DoCreateEntryComplete
  <2>1. cache' = Call(c, <<Run(t, "OK")>>) /\ tr' = [tr EXCEPT ![t] = r]
    BY <2>0 DEF GoOn, Moved
  <2>2. /\ r \in Transaction /\ r.next = "ADD_TO_ENTRY" /\ r.key = tr[t].key
        /\ r.mode = tr[t].mode /\ r.entry = tr[t].entry /\ r.new = tr[t].new
    BY <1>2, MovedFields DEF States, Turns
  <2> HIDE DEF r, c, b, rv
  <2>3. Good(b, Call(c, <<Run(t, "OK")>>), [tr EXCEPT ![t] = r], None, NoEntry)
    BY <2>2, <1>2, <1>3, <1>4, GoesOn DEF Turns
  <2> QED
    BY <2>1, <2>3, <1>1 DEF IInv, b
<1>5. CASE rv = "ERR_CACHE_RACE"
  <2> DEFINE r == Moved(tr[t], "INIT_ENTRY")
  <2>0. GoOn(t, "INIT_ENTRY", "OK", c)
    BY <1>5 DEF DoCreateEntryComplete
  <2>1. cache' = Call(c, <<Run(t, "OK")>>) /\ tr' = [tr EXCEPT ![t] = r]
    BY <2>0 DEF GoOn, Moved
  <2>2. /\ r \in Transaction /\ r.next = "INIT_ENTRY" /\ r.key = tr[t].key
        /\ r.mode = tr[t].mode /\ r.entry = tr[t].entry /\ r.new = tr[t].new
    BY <1>2, MovedFields DEF States, Turns
  <2> HIDE DEF r, c, b
  <2>3. Good(b, Call(c, <<Run(t, "OK")>>), [tr EXCEPT ![t] = r], None, NoEntry)
    BY <2>2, <1>2, <1>5, GoesOn DEF Turns
  <2> QED
    BY <2>1, <2>3, <1>1 DEF IInv, b
<1>6. CASE rv # "OK" /\ rv # "ERR_CACHE_RACE"
  <2>1. Leave(t)
    BY <1>6 DEF DoCreateEntryComplete
  <2>2. /\ Good(b, c, [tr EXCEPT ![t] = Past], None, NoEntry)
        /\ Good(b, Finish(c, t), [tr EXCEPT ![t] = Past], None, NoEntry)
    <3>1. Good(b, c, tr, t, NoEntry)
      BY <1>2, <1>6
    <3> HIDE DEF c, b
    <3> QED
      BY <3>1, LeavesCache
  <2> QED
    BY <2>1, <2>2, <1>1 DEF Leave, IInv
<1> QED
  BY <1>4, <1>5, <1>6

\* DoDoomEntry.
LEMMA Dooms ==
    ASSUME IInv, NEW t \in Trans, DoDoomEntry(t)
    PROVE  IInv'
<1> DEFINE b == backendOp
           c == Popped
           k == tr[t].key
           e == cache.active[k]
           s == "INIT_ENTRY"
           r == Moved(tr[t], "DOOM_ENTRY_COMPLETE")
           v == [tr EXCEPT ![t] = r]
<1>1. /\ Runs(t, s) /\ backend' = backend /\ backendOp' = b
      /\ cache' = IF e # NoEntry THEN Call(DoomEntry(c, k, t), <<Run(t, "OK")>>)
                  ELSE DoomEntry(c, k, t)
      /\ tr' = v
  BY DEF DoDoomEntry, FindActiveEntry, Moved
<1> HIDE DEF s
<1>2. /\ Good(b, c, tr, t, tr[t].new) /\ tr[t].new = NoEntry /\ tr[t] \in Transaction
      /\ tr \in [Trans -> Transaction] /\ tr[t].entry = NoEntry /\ k \in Keys
      /\ tr[t].mode # "NONE" /\ e \in Entries \cup {NoEntry} /\ c.active = cache.active
      /\ t # None
  <2>1. Ready(t, s)
    BY <1>1, Running
  <2> QED
    BY <2>1, NoneAssumption DEF Ready, s, Trans
<1>3. /\ r \in Transaction /\ r.next = "DOOM_ENTRY_COMPLETE" /\ r.key = k
      /\ r.mode = tr[t].mode /\ r.entry = NoEntry /\ r.new = NoEntry
  BY <1>2, MovedFields DEF States, AtCache
<1>4. v[t] = r
  BY <1>2
<1>5. Good(b, c, v, t, NoEntry)
  <2>1. Good(b, c, tr, t, NoEntry)
    BY <1>2
  <2> HIDE DEF r, c, b
  <2> QED
    BY <2>1, <1>3, InHand
<1>6. CASE e # NoEntry
  <2> DEFINE d == Doomed(c, k)
             rv == "OK"
  <2>1. DoomEntry(c, k, t) = d
    BY <1>2, <1>6 DEF DoomEntry, FindActiveEntry, Doomed
  <2>2. Good(b, d, v, t, NoEntry) /\ d.active[k] = NoEntry
    <3>1. c.active[k] # NoEntry
      BY <1>2, <1>6
    <3> HIDE DEF c, v, b, k
    <3> QED
      BY <3>1, <1>2, <1>5, DoomHit
  <2> HIDE DEF d
  <2>3. rv \in Results
    BY DEF Results
  <2>4. RunOk(d, v, t, rv, TRUE)
    BY <2>2, <1>3, <1>4 DEF RunOk, AtCache, Turns
  <2>5. Joins(v, t, rv, NoEntry)
    BY DEF Joins
  <2>6. HoldOk(d, v, t)
    BY <1>2, <1>3, <1>4, HoldsNothing DEF AtCache
  <2>7. /\ v[t].new = NoEntry
        /\ v[t].next # "ADD_TO_ENTRY" /\ v[t].next # "ADD_TO_ENTRY_COMPLETE"
    BY <1>3, <1>4
  <2> HIDE DEF rv, v, c, b
  <2>8. Good(b, Call(d, <<Run(t, rv)>>), v, None, NoEntry)
    BY <2>2, <2>3, <2>4, <2>5, <2>6, <2>7, PutRun
  <2> QED
    BY <2>1, <2>8, <1>1, <1>6 DEF IInv, rv, b
<1>7. CASE e = NoEntry
  <2> DEFINE op == "DOOM"
  <2>1. c.active[k] = NoEntry /\ DoomEntry(c, k, t) = QueueOperation(c, k, op, t)
    BY <1>2, <1>7 DEF DoomEntry, FindActiveEntry
  <2>2. /\ t # None => /\ v[t].key = k /\ v[t].next = Completes(op) /\ v[t].mode # "NONE"
                       /\ v[t].entry = NoEntry /\ v[t].new = NoEntry
    BY <1>2, <1>3, <1>4 DEF Completes
  <2>3. op \in Ops
    BY DEF Ops
  <2> HIDE DEF v, c, b, k, op
  <2>4. Good(b, QueueOperation(c, k, op, t), v, None, NoEntry)
    BY <2>1, <2>2, <2>3, <1>2, <1>5, PutOperation
  <2> QED
    BY <2>1, <2>4, <1>1, <1>7 DEF IInv, b
<1> QED
  BY <1>6, <1>7

\* DoDoomEntryComplete.
LEMMA DoomCompletes ==
    ASSUME IInv, NEW t \in Trans, DoDoomEntryComplete(t)
    PROVE  IInv'
<1> DEFINE b == backendOp
           c == Popped
           k == tr[t].key
           s == "DOOM_ENTRY_COMPLETE"
           rv == Result
           next == IF rv = "ERR_CACHE_RACE" THEN "INIT_ENTRY" ELSE "CREATE_ENTRY"
           r == Moved(tr[t], next)
<1>1. /\ Runs(t, s) /\ backend' = backend /\ backendOp' = b
      /\ cache' = Call(c, <<Run(t, "OK")>>) /\ tr' = [tr EXCEPT ![t] = r]
  BY DEF DoDoomEntryComplete, GoOn, Moved
<1> HIDE DEF s
<1>2. /\ Good(b, c, tr, t, tr[t].new) /\ tr[t] \in Transaction /\ tr[t].new = NoEntry
      /\ tr \in [Trans -> Transaction] /\ tr[t].entry = NoEntry /\ k \in Keys
      /\ tr[t].mode # "NONE"
      /\ next = "CREATE_ENTRY" => c.active[k] = NoEntry
  <2>1. Ready(t, s)
    BY <1>1, Running
  <2> QED
    BY <2>1 DEF Ready, s, RunOk
<1>3. next \in {"INIT_ENTRY", "CREATE_ENTRY"} /\ next \in States
  BY DEF States, Turns
<1> HIDE DEF next
<1>4. /\ r \in Transaction /\ r.next = next /\ r.key = tr[t].key
      /\ r.mode = tr[t].mode /\ r.entry = tr[t].entry /\ r.new = tr[t].new
  BY <1>2, <1>3, MovedFields
<1> HIDE DEF r, c, b
<1>5. Good(b, Call(c, <<Run(t, "OK")>>), [tr EXCEPT ![t] = r], None, NoEntry)
  BY <1>2, <1>3, <1>4, GoesOn DEF Turns
<1> QED
  BY <1>1, <1>5 DEF IInv, b

\* DoAddToEntry.
LEMMA Adds ==
    ASSUME IInv, NEW t \in Trans, DoAddToEntry(t)
    PROVE  IInv'
<1> DEFINE b == backendOp
           c == Popped
           s == "ADD_TO_ENTRY"
           e == tr[t].new
           r == Moved(tr[t], "ADD_TO_ENTRY_COMPLETE")
           v == [tr EXCEPT ![t] = r]
<1>1. /\ Runs(t, s) /\ backend' = backend /\ backendOp' = b
      /\ cache' = IF MustQueue(c, e, t) THEN AddTransactionToEntry(c, e, t)
                  ELSE Call(AddTransactionToEntry(c, e, t), <<Run(t, "OK")>>)
      /\ tr' = v
  BY DEF DoAddToEntry, Moved
<1> HIDE DEF s
<1>2. /\ Good(b, c, tr, t, e) /\ tr[t] \in Transaction /\ e \in Entries /\ IsLive(c, e)
      /\ tr \in [Trans -> Transaction] /\ tr[t].entry = NoEntry /\ tr[t].key \in Keys
      /\ tr[t].mode # "NONE"
  <2>1. Ready(t, s)
    BY <1>1, Running
  <2>2. e # NoEntry
    <3>1. TransactionOk(b, cache, tr, None, t)
      BY NoneAssumption DEF IInv, Good, TransactionsOk, Trans
    <3> QED
      BY <2>1, <3>1 DEF Ready, s, TransactionOk, NewOk
  <2> QED
    BY <2>1, <2>2 DEF Ready, s
<1>3. /\ r \in Transaction /\ r.next = "ADD_TO_ENTRY_COMPLETE" /\ r.key = tr[t].key
      /\ r.mode = tr[t].mode /\ r.entry = NoEntry /\ r.new = e
  BY <1>2, MovedFields DEF States, AtCache
<1>4. v[t] = r
  BY <1>2
<1> HIDE DEF r, c, b, e
<1>5. Good(b, c, v, t, e)
  BY <1>2, <1>3, InHand
<1> HIDE DEF v
<1>6. Good(b, IF MustQueue(c, e, t) THEN AddTransactionToEntry(c, e, t)
              ELSE Call(AddTransactionToEntry(c, e, t), <<Run(t, "OK")>>), v, None, NoEntry)
  BY <1>2, <1>3, <1>4, <1>5, PutAdded
<1> QED
  BY <1>1, <1>6 DEF IInv, b

\* The record of a transaction that gets its entry.
Joined(r, s) == [r EXCEPT !.new = NoEntry, !.entry = r.new, !.next = s]

\* What it is.
LEMMA JoinedFields ==
    ASSUME NEW r \in Transaction, NEW s \in States
    PROVE  /\ Joined(r, s) \in Transaction /\ Joined(r, s).next = s /\ Joined(r, s).key = r.key
           /\ Joined(r, s).mode = r.mode /\ Joined(r, s).entry = r.new
           /\ Joined(r, s).new = NoEntry
<1> DEFINE e == r.new
           q == WithNew(r, s, NoEntry)
<1>1. e \in Entries \cup {NoEntry}
  BY DEF Transaction
<1>2. /\ q \in Transaction /\ q.next = s /\ q.key = r.key /\ q.mode = r.mode /\ q.new = NoEntry
  BY WithNewFields
<1>3. Joined(r, s) = [q EXCEPT !.entry = e]
  BY DEF Joined, WithNew, Transaction
<1> HIDE DEF q, e
<1>4. /\ [q EXCEPT !.entry = e] \in Transaction /\ [q EXCEPT !.entry = e].next = q.next
      /\ [q EXCEPT !.entry = e].key = q.key /\ [q EXCEPT !.entry = e].mode = q.mode
      /\ [q EXCEPT !.entry = e].entry = e /\ [q EXCEPT !.entry = e].new = q.new
  BY <1>1, <1>2 DEF Transaction
<1> QED
  BY <1>2, <1>3, <1>4 DEF e

\* DoAddToEntryComplete.
LEMMA AddCompletes ==
    ASSUME IInv, NEW t \in Trans, DoAddToEntryComplete(t)
    PROVE  IInv'
<1> DEFINE b == backendOp
           c == Popped
           s == "ADD_TO_ENTRY_COMPLETE"
           rv == Result
<1>1. Runs(t, s) /\ backend' = backend /\ backendOp' = b
  BY DEF DoAddToEntryComplete
<1> HIDE DEF s
<1>2. /\ Good(b, cache, tr, None, NoEntry) /\ tr[t] \in Transaction /\ tr[t].next = "ADD_TO_ENTRY_COMPLETE"
      /\ cache.stack # <<>> /\ Head(cache.stack) = Run(t, rv)
      /\ tr \in [Trans -> Transaction] /\ tr[t].entry = NoEntry /\ tr[t].key \in Keys
      /\ tr[t].mode # "NONE"
      /\ rv = "ERR_CACHE_RACE" => Good(b, c, tr, t, NoEntry)
      /\ rv = "ERR_CACHE_RACE" \/ rv = "OK"
  <2>1. Ready(t, s)
    BY <1>1, Running
  <2> QED
    BY <2>1 DEF Ready, s, RunOk
<1>3. CASE rv = "ERR_CACHE_RACE"
  <2> DEFINE r == WithNew(tr[t], "INIT_ENTRY", NoEntry)
  <2>1. cache' = Call(c, <<Run(t, "OK")>>) /\ tr' = [tr EXCEPT ![t] = r]
    BY <1>2, <1>3 DEF DoAddToEntryComplete, WithNew
  <2>2. /\ r \in Transaction /\ r.next = "INIT_ENTRY" /\ r.key = tr[t].key
        /\ r.mode = tr[t].mode /\ r.entry = tr[t].entry /\ r.new = NoEntry
    <3> DEFINE z == NoEntry
               n == "INIT_ENTRY"
               q == tr[t]
    <3>1. z \in Entries \cup {NoEntry} /\ n \in States /\ q \in Transaction
      BY <1>2 DEF States, Turns
    <3>2. r = WithNew(q, n, z)
      OBVIOUS
    <3> HIDE DEF z, n, q, r
    <3>3. /\ WithNew(q, n, z) \in Transaction /\ WithNew(q, n, z).next = n
          /\ WithNew(q, n, z).key = q.key /\ WithNew(q, n, z).mode = q.mode
          /\ WithNew(q, n, z).entry = q.entry /\ WithNew(q, n, z).new = z
      BY ONLY <3>1, WithNewFields
    <3> QED
      BY <3>2, <3>3 DEF z, n, q
  <2> HIDE DEF r, c, b
  <2>3. Good(b, Call(c, <<Run(t, "OK")>>), [tr EXCEPT ![t] = r], None, NoEntry)
    BY <2>2, <1>2, <1>3, GoesOn DEF Turns
  <2> QED
    BY <2>1, <2>3, <1>1 DEF IInv, b
<1>4. CASE rv # "ERR_CACHE_RACE"
  <2> DEFINE n == IF tr[t].mode = "WRITE" THEN "SEND_REQUEST_COMPLETE"
                  ELSE "CACHE_READ_RESPONSE_COMPLETE"
             r == Joined(tr[t], n)
  <2>1. cache' = Rest(cache) /\ tr' = [tr EXCEPT ![t] = r]
    BY <1>2, <1>4 DEF DoAddToEntryComplete, Joined, Popped, Rest
  <2>2. n \in States
    BY DEF States, Holding, AtDisk, AtNetwork
  <2>3. /\ r \in Transaction /\ r.next = n /\ r.key = tr[t].key
        /\ r.mode = tr[t].mode /\ r.entry = tr[t].new /\ r.new = NoEntry
    <3> HIDE DEF n
    <3> QED
      BY <2>2, <1>2, JoinedFields
  <2>4. Head(cache.stack) = Run(t, "OK")
    BY <1>2, <1>4
  <2> HIDE DEF r
  <2>5. Good(b, Rest(cache), [tr EXCEPT ![t] = r], None, NoEntry)
    <3>1. Good(b, cache, tr, None, NoEntry) /\ cache.stack # <<>> /\ tr[t].next = "ADD_TO_ENTRY_COMPLETE"
      BY <1>2
    <3> QED
      BY ONLY <2>3, <2>4, <3>1, t \in Trans, BecomesHolder
  <2> QED
    BY <2>1, <2>5, <1>1 DEF IInv
<1> QED
  BY <1>3, <1>4
-----------------------------------------------------------------------------
(* The backend                                                             *)

\* The queue of those that wait for the backend without its first.
LEMMA BackendTail ==
    ASSUME NEW b \in Seq(Trans \cup {None}), NEW w, BackendOpOk(b, w), b # <<>>
    PROVE  /\ Tail(b) \in Seq(Trans \cup {None}) /\ BackendOpOk(Tail(b), w)
           /\ Head(b) \in Trans \cup {None} /\ Head(b) = b[1] /\ 1 \in 1 .. Len(b)
           /\ \A t \in Trans : Has(Tail(b), t) <=> Has(b, t) /\ t # Head(b)
<1> DEFINE a == Tail(b)
           S == Trans \cup {None}
<1>0. b \in Seq(S)
  OBVIOUS
<1>1. /\ Head(b) = b[1] /\ Head(b) \in S /\ a \in Seq(S) /\ Len(b) \in Nat /\ 1 \in 1 .. Len(b)
      /\ Len(a) = Len(b) - 1
      /\ \A i \in 1 .. Len(a) : i + 1 \in 2 .. Len(b) /\ a[i] = b[i + 1]
      /\ \A i \in 2 .. Len(b) : i - 1 \in 1 .. Len(a) /\ b[i] = a[i - 1]
  <2> HIDE DEF S
  <2> QED
    BY <1>0, FirstOf
<1> HIDE DEF a
<1>2. 2 .. Len(b) \subseteq 1 .. Len(b)
  BY <1>1
<1>3. NoneTwice(a)
  <2> SUFFICES ASSUME NEW i \in 1 .. Len(a), NEW j \in 1 .. Len(a), a[i] = a[j]
               PROVE  i = j
    BY DEF NoneTwice
  <2>1. i + 1 \in 1 .. Len(b) /\ j + 1 \in 1 .. Len(b) /\ b[i + 1] = b[j + 1]
    BY <1>1, <1>2
  <2>2. i + 1 = j + 1
    BY <2>1 DEF BackendOpOk, NoneTwice
  <2> QED
    BY <2>2
<1>4. BackendOpOk(a, w)
  <2>1. \A i \in 1 .. Len(a) : a[i] # None /\ w[a[i]].next = "GET_BACKEND_COMPLETE"
    BY <1>1, <1>2 DEF BackendOpOk
  <2>2. 2 .. Len(a) \subseteq 1 .. Len(a)
    BY <1>1
  <2> QED
    BY <1>3, <2>1, <2>2 DEF BackendOpOk
<1>5. ASSUME NEW t \in Trans
      PROVE  Has(a, t) <=> Has(b, t) /\ t # Head(b)
  <2>1. ASSUME Has(a, t) PROVE Has(b, t) /\ t # b[1]
    <3>1. PICK i \in 1 .. Len(a) : a[i] = t
      BY <2>1 DEF Has
    <3>2. b[i + 1] = t /\ i + 1 \in 1 .. Len(b) /\ i + 1 # 1
      BY <1>1, <1>2, <3>1
    <3> QED
      BY <1>1, <3>2 DEF Has, BackendOpOk, NoneTwice
  <2>2. ASSUME Has(b, t), t # b[1] PROVE Has(a, t)
    <3>1. PICK i \in 1 .. Len(b) : b[i] = t
      BY <2>2 DEF Has
    <3>2. i \in 2 .. Len(b)
      BY <1>1, <2>2, <3>1
    <3> QED
      BY <1>1, <3>1, <3>2 DEF Has
  <2> QED
    BY <1>1, <2>1, <2>2
<1> QED
  BY <1>1, <1>4, <1>5 DEF a

\* The first that waited for the backend is taken from there.
LEMMA TakeBackend ==
    ASSUME NEW b, NEW c, NEW w, Good(b, c, w, None, NoEntry), c.stack = <<>>, b # <<>>
    PROVE  /\ Head(b) \in Trans \cup {None}
           /\ Head(b) = None => Good(Tail(b), c, w, None, NoEntry)
           /\ Head(b) # None => /\ Good(Tail(b), c, w, Head(b), NoEntry)
                                /\ w[Head(b)].next = "GET_BACKEND_COMPLETE"
                                /\ w[Head(b)].new = NoEntry /\ w[Head(b)].entry = NoEntry
                                /\ w[Head(b)].key \in Keys
<1> DEFINE a == Tail(b)
           y == Head(b)
<1>1. /\ b \in Seq(Trans \cup {None}) /\ c \in Cache /\ BackendOpOk(b, w) /\ OpsOk(c, w)
      /\ \A t \in Trans : t # None => TransactionOk(b, c, w, None, t)
      /\ w \in [Trans -> Transaction]
  BY DEF Good, Typed, TransactionsOk
<1>2. /\ a \in Seq(Trans \cup {None}) /\ BackendOpOk(a, w)
      /\ y \in Trans \cup {None} /\ y = b[1] /\ 1 \in 1 .. Len(b)
      /\ \A t \in Trans : Has(a, t) <=> Has(b, t) /\ t # y
  BY <1>1, BackendTail
<1> HIDE DEF a, y
<1>3. \A t \in Trans : t # y => (Waits(a, c, t) <=> Waits(b, c, t))
  BY <1>2 DEF Waits
<1>4. ASSUME y # None
      PROVE  Nowhere(a, c, y) /\ w[y].next = "GET_BACKEND_COMPLETE"
             /\ w[y].new = NoEntry /\ w[y].entry = NoEntry /\ w[y].key \in Keys
  <2>1. y \in Trans /\ w[y].next = "GET_BACKEND_COMPLETE"
    BY <1>1, <1>2, <1>4 DEF BackendOpOk
  <2>2. TransactionOk(b, c, w, None, y)
    BY <1>1, <1>4, <2>1
  <2>3. w[y].new = NoEntry
    BY <2>1, <2>2 DEF TransactionOk, NewOk
  <2>4. w[y].entry = NoEntry /\ w[y].key \in Keys
    BY <2>1, <2>2 DEF TransactionOk, HoldOk, AtCache, Holding, AtDisk, AtNetwork
  <2>5. /\ \A e \in Entries : ~Queued(c, y, e)
        /\ \A k \in Keys : ~InOperation(c, y, k)
        /\ \A e \in Entries : IsLive(c, e) /\ Uses(c, y, e) => HasOrGets(c, w, None, y, e)
    <3>1. /\ \A e \in Entries : Queued(c, y, e) =>
                 w[y].next = "ADD_TO_ENTRY_COMPLETE" /\ w[y].new = e
          /\ \A k \in Keys : InOperation(c, y, k) =>
                 /\ w[y].key = k
                 /\ w[y].next \in {"OPEN_ENTRY_COMPLETE", "CREATE_ENTRY_COMPLETE", "DOOM_ENTRY_COMPLETE"}
          /\ \A e \in Entries : IsLive(c, e) /\ Uses(c, y, e) => HasOrGets(c, w, None, y, e)
      BY <2>1, Places
    <3> QED
      BY <3>1, <2>1
  <2>6. \A e \in Entries : IsLive(c, e) => ~Uses(c, y, e)
    BY <2>1, <2>4, <2>5 DEF HasOrGets, Entries, NoEntry
  <2>7. ~OnStack(c.stack, y)
    BY DEF OnStack
  <2>8. ~Waits(a, c, y)
    BY <1>2, <2>1, <2>5 DEF Waits
  <2> QED
    BY <2>1, <2>3, <2>4, <2>6, <2>7, <2>8 DEF Nowhere
<1>5. Good(a, c, w, y, NoEntry)
  <2> DEFINE n == None
             d == c
  <2>1. /\ Good(b, c, w, n, NoEntry) /\ d \in Cache /\ y \in Trans \cup {n}
        /\ n = n /\ d.entries = c.entries /\ d.active = c.active /\ d.posted = c.posted
        /\ d.disk = c.disk /\ d.stack = c.stack /\ OpsOk(d, w) /\ BackendOpOk(a, w)
        /\ \A t \in Trans : t # n /\ t # y => (Waits(a, d, t) <=> Waits(b, c, t))
        /\ y # None => Nowhere(a, d, y)
    BY <1>1, <1>2, <1>3, <1>4
  <2> QED
    BY <2>1, <1>2, Moves
<1> QED
  BY <1>2, <1>4, <1>5 DEF a, y

\* OnBackendCreated.
LEMMA BackendCreated ==
    ASSUME IInv, NEW result \in {"ready", "failed"}, OnBackendCreated(result)
    PROVE  IInv'
<1> DEFINE b == backendOp
           c == cache
           x == Head(b)
           rv == IF result = "ready" THEN "OK" ELSE "ERR_FAILED"
<1>1. /\ c.stack = <<>> /\ b # <<>> /\ backend' = result /\ backendOp' = Tail(b)
      /\ cache' = IF x = None THEN c ELSE Call(c, <<Run(x, rv)>>)
      /\ tr' = tr
  BY DEF OnBackendCreated, Idle
<1>2. Good(b, c, tr, None, NoEntry)
  BY DEF IInv
<1>3. /\ x \in Trans \cup {None}
      /\ x = None => Good(Tail(b), c, tr, None, NoEntry)
      /\ x # None => /\ Good(Tail(b), c, tr, x, NoEntry)
                     /\ tr[x].next = "GET_BACKEND_COMPLETE"
                     /\ tr[x].new = NoEntry /\ tr[x].entry = NoEntry /\ tr[x].key \in Keys
  BY <1>1, <1>2, TakeBackend
<1>4. backend' \in {"factory", "ready", "failed"}
  BY <1>1
<1>5. CASE x = None
  BY <1>1, <1>3, <1>4, <1>5 DEF IInv
<1>6. CASE x # None
  <2> DEFINE a == Tail(b)
  <2>1. rv \in Results
    BY DEF Results
  <2>2. /\ x \in Trans /\ Good(a, c, tr, x, NoEntry)
        /\ tr[x].next = "GET_BACKEND_COMPLETE"
        /\ tr[x].new = NoEntry /\ tr[x].entry = NoEntry /\ tr[x].key \in Keys
    BY <1>3, <1>6
  <2> HIDE DEF a, x, rv
  <2>3. RunOk(c, tr, x, rv, TRUE)
    BY <2>2 DEF RunOk, AtCache, Turns
  <2>4. HoldOk(c, tr, x)
    BY <2>2, HoldsNothing DEF AtCache
  <2>5. Good(a, Call(c, <<Run(x, rv)>>), tr, None, NoEntry)
    <3>1. Joins(tr, x, rv, NoEntry)
      BY DEF Joins
    <3> QED
      BY <2>1, <2>2, <2>3, <2>4, <3>1, PutRun
  <2> QED
    BY <2>5, <1>1, <1>4, <1>6 DEF IInv, a
<1> QED
  BY <1>5, <1>6

\* Start.
LEMMA Starts ==
    ASSUME IInv, NEW t \in Trans, NEW k \in Keys, NEW m \in Requests[t], Start(t, k, m)
    PROVE  IInv'
<1> DEFINE b == backendOp
           c == cache
           r == [tr[t] EXCEPT !.next = "GET_BACKEND_COMPLETE", !.mode = m, !.key = k]
           v == [tr EXCEPT ![t] = r]
           rv == IF backend = "ready" THEN "OK" ELSE "ERR_FAILED"
<1>1. Good(b, c, tr, None, NoEntry) /\ tr \in [Trans -> Transaction] /\ tr[t] \in Transaction
  BY DEF IInv, Good, Typed
<1>2. c.stack = <<>> /\ tr[t].next = "UNBORN" /\ backend' = backend /\ tr' = v
  BY <1>1 DEF Start, Idle
<1>3. \/ cache' = Call(c, <<Run(t, rv)>>) /\ backendOp' = b
      \/ cache' = c /\ backendOp' = (IF b = <<>> THEN <<None>> ELSE b) \o <<t>>
  BY DEF Start
<1>4. /\ Good(b, c, tr, t, NoEntry) /\ tr[t].entry = NoEntry /\ tr[t].new = NoEntry
  BY <1>1, <1>2, TakeOutside DEF Outside
<1>5. m \in Modes
  BY CacheAssumption DEF Modes, Trans
<1>6. /\ r \in Transaction /\ r.next = "GET_BACKEND_COMPLETE" /\ r.entry = NoEntry
      /\ r.new = NoEntry /\ r.key = k
  BY <1>1, <1>4, <1>5 DEF Transaction, AtCache
<1> HIDE DEF r
<1>7. Good(b, c, v, t, NoEntry) /\ v[t] = r
  BY <1>1, <1>4, <1>6, InHand
<1>8. rv \in Results
  BY DEF Results
<1> HIDE DEF v, rv
<1>9. Good(b, Call(c, <<Run(t, rv)>>), v, None, NoEntry)
  <2>1. RunOk(c, v, t, rv, TRUE)
    BY <1>6, <1>7 DEF RunOk, AtCache, Turns
  <2>2. HoldOk(c, v, t)
    BY <1>6, <1>7, HoldsNothing DEF AtCache
  <2>3. Joins(v, t, rv, NoEntry)
    BY DEF Joins
  <2> QED
    BY <1>6, <1>7, <1>8, <2>1, <2>2, <2>3, PutRun
<1>10. Good((IF b = <<>> THEN <<None>> ELSE b) \o <<t>>, c, v, None, NoEntry)
  BY <1>6, <1>7, PutBackend
<1> QED
  BY <1>2, <1>3, <1>9, <1>10 DEF IInv

-----------------------------------------------------------------------------
(* Transactions that have an entry                                         *)

\* What the state, the mode and what is stored have to do with each other.
Fits(s, m, z) ==
    /\ s \in AtNetwork \cup {"neterror", "auth", "UPDATE_CACHED_RESPONSE_COMPLETE",
                             "TRUNCATE_CACHED_DATA", "CACHE_WRITE_DATA_COMPLETE"} => Writes(m)
    /\ s = "CACHE_READ_DATA_COMPLETE" => m = "READ"
    /\ s = "UPDATE_CACHED_RESPONSE_COMPLETE" => m # "WRITE"
    /\ m = "READ_WRITE" /\ s \in {"SEND_REQUEST_COMPLETE", "neterror", "auth"} =>
           z \in {"whole", "truncated"}
    /\ m = "READ_WRITE" /\ s = "UPDATE_CACHED_RESPONSE_COMPLETE" => z = "whole"
    /\ m = "READ" /\ s \in {"headers", "data", "CACHE_READ_DATA_COMPLETE"} => z = "whole"

\* A mode that the holder of an entry may take in place of another.
ModeKept(m, n) ==
    /\ Writes(m) => Writes(n)
    /\ m = "READ" => n = "READ"
    /\ m = "WRITE" => n = "WRITE"

\* The transaction t has an entry, and the stack is empty.
HolderAt(t) ==
    LET r == tr[t]
        y == cache.entries[r.entry]
    IN
    /\ Good(backendOp, cache, tr, None, NoEntry) /\ cache.stack = <<>> /\ cache \in Cache
    /\ tr \in [Trans -> Transaction] /\ r \in Transaction
    /\ r.entry \in Entries /\ r.entry # NoEntry /\ IsLive(cache, r.entry)
    /\ Uses(cache, t, r.entry) /\ r.new = NoEntry /\ r.key \in Keys
    /\ r.mode # "NONE" /\ r.mode \in Modes /\ r.next \in Holding
    /\ y.content \in Contents /\ y.content # "absent"
    /\ y.content = "partial" => r.mode = "WRITE"
    /\ y.writer # None <=> Writes(r.mode)
    /\ y.writer = None <=> r.mode = "READ"
    /\ Fits(r.next, r.mode, y.content)

\* How the entry e is held by t.
HeldBy(c, w, t, e) ==
    /\ e \in Entries /\ IsLive(c, e) /\ Uses(c, t, e)
    /\ w[t].new = NoEntry /\ w[t].mode # "NONE" /\ w[t].key \in Keys
    /\ c.entries[e].writer # None => c.entries[e].writer = t /\ c.entries[e].readers = {}
                                     /\ ~c.entries[e].will /\ Writes(w[t].mode)
    /\ c.entries[e].writer = None => t \in c.entries[e].readers /\ w[t].mode = "READ"

\* It is held so.
LEMMA IsHeld ==
    ASSUME NEW b, NEW c, NEW w, Good(b, c, w, None, NoEntry), c.stack = <<>>, NEW t \in Trans,
           NEW e, e = w[t].entry, e # NoEntry
    PROVE  HeldBy(c, w, t, e)
<1>1. e \in Entries /\ IsLive(c, e) /\ Uses(c, t, e)
  BY HolderPlaces
<1>2. w[t].new = NoEntry /\ w[t].mode # "NONE" /\ w[t].key \in Keys
  BY HolderPlaces
<1>3. c.entries[e].writer # None => c.entries[e].writer = t /\ c.entries[e].readers = {}
                                   /\ ~c.entries[e].will /\ Writes(w[t].mode)
  BY HolderPlaces
<1>4. c.entries[e].writer = None => t \in c.entries[e].readers /\ w[t].mode = "READ"
  BY HolderPlaces
<1> QED
  BY <1>1, <1>2, <1>3, <1>4 DEF HeldBy

\* What the entry is with something else stored in it.
LEMMA FilledFields ==
    ASSUME NEW c \in Cache, NEW e \in Entries, IsLive(c, e), NEW z \in Contents
    PROVE  /\ IsLive(Filled(c, e, z), e) /\ \A t : Uses(c, t, e) => Uses(Filled(c, e, z), t, e)
           /\ Filled(c, e, z).entries[e].content = z
<1> DEFINE y == [c.entries[e] EXCEPT !.content = z]
           d == Filled(c, e, z)
<1>1. c.entries[e] \in Entry
  BY LiveFields
<1>2. /\ y \in Entry /\ y.content = z /\ y.writer = c.entries[e].writer
      /\ y.readers = c.entries[e].readers
  BY <1>1 DEF Entry
<1>3. d = [c EXCEPT !.entries[e] = y]
  BY DEF Filled, Cache
<1> HIDE DEF d, y
<1>4. d.entries[e] = y
  <2>1. d = With(c, e, y)
    BY <1>3 DEF With
  <2> QED
    BY <1>2, <2>1, WithFields
<1>5. y # Closed
  BY <1>2, EntryFields
<1> QED
  BY <1>2, <1>4, <1>5 DEF IsLive, Uses, d

\* What is known of the transaction that has an entry.
LEMMA Holder ==
    ASSUME IInv, NEW t \in Trans, Idle, tr[t].next \in Holding
    PROVE  HolderAt(t)
<1> DEFINE e == tr[t].entry
           y == cache.entries[e]
<1>1. /\ Good(backendOp, cache, tr, None, NoEntry) /\ cache.stack = <<>> /\ cache \in Cache
      /\ tr \in [Trans -> Transaction] /\ tr[t] \in Transaction
      /\ HoldOk(cache, tr, t)
  BY NoneAssumption DEF IInv, Idle, Good, Typed, TransactionsOk, TransactionOk, Trans
<1>2. e # NoEntry
  BY <1>1 DEF HoldOk
<1>3. /\ e \in Entries /\ IsLive(cache, e) /\ Uses(cache, t, e)
      /\ tr[t].new = NoEntry /\ tr[t].mode # "NONE" /\ tr[t].key \in Keys
      /\ y.writer # None => y.writer = t /\ y.readers = {} /\ ~y.will /\ Writes(tr[t].mode)
      /\ y.writer = None => t \in y.readers /\ tr[t].mode = "READ"
  <2> HIDE DEF e
  <2>1. HeldBy(cache, tr, t, e)
    <3>1. e = tr[t].entry
      BY DEF e
    <3> QED
      BY ONLY <1>1, <1>2, <3>1, t \in Trans, IsHeld
  <2> QED
    BY <2>1 DEF HeldBy, e
<1>4. tr[t].mode \in Modes
  BY <1>1, TransactionFields
<1>5. y.content \in Contents
  BY <1>1, <1>3, LiveFields
<1>6. y.content # "absent" /\ (y.content = "partial" => y.writer # None /\ tr[y.writer].mode = "WRITE")
  BY <1>1, <1>3 DEF Good, EntriesOk, EntryOk, ContentOk
<1>7. ~Writes("READ")
  BY DEF Writes
<1>8. Fits(tr[t].next, tr[t].mode, y.content)
  BY <1>1 DEF HoldOk, Fits
<1> QED
  BY <1>1, <1>2, <1>3, <1>4, <1>5, <1>6, <1>7, <1>8 DEF HolderAt

\* It may be in such a state.
LEMMA HoldsEntry ==
    ASSUME NEW c, NEW w, NEW t, NEW r, w[t] = r, r.entry # NoEntry, IsLive(c, r.entry),
           Uses(c, t, r.entry), r.key \in Keys, r.mode # "NONE", r.next \in Holding,
           Fits(r.next, r.mode, c.entries[r.entry].content)
    PROVE  HoldOk(c, w, t)
BY DEF HoldOk, Fits

\* The record of the holder changes.
LEMMA HolderGoes ==
    ASSUME NEW t \in Trans, HolderAt(t), NEW r \in Transaction, r.entry = tr[t].entry,
           r.new = NoEntry, r.key = tr[t].key, r.next \in Holding, r.mode # "NONE",
           ModeKept(tr[t].mode, r.mode),
           Fits(r.next, r.mode, cache.entries[tr[t].entry].content)
    PROVE  Good(backendOp, cache, [tr EXCEPT ![t] = r], None, NoEntry)
<1> DEFINE v == [tr EXCEPT ![t] = r]
           e == tr[t].entry
<1>1. v[t] = r
  BY DEF HolderAt
<1> HIDE DEF v
<1>2. HoldOk(cache, v, t)
  BY <1>1, HoldsEntry DEF HolderAt
<1>3. /\ Good(backendOp, cache, tr, None, NoEntry) /\ cache.stack = <<>>
      /\ e # NoEntry /\ r.entry = e
      /\ Writes(tr[t].mode) => Writes(r.mode)
      /\ tr[t].mode = "READ" => r.mode = "READ"
      /\ tr[t].mode = "WRITE" => r.mode = "WRITE"
  BY DEF HolderAt, ModeKept
<1> QED
  BY <1>2, <1>3, HolderRecord DEF v

\* So does what is stored.
LEMMA HolderStores ==
    ASSUME NEW t \in Trans, HolderAt(t), NEW r \in Transaction, r.entry = tr[t].entry,
           r.new = NoEntry, r.key = tr[t].key, r.next \in Holding, Writes(tr[t].mode),
           Writes(r.mode), NEW z \in Contents, z # "absent", z = "partial" => r.mode = "WRITE",
           Fits(r.next, r.mode, z)
    PROVE  Good(backendOp, Stored(t, z), [tr EXCEPT ![t] = r], None, NoEntry)
<1> DEFINE v == [tr EXCEPT ![t] = r]
           e == tr[t].entry
           c == [cache EXCEPT !.entries[e].content = z]
<1>1. v[t] = r
  BY DEF HolderAt
<1>2. /\ Good(backendOp, cache, tr, None, NoEntry) /\ cache.stack = <<>> /\ cache \in Cache
      /\ e \in Entries /\ e # NoEntry /\ r.entry = e /\ IsLive(cache, e) /\ Uses(cache, t, e)
      /\ cache.entries[e].writer # None /\ r.key \in Keys /\ r.mode # "NONE"
  BY DEF HolderAt, Writes
<1>3. /\ IsLive(c, e) /\ Uses(c, t, e) /\ c.entries[e].content = z
  <2>1. c = Filled(cache, e, z)
    BY DEF Filled
  <2> HIDE DEF c, e
  <2> QED
    BY <1>2, <2>1, FilledFields
<1> HIDE DEF v, c
<1>4. HoldOk(c, v, t)
  BY <1>1, <1>2, <1>3, HoldsEntry
<1> HIDE DEF e
<1>5. Good(backendOp, c, v, None, NoEntry)
  <2>1. HoldOk([cache EXCEPT !.entries[e].content = z], [tr EXCEPT ![t] = r], t)
    BY <1>4 DEF c, v
  <2>2. e = tr[t].entry
    BY DEF e
  <2> QED
    BY <1>2, <2>1, <2>2, HolderContent DEF c, v
<1> QED
  BY <1>5 DEF Stored, c, v, e

\* A step of the holder that changes its state alone.
LEMMA Stepped ==
    ASSUME IInv, NEW t \in Trans, HolderAt(t), NEW s \in Holding,
           Fits(s, tr[t].mode, Content(t)), Step(t, s, cache)
    PROVE  IInv'
<1> DEFINE r == Moved(tr[t], s)
           q == tr[t]
<1>1. /\ tr' = [tr EXCEPT ![t] = r] /\ cache' = cache /\ backend' = backend
      /\ backendOp' = backendOp
  BY DEF Step, Moved
<1>2. q \in Transaction /\ s \in States
  BY DEF HolderAt, States
<1>3. r \in Transaction /\ r.next = s /\ r.key = q.key /\ r.mode = q.mode /\ r.entry = q.entry
      /\ r.new = q.new
  <2> HIDE DEF q
  <2>1. r = Moved(q, s)
    BY DEF q
  <2> QED
    BY <1>2, <2>1, MovedFields
<1> HIDE DEF r
<1>4. Good(backendOp, cache, [tr EXCEPT ![t] = r], None, NoEntry)
  <2>1. /\ r.entry = tr[t].entry /\ r.new = NoEntry /\ r.key = tr[t].key /\ r.next \in Holding
        /\ r.mode # "NONE" /\ ModeKept(tr[t].mode, r.mode)
        /\ Fits(r.next, r.mode, cache.entries[tr[t].entry].content)
    BY <1>3 DEF HolderAt, ModeKept, Content
  <2> QED
    BY <1>3, <2>1, HolderGoes
<1> QED
  BY <1>1, <1>4 DEF IInv

\* One that changes its mode, too.
LEMMA SteppedWithMode ==
    ASSUME IInv, NEW t \in Trans, HolderAt(t), NEW s \in Holding, NEW m \in Modes, m # "NONE",
           ModeKept(tr[t].mode, m), Fits(s, m, Content(t)), StepWithMode(t, s, m, cache)
    PROVE  IInv'
<1> DEFINE r == WithMode(tr[t], s, m)
           q == tr[t]
<1>1. /\ tr' = [tr EXCEPT ![t] = r] /\ cache' = cache /\ backend' = backend
      /\ backendOp' = backendOp
  BY DEF StepWithMode, WithMode, HolderAt
<1>2. q \in Transaction /\ s \in States
  BY DEF HolderAt, States
<1>3. r \in Transaction /\ r.next = s /\ r.key = q.key /\ r.mode = m /\ r.entry = q.entry
      /\ r.new = q.new
  <2> HIDE DEF q
  <2>1. r = WithMode(q, s, m)
    BY DEF q
  <2> QED
    BY <1>2, <2>1, WithModeFields
<1> HIDE DEF r
<1>4. Good(backendOp, cache, [tr EXCEPT ![t] = r], None, NoEntry)
  <2>1. /\ r.entry = tr[t].entry /\ r.new = NoEntry /\ r.key = tr[t].key /\ r.next \in Holding
        /\ r.mode # "NONE" /\ ModeKept(tr[t].mode, r.mode)
        /\ Fits(r.next, r.mode, cache.entries[tr[t].entry].content)
    BY <1>3 DEF HolderAt, Content
  <2> QED
    BY <1>3, <2>1, HolderGoes
<1> QED
  BY <1>1, <1>4 DEF IInv

\* One that writes to the entry.
LEMMA SteppedStoring ==
    ASSUME IInv, NEW t \in Trans, HolderAt(t), NEW s \in Holding, NEW m \in Modes,
           Writes(tr[t].mode), Writes(m), NEW z \in Contents, z # "absent",
           z = "partial" => m = "WRITE", Fits(s, m, z),
           tr' = [tr EXCEPT ![t] = WithMode(tr[t], s, m)], cache' = Stored(t, z),
           UNCHANGED <<backend, backendOp>>
    PROVE  IInv'
<1> DEFINE r == WithMode(tr[t], s, m)
           q == tr[t]
<1>1. tr' = [tr EXCEPT ![t] = r] /\ backend' = backend /\ backendOp' = backendOp
  OBVIOUS
<1>2. q \in Transaction /\ s \in States
  BY DEF HolderAt, States
<1>3. r \in Transaction /\ r.next = s /\ r.key = q.key /\ r.mode = m /\ r.entry = q.entry
      /\ r.new = q.new
  <2> HIDE DEF q
  <2>1. r = WithMode(q, s, m)
    BY DEF q
  <2> QED
    BY <1>2, <2>1, WithModeFields
<1> HIDE DEF r
<1>4. Good(backendOp, Stored(t, z), [tr EXCEPT ![t] = r], None, NoEntry)
  <2>1. /\ r.entry = tr[t].entry /\ r.new = NoEntry /\ r.key = tr[t].key /\ r.next \in Holding
        /\ Writes(r.mode) /\ z = "partial" => r.mode = "WRITE"
        /\ Fits(r.next, r.mode, z)
    BY <1>3 DEF HolderAt
  <2> QED
    BY <1>3, <2>1, HolderStores
<1> QED
  BY <1>1, <1>4 DEF IInv

\* The holder is not in hand any more when it has nothing more to do with the cache.
LEMMA Passes ==
    ASSUME IInv, NEW t \in Trans, NEW c, Good(backendOp, c, tr, t, NoEntry),
           tr' = [tr EXCEPT ![t] = Past], cache' = c, UNCHANGED <<backend, backendOp>>
    PROVE  IInv'
<1>1. Past \in Transaction /\ Past.next \in Outside /\ Past.entry = NoEntry /\ Past.new = NoEntry
  BY Blank DEF Outside
<1>2. Good(backendOp, c, [tr EXCEPT ![t] = Past], None, NoEntry)
  <2> HIDE DEF Past
  <2> QED
    BY <1>1, Leaves
<1> QED
  BY <1>2 DEF IInv

\* The writer goes on without the cache, and what it has written is worth keeping or not.
LEMMA SteppedPast ==
    ASSUME IInv, NEW t \in Trans, NEW c, Good(backendOp, c, tr, None, NoEntry),
           c.stack = <<>>, tr[t].entry # NoEntry, c.entries[tr[t].entry].writer # None,
           NEW success \in BOOLEAN,
           success => c.entries[tr[t].entry].content \in Contents \ {"absent", "partial"},
           StepPast(t, success, c)
    PROVE  IInv'
<1> DEFINE e == tr[t].entry
           z == c.entries[e].content
           d == DoneWritingToEntry(c, e, success)
<1>1. tr' = [tr EXCEPT ![t] = Past] /\ cache' = d /\ UNCHANGED <<backend, backendOp>>
  BY DEF StepPast
<1>2. e = tr[t].entry /\ e # NoEntry /\ c.entries[e].writer # None
  OBVIOUS
<1>3. Good(backendOp, d, tr, t, NoEntry)
  <2>1. CASE success
    <3>1. z \in Contents /\ z \notin {"absent", "partial"} /\ z = c.entries[e].content
      BY <2>1
    <3> HIDE DEF e, z
    <3>2. z = c.entries[e].content => Good(backendOp, DoneWritingToEntry(c, e, TRUE), tr, t, NoEntry)
      BY <1>2, <3>1, WriterLeaves
    <3> QED
      BY <2>1, <3>1, <3>2
  <2>2. CASE ~success
    <3> HIDE DEF e
    <3>1. Good(backendOp, DoneWritingToEntry(c, e, FALSE), tr, t, NoEntry)
      BY <1>2, WriterFails
    <3> QED
      BY <2>2, <3>1
  <2> QED
    BY <2>1, <2>2
<1> HIDE DEF d
<1> QED
  BY <1>1, <1>3, Passes

\* It has stored the whole response.
LEMMA SteppedPastWhole ==
    ASSUME IInv, NEW t \in Trans, HolderAt(t), Writes(tr[t].mode),
           StepPast(t, TRUE, Stored(t, "whole"))
    PROVE  IInv'
<1> DEFINE e == tr[t].entry
           z == "whole"
           d == DoneWritingToEntry(Filled(cache, e, z), e, TRUE)
<1>1. tr' = [tr EXCEPT ![t] = Past] /\ cache' = d /\ UNCHANGED <<backend, backendOp>>
  BY DEF StepPast, Stored, Filled
<1>2. /\ e = tr[t].entry /\ e # NoEntry /\ cache.entries[e].writer # None
      /\ Good(backendOp, cache, tr, None, NoEntry) /\ cache.stack = <<>>
  BY DEF HolderAt
<1>3. z \in Contents /\ z \notin {"absent", "partial"}
  BY DEF Contents
<1>4. Good(backendOp, d, tr, t, NoEntry)
  <2> HIDE DEF e, z
  <2> QED
    BY <1>2, <1>3, WriterLeaves
<1> HIDE DEF d
<1> QED
  BY <1>1, <1>4, Passes

\* The writer becomes a reader of the whole response.
LEMMA SteppedToReader ==
    ASSUME IInv, NEW t \in Trans, HolderAt(t), NEW c, Good(backendOp, c, tr, None, NoEntry),
           c.stack = <<>>, c.entries[tr[t].entry].writer # None,
           c.entries[tr[t].entry].content = "whole", StepToReader(t, c)
    PROVE  IInv'
<1> DEFINE e == tr[t].entry
           s == "headers"
           m == "READ"
           r == WithMode(tr[t], s, m)
           q == tr[t]
<1>1. /\ tr' = [tr EXCEPT ![t] = r] /\ cache' = ConvertWriterToReader(c, e)
      /\ backend' = backend /\ backendOp' = backendOp
  BY DEF StepToReader, StepWithMode, WithMode, HolderAt
<1>2. q \in Transaction /\ s \in States /\ m \in Modes
  BY DEF HolderAt, States, Holding, Modes
<1>3. r \in Transaction /\ r.next = s /\ r.key = q.key /\ r.mode = m /\ r.entry = q.entry
      /\ r.new = q.new
  <2> HIDE DEF q, s, m
  <2>1. r = WithMode(q, s, m)
    BY DEF q
  <2> QED
    BY <1>2, <2>1, WithModeFields
<1>4. /\ r.entry = e /\ r.new = NoEntry /\ r.next = "headers" /\ r.mode = "READ" /\ r.key \in Keys
      /\ e = tr[t].entry /\ e # NoEntry
      /\ c.entries[e].writer # None /\ c.entries[e].content = "whole"
  BY <1>3 DEF HolderAt
<1> HIDE DEF r, e
<1>5. Good(backendOp, ConvertWriterToReader(c, e), [tr EXCEPT ![t] = r], None, NoEntry)
  BY <1>3, <1>4, WriterConverted
<1> QED
  BY <1>1, <1>5 DEF IInv

\* What the holder in state s knows.
LEMMA HolderIn ==
    ASSUME IInv, NEW t \in Trans, NEW s \in Holding, At(t, s)
    PROVE  HolderAt(t) /\ tr[t].next = s
BY Holder DEF At

-----------------------------------------------------------------------------
(* The disk entry answers                                                  *)

\* CacheReadResponseFails, BeginCacheRead, SkipValidation and BeginCacheValidation.
LEMMA ResponseRead ==
    ASSUME IInv, NEW t \in Trans, NEW yes \in BOOLEAN,
           \/ CacheReadResponseFails(t) \/ BeginCacheRead(t)
           \/ SkipValidation(t) \/ BeginCacheValidation(t, yes)
    PROVE  IInv'
<1> DEFINE s == "CACHE_READ_RESPONSE_COMPLETE"
           z == Content(t)
<1>1. s \in Holding /\ At(t, s)
  BY DEF Holding, AtDisk, CacheReadResponseFails, BeginCacheRead, SkipValidation, BeginCacheValidation
<1> HIDE DEF s
<1>2. HolderAt(t)
  BY <1>1, HolderIn
<1>3. /\ z \in Contents /\ z # "absent" /\ (z = "partial" => tr[t].mode = "WRITE")
      /\ Good(backendOp, cache, tr, None, NoEntry) /\ cache.stack = <<>>
      /\ Writes(tr[t].mode) => cache.entries[tr[t].entry].writer # None
  BY <1>2 DEF HolderAt, Content
<1>4. /\ "failed" \in Holding /\ "headers" \in Holding /\ "SEND_REQUEST_COMPLETE" \in Holding
      /\ "READ_WRITE" \in Modes /\ "WRITE" \in Modes
  BY DEF Holding, AtNetwork, Modes
<1>5. CASE CacheReadResponseFails(t)
  <2>1. Fits("failed", tr[t].mode, Content(t))
    BY DEF Fits, AtNetwork
  <2>2. Step(t, "failed", cache)
    BY <1>5 DEF CacheReadResponseFails
  <2> QED
    BY <1>2, <1>4, <2>1, <2>2, Stepped
<1>6. CASE BeginCacheRead(t)
  <2> DEFINE n == IF z = "truncated" THEN "failed" ELSE "headers"
  <2>1. Step(t, n, cache) /\ tr[t].mode = "READ" /\ z # "new"
    BY <1>6 DEF BeginCacheRead
  <2>2. Fits(n, tr[t].mode, z)
    BY <1>3, <2>1 DEF Fits, AtNetwork, Contents
  <2>3. n \in Holding
    BY <1>4
  <2> HIDE DEF n
  <2> QED
    BY <1>2, <2>1, <2>2, <2>3, Stepped
<1>7. CASE SkipValidation(t)
  <2>1. StepToReader(t, cache) /\ tr[t].mode = "READ_WRITE" /\ z = "whole"
    BY <1>3, <1>7 DEF SkipValidation
  <2>2. cache.entries[tr[t].entry].writer # None /\ cache.entries[tr[t].entry].content = "whole"
    BY <1>3, <2>1 DEF Writes, Content
  <2> QED
    BY <1>2, <1>3, <2>1, <2>2, SteppedToReader
<1>8. CASE BeginCacheValidation(t, yes)
  <2> DEFINE n == "SEND_REQUEST_COMPLETE"
             m == IF yes THEN "READ_WRITE" ELSE "WRITE"
  <2>1. StepWithMode(t, n, m, cache) /\ tr[t].mode = "READ_WRITE" /\ z = "whole"
    BY <1>3, <1>8 DEF BeginCacheValidation
  <2>2. Fits(n, m, z)
    BY <2>1 DEF Fits, AtNetwork, Writes
  <2>3. n \in Holding /\ m \in Modes /\ m # "NONE" /\ ModeKept(tr[t].mode, m)
    BY <1>4, <2>1 DEF ModeKept, Writes
  <2> HIDE DEF n, m
  <2> QED
    BY <1>2, <2>1, <2>2, <2>3, SteppedWithMode
<1> QED
  BY <1>5, <1>6, <1>7, <1>8

\* ValidateEntryHeadersAndContinue.
LEMMA EntryHeadersValidated ==
    ASSUME IInv, NEW t \in Trans, NEW usable \in BOOLEAN, ValidateEntryHeadersAndContinue(t, usable)
    PROVE  IInv'
<1> DEFINE s == "CACHE_READ_RESPONSE_COMPLETE"
           e == tr[t].entry
<1>1. s \in Holding /\ At(t, s) /\ tr[t].mode = "READ_WRITE" /\ Content(t) = "truncated"
  BY DEF Holding, AtDisk, ValidateEntryHeadersAndContinue
<1> HIDE DEF s
<1>2. HolderAt(t)
  BY <1>1, HolderIn
<1>3. CASE usable
  <2> DEFINE n == "SEND_REQUEST_COMPLETE"
  <2>1. n \in Holding /\ Fits(n, tr[t].mode, Content(t)) /\ Step(t, n, cache)
    BY <1>1, <1>3 DEF Fits, Holding, AtNetwork, Writes, ValidateEntryHeadersAndContinue
  <2> HIDE DEF n
  <2> QED
    BY <1>2, <2>1, Stepped
<1>4. CASE ~usable
  <2> DEFINE r == [tr[t] EXCEPT !.entry = NoEntry, !.mode = "WRITE", !.next = "INIT_ENTRY"]
             c == Call(cache, <<Run(t, "OK")>>)
             k == tr[t].key
             d == DoneWithEntry(DoomEntry(c, k, None), e, t, FALSE)
  <2>1. tr' = [tr EXCEPT ![t] = r]
    BY <1>2, <1>4 DEF HolderAt, ValidateEntryHeadersAndContinue
  <2>2. cache' = d /\ backend' = backend /\ backendOp' = backendOp
    BY <1>4 DEF DoomPartialEntry, ValidateEntryHeadersAndContinue
  <2>3. tr[t] \in Transaction /\ tr[t].new = NoEntry /\ tr[t].key \in Keys
    BY <1>2 DEF HolderAt
  <2>4. /\ r \in Transaction /\ r.next = "INIT_ENTRY" /\ r.entry = NoEntry /\ r.new = NoEntry
        /\ r.key = k /\ r.mode # "NONE" /\ k \in Keys
    BY <2>3 DEF Transaction, Turns, Modes
  <2>5. /\ Good(backendOp, cache, tr, None, NoEntry) /\ cache.stack = <<>>
        /\ e = tr[t].entry /\ e # NoEntry /\ cache.entries[e].writer # None
    BY <1>1, <1>2 DEF HolderAt, Writes
  <2> HIDE DEF r, k, e
  <2>6. Good(backendOp, d, [tr EXCEPT ![t] = r], None, NoEntry)
    BY <2>4, <2>5, Dropped
  <2> QED
    BY <2>1, <2>2, <2>6 DEF IInv
<1> QED
  BY <1>3, <1>4

\* BeginExternallyConditionalizedRequest.
LEMMA ExternallyConditionalized ==
    ASSUME IInv, NEW t \in Trans, NEW validates \in BOOLEAN,
           BeginExternallyConditionalizedRequest(t, validates)
    PROVE  IInv'
<1> DEFINE s == "CACHE_READ_RESPONSE_COMPLETE"
           z == cache.entries[tr[t].entry].content
<1>1. s \in Holding /\ At(t, s) /\ tr[t].mode = "UPDATE"
  BY DEF Holding, AtDisk, BeginExternallyConditionalizedRequest
<1> HIDE DEF s
<1>2. HolderAt(t)
  BY <1>1, HolderIn
<1>3. CASE validates
  <2> DEFINE n == "SEND_REQUEST_COMPLETE"
  <2>1. n \in Holding /\ Fits(n, tr[t].mode, Content(t)) /\ Step(t, n, cache)
    BY <1>1, <1>3 DEF Fits, Holding, AtNetwork, Writes, BeginExternallyConditionalizedRequest
  <2> HIDE DEF n
  <2> QED
    BY <1>2, <2>1, Stepped
<1>4. CASE ~validates
  <2>1. StepPast(t, TRUE, cache)
    BY <1>4 DEF BeginExternallyConditionalizedRequest
  <2>2. /\ Good(backendOp, cache, tr, None, NoEntry) /\ cache.stack = <<>> /\ tr[t].entry # NoEntry
        /\ cache.entries[tr[t].entry].writer # None /\ z \in Contents \ {"absent", "partial"}
    BY <1>1, <1>2 DEF HolderAt, Writes
  <2> QED
    BY <2>1, <2>2, SteppedPast
<1> QED
  BY <1>3, <1>4

\* UpdateComplete in the cache c, which is as the cache is for the holder.
LEMMA Updated ==
    ASSUME IInv, NEW t \in Trans, HolderAt(t), NEW c, Good(backendOp, c, tr, None, NoEntry),
           c.stack = <<>>, c.entries[tr[t].entry].writer # None,
           c.entries[tr[t].entry].content = Content(t),
           tr[t].mode # "UPDATE" => Content(t) = "whole", tr[t].mode # "WRITE",
           UpdateComplete(t, c)
    PROVE  IInv'
<1> DEFINE z == Content(t)
<1>1. /\ tr[t].entry # NoEntry /\ z \in Contents \ {"absent", "partial"}
  BY DEF HolderAt, Content
<1>2. CASE tr[t].mode = "UPDATE"
  <2>1. StepPast(t, TRUE, c)
    BY <1>2 DEF UpdateComplete
  <2>2. c.entries[tr[t].entry].content \in Contents \ {"absent", "partial"}
    BY <1>1
  <2> QED
    BY <1>1, <2>1, <2>2, SteppedPast
<1>3. CASE tr[t].mode # "UPDATE"
  <2>1. StepToReader(t, c) /\ c.entries[tr[t].entry].content = "whole"
    BY <1>3 DEF UpdateComplete
  <2> QED
    BY <2>1, SteppedToReader
<1> QED
  BY <1>2, <1>3

\* The writer gives up what it has written.
LEMMA SteppedPastFailed ==
    ASSUME IInv, NEW t \in Trans, HolderAt(t), Writes(tr[t].mode), StepPast(t, FALSE, cache)
    PROVE  IInv'
<1>1. /\ Good(backendOp, cache, tr, None, NoEntry) /\ cache.stack = <<>> /\ tr[t].entry # NoEntry
      /\ cache.entries[tr[t].entry].writer # None
  BY DEF HolderAt
<1>2. FALSE \in BOOLEAN
  OBVIOUS
<1> QED
  BY <1>1, <1>2, SteppedPast

\* UpdateCachedResponseComplete.
LEMMA UpdateWritten ==
    ASSUME IInv, NEW t \in Trans, NEW ok \in BOOLEAN, UpdateCachedResponseComplete(t, ok)
    PROVE  IInv'
<1> DEFINE s == "UPDATE_CACHED_RESPONSE_COMPLETE"
<1>1. s \in Holding /\ At(t, s)
  BY DEF Holding, AtDisk, UpdateCachedResponseComplete
<1>2. HolderAt(t) /\ tr[t].next = "UPDATE_CACHED_RESPONSE_COMPLETE"
  <2> HIDE DEF s
  <2>1. HolderAt(t) /\ tr[t].next = s
    BY <1>1, HolderIn
  <2> QED
    BY <2>1 DEF s
<1>3. /\ Good(backendOp, cache, tr, None, NoEntry) /\ cache.stack = <<>>
      /\ cache.entries[tr[t].entry].writer # None /\ cache.entries[tr[t].entry].content = Content(t)
      /\ tr[t].mode # "UPDATE" => Content(t) = "whole"
      /\ tr[t].mode # "WRITE" /\ Writes(tr[t].mode)
  BY <1>2 DEF HolderAt, Fits, Content, Modes, Writes
<1>4. CASE ok
  <2>1. UpdateComplete(t, cache)
    BY <1>4 DEF UpdateCachedResponseComplete
  <2> QED
    BY <1>2, <1>3, <2>1, Updated
<1>5. CASE ~ok
  <2>1. StepPast(t, FALSE, cache)
    BY <1>5 DEF UpdateCachedResponseComplete
  <2> QED
    BY <1>2, <1>3, <2>1, SteppedPastFailed
<1> QED
  BY <1>4, <1>5

\* OverwriteComplete.
LEMMA Overwritten ==
    ASSUME IInv, NEW t \in Trans, NEW what \in {"ok", "redirect", "failed"},
           OverwriteComplete(t, what)
    PROVE  IInv'
<1> DEFINE s == "TRUNCATE_CACHED_DATA"
           n == "headers"
<1>1. s \in Holding /\ At(t, s) /\ n \in Holding
  BY DEF Holding, AtDisk, OverwriteComplete
<1>2. HolderAt(t) /\ tr[t].next = "TRUNCATE_CACHED_DATA"
  <2> HIDE DEF s
  <2>1. HolderAt(t) /\ tr[t].next = s
    BY <1>1, HolderIn
  <2> QED
    BY <2>1 DEF s
<1>3. Writes(tr[t].mode)
  BY <1>2 DEF HolderAt, Fits
<1>4. Fits(n, tr[t].mode, Content(t))
  BY <1>3 DEF Fits, AtNetwork, Writes
<1>5. CASE what = "ok"
  <2>1. Step(t, n, cache)
    BY <1>5 DEF OverwriteComplete
  <2> HIDE DEF n
  <2> QED
    BY <1>1, <1>2, <1>4, <2>1, Stepped
<1>6. CASE what = "redirect"
  <2>1. StepPast(t, TRUE, Stored(t, "whole"))
    BY <1>6 DEF OverwriteComplete
  <2> QED
    BY <1>2, <1>3, <2>1, SteppedPastWhole
<1>7. CASE what = "failed"
  <2>1. StepPast(t, FALSE, cache)
    BY <1>7 DEF OverwriteComplete
  <2> QED
    BY <1>2, <1>3, <2>1, SteppedPastFailed
<1> QED
  BY <1>5, <1>6, <1>7

\* CacheWriteDataComplete.
LEMMA DataWritten ==
    ASSUME IInv, NEW t \in Trans, NEW what \in {"ok", "last", "failed"},
           CacheWriteDataComplete(t, what)
    PROVE  IInv'
<1> DEFINE s == "CACHE_WRITE_DATA_COMPLETE"
           n == "data"
           z == "whole"
<1>1. s \in Holding /\ At(t, s) /\ n \in Holding
  BY DEF Holding, AtDisk, CacheWriteDataComplete
<1>2. HolderAt(t) /\ tr[t].next = "CACHE_WRITE_DATA_COMPLETE"
  <2> HIDE DEF s
  <2>1. HolderAt(t) /\ tr[t].next = s
    BY <1>1, HolderIn
  <2> QED
    BY <2>1 DEF s
<1>3. Writes(tr[t].mode)
  BY <1>2 DEF HolderAt, Fits
<1>4. Fits(n, tr[t].mode, Content(t)) /\ Fits(n, tr[t].mode, z)
  BY <1>3 DEF Fits, AtNetwork, Writes
<1>5. CASE what = "ok"
  <2>1. Step(t, n, cache)
    BY <1>5 DEF CacheWriteDataComplete
  <2> HIDE DEF n
  <2> QED
    BY <1>1, <1>2, <1>4, <2>1, Stepped
<1>6. CASE what = "last"
  <2> DEFINE m == tr[t].mode
  <2>1. /\ tr' = [tr EXCEPT ![t].next = n] /\ cache' = Stored(t, z)
        /\ UNCHANGED <<backend, backendOp>>
    BY <1>6 DEF CacheWriteDataComplete, Step
  <2>2. tr' = [tr EXCEPT ![t] = WithMode(tr[t], n, m)]
    <3>1. tr[t] \in Transaction /\ tr \in [Trans -> Transaction]
      BY <1>2 DEF HolderAt
    <3>2. WithMode(tr[t], n, m) = [tr[t] EXCEPT !.next = n]
      BY <3>1 DEF WithMode, Transaction
    <3> QED
      BY <2>1, <3>2
  <2>3. m \in Modes /\ z \in Contents /\ z # "absent" /\ (z = "partial" => m = "WRITE")
    BY <1>2 DEF HolderAt, Contents
  <2> HIDE DEF n, z, m
  <2>4. m = tr[t].mode
    BY DEF m
  <2> QED
    BY <1>1, <1>2, <1>3, <1>4, <2>1, <2>2, <2>3, <2>4, SteppedStoring
<1>7. CASE what = "failed"
  <2>1. StepPast(t, FALSE, cache)
    BY <1>7 DEF CacheWriteDataComplete
  <2> QED
    BY <1>2, <1>3, <2>1, SteppedPastFailed
<1> QED
  BY <1>5, <1>6, <1>7

\* CacheReadDataComplete.
LEMMA DataRead ==
    ASSUME IInv, NEW t \in Trans, NEW what \in {"data", "eof", "failed"},
           CacheReadDataComplete(t, what)
    PROVE  IInv'
<1> DEFINE s == "CACHE_READ_DATA_COMPLETE"
           e == tr[t].entry
<1>1. s \in Holding /\ At(t, s) /\ "failed" \in Holding /\ "data" \in Holding
  BY DEF Holding, AtDisk, CacheReadDataComplete
<1>2. HolderAt(t) /\ tr[t].next = "CACHE_READ_DATA_COMPLETE"
  <2> HIDE DEF s
  <2>1. HolderAt(t) /\ tr[t].next = s
    BY <1>1, HolderIn
  <2> QED
    BY <2>1 DEF s
<1>3. /\ tr[t].mode = "READ" /\ Content(t) = "whole" /\ e = tr[t].entry /\ e # NoEntry
      /\ cache.entries[e].writer = None
      /\ Good(backendOp, cache, tr, None, NoEntry) /\ cache.stack = <<>>
  BY <1>2 DEF HolderAt, Fits, Content
<1>4. CASE what = "failed"
  <2> DEFINE n == "failed"
  <2>1. Step(t, n, cache) /\ Fits(n, tr[t].mode, Content(t))
    BY <1>4 DEF CacheReadDataComplete, Fits, AtNetwork
  <2> HIDE DEF n
  <2>2. n \in Holding
    BY <1>1 DEF n
  <2> QED
    BY <1>2, <2>1, <2>2, Stepped
<1>5. CASE what = "data"
  <2> DEFINE n == "data"
  <2>1. Step(t, n, cache) /\ Fits(n, tr[t].mode, Content(t))
    BY <1>3, <1>5 DEF CacheReadDataComplete, Fits, AtNetwork
  <2> HIDE DEF n
  <2>2. n \in Holding
    BY <1>1 DEF n
  <2> QED
    BY <1>2, <2>1, <2>2, Stepped
<1>6. CASE what = "eof"
  <2> DEFINE d == DoneReadingFromEntry(cache, e, t)
  <2>1. tr' = [tr EXCEPT ![t] = Past] /\ cache' = d /\ UNCHANGED <<backend, backendOp>>
    BY <1>6 DEF CacheReadDataComplete
  <2> HIDE DEF e
  <2>2. Good(backendOp, d, tr, t, NoEntry)
    BY <1>3, ReaderLeaves
  <2> HIDE DEF d
  <2> QED
    BY <2>1, <2>2, Passes
<1> QED
  BY <1>4, <1>5, <1>6

-----------------------------------------------------------------------------
(* The network answers                                                     *)

\* SendRequestFails and AuthRequired.
LEMMA RequestFails ==
    ASSUME IInv, NEW t \in Trans, SendRequestFails(t) \/ AuthRequired(t)
    PROVE  IInv'
<1> DEFINE s == "SEND_REQUEST_COMPLETE"
<1>1. s \in Holding /\ At(t, s) /\ "neterror" \in Holding /\ "auth" \in Holding
  BY DEF Holding, AtNetwork, SendRequestFails, AuthRequired
<1>2. HolderAt(t) /\ tr[t].next = "SEND_REQUEST_COMPLETE"
  <2> HIDE DEF s
  <2>1. HolderAt(t) /\ tr[t].next = s
    BY <1>1, HolderIn
  <2> QED
    BY <2>1 DEF s
<1>3. Fits("neterror", tr[t].mode, Content(t)) /\ Fits("auth", tr[t].mode, Content(t))
  BY <1>2 DEF HolderAt, Fits, AtNetwork, Content
<1>4. CASE SendRequestFails(t)
  <2> DEFINE m == "neterror"
  <2>1. Step(t, m, cache) /\ Fits(m, tr[t].mode, Content(t)) /\ m \in Holding
    BY <1>1, <1>3, <1>4 DEF SendRequestFails
  <2> HIDE DEF m
  <2> QED
    BY <1>2, <2>1, Stepped
<1>5. CASE AuthRequired(t)
  <2> DEFINE m == "auth"
  <2>1. Step(t, m, cache) /\ Fits(m, tr[t].mode, Content(t)) /\ m \in Holding
    BY <1>1, <1>3, <1>5 DEF AuthRequired
  <2> HIDE DEF m
  <2> QED
    BY <1>2, <2>1, Stepped
<1> QED
  BY <1>4, <1>5

\* NotModified.
LEMMA HeadersUpdated ==
    ASSUME IInv, NEW t \in Trans, NEW noStore \in BOOLEAN, NotModified(t, noStore)
    PROVE  IInv'
<1> DEFINE s == "SEND_REQUEST_COMPLETE"
           n == "UPDATE_CACHED_RESPONSE_COMPLETE"
           k == tr[t].key
           e == tr[t].entry
           c == DoomEntry(cache, k, None)
<1>1. /\ s \in Holding /\ At(t, s) /\ n \in Holding
      /\ tr[t].mode \in {"READ_WRITE", "UPDATE"} /\ Content(t) # "truncated"
  BY DEF Holding, AtNetwork, AtDisk, NotModified
<1>2. HolderAt(t) /\ tr[t].next = "SEND_REQUEST_COMPLETE"
  <2> HIDE DEF s
  <2>1. HolderAt(t) /\ tr[t].next = s
    BY <1>1, HolderIn
  <2> QED
    BY <2>1 DEF s
<1>3. /\ tr[t].mode = "READ_WRITE" => Content(t) = "whole"
      /\ Writes(tr[t].mode) /\ tr[t].mode # "WRITE"
  BY <1>1, <1>2 DEF HolderAt, Fits, Content, Writes
<1>4. CASE noStore
  <2>1. UpdateComplete(t, c)
    BY <1>4 DEF NotModified
  <2>2. /\ Good(backendOp, cache, tr, None, NoEntry) /\ cache.stack = <<>> /\ k \in Keys
        /\ e \in Entries /\ IsLive(cache, e) /\ cache.entries[e].writer # None
    BY <1>2, <1>3 DEF HolderAt
  <2>3. /\ Good(backendOp, c, tr, None, NoEntry) /\ c.stack = <<>>
        /\ c.entries[e].writer = cache.entries[e].writer
        /\ c.entries[e].content = cache.entries[e].content
    <3> HIDE DEF k, e
    <3> QED
      BY <2>2, DoomUnderWay
  <2>4. /\ c.entries[tr[t].entry].writer # None /\ c.entries[tr[t].entry].content = Content(t)
        /\ tr[t].mode # "UPDATE" => Content(t) = "whole"
    BY <1>1, <1>3, <2>2, <2>3 DEF Content
  <2> HIDE DEF c
  <2> QED
    BY <1>2, <1>3, <2>1, <2>3, <2>4, Updated
<1>5. CASE ~noStore
  <2>1. Step(t, n, cache) /\ Fits(n, tr[t].mode, Content(t))
    BY <1>1, <1>3, <1>5 DEF NotModified, Fits, AtNetwork
  <2> HIDE DEF n
  <2> QED
    BY <1>1, <1>2, <2>1, Stepped
<1> QED
  BY <1>4, <1>5

\* ResumeRefused.
LEMMA RangeRefused ==
    ASSUME IInv, NEW t \in Trans, ResumeRefused(t)
    PROVE  IInv'
<1> DEFINE s == "SEND_REQUEST_COMPLETE"
           k == tr[t].key
           e == tr[t].entry
           c == DoomEntry(cache, k, None)
           d == DoneWithEntry(c, e, t, FALSE)
<1>1. s \in Holding /\ At(t, s)
  BY DEF Holding, AtNetwork, ResumeRefused
<1>2. tr' = [tr EXCEPT ![t] = Past] /\ cache' = d /\ UNCHANGED <<backend, backendOp>>
  BY DEF ResumeRefused, DoomPartialEntry
<1> HIDE DEF s
<1>3. HolderAt(t)
  BY <1>1, HolderIn
<1>4. /\ Good(backendOp, cache, tr, None, NoEntry) /\ cache.stack = <<>> /\ k \in Keys
      /\ e = tr[t].entry /\ e # NoEntry
  BY <1>3 DEF HolderAt
<1> HIDE DEF k, e
<1>5. Good(backendOp, c, tr, None, NoEntry) /\ c.stack = <<>>
  BY <1>4, DoomUnderWay
<1> HIDE DEF c
<1>6. Good(backendOp, d, tr, t, NoEntry)
  BY <1>4, <1>5, HolderLeaves
<1> HIDE DEF d
<1> QED
  BY <1>2, <1>6, Passes

\* NewResponse.
LEMMA ResponseReplaced ==
    ASSUME IInv, NEW t \in Trans, NEW noStore \in BOOLEAN, NewResponse(t, noStore)
    PROVE  IInv'
<1> DEFINE s == "SEND_REQUEST_COMPLETE"
           n == "TRUNCATE_CACHED_DATA"
           m == "WRITE"
           z == "partial"
<1>1. s \in Holding /\ At(t, s) /\ n \in Holding
  BY DEF Holding, AtNetwork, AtDisk, NewResponse
<1>2. HolderAt(t) /\ tr[t].next = "SEND_REQUEST_COMPLETE"
  <2> HIDE DEF s
  <2>1. HolderAt(t) /\ tr[t].next = s
    BY <1>1, HolderIn
  <2> QED
    BY <2>1 DEF s
<1>3. Writes(tr[t].mode)
  BY <1>2 DEF HolderAt, Fits, AtNetwork
<1>4. CASE noStore
  <2>1. StepPast(t, FALSE, cache)
    BY <1>4 DEF NewResponse
  <2> QED
    BY <1>2, <1>3, <2>1, SteppedPastFailed
<1>5. CASE ~noStore
  <2>1. StepWithMode(t, n, m, Stored(t, z))
    BY <1>5 DEF NewResponse
  <2>2. /\ m \in Modes /\ Writes(m) /\ z \in Contents /\ z # "absent" /\ (z = "partial" => m = "WRITE")
        /\ Fits(n, m, z)
    BY DEF Modes, Writes, Contents, Fits, AtNetwork
  <2> HIDE DEF n, m, z
  <2>3. /\ tr' = [tr EXCEPT ![t] = WithMode(tr[t], n, m)] /\ cache' = Stored(t, z)
        /\ UNCHANGED <<backend, backendOp>>
    BY <1>2, <2>1 DEF StepWithMode, WithMode, HolderAt
  <2> QED
    BY <1>1, <1>2, <1>3, <2>2, <2>3, SteppedStoring
<1> QED
  BY <1>4, <1>5

\* NetworkReadComplete.
LEMMA NetworkRead ==
    ASSUME IInv, NEW t \in Trans, NEW what \in {"data", "eof", "failed"},
           NetworkReadComplete(t, what)
    PROVE  IInv'
<1> DEFINE s == "NETWORK_READ_COMPLETE"
<1>1. s \in Holding /\ At(t, s)
  BY DEF Holding, AtNetwork, NetworkReadComplete
<1>2. HolderAt(t) /\ tr[t].next = "NETWORK_READ_COMPLETE"
  <2> HIDE DEF s
  <2>1. HolderAt(t) /\ tr[t].next = s
    BY <1>1, HolderIn
  <2> QED
    BY <2>1 DEF s
<1>3. Writes(tr[t].mode)
  BY <1>2 DEF HolderAt, Fits, AtNetwork
<1>4. CASE what = "failed"
  <2> DEFINE n == "failed"
  <2>1. Step(t, n, cache) /\ Fits(n, tr[t].mode, Content(t)) /\ n \in Holding
    BY <1>4 DEF NetworkReadComplete, Fits, AtNetwork, Holding
  <2> HIDE DEF n
  <2> QED
    BY <1>2, <2>1, Stepped
<1>5. CASE what = "data"
  <2> DEFINE n == "CACHE_WRITE_DATA_COMPLETE"
  <2>1. Step(t, n, cache) /\ Fits(n, tr[t].mode, Content(t)) /\ n \in Holding
    BY <1>3, <1>5 DEF NetworkReadComplete, Fits, AtNetwork, Holding, AtDisk
  <2> HIDE DEF n
  <2> QED
    BY <1>2, <2>1, Stepped
<1>6. CASE what = "eof"
  <2>1. StepPast(t, TRUE, Stored(t, "whole"))
    BY <1>6 DEF NetworkReadComplete
  <2> QED
    BY <1>2, <1>3, <2>1, SteppedPastWhole
<1> QED
  BY <1>4, <1>5, <1>6

-----------------------------------------------------------------------------
(* The user                                                                *)

\* A user that destroys nothing but what it is called back for acts between tasks, unless
\* its own transaction is past the cache.
LEMMA UserIdle ==
    ASSUME IInv, ~CancelInCallback, NEW t \in Trans, UserActs(t)
    PROVE  \/ Idle /\ AfterUser(t) = cache
           \/ /\ ~Idle /\ Head(cache.stack) = User(t) /\ AfterUser(t) = Rest(cache)
              /\ tr[t].next = "past"
<1>1. Good(backendOp, cache, tr, None, NoEntry) /\ cache \in Cache
  BY DEF IInv, Good, Typed
<1>2. CASE Idle
  BY <1>2 DEF AfterUser
<1>3. CASE ~Idle
  <2>1. /\ cache.stack # <<>> /\ Head(cache.stack).frame = "user" /\ Head(cache.stack).trans = t
    BY <1>3 DEF UserActs, Idle
  <2>2. Head(cache.stack) \in Frame
    BY <1>1, <2>1, RestFields
  <2>3. Head(cache.stack) = User(t)
    <3> DEFINE f == Head(cache.stack)
    <3> HIDE DEF f
    <3>1. f = User(f.trans)
      BY <2>1, <2>2, FrameFields DEF f
    <3> QED
      BY <2>1, <3>1 DEF f
  <2>4. AfterUser(t) = Rest(cache)
    BY <1>3, <2>1 DEF AfterUser, Popped, Rest
  <2>5. tr[t].next = "past"
    BY <1>1, <2>1, <2>3, TakeUser
  <2> QED
    BY <1>3, <2>3, <2>4, <2>5
<1> QED
  BY <1>2, <1>3

\* Reads and restarts are counted.
ReadsOn(r, s) == [r EXCEPT !.reads = @ + 1, !.next = s]
StartsAgain(r, s) == [r EXCEPT !.next = s, !.restarts = @ + 1]

\* What the records are then.
LEMMA CountedFields ==
    ASSUME NEW q \in Transaction, NEW s \in States, NEW r,
           r = ReadsOn(q, s) \/ r = StartsAgain(q, s)
    PROVE  r \in Transaction /\ r.next = s /\ r.key = q.key /\ r.mode = q.mode
           /\ r.entry = q.entry /\ r.new = q.new
<1> DEFINE p == Moved(q, s)
<1>1. \/ r = [p EXCEPT !.reads = @ + 1]
      \/ r = [p EXCEPT !.restarts = @ + 1]
  BY DEF Moved, Transaction, ReadsOn, StartsAgain
<1>2. p \in Transaction /\ p.next = s /\ p.key = q.key /\ p.mode = q.mode /\ p.entry = q.entry
      /\ p.new = q.new
  BY MovedFields
<1> HIDE DEF p
<1>3. r \in Transaction /\ r.next = p.next /\ r.key = p.key /\ r.mode = p.mode
      /\ r.entry = p.entry /\ r.new = p.new
  BY <1>1, <1>2 DEF Transaction
<1> QED
  BY <1>2, <1>3

\* Read.
LEMMA Reads ==
    ASSUME IInv, ~CancelInCallback, NEW t \in Trans, Read(t)
    PROVE  IInv'
<1> DEFINE n == IF tr[t].mode = "READ" THEN "CACHE_READ_DATA_COMPLETE"
                ELSE "NETWORK_READ_COMPLETE"
           q == tr[t]
           r == [q EXCEPT !.reads = @ + 1, !.next = n]
<1>1. UserActs(t) /\ tr[t].next \in {"headers", "data"}
  BY DEF Read
<1>2. Idle /\ AfterUser(t) = cache
  BY <1>1, UserIdle
<1>3. HolderAt(t)
  BY <1>1, <1>2, Holder DEF Holding
<1>4. /\ tr' = [tr EXCEPT ![t] = r] /\ cache' = cache /\ backend' = backend
      /\ backendOp' = backendOp
  BY <1>2, <1>3 DEF Read, HolderAt
<1>5. n \in Holding /\ Fits(n, q.mode, Content(t))
  BY <1>1, <1>3 DEF HolderAt, Fits, Content, Holding, AtDisk, AtNetwork, Writes, Modes
<1>6. q \in Transaction /\ n \in States
  BY <1>3, <1>5 DEF HolderAt, States
<1>7. r \in Transaction /\ r.next = n /\ r.key = q.key /\ r.mode = q.mode /\ r.entry = q.entry
      /\ r.new = q.new
  <2>1. r = ReadsOn(q, n)
    BY DEF ReadsOn
  <2> HIDE DEF r, n, q
  <2> QED
    BY <1>6, <2>1, CountedFields
<1> HIDE DEF r, n
<1>8. Good(backendOp, cache, [tr EXCEPT ![t] = r], None, NoEntry)
  <2>1. /\ r.entry = tr[t].entry /\ r.new = NoEntry /\ r.key = tr[t].key /\ r.next \in Holding
        /\ r.mode # "NONE" /\ ModeKept(tr[t].mode, r.mode)
        /\ Fits(r.next, r.mode, cache.entries[tr[t].entry].content)
    BY <1>3, <1>5, <1>7 DEF HolderAt, ModeKept, Content
  <2> QED
    BY <1>3, <1>7, <2>1, HolderGoes
<1> QED
  BY <1>4, <1>8 DEF IInv

\* RestartNetworkRequest.
LEMMA Restarts ==
    ASSUME IInv, ~CancelInCallback, NEW t \in Trans, RestartNetworkRequest(t)
    PROVE  IInv'
<1> DEFINE n == "SEND_REQUEST_COMPLETE"
           q == tr[t]
           r == [q EXCEPT !.next = n, !.restarts = @ + 1]
<1>1. UserActs(t) /\ tr[t].next \in {"neterror", "auth"}
  BY DEF RestartNetworkRequest
<1>2. Idle /\ AfterUser(t) = cache
  BY <1>1, UserIdle
<1>3. HolderAt(t)
  BY <1>1, <1>2, Holder DEF Holding
<1>4. /\ tr' = [tr EXCEPT ![t] = r] /\ cache' = cache /\ backend' = backend
      /\ backendOp' = backendOp
  BY <1>2, <1>3 DEF RestartNetworkRequest, HolderAt
<1>5. n \in Holding /\ Fits(n, q.mode, Content(t))
  BY <1>1, <1>3 DEF HolderAt, Fits, Content, Holding, AtNetwork
<1>6. q \in Transaction /\ n \in States
  BY <1>3, <1>5 DEF HolderAt, States
<1>7. r \in Transaction /\ r.next = n /\ r.key = q.key /\ r.mode = q.mode /\ r.entry = q.entry
      /\ r.new = q.new
  <2>1. r = StartsAgain(q, n)
    BY DEF StartsAgain
  <2> HIDE DEF r, n, q
  <2> QED
    BY <1>6, <2>1, CountedFields
<1> HIDE DEF r, n
<1>8. Good(backendOp, cache, [tr EXCEPT ![t] = r], None, NoEntry)
  <2>1. /\ r.entry = tr[t].entry /\ r.new = NoEntry /\ r.key = tr[t].key /\ r.next \in Holding
        /\ r.mode # "NONE" /\ ModeKept(tr[t].mode, r.mode)
        /\ Fits(r.next, r.mode, cache.entries[tr[t].entry].content)
    BY <1>3, <1>5, <1>7 DEF HolderAt, ModeKept, Content
  <2> QED
    BY <1>3, <1>7, <2>1, HolderGoes
<1> QED
  BY <1>4, <1>8 DEF IInv

\* ReadErrorPage.
LEMMA ErrorPageRead ==
    ASSUME IInv, ~CancelInCallback, NEW t \in Trans, ReadErrorPage(t)
    PROVE  IInv'
<1> DEFINE ok == tr[t].mode = "READ_WRITE"
<1>1. UserActs(t) /\ tr[t].next = "auth"
  BY DEF ReadErrorPage
<1>2. Idle /\ AfterUser(t) = cache
  BY <1>1, UserIdle
<1>3. HolderAt(t)
  BY <1>1, <1>2, Holder DEF Holding
<1>4. StepPast(t, ok, cache) /\ ok \in BOOLEAN
  BY <1>2 DEF ReadErrorPage
<1>5. /\ Good(backendOp, cache, tr, None, NoEntry) /\ cache.stack = <<>> /\ tr[t].entry # NoEntry
      /\ cache.entries[tr[t].entry].writer # None
      /\ ok => cache.entries[tr[t].entry].content \in Contents \ {"absent", "partial"}
  BY <1>1, <1>3 DEF HolderAt, Fits
<1> HIDE DEF ok
<1> QED
  BY <1>4, <1>5, SteppedPast

\* UserReturns.
LEMMA CallbackReturns ==
    ASSUME IInv, UserReturns
    PROVE  IInv'
<1> DEFINE f == Head(cache.stack)
           x == f.trans
<1>1. Good(backendOp, cache, tr, None, NoEntry) /\ cache \in Cache
  BY DEF IInv, Good, Typed
<1>2. cache.stack # <<>> /\ f.frame = "user" /\ cache' = Rest(cache)
      /\ UNCHANGED <<backend, backendOp, tr>>
  BY DEF UserReturns, Idle, Popped, Rest
<1>3. f \in Frame
  BY <1>1, <1>2, RestFields
<1>4. x \in Trans /\ f = User(x)
  <2> HIDE DEF f
  <2> QED
    BY <1>2, <1>3, FrameFields
<1>5. /\ tr[x].next = "past" /\ tr[x].entry = NoEntry /\ tr[x].new = NoEntry
      /\ Good(backendOp, Rest(cache), tr, x, NoEntry)
  <2> HIDE DEF x
  <2>1. Head(cache.stack) = User(x)
    BY <1>4
  <2> QED
    BY <1>1, <1>2, <1>4, <2>1, TakeUser
<1>6. Good(backendOp, Rest(cache), tr, None, NoEntry)
  <2> HIDE DEF x
  <2> QED
    BY <1>4, <1>5, PutOutside DEF Outside
<1> QED
  BY <1>2, <1>6 DEF IInv

\* A transaction ends that is in hand.
LEMMA Ends ==
    ASSUME IInv, NEW t \in Trans, NEW a, NEW c, Good(a, c, tr, t, NoEntry),
           tr' = [tr EXCEPT ![t] = [Unborn EXCEPT !.next = "GONE"]], cache' = c,
           backendOp' = a, backend' = backend
    PROVE  IInv'
<1> DEFINE r == [Unborn EXCEPT !.next = "GONE"]
<1>1. r \in Transaction /\ r.next \in Outside /\ r.entry = NoEntry /\ r.new = NoEntry
  BY Blank DEF Outside
<1>2. Good(a, c, [tr EXCEPT ![t] = r], None, NoEntry)
  <2> HIDE DEF r
  <2> QED
    BY <1>1, Leaves
<1> QED
  BY <1>2 DEF IInv

\* Destroy, of a transaction that has an entry.
LEMMA HolderDestroyed ==
    ASSUME IInv, NEW t \in Trans, NEW keep \in BOOLEAN, Idle, AfterUser(t) = cache,
           tr[t].next \in Holding, Destroy(t, keep)
    PROVE  IInv'
<1> DEFINE e == tr[t].entry
           b == backendOp
           y == cache.entries[e]
           z == IF y.content = "whole" THEN "whole" ELSE "truncated"
           d == IF keep THEN DoneWithEntry(Filled(cache, e, z), e, t, TRUE)
                ELSE DoneWithEntry(cache, e, t, FALSE)
<1>1. HolderAt(t)
  BY Holder
<1>2. /\ Good(b, cache, tr, None, NoEntry) /\ cache.stack = <<>> /\ e = tr[t].entry
      /\ e \in Entries /\ e # NoEntry /\ cache \in Cache
  BY <1>1 DEF HolderAt
<1>3. Filled(cache, e, z) = [cache EXCEPT !.entries[e].content =
                                  IF @ = "whole" THEN @ ELSE "truncated"]
  BY <1>2 DEF Filled, Cache
<1>4. /\ keep => y.writer = t
      /\ cache' = d
      /\ backendOp' = IF Contains(b, t) THEN IF Head(b) = t THEN <<None>> \o Tail(b)
                                             ELSE RemoveFirst(b, t)
                      ELSE b
      /\ tr' = [tr EXCEPT ![t] = [Unborn EXCEPT !.next = "GONE"]] /\ backend' = backend
  BY <1>2, <1>3 DEF Destroy
<1>5. backendOp' = b
  <2>1. ~Has(b, t)
    <3>1. Has(b, t) => tr[t].next = "GET_BACKEND_COMPLETE"
      BY <1>2, Places
    <3> QED
      BY <3>1 DEF Holding, AtDisk, AtNetwork
  <2> QED
    BY <1>4, <2>1 DEF Has, Contains
<1>6. Good(b, d, tr, t, NoEntry)
  <2>1. CASE keep
    <3>1. y.writer # None /\ z \in Contents /\ z \notin {"absent", "partial"}
      BY <1>4, <2>1, NoneAssumption DEF Contents, Trans
    <3>2. cache.entries[e].writer # None
      BY <3>1
    <3> HIDE DEF e, z, y
    <3>3. Good(b, DoneWithEntry(Filled(cache, e, z), e, t, TRUE), tr, t, NoEntry)
      BY <1>2, <3>1, <3>2, WriterKept
    <3> QED
      BY <2>1, <3>3
  <2>2. CASE ~keep
    <3> HIDE DEF e, z, y
    <3>1. Good(b, DoneWithEntry(cache, e, t, FALSE), tr, t, NoEntry)
      BY <1>2, HolderLeaves
    <3> QED
      BY <2>2, <3>1
  <2> QED
    BY <2>1, <2>2
<1> HIDE DEF d, b
<1> QED
  BY <1>4, <1>5, <1>6, Ends

\* A transaction that has no entry does not keep one.
LEMMA NothingKept ==
    ASSUME IInv, NEW t \in Trans, tr[t].next \notin Holding
    PROVE  tr[t].entry = NoEntry
BY NoneAssumption DEF IInv, Good, TransactionsOk, TransactionOk, HoldOk, Trans

\* Destroy, of one that waits for the cache.
LEMMA WaitingDestroyed ==
    ASSUME IInv, NEW t \in Trans, NEW keep \in BOOLEAN, Idle, AfterUser(t) = cache,
           tr[t].next \in AtCache, Destroy(t, keep)
    PROVE  IInv'
<1> DEFINE b == backendOp
           a == IF Contains(b, t) THEN IF Head(b) = t THEN <<None>> \o Tail(b)
                                       ELSE RemoveFirst(b, t)
                ELSE b
           c == RemovePendingTransaction(cache, t)
<1>1. tr[t].entry = NoEntry
  BY NothingKept DEF AtCache, Holding, AtDisk, AtNetwork
<1>2. /\ cache' = c /\ backendOp' = a /\ backend' = backend
      /\ tr' = [tr EXCEPT ![t] = [Unborn EXCEPT !.next = "GONE"]]
  BY <1>1 DEF Destroy
<1>3. Good(b, cache, tr, None, NoEntry) /\ cache.stack = <<>>
  BY DEF IInv, Idle
<1>4. Good(a, c, tr, t, NoEntry)
  <2>1. a = IF Contains(b, t) THEN IF Head(b) = t THEN <<None>> \o Tail(b)
                                   ELSE RemoveFirst(b, t)
            ELSE b
    OBVIOUS
  <2> HIDE DEF a
  <2> QED
    BY <1>3, <2>1, TakeWaiting
<1> HIDE DEF a, c
<1> QED
  BY <1>2, <1>4, Ends

\* Destroy, of one that is past the cache, by its own callback or later.
LEMMA PastDestroyed ==
    ASSUME IInv, ~CancelInCallback, NEW t \in Trans, NEW keep \in BOOLEAN,
           tr[t].next = "past", Destroy(t, keep)
    PROVE  IInv'
<1> DEFINE b == backendOp
           c == AfterUser(t)
<1>1. Good(b, cache, tr, None, NoEntry)
  BY DEF IInv
<1>2. Good(b, c, tr, t, NoEntry) /\ tr[t].entry = NoEntry /\ ~Has(b, t)
  <2>1. UserActs(t)
    BY DEF Destroy
  <2>2. CASE Idle /\ AfterUser(t) = cache
    <3>1. cache.stack = <<>>
      BY <2>2 DEF Idle
    <3>2. Good(b, cache, tr, t, NoEntry) /\ tr[t].entry = NoEntry /\ ~Has(b, t)
      BY <1>1, <3>1, TakeOutside DEF Outside
    <3> QED
      BY <2>2, <3>2
  <2>3. CASE ~Idle /\ Head(cache.stack) = User(t) /\ AfterUser(t) = Rest(cache)
    <3>1. cache.stack # <<>>
      BY <2>3 DEF Idle
    <3>2. Good(b, Rest(cache), tr, t, NoEntry) /\ tr[t].entry = NoEntry /\ ~Has(b, t)
      BY <1>1, <2>3, <3>1, TakeUser
    <3> QED
      BY <2>3, <3>2
  <2> QED
    BY <2>1, <2>2, <2>3, UserIdle
<1>3. /\ cache' = c /\ backendOp' = b /\ backend' = backend
      /\ tr' = [tr EXCEPT ![t] = [Unborn EXCEPT !.next = "GONE"]]
  BY <1>2 DEF Destroy, AtCache, Has, Contains
<1> HIDE DEF c, b
<1> QED
  BY <1>2, <1>3, Ends

\* Destroy.
LEMMA Destroys ==
    ASSUME IInv, ~CancelInCallback, NEW t \in Trans, NEW keep \in BOOLEAN, Destroy(t, keep)
    PROVE  IInv'
<1>1. CASE tr[t].next = "past"
  BY <1>1, PastDestroyed
<1>2. CASE tr[t].next # "past"
  <2>1. Idle /\ AfterUser(t) = cache /\ tr[t].next \notin {"UNBORN", "GONE"}
    BY <1>2, UserIdle DEF Destroy
  <2>2. TransactionOk(backendOp, cache, tr, None, t) /\ tr[t].next \in States
    <3>1. tr[t] \in Transaction
      BY DEF IInv, Good, Typed
    <3> QED
      BY <3>1, TransactionFields, NoneAssumption
         DEF IInv, Good, TransactionsOk, Trans, States
  <2>3. tr[t].next \notin Turns
    <3>1. ~OnStack(cache.stack, t)
      BY <2>1 DEF OnStack, Idle
    <3>2. Waits(backendOp, cache, t) => tr[t].next \in AtCache
      BY Places DEF IInv
    <3> QED
      BY <2>2, <3>1, <3>2 DEF TransactionOk, PlaceOk, Turns, AtCache
  <2>4. tr[t].next \in AtCache \/ tr[t].next \in Holding
    BY <1>2, <2>1, <2>2, <2>3 DEF States, Outside
  <2> QED
    BY <2>1, <2>4, HolderDestroyed, WaitingDestroyed
<1> QED
  BY <1>1, <1>2

-----------------------------------------------------------------------------
(* The invariant                                                           *)

\* The cache at the start.
LEMMA InitGood == Init => IInv
<1> SUFFICES ASSUME Init
             PROVE  IInv
  OBVIOUS
<1> DEFINE b == backendOp
           c == cache
           w == tr
<1>1. PICK d \in [Keys -> {"absent", "whole", "truncated"}] :
          c = [entries |-> [e \in Entries |-> Closed],
               active |-> [k \in Keys |-> NoEntry], ops |-> [k \in Keys |-> NoOp],
               disk |-> d, posted |-> {}, stack |-> <<>>]
  BY DEF Init
<1>2. b = <<>> /\ backend = "factory" /\ w = [t \in Trans |-> Unborn]
  BY DEF Init
<1>3. /\ \A e \in Entries : ~IsLive(c, e) /\ c.entries[e] = Closed
      /\ \A k \in Keys : c.active[k] = NoEntry /\ c.ops[k] = NoOp /\ c.disk[k] = d[k]
      /\ c.posted = {} /\ c.stack = <<>> /\ c.disk = d
      /\ c.entries = [e \in Entries |-> Closed] /\ c.active = [k \in Keys |-> NoEntry]
      /\ c.ops = [k \in Keys |-> NoOp]
  BY <1>1 DEF IsLive
<1>4. c \in Cache
  <2>1. d \in [Keys -> Contents]
    BY DEF Contents
  <2>2. c.entries \in [Entries -> Entry \cup {Closed}]
    BY <1>3
  <2>3. c.active \in [Keys -> Entries \cup {NoEntry}]
    BY <1>3
  <2>4. c.ops \in [Keys -> Operation \cup {NoOp}]
    BY <1>3
  <2>5. c.stack \in Seq(Frame) /\ c.posted \in SUBSET Entries
    BY <1>3
  <2>6. c = Made(c.entries, c.active, c.ops, c.disk, c.posted, c.stack)
    BY <1>1 DEF Made
  <2> DEFINE en == c.entries
             ac == c.active
             op == c.ops
             di == c.disk
             po == c.posted
             st == c.stack
  <2>7. di \in [Keys -> Contents]
    BY <1>3, <2>1
  <2>8. c = Made(en, ac, op, di, po, st)
    BY <2>6
  <2> HIDE DEF c, en, ac, op, di, po, st
  <2>9. Made(en, ac, op, di, po, st) \in Cache
    BY <2>2, <2>3, <2>4, <2>5, <2>7, MadeFields DEF en, ac, op, po, st
  <2> QED
    BY <2>8, <2>9
<1>5. /\ w \in [Trans -> Transaction] /\ \A t \in Trans : w[t] = Unborn
      /\ b \in Seq(Trans \cup {None}) /\ None \in Trans \cup {None}
  BY <1>2, Blank
<1> HIDE DEF c, w, b
<1>6. ActiveOk(c) /\ OpsOk(c, w) /\ StackOk(c, w, None) /\ EntriesOk(c, w, None, NoEntry)
  <2>1. Len(c.stack) = 0
    BY <1>3
  <2> QED
    BY <1>3, <2>1 DEF ActiveOk, OpsOk, StackOk, OneFrameEach, EntriesOk
<1>7. BackendOpOk(b, w)
  BY <1>2 DEF BackendOpOk, NoneTwice
<1>8. ASSUME NEW t \in Trans
      PROVE  TransactionOk(b, c, w, None, t)
  <2>1. w[t].next = "UNBORN" /\ w[t].entry = NoEntry /\ w[t].new = NoEntry /\ w[t].mode = "NONE"
    BY <1>5 DEF Unborn
  <2>2. ~OnStack(c.stack, t)
    BY <1>3 DEF OnStack
  <2>3. PlaceOk(b, c, w, t)
    BY <2>1, <2>2 DEF PlaceOk, AtCache, Turns
  <2>4. NewOk(c, w, None, t)
    BY <2>1 DEF NewOk
  <2>5. HoldOk(c, w, t)
    BY <2>1 DEF HoldOk, AtCache, Turns, Holding, AtDisk, AtNetwork, Outside
  <2> QED
    BY <2>3, <2>4, <2>5 DEF TransactionOk
<1>9. Good(b, c, w, None, NoEntry)
  BY <1>4, <1>5, <1>6, <1>7, <1>8 DEF Good, Typed, TransactionsOk
<1> QED
  BY <1>2, <1>9 DEF IInv, b, c, w

\* DoLoop.
LEMMA LoopKeeps ==
    ASSUME IInv, NEW t \in Trans, DoLoop(t)
    PROVE  IInv'
BY GetBackendCompletes, Opens, OpenCompletes, Creates, CreateCompletes, Dooms, DoomCompletes,
   Adds, AddCompletes DEF DoLoop

\* The answers of the disk entry.
LEMMA DiskKeeps ==
    ASSUME IInv, NEW t \in Trans, DiskAnswers(t)
    PROVE  IInv'
<1>1. \/ \E yes \in BOOLEAN : \/ CacheReadResponseFails(t) \/ BeginCacheRead(t)
                              \/ SkipValidation(t) \/ BeginCacheValidation(t, yes)
      \/ \E yes \in BOOLEAN : ValidateEntryHeadersAndContinue(t, yes)
      \/ \E yes \in BOOLEAN : BeginExternallyConditionalizedRequest(t, yes)
      \/ \E yes \in BOOLEAN : UpdateCachedResponseComplete(t, yes)
      \/ \E what \in {"ok", "redirect", "failed"} : OverwriteComplete(t, what)
      \/ \E what \in {"ok", "last", "failed"} : CacheWriteDataComplete(t, what)
      \/ \E what \in {"data", "eof", "failed"} : CacheReadDataComplete(t, what)
  BY Zenon DEF DiskAnswers
<1> QED
  BY <1>1, ResponseRead, EntryHeadersValidated, ExternallyConditionalized, UpdateWritten,
     Overwritten, DataWritten, DataRead

\* The answers of the network.
LEMMA NetworkKeeps ==
    ASSUME IInv, NEW t \in Trans, NetworkAnswers(t)
    PROVE  IInv'
BY RequestFails, HeadersUpdated, ResponseReplaced, RangeRefused, NetworkRead DEF NetworkAnswers

\* The calls of the user.
LEMMA UserKeeps ==
    ASSUME IInv, ~CancelInCallback, NEW t \in Trans, UserCalls(t)
    PROVE  IInv'
BY Reads, ErrorPageRead, Restarts, Destroys DEF UserCalls

\* Every step keeps the invariant.
LEMMA NextKeeps ==
    ASSUME IInv, ~CancelInCallback, [Next]_vars
    PROVE  IInv'
<1>1. CASE \E t \in Trans, k \in Keys : \E m \in Requests[t] : Start(t, k, m)
  BY <1>1, Starts
<1>2. CASE \E t \in Trans : UserCalls(t)
  BY <1>2, UserKeeps
<1>3. CASE Progress
  <2>1. CASE \E result \in {"ready", "failed"} : OnBackendCreated(result)
    BY <2>1, BackendCreated
  <2>2. CASE \E k \in Keys, rv \in {"OK", "ERR_FAILED"} : OnIOComplete(k, rv)
    BY <2>2, BackendAnswers
  <2>3. CASE NotifyItem
    BY <2>3, ItemAnswered
  <2>4. CASE \E e \in Entries : OnProcessPendingQueue(e)
    BY <2>4, TaskRuns
  <2>5. CASE \E t \in Trans : DoLoop(t) \/ DiskAnswers(t) \/ NetworkAnswers(t)
    BY <2>5, LoopKeeps, DiskKeeps, NetworkKeeps
  <2>6. CASE UserReturns
    BY <2>6, CallbackReturns
  <2> QED
    BY <1>3, <2>1, <2>2, <2>3, <2>4, <2>5, <2>6 DEF Progress
<1>4. CASE UNCHANGED vars
  BY <1>4 DEF vars, IInv
<1> QED
  BY <1>1, <1>2, <1>3, <1>4 DEF Next

\* No user destroys another transaction from within a callback.
NoCancelInCallback == ~CancelInCallback

\* The invariant is one.
LEMMA Invariance == ASSUME NoCancelInCallback PROVE Spec => []IInv
<1>1. ASSUME IInv, [Next]_vars
      PROVE  IInv'
  BY <1>1, NextKeeps DEF NoCancelInCallback
<1> QED
  BY <1>1, InitGood, PTL DEF Spec

-----------------------------------------------------------------------------
(* What follows                                                            *)

\* The parts of the invariant.
LEMMA Parts ==
    ASSUME IInv
    PROVE  /\ cache \in Cache /\ tr \in [Trans -> Transaction]
           /\ backendOp \in Seq(Trans \cup {None})
           /\ EntriesOk(cache, tr, None, NoEntry) /\ ActiveOk(cache) /\ OpsOk(cache, tr)
           /\ Good(backendOp, cache, tr, None, NoEntry)
           /\ \A t \in Trans : TransactionOk(backendOp, cache, tr, None, t) /\ tr[t] \in Transaction
BY NoneAssumption DEF IInv, Good, Typed, TransactionsOk, Trans

\* Types follow from it.
LEMMA Types ==
    ASSUME IInv
    PROVE  TypeOK
<1>1. \A e \in Live : e \in Entries /\ IsLive(cache, e)
  BY DEF Live, IsLive
<1>2. \A e \in Live : /\ cache.entries[e].key \in Keys
                      /\ cache.entries[e].writer \in Trans \cup {None}
                      /\ cache.entries[e].readers \subseteq Trans
                      /\ cache.entries[e].queue \in Seq(Trans)
                      /\ cache.entries[e].content \in Contents
  BY <1>1, Parts, LiveFields
<1>3. /\ cache.active \in [Keys -> Entries \cup {NoEntry}] /\ cache.disk \in [Keys -> Contents]
      /\ cache.posted \subseteq Entries
  BY Parts, CacheFields
<1>4. ASSUME NEW t \in Trans
      PROVE  /\ tr[t].next \in AtCache \cup AtDisk \cup AtNetwork \cup AtUser
                               \cup {"UNBORN", "GONE", "INIT_ENTRY", "CREATE_ENTRY", "ADD_TO_ENTRY"}
             /\ tr[t].mode \in {"NONE", "READ", "WRITE", "READ_WRITE", "UPDATE"}
             /\ tr[t].entry \in Entries \cup {NoEntry} /\ tr[t].new \in Entries \cup {NoEntry}
  <2>1. tr[t] \in Transaction
    BY Parts
  <2>2. tr[t].next \in AtCache \cup Turns \cup Holding \cup Outside
    BY <2>1, TransactionFields
  <2>3. /\ tr[t].mode \in Modes
        /\ tr[t].entry \in Entries \cup {NoEntry} /\ tr[t].new \in Entries \cup {NoEntry}
    BY <2>1, TransactionFields
  <2> QED
    BY <2>2, <2>3 DEF Turns, Holding, Outside, AtUser, Modes
<1>5. backend \in {"factory", "ready", "failed"}
  BY DEF IInv
<1> QED
  BY <1>2, <1>3, <1>4, <1>5, Parts DEF TypeOK

\* Whoever has an entry is its reader or its writer, and it is open.
LEMMA HolderUses ==
    ASSUME IInv, NEW t \in Trans, tr[t].entry # NoEntry
    PROVE  /\ tr[t].entry \in Entries /\ IsLive(cache, tr[t].entry)
           /\ Uses(cache, t, tr[t].entry)
<1>1. TransactionOk(backendOp, cache, tr, None, t) /\ tr[t] \in Transaction
  BY Parts
<1>2. tr[t].entry \in Entries \cup {NoEntry}
  BY <1>1, TransactionFields
<1> QED
  BY <1>1, <1>2 DEF TransactionOk, HoldOk

\* In every behaviour whose users destroy nothing but the transaction that they are called
\* back for, an entry has one writer, alone, or readers, and nobody else holds it
\* (HttpCache::AddTransactionToEntry, DoneWritingToEntry and ConvertWriterToReader).
THEOREM EntryIsLocked == ASSUME NoCancelInCallback PROVE Spec => []ReaderWriterLock
<1>1. ASSUME IInv
      PROVE  ReaderWriterLock
  <2>1. ASSUME NEW e \in Live
        PROVE  LET x == cache.entries[e] IN
               /\ x.writer # None => x.readers = {} /\ ~x.will /\ Writes(tr[x.writer].mode)
               /\ \A t \in x.readers : tr[t].mode = "READ"
               /\ {t \in Trans : tr[t].entry = e} \subseteq x.readers \cup {x.writer}
    <3>1. e \in Entries /\ IsLive(cache, e) /\ e # NoEntry
      BY DEF Live, IsLive, Entries, NoEntry
    <3>2. LockOk(cache, tr, None, e)
      BY <1>1, <3>1, Parts DEF EntriesOk, EntryOk
    <3>3. \A t \in Trans : tr[t].entry = e => Uses(cache, t, e)
      BY <1>1, <3>1, HolderUses
    <3> QED
      BY <3>2, <3>3 DEF LockOk, Uses
  <2> QED
    BY <1>1, <2>1, Types DEF ReaderWriterLock
<1> QED
  BY <1>1, Invariance, PTL

\* Under the same hypothesis no transaction and no posted task refers to an ActiveEntry that
\* was deleted, and nothing is opened or created under a key that has an active entry
\* (HttpCache::GetPendingOp, ActivateEntry, DestroyEntry).
THEOREM EntriesAreOpen == ASSUME NoCancelInCallback PROVE Spec => []NoDanglingEntry
<1>1. ASSUME IInv
      PROVE  NoDanglingEntry
  <2>1. \A k \in Keys : cache.ops[k] # NoOp => cache.active[k] = NoEntry
    BY <1>1, Parts DEF OpsOk
  <2>2. \A e \in Entries : IsLive(cache, e) => LinkOk(cache, e)
    BY <1>1, Parts DEF EntriesOk, EntryOk
  <2>3. /\ cache.posted \subseteq Entries
        /\ \A k \in Keys : cache.active[k] \in Entries \cup {NoEntry}
    BY <1>1, Parts, CacheFields
  <2>4. cache.posted = {e \in Live : cache.entries[e].will}
    BY <1>1, <2>2, <2>3, Parts DEF ActiveOk, LinkOk, Live, IsLive
  <2>5. \A k \in Keys : cache.active[k] # NoEntry =>
           /\ cache.active[k] \in Entries /\ IsLive(cache, cache.active[k])
           /\ cache.entries[cache.active[k]].key = k
    BY <1>1, <2>3, Parts DEF ActiveOk
  <2>6. \A k \in Keys : cache.active[k] # NoEntry => ~cache.entries[cache.active[k]].doomed
    BY <2>2, <2>5 DEF LinkOk
  <2>7. \A e \in Live : ~cache.entries[e].doomed => cache.active[cache.entries[e].key] = e
    BY <2>2 DEF LinkOk, Live, IsLive
  <2>8. ASSUME NEW t \in Trans
        PROVE  /\ tr[t].entry # NoEntry => tr[t].entry \in Live
               /\ tr[t].new # NoEntry =>
                      tr[t].new \in Live \/ Contains(cache.stack, Run(t, "ERR_CACHE_RACE"))
    <3>1. tr[t].entry # NoEntry => tr[t].entry \in Live
      BY <1>1, HolderUses DEF Live, IsLive
    <3>2. ASSUME tr[t].new # NoEntry
          PROVE  tr[t].new \in Live \/ Contains(cache.stack, Run(t, "ERR_CACHE_RACE"))
      <4> DEFINE f == tr[t].new
                 s == Run(t, "ERR_CACHE_RACE")
      <4>1. NewOk(cache, tr, None, t) /\ HoldOk(cache, tr, t) /\ tr[t] \in Transaction
        BY <1>1, Parts DEF TransactionOk
      <4>2. f \in Entries
        BY <3>2, <4>1, TransactionFields
      <4>3. CASE tr[t].next # "ADD_TO_ENTRY_COMPLETE"
        <5>1. f = cache.active[tr[t].key] /\ tr[t].key \in Keys
          BY <3>2, <4>1, <4>3 DEF NewOk, HoldOk, AtCache, Turns
        <5> QED
          BY <2>5, <3>2, <5>1 DEF Live, IsLive
      <4>4. CASE tr[t].next = "ADD_TO_ENTRY_COMPLETE"
        <5>1. IsLive(cache, f) \/ Has(cache.stack, s)
          BY <4>1, <4>4 DEF NewOk, Queued
        <5> HIDE DEF s
        <5>2. Has(cache.stack, s) => Contains(cache.stack, s)
          BY DEF Has, Contains
        <5>3. IsLive(cache, f) => f \in Live
          BY <4>2 DEF Live, IsLive
        <5> QED
          BY <5>1, <5>2, <5>3 DEF s
      <4> QED
        BY <4>3, <4>4
    <3> QED
      BY <3>1, <3>2
  <2>9. \A k \in Keys : cache.active[k] # NoEntry => cache.active[k] \in Live
    BY <2>5 DEF Live, IsLive
  <2> QED
    BY <2>1, <2>4, <2>5, <2>6, <2>7, <2>8, <2>9 DEF NoDanglingEntry
<1> QED
  BY <1>1, Invariance, PTL

\* Under the same hypothesis a response is read from the cache only when the whole of it was
\* stored, whatever became of those who wrote to the entry (HttpCache::DoneWritingToEntry,
\* Transaction::AddTruncatedFlag).
THEOREM ResponsesAreWhole == ASSUME NoCancelInCallback PROVE Spec => []OnlyWholeResponsesServed
<1>1. ASSUME IInv
      PROVE  OnlyWholeResponsesServed
  <2>1. \A t \in Trans : HoldOk(cache, tr, t)
    BY <1>1, Parts DEF TransactionOk
  <2> QED
    BY <2>1 DEF OnlyWholeResponsesServed, HoldOk, Content
<1> QED
  BY <1>1, Invariance, PTL

\* A transaction that waits for the cache between tasks waits in one place.
LEMMA WaitsOnce ==
    ASSUME IInv, Idle, NEW t \in Trans, tr[t].next \in AtCache
    PROVE  LET queues == {e \in Live : Contains(cache.entries[e].queue, t)}
               op == cache.ops[tr[t].key]
               inOp == op # NoOp /\ (op.trans = t \/ \E i \in DOMAIN op.queue : op.queue[i].trans = t)
           IN Cardinality(queues) + (IF inOp THEN 1 ELSE 0)
                  + (IF Contains(backendOp, t) THEN 1 ELSE 0) = 1
<1> DEFINE queues == {e \in Live : Contains(cache.entries[e].queue, t)}
           k == tr[t].key
           op == cache.ops[k]
           inOp == op # NoOp /\ (op.trans = t \/ \E i \in DOMAIN op.queue : op.queue[i].trans = t)
<1>1. /\ Good(backendOp, cache, tr, None, NoEntry) /\ cache \in Cache
      /\ TransactionOk(backendOp, cache, tr, None, t) /\ tr[t] \in Transaction
  BY Parts
<1>2. k \in Keys
  BY <1>1 DEF TransactionOk, HoldOk
<1>3. Waits(backendOp, cache, t)
  <2>1. ~OnStack(cache.stack, t)
    BY DEF Idle, OnStack
  <2> QED
    BY <1>1, <2>1 DEF TransactionOk, PlaceOk
<1>4. /\ Has(backendOp, t) => tr[t].next = "GET_BACKEND_COMPLETE"
      /\ \A e \in Entries : Queued(cache, t, e) =>
             tr[t].next = "ADD_TO_ENTRY_COMPLETE" /\ tr[t].new = e
      /\ \A j \in Keys : InOperation(cache, t, j) =>
             /\ tr[t].key = j
             /\ tr[t].next \in {"OPEN_ENTRY_COMPLETE", "CREATE_ENTRY_COMPLETE", "DOOM_ENTRY_COMPLETE"}
  BY <1>1, Places
<1>5. Contains(backendOp, t) <=> Has(backendOp, t)
  BY DEF Contains, Has
<1>6. \A e : e \in queues <=> e \in Entries /\ Queued(cache, t, e)
  BY DEF Live, Queued, IsLive, Contains, Has
<1>7. inOp <=> InOperation(cache, t, k)
  <2>1. CASE op = NoOp
    BY <2>1 DEF InOperation
  <2>2. CASE op # NoOp
    <3>1. op \in Operation
      BY <1>1, <1>2, <2>2, CacheFields
    <3>2. op.queue \in Seq(Item)
      <4> HIDE DEF op
      <4> QED
        BY <3>1, OperationFields
    <3>3. DOMAIN op.queue = 1 .. Len(op.queue)
      <4> HIDE DEF op
      <4> QED
        BY <3>2
    <3> QED
      BY <2>2, <3>3 DEF InOperation, InItems
  <2> QED
    BY <2>1, <2>2
<1> HIDE DEF queues, inOp, k
<1>8. \/ Has(backendOp, t) /\ queues = {} /\ ~inOp
      \/ ~Has(backendOp, t) /\ queues = {tr[t].new} /\ ~inOp
      \/ ~Has(backendOp, t) /\ queues = {} /\ inOp
  <2>1. CASE Has(backendOp, t)
    <3>1. tr[t].next = "GET_BACKEND_COMPLETE"
      BY <1>4, <2>1
    <3>2. /\ \A e \in Entries : ~Queued(cache, t, e)
          /\ ~InOperation(cache, t, k)
      BY <1>2, <1>4, <3>1
    <3> QED
      BY <2>1, <3>2, <1>6, <1>7
  <2>2. CASE \E e \in Entries : Queued(cache, t, e)
    <3>1. PICK e \in Entries : Queued(cache, t, e)
      BY <2>2
    <3>2. tr[t].next = "ADD_TO_ENTRY_COMPLETE" /\ tr[t].new = e
      BY <1>4, <3>1
    <3>3. ~Has(backendOp, t) /\ ~InOperation(cache, t, k)
      BY <1>2, <1>4, <3>2
    <3>4. \A f : f \in queues <=> f = e
      BY <1>4, <1>6, <3>1, <3>2
    <3> QED
      BY <1>7, <3>2, <3>3, <3>4
  <2>3. CASE \E j \in Keys : InOperation(cache, t, j)
    <3>1. PICK j \in Keys : InOperation(cache, t, j)
      BY <2>3
    <3>2. /\ j = k
          /\ tr[t].next \in {"OPEN_ENTRY_COMPLETE", "CREATE_ENTRY_COMPLETE", "DOOM_ENTRY_COMPLETE"}
      BY <1>4, <3>1 DEF k
    <3>3. ~Has(backendOp, t) /\ \A e \in Entries : ~Queued(cache, t, e)
      BY <1>4, <3>2
    <3> QED
      BY <1>6, <1>7, <3>1, <3>2, <3>3
  <2> QED
    BY <1>3, <2>1, <2>2, <2>3 DEF Waits
<1>9. Cardinality({}) = 0 /\ Cardinality({tr[t].new}) = 1
  BY FS_EmptySet, FS_Singleton
<1>10. Cardinality(queues) + (IF inOp THEN 1 ELSE 0) + (IF Contains(backendOp, t) THEN 1 ELSE 0) = 1
  BY <1>5, <1>8, <1>9
<1> QED
  BY <1>10 DEF queues, inOp, k

\* Under the same hypothesis every open entry is, between tasks, in use or looked after by a
\* posted task, and a transaction that waits for the cache is where its destructor looks for
\* it, exactly once (HttpCache::ProcessPendingQueue, RemovePendingTransaction).
THEOREM NobodyIsForgotten == ASSUME NoCancelInCallback PROVE Spec => []NobodyForgotten
<1>1. ASSUME IInv
      PROVE  NobodyForgotten
  <2>1. ASSUME Idle
        PROVE  NoOrphanEntry
    <3>1. \A e \in Live : IsLive(cache, e) /\ e \in Entries /\ e # NoEntry
      BY DEF Live, IsLive, Entries, NoEntry
    <3>2. \A e \in Live : AttendedOk(cache, tr, None, e)
      BY <1>1, <3>1, Parts DEF EntriesOk, EntryOk
    <3>3. \A t, e : ~IsAboutToAdd(cache, tr, None, t, e)
      BY <2>1 DEF IsAboutToAdd, RunsNow, Idle
    <3> QED
      BY <3>2, <3>3 DEF AttendedOk, NoOrphanEntry
  <2>2. ASSUME NEW t \in Trans, tr[t].next \in AtCache, UserActs(t)
        PROVE  Idle
    <3>1. tr[t].next # "past"
      BY <2>2 DEF AtCache
    <3> QED
      BY <1>1, <2>2, <3>1, UserIdle DEF NoCancelInCallback
  <2>3. PendingIsFindable
    BY <1>1, <2>2, WaitsOnce DEF PendingIsFindable
  <2> QED
    BY <2>1, <2>3 DEF NobodyForgotten
<1> QED
  BY <1>1, Invariance, PTL

-----------------------------------------------------------------------------
(* Nobody new gets at a doomed entry                                       *)

\* Those that have an entry or wait for it.
UsersIn(y) == y.readers \cup ({y.writer} \ {None}) \cup ToSet(y.queue)

\* An entry that is doomed stays so and gets nobody new.
NarrowsTo(y, z) ==
    y # Closed /\ y.doomed /\ z # Closed => z.doomed /\ UsersIn(z) \subseteq UsersIn(y)

\* No entry of the cache c that is doomed gets anybody in d, and none is opened.
Keeps(c, d) == \A e \in Entries : NarrowsTo(c.entries[e], d.entries[e])
Narrows(c, d) == Keeps(c, d) /\ \A e \in Entries : ~IsLive(c, e) => ~IsLive(d, e)

\* The entries are the same.
LEMMA SameNarrows ==
    ASSUME NEW c, NEW d, d.entries = c.entries
    PROVE  Narrows(c, d)
BY DEF Narrows, Keeps, NarrowsTo, IsLive

\* One step after the other.
LEMMA ThenNarrows ==
    ASSUME NEW c, NEW d, NEW g, Narrows(c, d), Narrows(d, g)
    PROVE  Narrows(c, g)
BY DEF Narrows, Keeps, NarrowsTo, IsLive

\* One entry changes.
LEMMA OneNarrows ==
    ASSUME NEW c, NEW d, NEW e \in Entries, IsLive(c, e), NarrowsTo(c.entries[e], d.entries[e]),
           \A f \in Entries : f # e => d.entries[f] = c.entries[f]
    PROVE  Narrows(c, d)
BY DEF Narrows, Keeps, NarrowsTo, IsLive

\* Its record is replaced.
LEMMA WithNarrows ==
    ASSUME NEW c \in Cache, NEW e \in Entries, IsLive(c, e), NEW y \in Entry,
           NarrowsTo(c.entries[e], y)
    PROVE  /\ Narrows(c, With(c, e, y)) /\ With(c, e, y) \in Cache
           /\ IsLive(With(c, e, y), e) /\ With(c, e, y).entries[e] = y
<1>1. /\ With(c, e, y) \in Cache /\ With(c, e, y).entries[e] = y
      /\ \A f \in Entries : f # e => With(c, e, y).entries[f] = c.entries[f]
  BY WithFields
<1>2. Narrows(c, With(c, e, y))
  BY <1>1, OneNarrows
<1>3. y # Closed
  BY EntryFields
<1> QED
  BY <1>1, <1>2, <1>3 DEF IsLive

\* What does not touch the entries.
LEMMA SameEntries ==
    ASSUME NEW c \in Cache
    PROVE  /\ \A s : Call(c, s).entries = c.entries
           /\ \A t : Finish(c, t).entries = c.entries
           /\ \A k, op, t : QueueOperation(c, k, op, t).entries = c.entries
           /\ Rest(c).entries = c.entries
BY DEF Call, Finish, QueueOperation, Rest, Cache

\* Some records of an entry that do not change who uses it.
LEMMA SameUsers ==
    ASSUME NEW y \in Entry
    PROVE  /\ \A z \in Contents : [y EXCEPT !.content = z] \in Entry
                                  /\ NarrowsTo(y, [y EXCEPT !.content = z])
           /\ \A v \in BOOLEAN : [y EXCEPT !.will = v] \in Entry
                                 /\ NarrowsTo(y, [y EXCEPT !.will = v])
           /\ [y EXCEPT !.writer = None] \in Entry /\ NarrowsTo(y, [y EXCEPT !.writer = None])
           /\ \A t : [y EXCEPT !.readers = @ \ {t}] \in Entry
                     /\ NarrowsTo(y, [y EXCEPT !.readers = @ \ {t}])
           /\ y.writer # None =>
                 /\ [y EXCEPT !.readers = @ \cup {y.writer}, !.writer = None] \in Entry
                 /\ NarrowsTo(y, [y EXCEPT !.readers = @ \cup {y.writer}, !.writer = None])
           /\ \A q \in Seq(Trans) : ToSet(q) \subseteq ToSet(y.queue) =>
                 [y EXCEPT !.queue = q] \in Entry /\ NarrowsTo(y, [y EXCEPT !.queue = q])
<1>1. ASSUME NEW z \in Contents
      PROVE  [y EXCEPT !.content = z] \in Entry /\ NarrowsTo(y, [y EXCEPT !.content = z])
  BY DEF Entry, NarrowsTo, UsersIn
<1>2. ASSUME NEW v \in BOOLEAN
      PROVE  [y EXCEPT !.will = v] \in Entry /\ NarrowsTo(y, [y EXCEPT !.will = v])
  BY DEF Entry, NarrowsTo, UsersIn
<1>3. [y EXCEPT !.writer = None] \in Entry /\ NarrowsTo(y, [y EXCEPT !.writer = None])
  BY DEF Entry, NarrowsTo, UsersIn
<1>4. ASSUME NEW t
      PROVE  [y EXCEPT !.readers = @ \ {t}] \in Entry
             /\ NarrowsTo(y, [y EXCEPT !.readers = @ \ {t}])
  BY DEF Entry, NarrowsTo, UsersIn
<1>5. ASSUME y.writer # None
      PROVE  /\ [y EXCEPT !.readers = @ \cup {y.writer}, !.writer = None] \in Entry
             /\ NarrowsTo(y, [y EXCEPT !.readers = @ \cup {y.writer}, !.writer = None])
  BY <1>5 DEF Entry, NarrowsTo, UsersIn
<1>6. ASSUME NEW q \in Seq(Trans), ToSet(q) \subseteq ToSet(y.queue)
      PROVE  [y EXCEPT !.queue = q] \in Entry /\ NarrowsTo(y, [y EXCEPT !.queue = q])
  BY <1>6 DEF Entry, NarrowsTo, UsersIn
<1> QED
  BY <1>1, <1>2, <1>3, <1>4, <1>5, <1>6

\* ProcessPendingQueue.
LEMMA TaskNarrows ==
    ASSUME NEW c \in Cache, NEW e \in Entries, IsLive(c, e)
    PROVE  Narrows(c, ProcessPendingQueue(c, e))
<1> DEFINE y == c.entries[e]
           z == [y EXCEPT !.will = TRUE]
<1>1. y \in Entry
  BY LiveFields
<1>2. z \in Entry /\ NarrowsTo(y, z)
  BY <1>1, SameUsers
<1>3. CASE y.will
  BY <1>3, SameNarrows DEF ProcessPendingQueue
<1>4. CASE ~y.will
  <2>1. ProcessPendingQueue(c, e).entries = With(c, e, z).entries
    BY <1>4 DEF ProcessPendingQueue, With, Cache
  <2> HIDE DEF z
  <2>2. Narrows(c, With(c, e, z))
    BY <1>2, WithNarrows
  <2> QED
    BY <2>1, <2>2 DEF Narrows, Keeps, IsLive
<1> QED
  BY <1>3, <1>4

\* DestroyEntry.
LEMMA DestroyNarrows ==
    ASSUME NEW c \in Cache, NEW e \in Entries, IsLive(c, e)
    PROVE  Narrows(c, DestroyEntry(c, e))
<1>1. DestroyEntry(c, e).entries = [c.entries EXCEPT ![e] = Closed]
  BY DestroyParts
<1>2. c.entries \in [Entries -> Entry \cup {Closed}]
  BY CacheFields
<1> QED
  BY <1>1, <1>2 DEF Narrows, Keeps, NarrowsTo, IsLive

\* DoneWritingToEntry.
LEMMA WritingNarrows ==
    ASSUME NEW c \in Cache, NEW e \in Entries, IsLive(c, e), NEW success \in BOOLEAN
    PROVE  Narrows(c, DoneWritingToEntry(c, e, success))
<1>1. CASE success
  <2> DEFINE y == c.entries[e]
             z == [y EXCEPT !.writer = None]
             d == With(c, e, z)
  <2>1. y \in Entry
    BY LiveFields
  <2>2. z \in Entry /\ NarrowsTo(y, z)
    BY <2>1, SameUsers
  <2>3. DoneWritingToEntry(c, e, success) = ProcessPendingQueue(d, e)
    <3>1. d = [c EXCEPT !.entries[e].writer = None]
      BY DEF With, Cache
    <3> QED
      BY <1>1, <3>1 DEF DoneWritingToEntry
  <2> HIDE DEF z
  <2>4. Narrows(c, d) /\ d \in Cache /\ IsLive(d, e)
    BY <2>2, WithNarrows
  <2> HIDE DEF d
  <2>5. Narrows(d, ProcessPendingQueue(d, e))
    BY <2>4, TaskNarrows
  <2> DEFINE g == ProcessPendingQueue(d, e)
  <2> HIDE DEF g
  <2>6. Narrows(c, g)
    BY <2>4, <2>5, ThenNarrows DEF g
  <2> QED
    BY <2>3, <2>6 DEF g
<1>2. CASE ~success
  <2>1. DoneWritingToEntry(c, e, FALSE).entries = [c.entries EXCEPT ![e] = Closed]
    BY DoneWritingParts
  <2>2. c.entries \in [Entries -> Entry \cup {Closed}]
    BY CacheFields
  <2>3. success = FALSE
    BY <1>2
  <2> QED
    BY <2>1, <2>2, <2>3 DEF Narrows, Keeps, NarrowsTo, IsLive
<1> QED
  BY <1>1, <1>2

\* A record of an entry is replaced, and a task is posted for it.
LEMMA WithTaskNarrows ==
    ASSUME NEW c \in Cache, NEW e \in Entries, IsLive(c, e), NEW z \in Entry,
           NarrowsTo(c.entries[e], z)
    PROVE  Narrows(c, ProcessPendingQueue(With(c, e, z), e))
<1> DEFINE d == With(c, e, z)
           g == ProcessPendingQueue(d, e)
<1>1. Narrows(c, d) /\ d \in Cache /\ IsLive(d, e)
  BY WithNarrows
<1> HIDE DEF d
<1>2. Narrows(d, g)
  BY <1>1, TaskNarrows
<1> HIDE DEF g
<1>3. Narrows(c, g)
  BY <1>1, <1>2, ThenNarrows
<1> QED
  BY <1>3 DEF g, d

\* DoneReadingFromEntry.
LEMMA ReadingNarrows ==
    ASSUME NEW c \in Cache, NEW e \in Entries, IsLive(c, e), NEW t
    PROVE  Narrows(c, DoneReadingFromEntry(c, e, t))
<1> DEFINE y == c.entries[e]
           z == [y EXCEPT !.readers = @ \ {t}]
<1>1. y \in Entry
  BY LiveFields
<1>2. z \in Entry /\ NarrowsTo(y, z)
  BY <1>1, SameUsers
<1>3. With(c, e, z) = [c EXCEPT !.entries[e].readers = @ \ {t}]
  BY DEF With, Cache
<1> HIDE DEF z
<1>4. Narrows(c, ProcessPendingQueue(With(c, e, z), e))
  BY <1>2, WithTaskNarrows
<1> QED
  BY <1>3, <1>4 DEF DoneReadingFromEntry

\* ConvertWriterToReader.
LEMMA ConvertNarrows ==
    ASSUME NEW c \in Cache, NEW e \in Entries, IsLive(c, e), c.entries[e].writer # None
    PROVE  Narrows(c, ConvertWriterToReader(c, e))
<1> DEFINE y == c.entries[e]
           z == [y EXCEPT !.readers = @ \cup {y.writer}, !.writer = None]
<1>1. y \in Entry
  BY LiveFields
<1>2. z \in Entry /\ NarrowsTo(y, z)
  BY <1>1, SameUsers
<1>3. With(c, e, z) = [c EXCEPT !.entries[e].readers = @ \cup {c.entries[e].writer},
                                !.entries[e].writer = None]
  BY DEF With, Cache
<1> HIDE DEF z
<1>4. Narrows(c, ProcessPendingQueue(With(c, e, z), e))
  BY <1>2, WithTaskNarrows
<1> QED
  BY <1>3, <1>4 DEF ConvertWriterToReader

\* DoneWithEntry.
LEMMA LeavingNarrows ==
    ASSUME NEW c \in Cache, NEW e \in Entries, IsLive(c, e), NEW t, NEW success \in BOOLEAN
    PROVE  Narrows(c, DoneWithEntry(c, e, t, success))
<1>1. Narrows(c, c)
  BY SameNarrows
<1>2. Narrows(c, DoneWritingToEntry(c, e, success))
  BY WritingNarrows
<1>3. Narrows(c, DoneReadingFromEntry(c, e, t))
  BY ReadingNarrows
<1> QED
  BY <1>1, <1>2, <1>3 DEF DoneWithEntry

\* Something is written to an entry.
LEMMA FilledNarrows ==
    ASSUME NEW c \in Cache, NEW e \in Entries, IsLive(c, e), NEW z \in Contents
    PROVE  /\ Narrows(c, Filled(c, e, z)) /\ Filled(c, e, z) \in Cache
           /\ IsLive(Filled(c, e, z), e)
<1> DEFINE y == [c.entries[e] EXCEPT !.content = z]
<1>1. y \in Entry /\ NarrowsTo(c.entries[e], y)
  <2>1. c.entries[e] \in Entry
    BY LiveFields
  <2> QED
    BY <2>1, SameUsers
<1>2. Filled(c, e, z) = With(c, e, y)
  BY DEF Filled, With, Cache
<1> HIDE DEF y
<1> QED
  BY <1>1, <1>2, WithNarrows

\* DoomEntry; the entry that is active under the key is not doomed yet.
LEMMA DoomNarrows ==
    ASSUME NEW c \in Cache, NEW k \in Keys, NEW t \in Trans \cup {None},
           c.active[k] # NoEntry => IsLive(c, c.active[k]) /\ ~c.entries[c.active[k]].doomed
    PROVE  /\ Narrows(c, DoomEntry(c, k, t)) /\ DoomEntry(c, k, t) \in Cache
           /\ \A f \in Entries : IsLive(c, f) =>
                 /\ IsLive(DoomEntry(c, k, t), f)
                 /\ DoomEntry(c, k, t).entries[f].writer = c.entries[f].writer
<1>1. CASE c.active[k] = NoEntry
  <2> DEFINE op == "DOOM"
  <2>1. DoomEntry(c, k, t) = QueueOperation(c, k, op, t)
    BY <1>1 DEF DoomEntry, FindActiveEntry
  <2>2. op \in Ops
    BY DEF Ops
  <2> HIDE DEF op
  <2> DEFINE d == QueueOperation(c, k, op, t)
  <2>3. d \in Cache
    BY ONLY <2>2, k \in Keys, c \in Cache, t \in Trans \cup {None}, QueueOperationFields
  <2>4. d.entries = c.entries
    BY SameEntries
  <2> HIDE DEF d
  <2>5. Narrows(c, d)
        /\ \A f \in Entries : IsLive(c, f) => IsLive(d, f)
                                             /\ d.entries[f].writer = c.entries[f].writer
    BY <2>4, SameNarrows DEF IsLive
  <2> QED
    BY <2>1, <2>3, <2>5 DEF d
<1>2. CASE c.active[k] # NoEntry
  <2> DEFINE e == c.active[k]
             d == Doomed(c, k)
  <2>1. DoomEntry(c, k, t) = d
    BY <1>2 DEF DoomEntry, FindActiveEntry, Doomed
  <2>2. d \in Cache /\ d.entries = [c.entries EXCEPT ![e].doomed = TRUE]
    BY <1>2, DoomedFields
  <2>3. e \in Entries /\ IsLive(c, e) /\ ~c.entries[e].doomed
        /\ c.entries \in [Entries -> Entry \cup {Closed}]
    BY <1>2, CacheFields
  <2>4. \A f \in Entries : f # e => d.entries[f] = c.entries[f]
    <3> HIDE DEF d, e
    <3> QED
      BY <2>2, <2>3
  <2>5. IsLive(d, e) /\ d.entries[e].writer = c.entries[e].writer
    <3>1. c.entries[e] \in Entry
      BY <2>3, LiveFields
    <3> DEFINE y == [c.entries[e] EXCEPT !.doomed = TRUE]
    <3>2. y \in Entry /\ y.writer = c.entries[e].writer
      BY <3>1 DEF Entry
    <3>3. d.entries[e] = y
      <4> HIDE DEF d, e
      <4> QED
        BY <2>2, <2>3
    <3> HIDE DEF y, d, e
    <3> QED
      BY <3>2, <3>3, EntryFields DEF IsLive
  <2> HIDE DEF d, e
  <2>6. Narrows(c, d)
    BY <2>3, <2>4, OneNarrows DEF NarrowsTo
  <2> QED
    BY <2>1, <2>2, <2>4, <2>5, <2>6 DEF IsLive
<1> QED
  BY <1>1, <1>2

\* DoomPartialEntry.
LEMMA DropNarrows ==
    ASSUME NEW c \in Cache, NEW k \in Keys, NEW e \in Entries, NEW t, IsLive(c, e),
           c.active[k] # NoEntry => IsLive(c, c.active[k]) /\ ~c.entries[c.active[k]].doomed
    PROVE  Narrows(c, DoneWithEntry(DoomEntry(c, k, None), e, t, FALSE))
<1> DEFINE d == DoomEntry(c, k, None)
           g == DoneWithEntry(d, e, t, FALSE)
<1>1. None \in Trans \cup {None}
  OBVIOUS
<1>2. Narrows(c, d) /\ d \in Cache /\ IsLive(d, e)
  BY <1>1, DoomNarrows
<1> HIDE DEF d
<1>3. Narrows(d, g)
  <2> DEFINE ok == FALSE
  <2>1. ok \in BOOLEAN
    OBVIOUS
  <2> HIDE DEF ok
  <2>2. Narrows(d, DoneWithEntry(d, e, t, ok))
    BY <1>2, <2>1, LeavingNarrows
  <2> QED
    BY <2>2 DEF ok
<1> HIDE DEF g
<1>4. Narrows(c, g)
  BY <1>2, <1>3, ThenNarrows
<1> QED
  BY <1>4 DEF g, d

\* What the cache is with q as the queue of the entry e.
QueueLeft(c, e, q) ==
    /\ Narrows(c, Queue(c, e, q)) /\ Queue(c, e, q) \in Cache /\ IsLive(Queue(c, e, q), e)
    /\ Queue(c, e, q).entries[e] = [c.entries[e] EXCEPT !.queue = q]

\* Somebody leaves the queue of an entry.
LEMMA QueueNarrows ==
    ASSUME NEW c \in Cache, NEW e \in Entries, IsLive(c, e), NEW q \in Seq(Trans),
           ToSet(q) \subseteq ToSet(c.entries[e].queue)
    PROVE  QueueLeft(c, e, q)
<1> DEFINE y == c.entries[e]
           z == [y EXCEPT !.queue = q]
<1>1. y \in Entry
  BY LiveFields
<1>2. z \in Entry /\ NarrowsTo(y, z)
  BY <1>1, SameUsers
<1>3. Queue(c, e, q) = With(c, e, z)
  BY DEF Queue, With, Cache
<1> HIDE DEF z
<1>4. /\ Narrows(c, With(c, e, z)) /\ With(c, e, z) \in Cache
      /\ IsLive(With(c, e, z), e) /\ With(c, e, z).entries[e] = z
  BY <1>2, WithNarrows
<1> QED
  BY <1>3, <1>4 DEF z, QueueLeft


\* A step that leaves the entries alone, or narrows them.
LEMMA KeptBy ==
    ASSUME NEW d, Narrows(cache, d), cache'.entries = d.entries
    PROVE  Keeps(cache, cache')
BY DEF Narrows, Keeps

\* The same, where nothing is narrowed.
LEMMA SameKept ==
    ASSUME cache'.entries = cache.entries
    PROVE  Keeps(cache, cache')
BY DEF Keeps, NarrowsTo

\* The entry that is active under a key is not doomed.
LEMMA ActiveNotDoomed ==
    ASSUME NEW b, NEW c, NEW w, Good(b, c, w, None, NoEntry), NEW k \in Keys
    PROVE  c.active[k] # NoEntry => IsLive(c, c.active[k]) /\ ~c.entries[c.active[k]].doomed
<1> SUFFICES ASSUME c.active[k] # NoEntry
             PROVE  IsLive(c, c.active[k]) /\ ~c.entries[c.active[k]].doomed
  OBVIOUS
<1> DEFINE e == c.active[k]
<1>1. IsLive(c, e) /\ c.entries[e].key = k /\ c \in Cache
  BY DEF Good, Typed, ActiveOk
<1>2. e \in Entries
  BY <1>1, CacheFields
<1> HIDE DEF e
<1>3. LinkOk(c, e)
  BY <1>1, <1>2 DEF Good, EntriesOk, EntryOk
<1>4. e = c.active[k]
  BY DEF e
<1> QED
  BY <1>1, <1>3, <1>4 DEF LinkOk

\* The steps of DoLoop that do not touch the entries.
LEMMA LoopIdles ==
    ASSUME IInv, NEW t \in Trans,
           \/ DoGetBackendComplete(t) \/ DoOpenEntry(t) \/ DoOpenEntryComplete(t)
           \/ DoCreateEntry(t) \/ DoCreateEntryComplete(t) \/ DoDoomEntryComplete(t)
           \/ DoAddToEntryComplete(t)
    PROVE  Keeps(cache, cache')
<1> DEFINE c == Popped
<1>1. PICK s : Runs(t, s)
  BY DEF DoGetBackendComplete, DoOpenEntry, DoOpenEntryComplete, DoCreateEntry,
         DoCreateEntryComplete, DoDoomEntryComplete, DoAddToEntryComplete
<1>2. c \in Cache /\ c.entries = cache.entries
  BY <1>1, Running DEF Ready, SameStore
<1>3. \/ cache' = c \/ cache' = Finish(c, t) \/ \E f : cache' = Call(c, f)
      \/ \E op : cache' = QueueOperation(c, tr[t].key, op, t)
  <2> HIDE DEF c
  <2>1. Popped = c
    BY DEF c
  <2> QED
    BY <2>1 DEF DoGetBackendComplete, DoOpenEntry, DoOpenEntryComplete, DoCreateEntry,
         DoCreateEntryComplete, DoDoomEntryComplete, DoAddToEntryComplete, Leave, GoOn
<1> HIDE DEF c
<1>4. cache'.entries = c.entries
  BY <1>2, <1>3, SameEntries
<1> QED
  BY <1>2, <1>4, SameKept

\* DoDoomEntry.
LEMMA DoomKeeps ==
    ASSUME IInv, NEW t \in Trans, DoDoomEntry(t)
    PROVE  Keeps(cache, cache')
<1> DEFINE k == tr[t].key
           c == Popped
           d == DoomEntry(c, k, t)
<1>1. Ready(t, "INIT_ENTRY")
  BY Running DEF DoDoomEntry
<1>2. c \in Cache /\ c.entries = cache.entries /\ c.active = cache.active /\ k \in Keys
  BY <1>1 DEF Ready, SameStore
<1>3. c.active[k] # NoEntry => IsLive(c, c.active[k]) /\ ~c.entries[c.active[k]].doomed
  <2>1. cache.active[k] # NoEntry =>
           IsLive(cache, cache.active[k]) /\ ~cache.entries[cache.active[k]].doomed
    <3> HIDE DEF k
    <3> QED
      BY <1>2, ActiveNotDoomed DEF IInv
  <2> HIDE DEF c
  <2> QED
    BY <1>2, <2>1 DEF IsLive
<1>4. cache' = d \/ \E f : cache' = Call(d, f)
  BY DEF DoDoomEntry
<1>5. t \in Trans \cup {None}
  OBVIOUS
<1> HIDE DEF c, k
<1>6. Narrows(c, d) /\ d \in Cache
  BY <1>2, <1>3, <1>5, DoomNarrows
<1> HIDE DEF d
<1>7. cache'.entries = d.entries
  BY <1>4, <1>6, SameEntries
<1>8. Narrows(cache, d)
  BY <1>2, <1>6 DEF Narrows, Keeps, IsLive
<1> QED
  BY <1>7, <1>8, KeptBy

\* It changes the one entry only, and nobody but the transaction t gets at it.
AddedTo(c, e, t) ==
    LET h == AddTransactionToEntry(c, e, t).entries IN
    /\ \A f \in Entries : f # e => h[f] = c.entries[f]
    /\ h[e] # Closed /\ h[e].doomed = c.entries[e].doomed
    /\ UsersIn(h[e]) \subseteq UsersIn(c.entries[e]) \cup {t}

\* AddTransactionToEntry.
LEMMA AddedParts ==
    ASSUME NEW c \in Cache, NEW e \in Entries, IsLive(c, e), NEW t \in Trans
    PROVE  AddedTo(c, e, t)
<1> DEFINE y == c.entries[e]
           q == [y EXCEPT !.queue = Append(@, t)]
           r == [y EXCEPT !.readers = @ \cup {t}]
           u == [y EXCEPT !.writer = t]
           rw == [r EXCEPT !.will = TRUE]
           h == AddTransactionToEntry(c, e, t).entries
<1>1. y \in Entry /\ c.entries \in [Entries -> Entry \cup {Closed}]
  BY CacheFields, LiveFields
<1>2. h = [c.entries EXCEPT ![e] = q] \/ h = [c.entries EXCEPT ![e] = r]
      \/ h = [c.entries EXCEPT ![e] = u] \/ h = [c.entries EXCEPT ![e] = rw]
  BY <1>1 DEF AddTransactionToEntry, ProcessPendingQueue, Cache
<1>3. /\ UsersIn(q) \subseteq UsersIn(y) \cup {t}
      /\ q \in Entry /\ r \in Entry /\ u \in Entry /\ rw \in Entry
      /\ q.doomed = y.doomed /\ r.doomed = y.doomed /\ u.doomed = y.doomed /\ rw.doomed = y.doomed
      /\ UsersIn(r) \subseteq UsersIn(y) \cup {t} /\ UsersIn(u) \subseteq UsersIn(y) \cup {t}
      /\ UsersIn(rw) \subseteq UsersIn(y) \cup {t}
  <2>1. q \in Entry /\ r \in Entry /\ u \in Entry /\ rw \in Entry
    <3>1. \A z \in Seq(Trans) : [y EXCEPT !.queue = z] \in Entry
      BY <1>1 DEF Entry
    <3>2. Append(y.queue, t) \in Seq(Trans)
      BY <1>1 DEF Entry
    <3>3. r \in Entry /\ u \in Entry /\ rw \in Entry
      BY <1>1 DEF Entry
    <3> QED
      BY <3>1, <3>2, <3>3
  <2>2. q.doomed = y.doomed /\ r.doomed = y.doomed /\ u.doomed = y.doomed /\ rw.doomed = y.doomed
    BY <1>1 DEF Entry
  <2>3. UsersIn(r) \subseteq UsersIn(y) \cup {t} /\ UsersIn(u) \subseteq UsersIn(y) \cup {t}
        /\ UsersIn(rw) \subseteq UsersIn(y) \cup {t}
    BY <1>1 DEF Entry, UsersIn
  <2>4. UsersIn(q) \subseteq UsersIn(y) \cup {t}
    <3>1. q.readers = y.readers /\ q.writer = y.writer /\ q.queue = Append(y.queue, t)
          /\ y.queue \in Seq(Trans)
      BY <1>1 DEF Entry
    <3>2. ToSet(Append(y.queue, t)) \subseteq ToSet(y.queue) \cup {t}
      BY <3>1, SMTT(40) DEF ToSet
    <3> QED
      BY <3>1, <3>2 DEF UsersIn
  <2> QED
    BY <2>1, <2>2, <2>3, <2>4
<1>4. q # Closed /\ r # Closed /\ u # Closed /\ rw # Closed
  BY <1>3, EntryFields
<1> HIDE DEF q, r, u, rw, h, y
<1> QED
  BY <1>1, <1>2, <1>3, <1>4 DEF h, y, AddedTo

\* DoAddToEntry: the entry is the one that is active under the key.
LEMMA AddKeeps ==
    ASSUME IInv, NEW t \in Trans, DoAddToEntry(t)
    PROVE  Keeps(cache, cache')
<1> DEFINE k == tr[t].key
           c == Popped
           e == tr[t].new
           d == AddTransactionToEntry(c, e, t)
<1>1. Ready(t, "ADD_TO_ENTRY")
  BY Running DEF DoAddToEntry
<1>2. c \in Cache /\ c.entries = cache.entries /\ c.active = cache.active /\ k \in Keys
  BY <1>1 DEF Ready, SameStore
<1>3. e # NoEntry
  <2>1. TransactionOk(backendOp, cache, tr, None, t)
    BY Parts
  <2> QED
    BY <1>1, <2>1 DEF Ready, TransactionOk, NewOk
<1>4. e = cache.active[k] /\ e \in Entries
  BY <1>1, <1>3 DEF Ready
<1>5. IsLive(cache, e) /\ ~cache.entries[e].doomed
  <2> HIDE DEF k, e
  <2> QED
    BY <1>2, <1>3, <1>4, ActiveNotDoomed DEF IInv
<1>6. cache' = d \/ \E f : cache' = Call(d, f)
  BY DEF DoAddToEntry
<1> HIDE DEF c, k, e
<1>7. IsLive(c, e)
  BY <1>2, <1>5 DEF IsLive
<1>8. d.entries = cache'.entries
  <2>1. \A f : Call(d, f).entries = d.entries
    BY <1>2 DEF d, AddTransactionToEntry, ProcessPendingQueue, Call, Cache
  <2> QED
    BY <1>6, <2>1
<1>9. \A f \in Entries : f # e => d.entries[f] = c.entries[f]
  BY <1>2, <1>4, <1>7, AddedParts DEF AddedTo
<1> HIDE DEF d
<1> QED
  BY <1>2, <1>5, <1>8, <1>9 DEF Keeps, NarrowsTo

\* OnIOComplete: nobody has the entry that it activates.
LEMMA AnswerKeeps ==
    ASSUME IInv, NEW k \in Keys, NEW rv \in {"OK", "ERR_FAILED"}, OnIOComplete(k, rv)
    PROVE  Keeps(cache, cache')
<1> DEFINE o == cache.ops[k]
           z == IF o.op = "CREATE" THEN "new" ELSE cache.disk[k]
           c == [cache EXCEPT !.ops[k] = NoOp]
           g == [c EXCEPT !.disk[k] = "absent"]
           d == ActivateEntry(c, k, z)
<1>1. cache \in Cache
  BY Parts
<1>2. c \in Cache /\ c.entries = cache.entries /\ g.entries = cache.entries /\ g \in Cache
  <2>1. NoOp \in Operation \cup {NoOp} /\ "absent" \in Contents
    BY DEF Contents
  <2>2. [cache.ops EXCEPT ![k] = NoOp] \in [Keys -> Operation \cup {NoOp}]
    BY <1>1, <2>1, CacheFields
  <2>3. [cache.disk EXCEPT ![k] = "absent"] \in [Keys -> Contents]
    BY <1>1, <2>1, CacheFields
  <2> QED
    BY <1>1, <2>2, <2>3 DEF Cache
<1>3. z \in Contents
  BY <1>1, CacheFields DEF Contents
<1>4. \/ \E f : cache' = Call(c, f)
      \/ \E f : cache' = Call(g, f)
      \/ (\E f \in Entries : cache.entries[f] = Closed) /\ \E f : cache' = Call(d, f)
  BY DEF OnIOComplete
<1>5. ASSUME \E f \in Entries : c.entries[f] = Closed
      PROVE  Keeps(c, d) /\ d \in Cache
  <2> HIDE DEF c, z
  <2> DEFINE e == d.active[k]
  <2>1. /\ d \in Cache /\ e \in Entries /\ ~IsLive(c, e)
        /\ \A f \in Entries : f # e => d.entries[f] = c.entries[f]
    BY <1>2, <1>3, <1>5, Activated
  <2> HIDE DEF d
  <2> QED
    BY <2>1 DEF Keeps, NarrowsTo, IsLive
<1> HIDE DEF c, g
<1>6. CASE \E f : cache' = Call(c, f)
  <2>1. cache'.entries = cache.entries
    BY <1>2, <1>6, SameEntries
  <2> QED
    BY <2>1, SameKept
<1>7. CASE \E f : cache' = Call(g, f)
  <2>1. cache'.entries = cache.entries
    BY <1>2, <1>7, SameEntries
  <2> QED
    BY <2>1, SameKept
<1>8. CASE (\E f \in Entries : cache.entries[f] = Closed) /\ \E f : cache' = Call(d, f)
  <2>1. Keeps(c, d) /\ d \in Cache
    BY <1>2, <1>5, <1>8
  <2> HIDE DEF d
  <2>2. cache'.entries = d.entries
    BY <1>8, <2>1, SameEntries
  <2> QED
    BY <1>2, <2>1, <2>2 DEF Keeps
<1> QED
  BY <1>4, <1>6, <1>7, <1>8

\* OnProcessPendingQueue: whoever gets the entry was in its queue.
LEMMA TaskKeeps ==
    ASSUME IInv, NEW e \in Entries, OnProcessPendingQueue(e)
    PROVE  Keeps(cache, cache')
<1> DEFINE c == TaskTaken(cache, e)
           q == c.entries[e].queue
           x == q[1]
           d == Queue(c, e, Tail(q))
           g == AddTransactionToEntry(d, e, x)
           y == cache.entries[e]
           v == [y EXCEPT !.will = FALSE]
<1>1. /\ cache.stack = <<>> /\ e \in cache.posted
      /\ cache' = IF q = <<>>
                  THEN IF c.entries[e].readers = {} THEN DestroyEntry(c, e) ELSE c
                  ELSE IF Writes(tr[x].mode) /\ c.entries[e].readers # {} THEN c
                  ELSE IF MustQueue(d, e, x) THEN g
                  ELSE Call(g, <<Run(x, "OK")>>)
  BY DEF OnProcessPendingQueue, Idle, Queue, TaskTaken
<1>2. cache \in Cache /\ IsLive(cache, e) /\ y \in Entry
  <2>1. cache \in Cache /\ IsLive(cache, e)
    BY <1>1, Parts DEF ActiveOk
  <2> QED
    BY <2>1, LiveFields
<1>3. v \in Entry /\ NarrowsTo(y, v)
  BY <1>2, SameUsers
<1>4. Narrows(cache, c) /\ c \in Cache /\ IsLive(c, e) /\ c.entries[e] = v
  <2>1. /\ Narrows(cache, With(cache, e, v)) /\ With(cache, e, v) \in Cache
        /\ IsLive(With(cache, e, v), e) /\ With(cache, e, v).entries[e] = v
    <3> HIDE DEF v
    <3> QED
      BY <1>2, <1>3, WithNarrows
  <2> DEFINE p == cache.posted \ {e}
             w == With(cache, e, v)
  <2>2. p \in SUBSET Entries
    BY <1>2, CacheFields
  <2>3. c = [w EXCEPT !.posted = p]
    BY <1>2 DEF TaskTaken, With, Cache
  <2> HIDE DEF w, p, v, c
  <2>4. c \in Cache /\ c.entries = w.entries
    BY <2>1, <2>2, <2>3 DEF Cache, w
  <2> QED
    BY <2>1, <2>4 DEF Narrows, Keeps, IsLive, w
<1> HIDE DEF c
<1>5. Narrows(c, DestroyEntry(c, e)) /\ Narrows(c, c)
  BY <1>4, DestroyNarrows, SameNarrows
<1>6. CASE q # <<>>
  <2>1. q \in Seq(Trans) /\ x \in Trans /\ Tail(q) \in Seq(Trans)
        /\ x \in ToSet(q) /\ ToSet(Tail(q)) \subseteq ToSet(q)
    <3>1. q \in Seq(Trans)
      BY <1>4, LiveFields
    <3> HIDE DEF q
    <3> QED
      BY <1>6, <3>1 DEF ToSet
  <2> DEFINE r == Tail(q)
  <2>2. /\ Narrows(c, d) /\ d \in Cache /\ IsLive(d, e)
        /\ d.entries[e] = [c.entries[e] EXCEPT !.queue = r]
    <3> HIDE DEF r
    <3>1. r \in Seq(Trans) /\ ToSet(r) \subseteq ToSet(c.entries[e].queue)
      BY <2>1 DEF r
    <3>2. QueueLeft(c, e, r)
      BY <1>4, <3>1, QueueNarrows
    <3> QED
      BY <3>2 DEF QueueLeft, r
  <2>3. /\ UsersIn(d.entries[e]) \cup {x} \subseteq UsersIn(c.entries[e])
        /\ d.entries[e].doomed = c.entries[e].doomed
    <3> DEFINE u == c.entries[e]
    <3>1. u \in Entry /\ q = u.queue
      BY <1>4, LiveFields
    <3> HIDE DEF u
    <3>2. [u EXCEPT !.queue = r].readers = u.readers /\ [u EXCEPT !.queue = r].writer = u.writer
          /\ [u EXCEPT !.queue = r].queue = r /\ [u EXCEPT !.queue = r].doomed = u.doomed
      BY <3>1 DEF Entry
    <3>3. UsersIn([u EXCEPT !.queue = r]) \cup {x} \subseteq UsersIn(u)
      <4> HIDE DEF q, x, r
      <4>1. x \in ToSet(q) /\ ToSet(r) \subseteq ToSet(q)
        BY <2>1 DEF r
      <4> QED
        BY <3>1, <3>2, <4>1 DEF UsersIn
    <3> QED
      BY <2>2, <3>2, <3>3 DEF u
  <2> HIDE DEF d, x, r, q
  <2>4. /\ \A f \in Entries : f # e => g.entries[f] = d.entries[f]
        /\ g.entries[e] # Closed /\ g.entries[e].doomed = d.entries[e].doomed
        /\ UsersIn(g.entries[e]) \subseteq UsersIn(d.entries[e]) \cup {x}
    <3>1. AddedTo(d, e, x)
      BY <2>1, <2>2, AddedParts
    <3> QED
      BY <3>1 DEF AddedTo
  <2>5. \A f : Call(g, f).entries = g.entries
    BY <2>2 DEF g, AddTransactionToEntry, ProcessPendingQueue, Call, Cache
  <2> HIDE DEF g
  <2>6. Narrows(c, g)
    <3>1. NarrowsTo(c.entries[e], g.entries[e]) /\ IsLive(c, e)
      BY <1>4, <2>3, <2>4 DEF NarrowsTo
    <3>2. \A f \in Entries : f # e =>
             NarrowsTo(c.entries[f], g.entries[f]) /\ (~IsLive(c, f) => ~IsLive(g, f))
      BY <2>2, <2>4 DEF Narrows, Keeps, IsLive
    <3> QED
      BY <3>1, <3>2 DEF Narrows, Keeps
  <2>7. Narrows(cache, g) /\ Narrows(cache, c)
    BY <1>4, <2>6, ThenNarrows
  <2>8. cache'.entries = g.entries \/ cache'.entries = c.entries
    BY <1>1, <1>6, <2>5 DEF q
  <2> QED
    BY <2>7, <2>8, KeptBy
<1>7. CASE q = <<>>
  <2> DEFINE k == DestroyEntry(c, e)
  <2>1. cache' = k \/ cache' = c
    BY <1>1, <1>7
  <2> HIDE DEF k
  <2>2. Narrows(cache, k) /\ Narrows(cache, c)
    BY <1>4, <1>5, ThenNarrows DEF k
  <2> QED
    BY <2>1, <2>2, KeptBy
<1> QED
  BY <1>6, <1>7

-----------------------------------------------------------------------------
(* The other steps                                                         *)

\* A writer leaves the entry, or becomes a reader, after the entries were narrowed.
LEMMA WriterNarrows ==
    ASSUME NEW t \in Trans, NEW c \in Cache, Narrows(cache, c), tr[t].entry \in Entries,
           IsLive(c, tr[t].entry)
    PROVE  /\ \A success \in BOOLEAN : StepPast(t, success, c) => Keeps(cache, cache')
           /\ c.entries[tr[t].entry].writer # None /\ StepToReader(t, c) => Keeps(cache, cache')
<1> DEFINE e == tr[t].entry
<1> HIDE DEF e
<1>1. e \in Entries /\ IsLive(c, e) /\ e = tr[t].entry
  BY DEF e
<1>2. ASSUME NEW success \in BOOLEAN, StepPast(t, success, c)
      PROVE  Keeps(cache, cache')
  <2> DEFINE d == DoneWritingToEntry(c, e, success)
  <2>1. Narrows(c, d)
    BY <1>1, WritingNarrows
  <2>2. cache' = d
    BY <1>1, <1>2 DEF StepPast
  <2> HIDE DEF d
  <2>3. Narrows(cache, d)
    BY <2>1, ThenNarrows
  <2> QED
    BY <2>2, <2>3, KeptBy
<1>3. ASSUME c.entries[e].writer # None, StepToReader(t, c)
      PROVE  Keeps(cache, cache')
  <2> DEFINE d == ConvertWriterToReader(c, e)
  <2>1. Narrows(c, d)
    BY <1>1, <1>3, ConvertNarrows
  <2>2. cache' = d
    BY <1>1, <1>3 DEF StepToReader, StepWithMode
  <2> HIDE DEF d
  <2>3. Narrows(cache, d)
    BY <2>1, ThenNarrows
  <2> QED
    BY <2>2, <2>3, KeptBy
<1> QED
  BY <1>1, <1>2, <1>3

\* What the steps of a transaction that has an entry do to the cache.
EntryEffect(t) ==
    \/ cache' = cache
    \/ \E z \in Contents : cache' = Stored(t, z)
    \/ \E success \in BOOLEAN : \/ StepPast(t, success, cache)
                                \/ StepPast(t, success, Stored(t, "whole"))
                                \/ StepPast(t, success, DoomEntry(cache, tr[t].key, None))
    \/ /\ tr[t].mode # "READ"
       /\ StepToReader(t, cache) \/ StepToReader(t, DoomEntry(cache, tr[t].key, None))
    \/ cache' = DoomPartialEntry(cache, t)
    \/ cache' = DoomPartialEntry(Call(cache, <<Run(t, "OK")>>), t)
    \/ cache' = DoneReadingFromEntry(cache, tr[t].entry, t)

\* No such step brings anybody to a doomed entry.
LEMMA EffectKeeps ==
    ASSUME IInv, NEW t \in Trans, Idle, tr[t].next \in Holding, EntryEffect(t)
    PROVE  Keeps(cache, cache')
<1> DEFINE e == tr[t].entry
           k == tr[t].key
<1>1. HolderAt(t)
  BY Holder
<1>2. /\ cache \in Cache /\ e \in Entries /\ IsLive(cache, e) /\ k \in Keys
      /\ tr[t].mode # "READ" => cache.entries[e].writer # None
  BY <1>1 DEF HolderAt
<1>3. cache.active[k] # NoEntry =>
         IsLive(cache, cache.active[k]) /\ ~cache.entries[cache.active[k]].doomed
  <2> HIDE DEF k
  <2> QED
    BY <1>2, ActiveNotDoomed DEF IInv
<1>4. Narrows(cache, cache)
  BY SameNarrows
<1> HIDE DEF k, e
<1>5. ASSUME NEW z \in Contents
      PROVE  /\ Narrows(cache, Stored(t, z)) /\ Stored(t, z) \in Cache
             /\ IsLive(Stored(t, z), e)
  <2>1. Stored(t, z) = Filled(cache, e, z)
    BY DEF Stored, Filled, e
  <2> QED
    BY <1>2, <2>1, FilledNarrows
<1> DEFINE d == DoomEntry(cache, k, None)
<1>6. /\ Narrows(cache, d) /\ d \in Cache /\ IsLive(d, e)
      /\ d.entries[e].writer = cache.entries[e].writer
  <2>1. None \in Trans \cup {None}
    OBVIOUS
  <2> QED
    BY <1>2, <1>3, <2>1, DoomNarrows
<1>7. CASE cache' = cache
  BY <1>7, <1>4, KeptBy
<1>8. CASE \E z \in Contents : cache' = Stored(t, z)
  <2>1. PICK z \in Contents : cache' = Stored(t, z)
    BY <1>8
  <2> QED
    BY <2>1, <1>5, KeptBy
<1>9. ASSUME NEW success \in BOOLEAN, StepPast(t, success, cache) PROVE Keeps(cache, cache')
  BY <1>2, <1>4, <1>9, WriterNarrows DEF e
<1>10. ASSUME NEW success \in BOOLEAN, StepPast(t, success, Stored(t, "whole"))
       PROVE  Keeps(cache, cache')
  <2> DEFINE g == Stored(t, "whole")
  <2>1. Narrows(cache, g) /\ g \in Cache /\ IsLive(g, e) /\ StepPast(t, success, g)
    BY <1>5, <1>10 DEF Contents
  <2> HIDE DEF g
  <2> QED
    BY <1>2, <2>1, WriterNarrows DEF e
<1>11. ASSUME NEW success \in BOOLEAN, StepPast(t, success, d) PROVE Keeps(cache, cache')
  <2> HIDE DEF d
  <2> QED
    BY <1>2, <1>6, <1>11, WriterNarrows DEF e
<1>12. ASSUME tr[t].mode # "READ", StepToReader(t, cache) PROVE Keeps(cache, cache')
  BY <1>2, <1>4, <1>12, WriterNarrows DEF e
<1>13. ASSUME tr[t].mode # "READ", StepToReader(t, d) PROVE Keeps(cache, cache')
  <2> HIDE DEF d
  <2> QED
    BY <1>2, <1>6, <1>13, WriterNarrows DEF e
<1>14. ASSUME NEW g \in Cache, g.entries = cache.entries, g.active = cache.active,
              cache' = DoomPartialEntry(g, t)
       PROVE  Keeps(cache, cache')
  <2>1. IsLive(g, e)
    BY <1>2, <1>14 DEF IsLive
  <2>2. g.active[k] # NoEntry => IsLive(g, g.active[k]) /\ ~g.entries[g.active[k]].doomed
    BY <1>3, <1>14 DEF IsLive
  <2> DEFINE h == DoneWithEntry(DoomEntry(g, k, None), e, t, FALSE)
  <2>3. cache' = h
    BY <1>14 DEF DoomPartialEntry, e, k
  <2>4. Narrows(g, h)
    BY <1>2, <2>1, <2>2, DropNarrows
  <2> HIDE DEF h
  <2>5. Narrows(cache, h)
    BY <1>14, <2>4 DEF Narrows, Keeps, IsLive
  <2> QED
    BY <2>3, <2>5, KeptBy
<1>15. CASE cache' = DoomPartialEntry(Call(cache, <<Run(t, "OK")>>), t)
  <2> DEFINE g == Call(cache, <<Run(t, "OK")>>)
  <2>1. <<Run(t, "OK")>> \in Seq(Frame)
    BY DEF Run, Frame, RunFrame, Results
  <2>2. g \in Cache /\ g.entries = cache.entries /\ g.active = cache.active
    <3> DEFINE f == <<Run(t, "OK")>>
    <3> HIDE DEF f
    <3>1. Call(cache, f) \in Cache /\ SameStore(cache, Call(cache, f))
      BY <1>2, <2>1, CallFields DEF f
    <3>2. Call(cache, f).active = cache.active
      BY <1>2 DEF Call, Cache
    <3> QED
      BY <3>1, <3>2 DEF f, SameStore
  <2> HIDE DEF g
  <2> QED
    BY <1>14, <1>15, <2>2 DEF g
<1>16. CASE cache' = DoneReadingFromEntry(cache, tr[t].entry, t)
  <2> DEFINE d2 == DoneReadingFromEntry(cache, e, t)
  <2>1. Narrows(cache, d2) /\ cache' = d2
    BY <1>2, <1>16, ReadingNarrows DEF e
  <2> HIDE DEF d2
  <2> QED
    BY <2>1, KeptBy
<1>17. CASE cache' = DoomPartialEntry(cache, t)
  BY <1>2, <1>14, <1>17
<1> QED
  BY <1>7, <1>8, <1>9, <1>10, <1>11, <1>12, <1>13, <1>15, <1>16, <1>17 DEF EntryEffect, d, k

\* The answers of the disk entry.
LEMMA DiskNarrows ==
    ASSUME IInv, NEW t \in Trans, DiskAnswers(t)
    PROVE  Keeps(cache, cache')
<1>1. Idle /\ tr[t].next \in AtDisk
  BY DEF DiskAnswers, CacheReadResponseFails, BeginCacheRead, SkipValidation,
         BeginCacheValidation, ValidateEntryHeadersAndContinue,
         BeginExternallyConditionalizedRequest, UpdateCachedResponseComplete,
         OverwriteComplete, CacheWriteDataComplete, CacheReadDataComplete, At, AtDisk
<1>2. HolderAt(t)
  BY <1>1, Holder DEF Holding
<1>3. "whole" \in Contents /\ TRUE \in BOOLEAN /\ FALSE \in BOOLEAN
  BY DEF Contents
<1>4. tr[t].next = "UPDATE_CACHED_RESPONSE_COMPLETE" => tr[t].mode # "READ"
  BY <1>2 DEF HolderAt, Fits, Writes
<1>5. EntryEffect(t)
  <2>1. CASE CacheReadResponseFails(t) \/ BeginCacheRead(t)
    BY <2>1 DEF CacheReadResponseFails, BeginCacheRead, Step, EntryEffect
  <2>2. CASE SkipValidation(t)
    BY <2>2 DEF SkipValidation, EntryEffect
  <2>3. ASSUME NEW yes \in BOOLEAN, BeginCacheValidation(t, yes)
        PROVE  EntryEffect(t)
    BY <2>3 DEF BeginCacheValidation, StepWithMode, EntryEffect
  <2>4. ASSUME NEW yes \in BOOLEAN, ValidateEntryHeadersAndContinue(t, yes)
        PROVE  EntryEffect(t)
    BY <2>4 DEF ValidateEntryHeadersAndContinue, Step, EntryEffect
  <2>5. ASSUME NEW yes \in BOOLEAN, BeginExternallyConditionalizedRequest(t, yes)
        PROVE  EntryEffect(t)
    <3>1. cache' = cache \/ StepPast(t, TRUE, cache)
      BY <2>5 DEF BeginExternallyConditionalizedRequest, Step
    <3> QED
      BY <3>1, <1>3 DEF EntryEffect
  <2>6. ASSUME NEW yes \in BOOLEAN, UpdateCachedResponseComplete(t, yes)
        PROVE  EntryEffect(t)
    <3>1. \/ StepPast(t, TRUE, cache) \/ StepPast(t, FALSE, cache)
          \/ tr[t].mode # "READ" /\ StepToReader(t, cache)
      BY <2>6, <1>4 DEF UpdateCachedResponseComplete, UpdateComplete, At
    <3> QED
      BY <3>1, <1>3 DEF EntryEffect
  <2>7. ASSUME NEW what \in {"ok", "redirect", "failed"}, OverwriteComplete(t, what)
        PROVE  EntryEffect(t)
    <3>1. \/ cache' = cache \/ StepPast(t, TRUE, Stored(t, "whole"))
          \/ StepPast(t, FALSE, cache)
      BY <2>7 DEF OverwriteComplete, Step
    <3> QED
      BY <3>1, <1>3 DEF EntryEffect
  <2>8. ASSUME NEW what \in {"ok", "last", "failed"}, CacheWriteDataComplete(t, what)
        PROVE  EntryEffect(t)
    <3>1. \/ cache' = cache \/ cache' = Stored(t, "whole") \/ StepPast(t, FALSE, cache)
      BY <2>8 DEF CacheWriteDataComplete, Step
    <3> QED
      BY <3>1, <1>3 DEF EntryEffect
  <2>9. ASSUME NEW what \in {"data", "eof", "failed"}, CacheReadDataComplete(t, what)
        PROVE  EntryEffect(t)
    BY <2>9 DEF CacheReadDataComplete, Step, EntryEffect
  <2>10. \/ CacheReadResponseFails(t) \/ BeginCacheRead(t) \/ SkipValidation(t)
         \/ \E yes \in BOOLEAN : BeginCacheValidation(t, yes)
         \/ \E yes \in BOOLEAN : ValidateEntryHeadersAndContinue(t, yes)
         \/ \E yes \in BOOLEAN : BeginExternallyConditionalizedRequest(t, yes)
         \/ \E yes \in BOOLEAN : UpdateCachedResponseComplete(t, yes)
         \/ \E what \in {"ok", "redirect", "failed"} : OverwriteComplete(t, what)
         \/ \E what \in {"ok", "last", "failed"} : CacheWriteDataComplete(t, what)
         \/ \E what \in {"data", "eof", "failed"} : CacheReadDataComplete(t, what)
    BY Zenon DEF DiskAnswers
  <2> QED
    BY <2>1, <2>2, <2>3, <2>4, <2>5, <2>6, <2>7, <2>8, <2>9, <2>10
<1> QED
  BY <1>1, <1>5, EffectKeeps DEF Holding

\* The answers of the network.
LEMMA NetworkNarrows ==
    ASSUME IInv, NEW t \in Trans, NetworkAnswers(t)
    PROVE  Keeps(cache, cache')
<1>1. Idle /\ tr[t].next \in AtNetwork
  BY DEF NetworkAnswers, SendRequestFails, AuthRequired, NotModified, NewResponse,
         ResumeRefused, NetworkReadComplete, At, AtNetwork
<1>2. "whole" \in Contents /\ "partial" \in Contents /\ TRUE \in BOOLEAN /\ FALSE \in BOOLEAN
  BY DEF Contents
<1>3. EntryEffect(t)
  <2>1. CASE SendRequestFails(t) \/ AuthRequired(t)
    BY <2>1 DEF SendRequestFails, AuthRequired, Step, EntryEffect
  <2>2. ASSUME NEW noStore \in BOOLEAN, NotModified(t, noStore)
        PROVE  EntryEffect(t)
    <3>1. \/ cache' = cache \/ StepPast(t, TRUE, DoomEntry(cache, tr[t].key, None))
          \/ /\ tr[t].mode # "READ"
             /\ StepToReader(t, DoomEntry(cache, tr[t].key, None))
      BY <2>2 DEF NotModified, UpdateComplete, Step
    <3> QED
      BY <3>1, <1>2 DEF EntryEffect
  <2>3. ASSUME NEW noStore \in BOOLEAN, NewResponse(t, noStore)
        PROVE  EntryEffect(t)
    <3>1. StepPast(t, FALSE, cache) \/ cache' = Stored(t, "partial")
      BY <2>3 DEF NewResponse, StepWithMode
    <3> QED
      BY <3>1, <1>2 DEF EntryEffect
  <2>4. CASE ResumeRefused(t)
    BY <2>4 DEF ResumeRefused, EntryEffect
  <2>5. ASSUME NEW what \in {"data", "eof", "failed"}, NetworkReadComplete(t, what)
        PROVE  EntryEffect(t)
    <3>1. cache' = cache \/ StepPast(t, TRUE, Stored(t, "whole"))
      BY <2>5 DEF NetworkReadComplete, Step
    <3> QED
      BY <3>1, <1>2 DEF EntryEffect
  <2> QED
    BY <2>1, <2>2, <2>3, <2>4, <2>5 DEF NetworkAnswers
<1> QED
  BY <1>1, <1>3, EffectKeeps DEF Holding

\* Whoever was waiting and is destroyed leaves the queue that it was in.
LEMMA PendingNarrows ==
    ASSUME IInv, NEW t \in Trans
    PROVE  Narrows(cache, RemovePendingTransaction(cache, t))
<1> DEFINE queued == {e \in Entries : cache.entries[e] # Closed
                                      /\ Contains(cache.entries[e].queue, t)}
           c == RemovePendingTransaction(cache, t)
<1>1. cache \in Cache /\ EntriesOk(cache, tr, None, NoEntry)
  BY Parts
<1>2. CASE queued = {}
  <2>1. c.entries = cache.entries
    BY <1>1, <1>2 DEF RemovePendingTransaction, Cache
  <2> HIDE DEF c
  <2> QED
    BY <2>1, SameNarrows DEF c
<1>3. CASE queued # {}
  <2> DEFINE e == CHOOSE f \in queued : TRUE
             q == cache.entries[e].queue
             r == RemoveFirst(q, t)
  <2>1. e \in Entries /\ IsLive(cache, e)
    BY <1>3 DEF IsLive
  <2>2. c = [cache EXCEPT !.entries[e].queue = RemoveFirst(@, t)]
    BY <1>3 DEF RemovePendingTransaction
  <2> HIDE DEF e, c
  <2>3. c = Queue(cache, e, r)
    BY <1>1, <2>2 DEF Queue, Cache
  <2>4. q \in Seq(Trans) /\ NoneTwice(q)
    <3>1. EntryOk(cache, tr, None, NoEntry, e)
      BY <1>1, <2>1 DEF EntriesOk
    <3> QED
      BY <1>1, <2>1, <3>1, LiveFields DEF EntryOk, QueueOk
  <2>5. r \in Seq(Trans) /\ ToSet(r) \subseteq ToSet(q)
    <3> HIDE DEF q
    <3>1. /\ r \in Seq(Trans)
          /\ \A j \in 1..Len(r) : \E i \in 1..Len(q) : r[j] = q[i]
      BY <2>4, RemovedFirst
    <3> HIDE DEF r
    <3> QED
      BY <2>4, <3>1 DEF ToSet
  <2> HIDE DEF r
  <2>6. QueueLeft(cache, e, r)
    BY <1>1, <2>1, <2>5, QueueNarrows
  <2> QED
    BY <2>3, <2>6 DEF QueueLeft, c
<1> QED
  BY <1>2, <1>3

\* Destroy.
LEMMA DestroyKeeps ==
    ASSUME IInv, ~CancelInCallback, NEW t \in Trans, NEW keep \in BOOLEAN, Destroy(t, keep)
    PROVE  Keeps(cache, cache')
<1> DEFINE e == tr[t].entry
<1>1. cache \in Cache /\ UserActs(t)
  BY Parts DEF Destroy
<1>2. AfterUser(t) = cache \/ (tr[t].next = "past" /\ AfterUser(t) = Rest(cache))
  BY <1>1, UserIdle
<1>3. CASE tr[t].next \notin Holding
  <2>1. e = NoEntry
    BY <1>3, NothingKept
  <2>2. cache' = RemovePendingTransaction(cache, t) \/ cache' = AfterUser(t)
    BY <1>2, <2>1 DEF Destroy, AtCache
  <2>3. Narrows(cache, RemovePendingTransaction(cache, t))
    BY PendingNarrows
  <2>4. AfterUser(t).entries = cache.entries
    BY <1>1, <1>2, SameEntries
  <2> QED
    BY <2>2, <2>3, <2>4, KeptBy, SameKept
<1>4. CASE tr[t].next \in Holding
  <2>1. AfterUser(t) = cache /\ Idle
    <3>1. tr[t].next # "past"
      BY <1>4 DEF Holding, AtDisk, AtNetwork
    <3> QED
      BY <1>1, <3>1, UserIdle
  <2>2. HolderAt(t)
    BY <1>4, <2>1, Holder
  <2>3. e \in Entries /\ e # NoEntry /\ IsLive(cache, e)
    BY <2>2 DEF HolderAt
  <2> DEFINE z == IF cache.entries[e].content = "whole" THEN "whole" ELSE "truncated"
             g == Filled(cache, e, z)
             d == DoneWithEntry(g, e, t, TRUE)
             h == DoneWithEntry(cache, e, t, FALSE)
  <2>4. cache' = d \/ cache' = h
    <3>1. g = [cache EXCEPT !.entries[e].content = IF @ = "whole" THEN @ ELSE "truncated"]
      BY <1>1, <2>3 DEF Filled, Cache
    <3> QED
      BY <2>1, <2>3, <3>1 DEF Destroy
  <2> HIDE DEF e
  <2>5. Narrows(cache, h)
    <3> DEFINE no == FALSE
    <3>1. no \in BOOLEAN
      OBVIOUS
    <3> HIDE DEF no
    <3>2. Narrows(cache, DoneWithEntry(cache, e, t, no))
      BY <1>1, <2>3, <3>1, LeavingNarrows
    <3> QED
      BY <3>2 DEF no
  <2> HIDE DEF h
  <2>6. z \in Contents
    BY DEF Contents
  <2> HIDE DEF z
  <2>7. Narrows(cache, g) /\ g \in Cache /\ IsLive(g, e)
    BY <1>1, <2>3, <2>6, FilledNarrows
  <2> HIDE DEF g
  <2>8. Narrows(g, d)
    <3> DEFINE yes == TRUE
    <3>1. yes \in BOOLEAN
      OBVIOUS
    <3> HIDE DEF yes
    <3>2. Narrows(g, DoneWithEntry(g, e, t, yes))
      BY <2>3, <2>7, <3>1, LeavingNarrows
    <3> QED
      BY <3>2 DEF yes
  <2> HIDE DEF d
  <2>9. Narrows(cache, d)
    BY <2>7, <2>8, ThenNarrows
  <2> QED
    BY <2>4, <2>5, <2>9, KeptBy
<1> QED
  BY <1>3, <1>4

\* The calls of the user.
LEMMA UserNarrows ==
    ASSUME IInv, ~CancelInCallback, NEW t \in Trans, UserCalls(t)
    PROVE  Keeps(cache, cache')
<1>1. CASE Read(t) \/ RestartNetworkRequest(t)
  <2>1. UserActs(t) /\ cache' = AfterUser(t)
    BY <1>1 DEF Read, RestartNetworkRequest
  <2>2. cache'.entries = cache.entries
    BY <2>1, UserIdle, Parts, SameEntries
  <2> QED
    BY <2>2, SameKept
<1>2. CASE ReadErrorPage(t)
  <2>1. UserActs(t) /\ tr[t].next = "auth"
    BY <1>2 DEF ReadErrorPage
  <2>2. Idle /\ AfterUser(t) = cache
    BY <2>1, UserIdle
  <2> DEFINE success == tr[t].mode = "READ_WRITE"
  <2>3. success \in BOOLEAN /\ StepPast(t, success, cache)
    BY <1>2, <2>2 DEF ReadErrorPage
  <2> HIDE DEF success
  <2>4. EntryEffect(t)
    BY <2>3 DEF EntryEffect
  <2> QED
    BY <2>1, <2>2, <2>4, EffectKeeps DEF Holding
<1>3. CASE \E keep \in BOOLEAN : Destroy(t, keep)
  BY <1>3, DestroyKeeps
<1> QED
  BY <1>1, <1>2, <1>3 DEF UserCalls

\* The steps that only pass an answer on.
LEMMA AnswersPass ==
    ASSUME IInv,
           \/ \E t \in Trans, k \in Keys : \E m \in Requests[t] : Start(t, k, m)
           \/ \E result \in {"ready", "failed"} : OnBackendCreated(result)
           \/ NotifyItem \/ UserReturns
    PROVE  Keeps(cache, cache')
<1>1. cache \in Cache
  BY Parts
<1>2. \/ cache' = cache \/ \E f : cache' = Call(cache, f)
      \/ cache' = Rest(cache) \/ \E f : cache' = Call(Rest(cache), f)
  BY DEF Start, OnBackendCreated, NotifyItem, UserReturns, Popped, Rest
<1>3. \A f : Call(Rest(cache), f).entries = cache.entries
  BY <1>1 DEF Call, Rest, Cache
<1>4. cache'.entries = cache.entries
  BY <1>1, <1>2, <1>3, SameEntries
<1> QED
  BY <1>4, SameKept

\* No step brings anybody to a doomed entry.
LEMMA StepKeeps ==
    ASSUME IInv, ~CancelInCallback, [Next]_vars
    PROVE  Keeps(cache, cache')
<1>1. CASE \E t \in Trans, k \in Keys : \E m \in Requests[t] : Start(t, k, m)
  BY <1>1, AnswersPass
<1>2. CASE \E t \in Trans : UserCalls(t)
  BY <1>2, UserNarrows
<1>3. CASE Progress
  <2>1. CASE \E result \in {"ready", "failed"} : OnBackendCreated(result)
    BY <2>1, AnswersPass
  <2>2. CASE \E k \in Keys, rv \in {"OK", "ERR_FAILED"} : OnIOComplete(k, rv)
    BY <2>2, AnswerKeeps
  <2>3. CASE NotifyItem \/ UserReturns
    BY <2>3, AnswersPass
  <2>4. CASE \E e \in Entries : OnProcessPendingQueue(e)
    BY <2>4, TaskKeeps
  <2>5. CASE \E t \in Trans : DoLoop(t)
    BY <2>5, LoopIdles, DoomKeeps, AddKeeps DEF DoLoop
  <2>6. CASE \E t \in Trans : DiskAnswers(t) \/ NetworkAnswers(t)
    BY <2>6, DiskNarrows, NetworkNarrows
  <2> QED
    BY <1>3, <2>1, <2>2, <2>3, <2>4, <2>5, <2>6 DEF Progress
<1>4. CASE UNCHANGED vars
  BY <1>4, SameKept DEF vars
<1> QED
  BY <1>1, <1>2, <1>3, <1>4 DEF Next

\* In every behaviour whose users destroy nothing but the transaction that they are called
\* for, nobody gets at an entry, or into its queue, after it was doomed
\* (http_cache.cc, DoomActiveEntry, AddTransactionToEntry, ProcessPendingQueue).
THEOREM NobodyJoinsDoomed ==
    ASSUME NoCancelInCallback
    PROVE  Spec => DoomedGetsNoUsers
<1>1. ASSUME IInv, [Next]_vars
      PROVE  [\A e \in Live : cache.entries[e].doomed /\ cache'.entries[e] # Closed
                  => Users(e)' \subseteq Users(e)]_vars
  <2>1. Keeps(cache, cache')
    BY <1>1, StepKeeps DEF NoCancelInCallback
  <2> QED
    BY <2>1 DEF Keeps, NarrowsTo, UsersIn, Users, Live
<1> QED
  BY <1>1, Invariance, PTL DEF Spec, DoomedGetsNoUsers

-----------------------------------------------------------------------------
(* The lists of the disk cache                                             *)

CONSTANTS Nodes, Lists
VARIABLES lists, accident

Lru == INSTANCE LruLists

\* The lists hold nodes.
ListsOk == lists \in [Lists -> Seq(Nodes)]

\* What every step keeps, unless there was an accident: nothing is known of the lists then.
LruInv == accident \in BOOLEAN /\ (~accident => ListsOk /\ Lru!OnePlace)

\* A step puts a node in front or takes one out; in both cases nothing is doubled.
LEMMA MoveKeepsOnePlace ==
    ASSUME ListsOk, ~accident, Lru!OnePlace, Lru!Move \/ UNCHANGED lists
    PROVE  ListsOk' /\ Lru!OnePlace'
<1> USE DEF ListsOk
<1>1. ASSUME NEW l \in Lists, NEW n \in Nodes, Lru!PutIn(n, l)
      PROVE  ListsOk' /\ Lru!OnePlace'
  <2>1. /\ lists' = [lists EXCEPT ![l] = <<n>> \o @]
        /\ \A k \in Lists : \A i \in DOMAIN lists[k] : lists[k][i] # n
    BY <1>1 DEF Lru!PutIn, Lru!Range
  <2>2. /\ lists'[l] \in Seq(Nodes) /\ Len(lists'[l]) = Len(lists[l]) + 1
        /\ lists'[l][1] = n
        /\ \A i \in 2 .. Len(lists[l]) + 1 : lists'[l][i] = lists[l][i - 1]
    BY <2>1
  <2>3. \A k \in Lists \ {l} : lists'[k] = lists[k]
    BY <2>1
  <2>4. ListsOk'
    BY <2>1, <2>2
  <2>5. Lru!OnePlace'
    BY <2>1, <2>2, <2>3, SMTT(30) DEF Lru!OnePlace
  <2> QED
    BY <2>4, <2>5
<1>2. ASSUME NEW l \in Lists, NEW i \in DOMAIN lists[l], Lru!TakeOut(i, l)
      PROVE  ListsOk' /\ Lru!OnePlace'
  <2>1. lists' = [lists EXCEPT ![l] = RemoveAt(@, i)]
    BY <1>2 DEF Lru!TakeOut, Lru!RemoveAt, RemoveAt
  <2>2. /\ lists'[l] \in Seq(Nodes) /\ Len(lists'[l]) = Len(lists[l]) - 1
        /\ \A j \in 1 .. Len(lists[l]) - 1 :
              lists'[l][j] = IF j < i THEN lists[l][j] ELSE lists[l][j + 1]
    BY <2>1, RemovedOne
  <2>3. \A k \in Lists \ {l} : lists'[k] = lists[k]
    BY <2>1
  <2>4. ListsOk'
    BY <2>1, <2>2
  <2> DEFINE Was(k, j) == IF k = l /\ j >= i THEN j + 1 ELSE j
  <2>5. \A k \in Lists : \A j \in DOMAIN lists'[k] :
           /\ Was(k, j) \in DOMAIN lists[k]
           /\ lists'[k][j] = lists[k][Was(k, j)]
    <3> SUFFICES ASSUME NEW k \in Lists, NEW j \in DOMAIN lists'[k]
                 PROVE  /\ Was(k, j) \in DOMAIN lists[k]
                        /\ lists'[k][j] = lists[k][Was(k, j)]
      OBVIOUS
    <3>1. CASE k = l
      BY <3>1, <2>2, SMTT(40)
    <3>2. CASE k # l
      BY <3>2, <2>3
    <3> QED
      BY <3>1, <3>2
  <2>6. ASSUME NEW k \in Lists, NEW a \in DOMAIN lists'[k],
               NEW m \in Lists, NEW b \in DOMAIN lists'[m],
               lists'[k][a] = lists'[m][b]
        PROVE  k = m /\ a = b
    <3>1. k = m /\ Was(k, a) = Was(m, b)
      BY <2>5, <2>6 DEF Lru!OnePlace
    <3>2. a \in Nat /\ b \in Nat /\ i \in Nat
      BY <2>4
    <3> QED
      BY <3>1, <3>2
  <2>7. Lru!OnePlace'
    BY <2>6 DEF Lru!OnePlace
  <2> QED
    BY <2>4, <2>7
<1>3. CASE UNCHANGED lists
  BY <1>3 DEF Lru!OnePlace
<1> QED
  BY <1>1, <1>2, <1>3 DEF Lru!Move

\* A step ends with no accident only if there was none before, and then the lists made a
\* move or none.
LEMMA StepKeepsOnePlace == LruInv /\ [Lru!Next]_<<lists, accident>> => LruInv'
<1> SUFFICES ASSUME LruInv, [Lru!Next]_<<lists, accident>>
             PROVE  LruInv'
  OBVIOUS
<1>1. accident' \in BOOLEAN
  BY DEF LruInv, Lru!Next
<1>2. ASSUME ~accident'
      PROVE  ~accident /\ (Lru!Move \/ UNCHANGED lists)
  BY <1>2, Zenon DEF LruInv, Lru!Next
<1> QED
  BY <1>1, <1>2, MoveKeepsOnePlace DEF LruInv

\* A node is never in two lists, nor twice in one, however often nodes are moved
\* (rankings.cc, Insert and Remove), until an accident (rankings.cc:631, eviction.cc:384 and
\* 413, backend_impl.cc:893 and 495).
THEOREM NodeInOnePlace == Lru!Spec => []Lru!OnePlace
<1>1. Lru!Init => LruInv
  <2> SUFFICES ASSUME Lru!Init
               PROVE  LruInv
    OBVIOUS
  <2>1. accident = FALSE /\ lists = [l \in Lists |-> <<>>]
    BY DEF Lru!Init
  <2>2. ListsOk /\ Lru!OnePlace
    BY <2>1 DEF ListsOk, Lru!OnePlace
  <2> QED
    BY <2>1, <2>2 DEF LruInv
<1>2. LruInv => Lru!OnePlace
  BY DEF LruInv, Lru!OnePlace
<1> QED
  BY <1>1, <1>2, StepKeepsOnePlace, PTL DEF Lru!Spec
=============================================================================
