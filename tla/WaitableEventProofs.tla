------------------------- MODULE WaitableEventProofs -------------------------
(***************************************************************************)
(* For any number of threads and events: the wait-lists of WaitableEvents  *)
(* hold those who wait and nobody else, and no signal of an auto-reset     *)
(* event is lost or reported twice.                                        *)
(*                                                                         *)
(* The invariant has a part about each thread's call (CallInv), one about  *)
(* who holds which lock (LockInv), one about each event (EventInv) and the *)
(* count of signals (OwedInv).  A step is one of a single thread, so all   *)
(* but the thread itself and the event it has locked is kept by lemmas     *)
(* about what a step leaves alone.                                         *)
(***************************************************************************)
EXTENDS WaitableEvent, SequencesExt, SequenceTheorems, FiniteSetTheorems, WellFoundedInduction, TLAPS

-----------------------------------------------------------------------------
(* Sequences                                                               *)

\* The sequence that RemoveAt() returns: the same elements in the same order but one.
LEMMA RemovedOne ==
    ASSUME NEW S, NEW s \in Seq(S), NEW i \in DOMAIN s
    PROVE  /\ RemoveAt(s, i) \in Seq(S)
           /\ Len(RemoveAt(s, i)) = Len(s) - 1
           /\ \A j \in 1 .. Len(s) - 1 :
                 RemoveAt(s, i)[j] = IF j < i THEN s[j] ELSE s[j + 1]
<1> DEFINE front == SubSeq(s, 1, i - 1)
           back == SubSeq(s, i + 1, Len(s))
<1>1. front \in Seq(S) /\ Len(front) = i - 1 /\ \A j \in 1 .. i - 1 : front[j] = s[j]
  OBVIOUS
<1>2. /\ back \in Seq(S) /\ Len(back) = Len(s) - i
      /\ \A j \in 1 .. Len(s) - i : back[j] = s[i + j]
  OBVIOUS
<1>3. RemoveAt(s, i) = front \o back
  BY DEF RemoveAt
<1>4. /\ front \o back \in Seq(S) /\ Len(front \o back) = Len(s) - 1
      /\ \A j \in 1 .. Len(s) - 1 :
            (front \o back)[j] = IF j < i THEN front[j] ELSE back[j - (i - 1)]
  <2> HIDE DEF front, back
  <2>1. /\ front \o back \in Seq(S)
        /\ Len(front \o back) = Len(front) + Len(back)
        /\ \A j \in 1 .. Len(front) + Len(back) :
              (front \o back)[j] = IF j <= Len(front) THEN front[j] ELSE back[j - Len(front)]
    BY <1>1, <1>2, ConcatProperties
  <2> QED
    BY <1>1, <1>2, <2>1, SMTT(40)
<1>5. \A j \in 1 .. Len(s) - 1 :
         (front \o back)[j] = IF j < i THEN s[j] ELSE s[j + 1]
  <2> SUFFICES ASSUME NEW j \in 1 .. Len(s) - 1
               PROVE  (front \o back)[j] = IF j < i THEN s[j] ELSE s[j + 1]
    OBVIOUS
  <2> HIDE DEF front, back
  <2>1. CASE j < i
    BY <2>1, <1>1, <1>4
  <2>2. CASE ~(j < i)
    <3>1. j - (i - 1) \in 1 .. Len(s) - i /\ i + (j - (i - 1)) = j + 1
      BY <2>2
    <3> QED
      BY <2>2, <3>1, <1>2, <1>4
  <2> QED
    BY <2>1, <2>2
<1> QED
  BY <1>3, <1>4, <1>5

NoneTwice(s) == \A i, j \in 1..Len(s) : s[i] = s[j] => i = j

\* RemoveFirst takes x out of a sequence that does not hold it twice, and keeps the rest.
LEMMA RemovedFirst ==
    ASSUME NEW S, NEW s \in Seq(S), NoneTwice(s), NEW x
    PROVE  LET r == RemoveFirst(s, x) IN
           /\ r \in Seq(S) /\ NoneTwice(r)
           /\ \A j \in 1..Len(r) : r[j] # x /\ \E i \in 1..Len(s) : r[j] = s[i]
<1> DEFINE r == RemoveFirst(s, x)
<1>1. CASE ~\E i \in 1..Len(s) : s[i] = x
  <2>1. r = s
    BY <1>1 DEF RemoveFirst
  <2> QED
    BY <1>1, <2>1
<1>2. CASE \E i \in 1..Len(s) : s[i] = x
  <2>1. PICK k \in 1..Len(s) : s[k] = x
    BY <1>2
  <2>2. {i \in 1..Len(s) : s[i] = x} = {k}
    BY <2>1 DEF NoneTwice
  <2>3. Min({k}) = k
    BY <2>1 DEF Min
  <2>4. r = RemoveAt(s, k)
    BY <1>2, <2>2, <2>3 DEF RemoveFirst, SelectInSeq
  <2>5. /\ r \in Seq(S) /\ Len(r) = Len(s) - 1
        /\ \A j \in 1..Len(s) - 1 : r[j] = IF j < k THEN s[j] ELSE s[j + 1]
    BY <2>1, <2>4, RemovedOne, SMTT(40)
  <2> DEFINE At(j) == IF j < k THEN j ELSE j + 1
  <2>6. \A j \in 1..Len(r) : At(j) \in 1..Len(s) /\ At(j) # k /\ r[j] = s[At(j)]
    BY <2>5
  <2>7. \A i, j \in 1..Len(r) : At(i) = At(j) => i = j
    OBVIOUS
  <2> HIDE DEF At, r
  <2>8. NoneTwice(r)
    BY <2>6, <2>7 DEF NoneTwice
  <2>9. \A j \in 1..Len(r) : r[j] # x /\ \E i \in 1..Len(s) : r[j] = s[i]
    BY <2>1, <2>6 DEF NoneTwice
  <2> QED
    BY <2>5, <2>8, <2>9 DEF r
<1> QED
  BY <1>1, <1>2

\* Append puts x behind a sequence that does not hold it.
LEMMA Appended ==
    ASSUME NEW S, NEW s \in Seq(S), NoneTwice(s), NEW x \in S, \A i \in 1..Len(s) : s[i] # x
    PROVE  /\ Append(s, x) \in Seq(S) /\ NoneTwice(Append(s, x))
           /\ \A i \in 1..Len(Append(s, x)) :
                 Append(s, x)[i] = x \/ (i \in 1..Len(s) /\ Append(s, x)[i] = s[i])
<1>1. /\ Append(s, x) \in Seq(S) /\ Len(Append(s, x)) = Len(s) + 1 /\ Len(s) \in Nat
      /\ \A i \in 1..Len(s) : Append(s, x)[i] = s[i]
      /\ Append(s, x)[Len(s) + 1] = x
  OBVIOUS
<1>2. NoneTwice(Append(s, x))
  <2> SUFFICES ASSUME NEW i \in 1..(Len(s) + 1), NEW j \in 1..(Len(s) + 1),
                      Append(s, x)[i] = Append(s, x)[j]
               PROVE  i = j
    BY <1>1 DEF NoneTwice
  <2>1. \A k \in 1..(Len(s) + 1) : k \in 1..Len(s) \/ k = Len(s) + 1
    BY <1>1
  <2> QED
    BY <1>1, <2>1 DEF NoneTwice
<1>3. \A i \in 1..(Len(s) + 1) :
         Append(s, x)[i] = x \/ (i \in 1..Len(s) /\ Append(s, x)[i] = s[i])
  BY <1>1
<1> QED
  BY <1>1, <1>2, <1>3

\* The sequence of one element.
LEMMA OneElement ==
    ASSUME NEW S, NEW x \in S
    PROVE  /\ <<x>> \in Seq(S) /\ Len(<<x>>) = 1 /\ <<x>>[1] = x
           /\ NoneTwice(<<x>>) /\ Range(<<x>>) = {x}
BY DEF NoneTwice, Range

\* Tail drops the first element.
LEMMA TailOf ==
    ASSUME NEW S, NEW s \in Seq(S), NoneTwice(s), Len(s) >= 1
    PROVE  /\ Tail(s) \in Seq(S) /\ NoneTwice(Tail(s)) /\ Len(Tail(s)) = Len(s) - 1
           /\ \A i \in 1..Len(Tail(s)) : i + 1 \in 2..Len(s) /\ Tail(s)[i] = s[i + 1]
<1>1. Tail(s) \in Seq(S) /\ Len(Tail(s)) = Len(s) - 1 /\ Len(s) \in Nat
      /\ \A i \in 1..Len(Tail(s)) : Tail(s)[i] = s[i + 1]
  OBVIOUS
<1>2. \A i \in 1..Len(Tail(s)) : i + 1 \in 1..Len(s) /\ i + 1 \in 2..Len(s)
  BY <1>1
<1>3. NoneTwice(Tail(s))
  <2> SUFFICES ASSUME NEW i \in 1..Len(Tail(s)), NEW j \in 1..Len(Tail(s)),
                      Tail(s)[i] = Tail(s)[j]
               PROVE  i = j
    BY DEF NoneTwice
  <2>1. i + 1 = j + 1
    BY <1>1, <1>2 DEF NoneTwice
  <2> QED
    BY <2>1
<1> QED
  BY <1>1, <1>2, <1>3

-----------------------------------------------------------------------------
(* The inductive invariant                                                 *)

Signalling == {"signalAll", "signalOne", "popWoken", "popRefused"}

Waiting == {"releasing", "armed", "blocked", "awake", "dequeue", "dequeueMany"}

IsArray(s) ==
    /\ s \in Seq(Events)
    /\ Len(s) >= 1
    /\ NoneTwice(s)

\* The place of an event in the sorted array.
Rank(s, e) == Cardinality({f \in Range(s) : f < e})

\* What a thread's own variables say of the call it is in.
CallInv(t) ==
    /\ pc[t] = "idle" =>
          idx[t] = 0 /\ result[t] = 0 /\ ~fired_[t] /\ signaling_event_[t] = NoEvent
    /\ pc[t] # "idle" => IsArray(raw_waitables[t])
    /\ pc[t] \in Signalling =>
          /\ Len(raw_waitables[t]) = 1
          /\ pc[t] = "signalAll" <=> raw_waitables[t][1] \in ManualReset
    /\ pc[t] \in Signalling \cup {"locking", "unwinding"} =>
          ~fired_[t] /\ signaling_event_[t] = NoEvent
    /\ pc[t] \in {"locking", "unwinding", "releasing"} =>
          idx[t] < Len(raw_waitables[t]) /\ mode[t] = "many"
    /\ pc[t] = "unwinding" => result[t] \in 1..Len(raw_waitables[t])
    /\ pc[t] \in {"armed", "blocked", "awake"} =>
          /\ idx[t] = 0
          /\ mode[t] # "many" => Len(raw_waitables[t]) = 1
    /\ pc[t] \in {"releasing", "armed", "blocked", "awake"} =>
          /\ fired_[t] <=> signaling_event_[t] # NoEvent
          /\ signaling_event_[t] \in Range(raw_waitables[t]) \cup {NoEvent}
    /\ pc[t] = "dequeue" =>
          /\ Len(raw_waitables[t]) = 1 /\ fired_[t]
          /\ signaling_event_[t] \in {raw_waitables[t][1], NoEvent}
          /\ result[t] = 1 <=> signaling_event_[t] # NoEvent
    /\ pc[t] = "dequeueMany" =>
          /\ fired_[t] /\ signaling_event_[t] \in Range(raw_waitables[t])
          /\ idx[t] < Len(raw_waitables[t]) /\ result[t] \in 1..Len(raw_waitables[t])
          /\ \A j \in 1..idx[t] : raw_waitables[t][j] = signaling_event_[t] =>
                raw_waitables[t][result[t]] = signaling_event_[t]

\* The locks a thread should hold where it is.
Holds(t, e) ==
    \/ pc[t] \in Signalling /\ e = raw_waitables[t][1]
    \/ /\ pc[t] \in {"locking", "unwinding"}
       /\ e \in Range(raw_waitables[t]) /\ Rank(raw_waitables[t], e) < idx[t]
    \/ /\ pc[t] = "releasing"
       /\ e \in Range(raw_waitables[t]) /\ Rank(raw_waitables[t], e) <= idx[t]

LockInv == \A e \in Events, t \in Threads : lock_[e] = t <=> Holds(t, e)

\* How many of the first waiters of e Signal() has looked at already.
Visited(e) ==
    IF Free(e) THEN 0
    ELSE CASE pc[lock_[e]] = "signalAll" -> idx[lock_[e]]
           [] pc[lock_[e]] \in {"popWoken", "popRefused"} -> 1
           [] OTHER -> 0

\* w waits for e, which has not fired it, and is to leave its wait-list yet.
WaitsFor(w, e) ==
    /\ pc[w] \in Waiting
    /\ e \in Range(raw_waitables[w])
    /\ signaling_event_[w] # e
    /\ pc[w] = "dequeueMany" => \A j \in 1..idx[w] : raw_waitables[w][j] # e

EventInv(e) ==
    /\ signaled_[e] => waiters_[e] = <<>>
    /\ ~Free(e) => ~signaled_[e]
    /\ Visited(e) <= Len(waiters_[e])
    /\ NoneTwice(waiters_[e])
    /\ \A i \in (Visited(e) + 1)..Len(waiters_[e]) : WaitsFor(waiters_[e][i], e)

Ind(b) == IF b THEN 1 ELSE 0

OwedInv(e) ==
    /\ IsFiniteSet(Served(e))
    /\ owed[e] = Ind(signaled_[e]) + Cardinality(Served(e)) + Ind(MidSignal(e))

IInv ==
    /\ TypeOK
    /\ \A t \in Threads : CallInv(t)
    /\ LockInv
    /\ \A e \in Events : EventInv(e)
    /\ \A e \in AutoReset : OwedInv(e)
-----------------------------------------------------------------------------
(* The sorted array                                                        *)

\* The events of an array are as many as its elements.
LEMMA ArrayRange ==
    ASSUME NEW s, IsArray(s)
    PROVE  /\ Range(s) \subseteq Events /\ IsFiniteSet(Range(s))
           /\ Cardinality(Range(s)) = Len(s) /\ Len(s) \in Nat \ {0}
           /\ \A e \in Range(s) : \E i \in 1..Len(s) : s[i] = e
           /\ \A i \in 1..Len(s) : s[i] \in Range(s)
<1>1. s \in [1..Len(s) -> Events] /\ Len(s) \in Nat \ {0} /\ DOMAIN s = 1..Len(s)
  BY LenProperties DEF IsArray
<1>2. /\ \A e \in Range(s) : \E i \in 1..Len(s) : s[i] = e
      /\ \A i \in 1..Len(s) : s[i] \in Range(s)
      /\ Range(s) \subseteq Events
  BY <1>1 DEF Range
<1>3. s \in Bijection(1..Len(s), Range(s))
  BY <1>1, <1>2 DEF IsArray, NoneTwice, Bijection, Injection, Surjection, IsInjective
<1>4. IsFiniteSet(1..Len(s)) /\ Cardinality(1..Len(s)) = Len(s)
  BY <1>1, FS_Interval
<1> QED
  BY <1>1, <1>2, <1>3, <1>4, FS_Bijection DEF ExistsBijection

\* The ranks of the events of an array are the numbers below its length.
LEMMA Ranks ==
    ASSUME NEW s, IsArray(s)
    PROVE  /\ \A e \in Range(s) : Rank(s, e) \in 0..(Len(s) - 1)
           /\ \A e, f \in Range(s) : Rank(s, e) = Rank(s, f) => e = f
           /\ \A n \in 0..(Len(s) - 1) : \E e \in Range(s) : Rank(s, e) = n
<1> DEFINE R == Range(s)
           Below(e) == {f \in R : f < e}
<1>1. /\ R \subseteq Events /\ R \subseteq Nat /\ IsFiniteSet(R)
      /\ Cardinality(R) = Len(s) /\ Len(s) \in Nat \ {0}
  BY ArrayRange, EventsAssumption
<1> HIDE DEF R
<1>2. ASSUME NEW e \in R
      PROVE  /\ IsFiniteSet(Below(e)) /\ Cardinality(Below(e)) \in Nat
             /\ Cardinality(Below(e)) < Len(s)
  <2>1. Below(e) \in SUBSET R /\ e \notin Below(e)
    BY <1>1
  <2>2. /\ IsFiniteSet(Below(e)) /\ Cardinality(Below(e)) <= Cardinality(R)
        /\ Cardinality(R) = Cardinality(Below(e)) => R = Below(e)
    BY <1>1, <2>1, FS_Subset
  <2>3. Cardinality(Below(e)) \in Nat
    BY <2>2, FS_CardinalityType
  <2> QED
    BY <1>1, <2>1, <2>2, <2>3
<1>3. ASSUME NEW e \in R, NEW f \in R, e < f
      PROVE  Cardinality(Below(e)) # Cardinality(Below(f))
  <2>1. e \in Nat /\ f \in Nat /\ \A x \in R : x \in Nat
    BY <1>1
  <2>2. \A x \in Below(e) : x \in Below(f)
    BY <2>1, <1>3
  <2>3. e \in Below(f) /\ e \notin Below(e)
    BY <2>1, <1>3
  <2> HIDE DEF Below
  <2>4. Below(e) \in SUBSET Below(f)
    BY <2>2
  <2> QED
    BY <1>2, <2>3, <2>4, FS_Subset
<1>4. ASSUME NEW e \in R, NEW f \in R, Cardinality(Below(e)) = Cardinality(Below(f))
      PROVE  e = f
  <2>1. e \in Nat /\ f \in Nat
    BY <1>1
  <2>2. ~(e < f) /\ ~(f < e)
    BY <1>3, <1>4
  <2> QED
    BY <2>1, <2>2
<1> DEFINE g == [e \in R |-> Cardinality(Below(e))]
           N == 0..(Len(s) - 1)
<1>5. g \in Injection(R, N)
  <2> DEFINE c(e) == Cardinality(Below(e))
  <2>1. \A e \in R : c(e) \in N
    <3> SUFFICES ASSUME NEW e \in R PROVE c(e) \in N
      OBVIOUS
    <3>1. c(e) \in Nat /\ c(e) < Len(s) /\ Len(s) \in Nat
      BY <1>1, <1>2
    <3> HIDE DEF c
    <3> QED
      BY <3>1
  <2>2. \A e, f \in R : c(e) = c(f) => e = f
    BY <1>4
  <2>3. g = [e \in R |-> c(e)]
    OBVIOUS
  <2> HIDE DEF c, N, g
  <2> QED
    BY <2>1, <2>2, <2>3 DEF Injection, IsInjective
<1>6. IsFiniteSet(N) /\ Cardinality(N) = Cardinality(R)
  <2>1. 0 \in Int /\ Len(s) - 1 \in Int /\ ~(0 > Len(s) - 1) /\ Len(s) - 1 - 0 + 1 = Len(s)
    BY <1>1
  <2> QED
    BY <2>1, <1>1, FS_Interval
<1>7. g \in Surjection(R, N)
  <2> HIDE DEF g, N
  <2> QED
    BY <1>5, <1>6, FS_Injection
<1>8. \A n \in N : \E e \in R : Cardinality(Below(e)) = n
  BY <1>7 DEF Surjection
<1>9. \A e \in R : Cardinality(Below(e)) \in N
  BY <1>5 DEF Injection
<1>10. \A e : Rank(s, e) = Cardinality(Below(e))
  BY DEF Rank, R
<1> HIDE DEF Below
<1> QED
  BY <1>4, <1>8, <1>9, <1>10 DEF R

\* NthWaitable(t, n) is the event of rank n.
LEMMA Nth ==
    ASSUME NEW t, IsArray(raw_waitables[t]), NEW n \in 0..(Len(raw_waitables[t]) - 1)
    PROVE  /\ NthWaitable(t, n) \in Range(raw_waitables[t])
           /\ NthWaitable(t, n) \in Events
           /\ Rank(raw_waitables[t], NthWaitable(t, n)) = n
<1>1. \E e \in Range(raw_waitables[t]) :
         Cardinality({f \in Range(raw_waitables[t]) : f < e}) = n
  BY Ranks DEF Rank
<1> QED
  BY <1>1, ArrayRange DEF NthWaitable, Rank

-----------------------------------------------------------------------------
(* What a step leaves alone                                                *)

\* The type invariant but for owed, which is a natural number by OwedInv.
BaseTypeOK ==
    /\ signaled_ \in [Events -> BOOLEAN]
    /\ waiters_ \in [Events -> Seq(Threads)]
    /\ lock_ \in [Events -> Threads \cup {NoThread}]
    /\ fired_ \in [Threads -> BOOLEAN]
    /\ signaling_event_ \in [Threads -> Events \cup {NoEvent}]
    /\ pc \in [Threads -> PC]
    /\ raw_waitables \in [Threads -> Seq(Events)]
    /\ mode \in [Threads -> Mode]
    /\ idx \in [Threads -> Nat]
    /\ result \in [Threads -> Nat]
    /\ owed \in [Events -> Int]

Kept(u) ==
    /\ pc'[u] = pc[u] /\ raw_waitables'[u] = raw_waitables[u] /\ mode'[u] = mode[u]
    /\ idx'[u] = idx[u] /\ result'[u] = result[u]
    /\ fired_'[u] = fired_[u] /\ signaling_event_'[u] = signaling_event_[u]

OnlyMoves(t) == \A u \in Threads \ {t} : Kept(u)

\* Nothing of the invariant about e changes but what moving t does to it.
SameEvent(e) ==
    signaled_'[e] = signaled_[e] /\ waiters_'[e] = waiters_[e] /\ lock_'[e] = lock_[e]

ServedBy(t, e) ==
    \/ signaling_event_[t] = e
    \/ pc[t] = "unwinding" /\ raw_waitables[t][result[t]] = e

\* TypeOK in two parts.
LEMMA TypesHold ==
    TypeOK <=> BaseTypeOK /\ \A e \in Events : owed[e] \in Nat
<1>1. owed \in [Events -> Nat] <=> owed \in [Events -> Int] /\ \A e \in Events : owed[e] \in Nat
  <2>1. ASSUME owed \in [Events -> Nat]
        PROVE  owed \in [Events -> Int] /\ \A e \in Events : owed[e] \in Nat
    <3>1. \A e \in Events : owed[e] \in Nat /\ owed[e] \in Int
      BY <2>1
    <3> QED
      BY <2>1, <3>1
  <2>2. ASSUME owed \in [Events -> Int], \A e \in Events : owed[e] \in Nat
        PROVE  owed \in [Events -> Nat]
    BY <2>2
  <2> QED
    BY <2>1, <2>2
<1> QED
  BY <1>1 DEF TypeOK, BaseTypeOK

\* What is kept of a thread is kept of its call, its locks and its wait.
LEMMA KeptThread ==
    ASSUME NEW u, Kept(u)
    PROVE  /\ CallInv(u) => CallInv(u)'
           /\ \A e : Holds(u, e)' <=> Holds(u, e)
           /\ \A e : WaitsFor(u, e)' <=> WaitsFor(u, e)
           /\ \A e : ServedBy(u, e)' <=> ServedBy(u, e)
<1>1. CallInv(u) => CallInv(u)'
  BY DEF Kept, CallInv
<1>2. \A e : Holds(u, e)' <=> Holds(u, e)
  BY DEF Kept, Holds, Rank
<1>3. \A e : WaitsFor(u, e)' <=> WaitsFor(u, e)
  BY DEF Kept, WaitsFor
<1>4. \A e : ServedBy(u, e)' <=> ServedBy(u, e)
  BY DEF Kept, ServedBy
<1> QED
  BY <1>1, <1>2, <1>3, <1>4

\* Visited counts.
LEMMA VisitedType ==
    ASSUME BaseTypeOK, NEW e \in Events
    PROVE  Visited(e) \in Nat
<1>1. ~Free(e) => lock_[e] \in Threads
  BY DEF BaseTypeOK, Free
<1>2. ~Free(e) => idx[lock_[e]] \in Nat
  BY <1>1 DEF BaseTypeOK
<1> QED
  BY <1>2 DEF Visited

\* An event keeps its part of the invariant when its state and its wait-list stay as
\* they are and whoever waited for it still does.
LEMMA KeptEvent ==
    ASSUME BaseTypeOK, NEW e \in Events, EventInv(e),
           signaled_'[e] = signaled_[e], waiters_'[e] = waiters_[e],
           ~Free(e)' => ~signaled_[e], Visited(e)' = Visited(e),
           \A u \in Threads : WaitsFor(u, e) => WaitsFor(u, e)'
    PROVE  EventInv(e)'
<1> DEFINE w == waiters_[e]
           v == Visited(e)
<1>1. w \in Seq(Threads) /\ waiters_'[e] = w /\ \A i \in 1..Len(w) : w[i] \in Threads
  BY DEF BaseTypeOK
<1>2. v \in Nat /\ Visited(e)' = v
  BY VisitedType
<1>3. ASSUME NEW i \in (v + 1)..Len(w)
      PROVE  WaitsFor(waiters_[e][i], e)'
  <2>1. i \in 1..Len(w) /\ WaitsFor(w[i], e)
    BY <1>2 DEF EventInv
  <2>2. PICK u \in Threads : u = w[i]
    BY <2>1, <1>1
  <2>3. WaitsFor(u, e)' /\ u = waiters_'[e][i]
    BY <2>1, <2>2, <1>1
  <2> QED
    BY <2>3 DEF WaitsFor
<1>4. (signaled_'[e] => waiters_'[e] = <<>>) /\ (~Free(e)' => ~signaled_'[e])
      /\ v <= Len(waiters_'[e]) /\ NoneTwice(waiters_'[e])
  BY DEF EventInv
<1> HIDE DEF v
<1> QED
  BY <1>1, <1>2, <1>3, <1>4 DEF EventInv

\* The calls that have been told of e, when only w's changes.
LEMMA ServedCount ==
    ASSUME NEW e, IsFiniteSet(Served(e)), NEW w \in Threads,
           \A u \in Threads \ {w} : ServedBy(u, e)' <=> ServedBy(u, e)
    PROVE  /\ IsFiniteSet(Served(e)')
           /\ Cardinality(Served(e)) \in Nat /\ Cardinality(Served(e)') \in Nat
           /\ Cardinality(Served(e)') =
                 Cardinality(Served(e)) + Ind(ServedBy(w, e)') - Ind(ServedBy(w, e))
<1> DEFINE A == Served(e)
           B == Served(e)'
<1>1. /\ A = {u \in Threads : ServedBy(u, e)} /\ B = {u \in Threads : ServedBy(u, e)'}
  BY DEF Served, ServedBy
<1>2. Cardinality(A) \in Nat
  BY FS_CardinalityType
<1> HIDE DEF A, B
<1>3. CASE ServedBy(w, e)' /\ ~ServedBy(w, e)
  <2>1. B = A \cup {w} /\ w \notin A
    BY <1>1, <1>3
  <2>2. IsFiniteSet(B) /\ Cardinality(B) = Cardinality(A) + 1
    BY <2>1, FS_AddElement DEF A
  <2> QED
    BY <2>2, <1>2, <1>3 DEF Ind, A, B
<1>4. CASE ~ServedBy(w, e)' /\ ServedBy(w, e)
  <2>1. B = A \ {w} /\ w \in A
    BY <1>1, <1>4
  <2>2. IsFiniteSet(B) /\ Cardinality(B) = Cardinality(A) - 1
    BY <2>1, FS_RemoveElement DEF A
  <2>3. Cardinality(B) \in Nat
    BY <2>2, FS_CardinalityType
  <2> QED
    BY <2>2, <2>3, <1>2, <1>4 DEF Ind, A, B
<1>5. CASE ServedBy(w, e)' <=> ServedBy(w, e)
  <2>1. B = A
    BY <1>1, <1>5
  <2>2. Cardinality(B) = Cardinality(A) + Ind(ServedBy(w, e)') - Ind(ServedBy(w, e))
    BY <2>1, <1>2, <1>5 DEF Ind
  <2> QED
    BY <2>1, <2>2, <1>2 DEF A, B
<1> QED
  BY <1>3, <1>4, <1>5

\* What is owed changes as what it is owed for.
Balanced(w, e) ==
    /\ \A u \in Threads \ {w} : ServedBy(u, e)' <=> ServedBy(u, e)
    /\ owed'[e] + Ind(signaled_[e]) + Ind(ServedBy(w, e)) + Ind(MidSignal(e))
         = owed[e] + Ind(signaled_'[e]) + Ind(ServedBy(w, e)') + Ind(MidSignal(e)')

\* The count goes on being right when one thread's part of it changes as owed does.
LEMMA OwedKept ==
    ASSUME BaseTypeOK', NEW e \in Events, OwedInv(e), NEW w \in Threads, Balanced(w, e)
    PROVE  OwedInv(e)' /\ owed'[e] \in Nat
<1> DEFINE c == Cardinality(Served(e))
           d == Cardinality(Served(e)')
<1>1. IsFiniteSet(Served(e)') /\ c \in Nat /\ d \in Nat
      /\ d = c + Ind(ServedBy(w, e)') - Ind(ServedBy(w, e))
  BY ServedCount DEF OwedInv, Balanced
<1>2. owed[e] = Ind(signaled_[e]) + c + Ind(MidSignal(e))
  BY DEF OwedInv
<1>3. owed'[e] \in Int
  BY DEF BaseTypeOK
<1> HIDE DEF c, d
<1>4. owed'[e] = Ind(signaled_'[e]) + d + Ind(MidSignal(e)')
  BY <1>1, <1>2, <1>3 DEF Balanced, Ind
<1> QED
  BY <1>1, <1>4 DEF OwedInv, Ind, d

-----------------------------------------------------------------------------
(* A step of one thread                                                    *)

\* The part of the invariant about e is kept, or e is what the step is about.
EventStep(t, e) ==
    \/ /\ SameEvent(e)
       /\ lock_[e] = t => Visited(e)' = Visited(e)
       /\ WaitsFor(t, e) => WaitsFor(t, e)'
    \/ EventInv(e)'

LockStep(t, e) ==
    /\ lock_'[e] = lock_[e] \/ (lock_[e] \in {t, NoThread} /\ lock_'[e] \in {t, NoThread})
    /\ lock_'[e] = t <=> Holds(t, e)'

\* t is to hand out a signal of e.
InSignal(t, e) == lock_[e] = t /\ pc[t] \in {"signalOne", "popRefused"}

OwedStep(t, e) ==
    IF e \in AutoReset
      THEN owed'[e] + Ind(signaled_[e]) + Ind(ServedBy(t, e)) + Ind(InSignal(t, e))
             = owed[e] + Ind(signaled_'[e]) + Ind(ServedBy(t, e)') + Ind(InSignal(t, e)')
      ELSE owed'[e] = owed[e]

\* When only t moves, it is t that may begin or stop handing out a signal.
LEMMA MidSignalStep ==
    ASSUME BaseTypeOK, BaseTypeOK', NEW t \in Threads, OnlyMoves(t), NEW e \in Events,
           LockStep(t, e)
    PROVE  Ind(MidSignal(e)') - Ind(MidSignal(e)) = Ind(InSignal(t, e)') - Ind(InSignal(t, e))
<1>1. CASE lock_[e] \in {t, NoThread} /\ lock_'[e] \in {t, NoThread}
  <2>1. (MidSignal(e) <=> InSignal(t, e)) /\ (MidSignal(e)' <=> InSignal(t, e)')
    BY <1>1, NoThreadAssumption DEF MidSignal, InSignal
  <2> QED
    BY <2>1 DEF Ind
<1>2. CASE lock_[e] \notin {t, NoThread} /\ lock_'[e] = lock_[e]
  <2>1. PICK u \in Threads : u = lock_[e] /\ u = lock_'[e] /\ u # t
    BY <1>2 DEF BaseTypeOK
  <2>2. pc'[u] = pc[u]
    BY <2>1 DEF OnlyMoves, Kept
  <2>3. MidSignal(e)' <=> MidSignal(e)
    BY <2>1, <2>2 DEF MidSignal
  <2>4. ~InSignal(t, e) /\ ~InSignal(t, e)'
    BY <2>1 DEF InSignal
  <2> QED
    BY <2>3, <2>4 DEF Ind
<1> QED
  BY <1>1, <1>2 DEF LockStep

\* A step of t alone keeps the invariant when it keeps t's part of it, and the part of
\* every event it does not leave alone.
LEMMA StepOf ==
    ASSUME IInv, NEW t \in Threads, OnlyMoves(t), BaseTypeOK', CallInv(t)',
           \A e \in Events : LockStep(t, e) /\ EventStep(t, e),
           \A e \in Events : OwedStep(t, e)
    PROVE  IInv'
<1>1. BaseTypeOK /\ \A e \in Events : owed[e] \in Nat
  BY TypesHold DEF IInv
<1>2. \A u \in Threads : CallInv(u)'
  <2>1. \A u \in Threads \ {t} : CallInv(u)'
    BY KeptThread DEF IInv, OnlyMoves
  <2> QED
    BY <2>1
<1>3. LockInv'
  <2> SUFFICES ASSUME NEW e \in Events, NEW u \in Threads
               PROVE  lock_'[e] = u <=> Holds(u, e)'
    BY DEF LockInv
  <2>1. CASE u = t
    BY <2>1 DEF LockStep
  <2>2. CASE u # t
    <3>1. lock_[e] = u <=> Holds(u, e)'
      BY <2>2, KeptThread DEF IInv, LockInv, OnlyMoves
    <3>2. lock_'[e] = u <=> lock_[e] = u
      BY <2>2, NoThreadAssumption DEF LockStep
    <3> QED
      BY <3>1, <3>2
  <2> QED
    BY <2>1, <2>2
<1>4. ASSUME NEW e \in Events
      PROVE  EventInv(e)'
  <2> SUFFICES ASSUME SameEvent(e), lock_[e] = t => Visited(e)' = Visited(e),
                      WaitsFor(t, e) => WaitsFor(t, e)'
               PROVE  EventInv(e)'
    BY DEF EventStep
  <2>1. \A u \in Threads : WaitsFor(u, e) => WaitsFor(u, e)'
    BY KeptThread DEF OnlyMoves
  <2>2. Visited(e)' = Visited(e)
    <3>1. CASE Free(e)
      BY <3>1 DEF Visited, Free, SameEvent
    <3>2. CASE ~Free(e) /\ lock_[e] # t
      <4>1. Kept(lock_[e]) /\ lock_'[e] = lock_[e]
        BY <1>1, <3>2 DEF OnlyMoves, BaseTypeOK, Free, SameEvent
      <4> QED
        BY <4>1, <3>2 DEF Visited, Free, Kept
    <3> QED
      BY <3>1, <3>2
  <2>3. ~Free(e)' => ~signaled_[e]
    BY DEF SameEvent, Free, IInv, EventInv
  <2> QED
    BY <1>1, <2>1, <2>2, <2>3, KeptEvent DEF IInv, SameEvent
<1>5. ASSUME NEW e \in AutoReset
      PROVE  OwedInv(e)' /\ owed'[e] \in Nat
  <2>1. e \in Events
    BY <1>5 DEF AutoReset
  <2>2. \A u \in Threads \ {t} : ServedBy(u, e)' <=> ServedBy(u, e)
    BY KeptThread DEF OnlyMoves
  <2>3. Ind(MidSignal(e)') - Ind(MidSignal(e)) = Ind(InSignal(t, e)') - Ind(InSignal(t, e))
    BY <1>1, <2>1, MidSignalStep
  <2>4. owed[e] \in Int /\ owed'[e] \in Int
    BY <1>1, <2>1 DEF BaseTypeOK
  <2>5. Balanced(t, e)
    BY <2>1, <2>2, <2>3, <2>4 DEF OwedStep, Balanced, Ind
  <2> QED
    BY <2>1, <2>5, OwedKept DEF IInv
<1>6. \A e \in Events : owed'[e] \in Nat
  BY <1>1, <1>5 DEF OwedStep, AutoReset
<1>7. TypeOK'
  <2>1. owed' \in [Events -> Nat]
    BY <1>6 DEF BaseTypeOK
  <2> QED
    BY <2>1 DEF TypeOK, BaseTypeOK
<1> QED
  BY <1>2, <1>3, <1>4, <1>5, <1>7 DEF IInv
-----------------------------------------------------------------------------
(* The initial states and the calls without a wait                         *)

\* No call is in progress, and only an event that is signaled is owed for.
LEMMA InitIInv == Init => IInv
<1> SUFFICES ASSUME Init PROVE IInv
  OBVIOUS
<1>1. TypeOK
  <2>1. \A e \in Events : waiters_[e] = <<>> /\ <<>> \in Seq(Threads)
    BY DEF Init
  <2> QED
    BY <2>1 DEF Init, TypeOK, PC, Mode
<1>2. \A t \in Threads : CallInv(t)
  BY DEF Init, CallInv, Signalling
<1>3. LockInv
  BY NoThreadAssumption DEF Init, LockInv, Holds, Signalling
<1>4. \A e \in Events : EventInv(e)
  <2> SUFFICES ASSUME NEW e \in Events PROVE EventInv(e)
    OBVIOUS
  <2>1. waiters_[e] = <<>> /\ Len(waiters_[e]) = 0 /\ Free(e) /\ Visited(e) = 0
    BY DEF Init, Free, Visited
  <2> QED
    BY <2>1 DEF EventInv, NoneTwice
<1>5. \A e \in AutoReset : OwedInv(e)
  <2> SUFFICES ASSUME NEW e \in AutoReset PROVE OwedInv(e)
    OBVIOUS
  <2>1. e \in Events
    BY DEF AutoReset
  <2>2. Served(e) = {} /\ ~MidSignal(e) /\ owed[e] = Ind(signaled_[e])
    BY <2>1, NoEventAssumption DEF Init, Served, MidSignal, Ind
  <2>3. IsFiniteSet({}) /\ Cardinality({}) = 0
    BY FS_EmptySet
  <2> QED
    BY <2>2, <2>3 DEF OwedInv, Ind
<1> QED
  BY <1>1, <1>2, <1>3, <1>4, <1>5 DEF IInv

\* A step of t that touches no event, its locks, its waits or what it was told.
LEMMA OwnStep ==
    ASSUME IInv, NEW t \in Threads, OnlyMoves(t), BaseTypeOK', CallInv(t)',
           UNCHANGED <<kernel, owed>>,
           pc[t] \notin Signalling, pc'[t] \notin Signalling,
           \A e \in Events : /\ Holds(t, e)' <=> Holds(t, e)
                             /\ WaitsFor(t, e) => WaitsFor(t, e)'
                             /\ ServedBy(t, e)' <=> ServedBy(t, e)
    PROVE  IInv'
<1> SUFFICES ASSUME NEW e \in Events
             PROVE  LockStep(t, e) /\ EventStep(t, e) /\ OwedStep(t, e)
  BY StepOf
<1>1. LockStep(t, e)
  BY DEF LockStep, kernel, IInv, LockInv
<1>2. SameEvent(e)
  BY DEF SameEvent, kernel
<1>3. lock_[e] = t => Visited(e) = 0 /\ Visited(e)' = 0
  BY DEF Visited, kernel, Signalling
<1>4. ~InSignal(t, e) /\ ~InSignal(t, e)'
  BY DEF InSignal, Signalling
<1>5. owed[e] \in Int
  BY DEF IInv, TypeOK
<1>6. OwedStep(t, e)
  BY <1>4, <1>5 DEF OwedStep, Ind, kernel
<1> QED
  BY <1>1, <1>2, <1>3, <1>6 DEF EventStep

\* A thread in no call is told that e is signaled: the wait-list is empty.
LEMMA ToldStep ==
    ASSUME IInv, NEW t \in Threads, NEW e \in Events, NEW b \in BOOLEAN,
           Free(e), signaled_[e], signaled_' = [signaled_ EXCEPT ![e] = b],
           b => e \in ManualReset, Paid(e),
           UNCHANGED <<waiters_, lock_, waiter, call>>
    PROVE  IInv'
<1>1. OnlyMoves(t) /\ Kept(t)
  BY DEF OnlyMoves, Kept, waiter, call
<1>2. BaseTypeOK'
  <2>1. \A f \in Events : owed[f] \in Nat /\ owed[f] \in Int /\ owed[f] - 1 \in Int
    BY DEF IInv, TypeOK
  <2>2. owed' = [f \in Events |-> IF f = e /\ e \in AutoReset THEN owed[f] - 1 ELSE owed[f]]
    BY DEF Paid, IInv, TypeOK
  <2>3. owed' \in [Events -> Int]
    BY <2>1, <2>2
  <2> QED
    BY <2>3 DEF BaseTypeOK, IInv, TypeOK, waiter, call
<1> SUFFICES ASSUME NEW f \in Events
             PROVE  LockStep(t, f) /\ EventStep(t, f) /\ OwedStep(t, f)
  BY <1>1, <1>2, KeptThread, StepOf DEF IInv
<1>3. LockStep(t, f)
  BY <1>1, KeptThread DEF LockStep, IInv, LockInv
<1>4. EventStep(t, f)
  <2>1. CASE f # e
    <3>1. SameEvent(f) /\ Visited(f)' = Visited(f)
      BY <2>1 DEF SameEvent, Visited, Free, call, IInv, TypeOK
    <3> QED
      BY <3>1, <1>1, KeptThread DEF EventStep
  <2>2. CASE f = e
    <3>1. waiters_'[f] = <<>> /\ Len(waiters_'[f]) = 0 /\ Free(f)' /\ Visited(f)' = 0
      BY <2>2 DEF IInv, EventInv, Free, Visited
    <3> QED
      BY <3>1 DEF EventStep, EventInv, NoneTwice
  <2> QED
    BY <2>1, <2>2
<1>5. OwedStep(t, f)
  <2>1. (ServedBy(t, f)' <=> ServedBy(t, f)) /\ (InSignal(t, f)' <=> InSignal(t, f))
    BY <1>1, KeptThread DEF InSignal, Kept
  <2>2. owed[f] \in Nat /\ (f # e => owed'[f] = owed[f] /\ signaled_'[f] = signaled_[f])
    BY DEF Paid, IInv, TypeOK
  <2>3. f = e => /\ owed'[f] = (IF f \in AutoReset THEN owed[f] - 1 ELSE owed[f])
                 /\ signaled_'[f] = b
    BY DEF Paid, IInv, TypeOK
  <2> QED
    BY <2>1, <2>2, <2>3 DEF OwedStep, Ind, AutoReset
<1> QED
  BY <1>3, <1>4, <1>5

\* Reset() takes back a signal nobody has had.
LEMMA ResetStep ==
    ASSUME IInv, NEW t \in Threads, NEW e \in Events, Reset(t, e)
    PROVE  IInv'
BY ToldStep DEF Reset

\* IsSignaled() reports a signal and takes it unless the event is manual.
LEMMA IsSignaledStep ==
    ASSUME IInv, NEW t \in Threads, NEW e \in Events, IsSignaled(t, e)
    PROVE  IInv'
<1>1. (e \in ManualReset) \in BOOLEAN
  OBVIOUS
<1> QED
  BY <1>1, ToldStep DEF IsSignaled, AutoResets

-----------------------------------------------------------------------------
(* Wait and TimedWait                                                      *)

\* A thread in no call holds no lock, is in no wait-list Signal() has yet to look at
\* and was told of no event.
LEMMA IdleThread ==
    ASSUME IInv, NEW t \in Threads, pc[t] = "idle"
    PROVE  /\ idx[t] = 0 /\ result[t] = 0 /\ ~fired_[t] /\ signaling_event_[t] = NoEvent
           /\ \A e \in Events : lock_[e] # t /\ ~WaitsFor(t, e) /\ ~ServedBy(t, e)
<1>1. idx[t] = 0 /\ result[t] = 0 /\ ~fired_[t] /\ signaling_event_[t] = NoEvent
  BY DEF IInv, CallInv
<1>2. \A e \in Events : ~Holds(t, e) /\ ~WaitsFor(t, e) /\ ~ServedBy(t, e)
  BY <1>1, NoEventAssumption DEF Holds, WaitsFor, ServedBy, Signalling, Waiting
<1> QED
  BY <1>1, <1>2 DEF IInv, LockInv

\* A waiter that joins the end of a wait-list Signal() is not walking.
LEMMA Enqueued ==
    ASSUME BaseTypeOK, NEW t \in Threads, OnlyMoves(t), NEW e \in Events, EventInv(e),
           ~signaled_[e], ~signaled_'[e], waiters_'[e] = Append(waiters_[e], t),
           Visited(e) = 0, Visited(e)' = 0, ~WaitsFor(t, e), WaitsFor(t, e)'
    PROVE  EventInv(e)'
<1> DEFINE s == waiters_[e]
<1>1. s \in Seq(Threads) /\ NoneTwice(s) /\ Len(s) \in Nat
  BY DEF BaseTypeOK, EventInv
<1>2. \A i \in 1..Len(s) : s[i] \in Threads
  BY <1>1
<1>3. \A i \in 1..Len(s) : WaitsFor(s[i], e)
  BY DEF EventInv
<1>4. \A i \in 1..Len(s) : s[i] # t
  BY <1>3
<1> HIDE DEF s
<1>5. /\ Append(s, t) \in Seq(Threads) /\ NoneTwice(Append(s, t))
      /\ \A i \in 1..Len(Append(s, t)) :
            Append(s, t)[i] = t \/ (i \in 1..Len(s) /\ Append(s, t)[i] = s[i])
  BY <1>1, <1>4, Appended
<1>6. ASSUME NEW i \in 1..Len(waiters_'[e])
      PROVE  WaitsFor(waiters_[e][i], e)'
  <2>1. PICK u \in Threads : u = waiters_'[e][i] /\ (u = t \/ WaitsFor(u, e))
    BY <1>2, <1>3, <1>5 DEF s
  <2>2. WaitsFor(u, e)'
    BY <2>1, KeptThread DEF OnlyMoves
  <2> QED
    BY <2>1, <2>2 DEF WaitsFor
<1>7. NoneTwice(waiters_'[e]) /\ Len(waiters_'[e]) \in Nat
  BY <1>5 DEF s
<1> QED
  BY <1>6, <1>7 DEF EventInv

\* The first step of TimedWait: a signaled event is reported, another one queued for.
LEMMA TimedWaitStep ==
    ASSUME IInv, NEW t \in Threads, NEW e \in Events, NEW how \in {"wait", "timed"},
           TimedWait(t, e, how)
    PROVE  IInv'
<1>1. CASE signaled_[e]
  <2>1. (e \in ManualReset) \in BOOLEAN
    OBVIOUS
  <2> QED
    BY <1>1, <2>1, ToldStep DEF TimedWait, AutoResets
<1>2. CASE ~signaled_[e]
  <2>1. /\ pc[t] = "idle" /\ pc' = [pc EXCEPT ![t] = "armed"]
        /\ raw_waitables' = [raw_waitables EXCEPT ![t] = <<e>>]
        /\ mode' = [mode EXCEPT ![t] = how]
        /\ waiters_' = [waiters_ EXCEPT ![e] = Append(@, t)]
        /\ UNCHANGED <<idx, result, signaled_, owed, lock_, waiter>> /\ Free(e)
    BY <1>2 DEF TimedWait, Enter
  <2>2. /\ <<e>> \in Seq(Events) /\ Len(<<e>>) = 1 /\ <<e>>[1] = e
        /\ NoneTwice(<<e>>) /\ Range(<<e>>) = {e}
    BY OneElement
  <2>3. /\ idx[t] = 0 /\ result[t] = 0 /\ ~fired_[t] /\ signaling_event_[t] = NoEvent
        /\ \A f \in Events : lock_[f] # t /\ ~WaitsFor(t, f) /\ ~ServedBy(t, f)
    BY <2>1, IdleThread
  <2>4. OnlyMoves(t)
    BY <2>1 DEF OnlyMoves, Kept, IInv, TypeOK, waiter
  <2>5. /\ pc'[t] = "armed" /\ raw_waitables'[t] = <<e>> /\ mode'[t] = how
        /\ idx'[t] = 0 /\ result'[t] = 0 /\ ~fired_'[t] /\ signaling_event_'[t] = NoEvent
    BY <2>1, <2>3 DEF IInv, TypeOK, waiter
  <2>6. BaseTypeOK
    BY TypesHold DEF IInv
  <2>7. BaseTypeOK'
    <3>1. waiters_' \in [Events -> Seq(Threads)]
      BY <2>1, <2>6 DEF BaseTypeOK
    <3>2. raw_waitables' \in [Threads -> Seq(Events)] /\ mode' \in [Threads -> Mode]
      BY <2>1, <2>2, <2>6 DEF BaseTypeOK, Mode
    <3> QED
      BY <2>1, <2>6, <3>1, <3>2 DEF BaseTypeOK, PC, waiter
  <2>8. CallInv(t)'
    BY <2>2, <2>5 DEF CallInv, IsArray, Signalling
  <2> SUFFICES ASSUME NEW f \in Events
               PROVE  LockStep(t, f) /\ EventStep(t, f) /\ OwedStep(t, f)
    BY <2>4, <2>7, <2>8, StepOf
  <2>9. LockStep(t, f)
    BY <2>1, <2>3, <2>5 DEF LockStep, Holds, Signalling
  <2>10. EventStep(t, f)
    <3>1. CASE f # e
      BY <2>1, <2>3, <3>1 DEF EventStep, SameEvent, IInv, TypeOK
    <3>2. CASE f = e
      <4>1. Visited(e) = 0 /\ Visited(e)' = 0
        BY <2>1 DEF Visited, Free
      <4>2. WaitsFor(t, e)'
        BY <2>2, <2>5, NoEventAssumption DEF WaitsFor, Waiting
      <4>3. waiters_'[e] = Append(waiters_[e], t) /\ ~signaled_'[e] /\ EventInv(e)
        BY <1>2, <2>1, <2>6 DEF BaseTypeOK, IInv
      <4> QED
        BY <1>2, <2>3, <2>4, <2>6, <3>2, <4>1, <4>2, <4>3, Enqueued DEF EventStep
    <3> QED
      BY <3>1, <3>2
  <2>11. OwedStep(t, f)
    <3>1. ~ServedBy(t, f) /\ ~ServedBy(t, f)' /\ ~InSignal(t, f) /\ ~InSignal(t, f)'
      BY <2>1, <2>3, <2>5, NoEventAssumption DEF ServedBy, InSignal
    <3> QED
      BY <2>1, <2>6, <3>1 DEF OwedStep, Ind, BaseTypeOK
  <2> QED
    BY <2>9, <2>10, <2>11
<1> QED
  BY <1>1, <1>2

\* A step of a sleeping or waking thread that changes its pc and mode alone.
LEMMA AsleepStep ==
    ASSUME IInv, NEW t \in Threads, NEW p \in {"armed", "blocked", "awake"}, NEW m \in Mode,
           pc[t] \in {"armed", "blocked", "awake"}, mode[t] = "many" <=> m = "many",
           pc' = [pc EXCEPT ![t] = p], mode' = [mode EXCEPT ![t] = m],
           UNCHANGED <<kernel, waiter, raw_waitables, idx, result, owed>>
    PROVE  IInv'
<1>1. OnlyMoves(t)
  BY DEF OnlyMoves, Kept, IInv, TypeOK, waiter
<1>2. /\ pc'[t] = p /\ mode'[t] = m /\ raw_waitables'[t] = raw_waitables[t]
      /\ idx'[t] = idx[t] /\ result'[t] = result[t]
      /\ fired_'[t] = fired_[t] /\ signaling_event_'[t] = signaling_event_[t]
  BY DEF IInv, TypeOK, waiter
<1>3. BaseTypeOK'
  <2>1. BaseTypeOK
    BY TypesHold DEF IInv
  <2> QED
    BY <2>1 DEF BaseTypeOK, PC, waiter, kernel
<1>4. CallInv(t)'
  <2>1. CallInv(t)
    BY DEF IInv
  <2> QED
    BY <1>2, <2>1 DEF CallInv, IsArray, Signalling
<1>5. \A e \in Events : /\ Holds(t, e)' <=> Holds(t, e)
                        /\ WaitsFor(t, e) => WaitsFor(t, e)'
                        /\ ServedBy(t, e)' <=> ServedBy(t, e)
  BY <1>2 DEF Holds, WaitsFor, ServedBy, Signalling, Waiting
<1>6. pc[t] \notin Signalling /\ pc'[t] \notin Signalling
  BY <1>2 DEF Signalling
<1> QED
  BY <1>1, <1>3, <1>4, <1>5, <1>6, OwnStep

\* end_time passes.
LEMMA EndTimePassesStep ==
    ASSUME IInv, NEW t \in Threads, EndTimePasses(t)
    PROVE  IInv'
<1> DEFINE p == IF pc[t] = "blocked" THEN "awake" ELSE pc[t]
<1>1. pc[t] \in {"armed", "blocked", "awake"} /\ p \in {"armed", "blocked", "awake"}
      /\ "expired" \in Mode /\ mode[t] # "many" /\ "expired" # "many"
  BY DEF EndTimePasses, Mode
<1>2. pc' = [pc EXCEPT ![t] = p] /\ mode' = [mode EXCEPT ![t] = "expired"]
      /\ UNCHANGED <<kernel, waiter, raw_waitables, idx, result, owed>>
  BY DEF EndTimePasses, Goto
<1> HIDE DEF p
<1> QED
  BY <1>1, <1>2, AsleepStep

\* The condition variable returns for no reason.
LEMMA SpuriousWakeupStep ==
    ASSUME IInv, NEW t \in Threads, SpuriousWakeup(t)
    PROVE  IInv'
<1>1. pc[t] = "blocked" /\ pc' = [pc EXCEPT ![t] = "awake"] /\ mode[t] \in Mode
      /\ mode' = [mode EXCEPT ![t] = mode[t]]
      /\ UNCHANGED <<kernel, waiter, raw_waitables, idx, result, owed>>
  BY DEF SpuriousWakeup, Goto, IInv, TypeOK
<1> QED
  BY <1>1, AsleepStep

\* The waiter notes whether it was fired, and goes back to sleep or leaves disabled.
LEMMA CheckFiredStep ==
    ASSUME IInv, NEW t \in Threads, CheckFired(t)
    PROVE  IInv'
<1>1. pc[t] \in {"armed", "awake"} /\ mode[t] \in Mode
      /\ UNCHANGED <<kernel, signaling_event_, raw_waitables, mode, idx, owed>>
  BY DEF CheckFired, IInv, TypeOK
<1>2. CASE ~(fired_[t] \/ mode[t] = "expired")
  <2>1. /\ pc' = [pc EXCEPT ![t] = "blocked"] /\ mode' = [mode EXCEPT ![t] = mode[t]]
        /\ UNCHANGED <<kernel, waiter, raw_waitables, idx, result, owed>>
    BY <1>2 DEF CheckFired, Goto, waiter, IInv, TypeOK
  <2> QED
    BY <1>1, <2>1, AsleepStep
<1>3. CASE fired_[t] \/ mode[t] = "expired"
  <2> DEFINE p == IF mode[t] = "many" THEN "dequeueMany" ELSE "dequeue"
             r == IF fired_[t] THEN 1 ELSE 0
  <2>1. /\ result' = [result EXCEPT ![t] = r] /\ fired_' = [fired_ EXCEPT ![t] = TRUE]
        /\ pc' = [pc EXCEPT ![t] = p]
    BY <1>3 DEF CheckFired, Goto
  <2>2. /\ r \in Nat /\ p \in PC /\ p \in {"dequeue", "dequeueMany"} 
        /\ (p = "dequeueMany" <=> mode[t] = "many")
        /\ (r = 1 <=> fired_[t])
        /\ (mode[t] = "many" => fired_[t])
    BY <1>3 DEF PC
  <2> HIDE DEF p, r
  <2>3. OnlyMoves(t)
    BY <1>1, <2>1 DEF OnlyMoves, Kept, IInv, TypeOK
  <2>4. /\ pc'[t] = p /\ mode'[t] = mode[t] /\ raw_waitables'[t] = raw_waitables[t]
        /\ idx'[t] = idx[t] /\ result'[t] = r
        /\ fired_'[t] /\ signaling_event_'[t] = signaling_event_[t]
    BY <1>1, <2>1 DEF IInv, TypeOK
  <2>5. BaseTypeOK'
    <3>1. BaseTypeOK
      BY TypesHold DEF IInv
    <3> QED
      BY <1>1, <2>1, <2>2, <3>1 DEF BaseTypeOK, kernel
  <2>6. CallInv(t)'
    <3>1. /\ idx[t] = 0 /\ (mode[t] # "many" => Len(raw_waitables[t]) = 1)
          /\ (fired_[t] <=> signaling_event_[t] # NoEvent)
          /\ signaling_event_[t] \in Range(raw_waitables[t]) \cup {NoEvent}
          /\ IsArray(raw_waitables[t])
      BY <1>1 DEF CallInv, IInv
    <3>2. Len(raw_waitables[t]) \in Nat \ {0}
          /\ \A e \in Range(raw_waitables[t]) : \E i \in 1..Len(raw_waitables[t]) : raw_waitables[t][i] = e
      BY <3>1, ArrayRange
    <3>3. CASE p = "dequeue"
      <4>1. Len(raw_waitables[t]) = 1
        BY <2>2, <3>1, <3>3
      <4>2. signaling_event_[t] \in {raw_waitables[t][1], NoEvent}
        BY <3>1, <3>2, <4>1
      <4> QED
        BY <2>2, <2>4, <3>1, <3>3, <4>1, <4>2 DEF CallInv, Signalling, IsArray
    <3>4. CASE p = "dequeueMany"
      <4>1. r = 1 /\ r \in 1..Len(raw_waitables[t]) /\ idx[t] < Len(raw_waitables[t])
            /\ signaling_event_[t] \in Range(raw_waitables[t])
            /\ \A j \in 1..idx[t] : FALSE
        BY <2>2, <3>1, <3>2, <3>4
      <4> QED
        BY <2>4, <3>1, <3>4, <4>1 DEF CallInv, Signalling, IsArray
    <3> QED
      BY <2>2, <3>3, <3>4
  <2>7. \A e \in Events : /\ Holds(t, e)' <=> Holds(t, e)
                          /\ WaitsFor(t, e) => WaitsFor(t, e)'
                          /\ ServedBy(t, e)' <=> ServedBy(t, e)
    <3>1. idx[t] = 0
      BY <1>1 DEF CallInv, IInv
    <3>2. \A j \in 1..idx'[t] : FALSE
      BY <2>4, <3>1
    <3> QED
      BY <1>1, <2>2, <2>4, <3>2 DEF Holds, WaitsFor, ServedBy, Signalling, Waiting
  <2>8. pc[t] \notin Signalling /\ pc'[t] \notin Signalling
    BY <1>1, <2>2, <2>4 DEF Signalling
  <2> QED
    BY <1>1, <2>3, <2>5, <2>6, <2>7, <2>8, OwnStep
<1> QED
  BY <1>2, <1>3

\* A thread whose call returns is in no call, no wait-list and at no signal.
LEMMA Returned ==
    ASSUME BaseTypeOK, NEW t \in Threads, Return(t)
    PROVE  /\ OnlyMoves(t) /\ CallInv(t)'
           /\ pc' \in [Threads -> PC] /\ raw_waitables' \in [Threads -> Seq(Events)]
           /\ mode' \in [Threads -> Mode]
           /\ idx' \in [Threads -> Nat] /\ result' \in [Threads -> Nat]
           /\ fired_' \in [Threads -> BOOLEAN]
           /\ signaling_event_' \in [Threads -> Events \cup {NoEvent}]
           /\ pc'[t] = "idle"
           /\ \A e \in Events : /\ ~Holds(t, e)' /\ ~WaitsFor(t, e)'
                                /\ ~ServedBy(t, e)' /\ ~InSignal(t, e)'
<1>1. OnlyMoves(t)
  BY DEF OnlyMoves, Kept, Return, BaseTypeOK
<1>2. /\ pc' \in [Threads -> PC] /\ raw_waitables' \in [Threads -> Seq(Events)]
      /\ mode' \in [Threads -> Mode]
      /\ idx' \in [Threads -> Nat] /\ result' \in [Threads -> Nat]
      /\ fired_' \in [Threads -> BOOLEAN]
      /\ signaling_event_' \in [Threads -> Events \cup {NoEvent}]
  BY DEF Return, BaseTypeOK, PC, Mode
<1>3. /\ pc'[t] = "idle" /\ raw_waitables'[t] = <<>> /\ mode'[t] = "wait" /\ idx'[t] = 0
      /\ result'[t] = 0 /\ ~fired_'[t] /\ signaling_event_'[t] = NoEvent
  BY DEF Return, BaseTypeOK
<1>4. CallInv(t)'
  BY <1>3 DEF CallInv, Signalling
<1>5. \A e \in Events : /\ ~Holds(t, e)' /\ ~WaitsFor(t, e)'
                        /\ ~ServedBy(t, e)' /\ ~InSignal(t, e)'
  BY <1>3, NoEventAssumption DEF Holds, WaitsFor, ServedBy, InSignal, Signalling, Waiting
<1> QED
  BY <1>1, <1>2, <1>3, <1>4, <1>5

\* A waiter that leaves a wait-list Signal() is not walking.
LEMMA Dequeued ==
    ASSUME BaseTypeOK, NEW t \in Threads, OnlyMoves(t), NEW e \in Events, EventInv(e),
           Free(e), Free(e)', signaled_'[e] = signaled_[e],
           waiters_'[e] = RemoveFirst(waiters_[e], t)
    PROVE  EventInv(e)'
<1> DEFINE s == waiters_[e]
           r == RemoveFirst(s, t)
<1>1. s \in Seq(Threads) /\ NoneTwice(s) /\ Len(s) \in Nat
  BY DEF BaseTypeOK, EventInv
<1>2. /\ r \in Seq(Threads) /\ NoneTwice(r)
      /\ \A j \in 1..Len(r) : r[j] # t /\ \E i \in 1..Len(s) : r[j] = s[i]
  BY <1>1, RemovedFirst
<1>3. Visited(e) = 0 /\ Visited(e)' = 0
  BY DEF Visited
<1>4. \A i \in 1..Len(s) : s[i] \in Threads /\ WaitsFor(s[i], e)
  BY <1>1, <1>3 DEF EventInv
<1> HIDE DEF s, r
<1>5. ASSUME NEW j \in 1..Len(waiters_'[e])
      PROVE  WaitsFor(waiters_[e][j], e)'
  <2>1. PICK u \in Threads : u = waiters_'[e][j] /\ u # t /\ WaitsFor(u, e)
    BY <1>2, <1>4 DEF r, s
  <2>2. WaitsFor(u, e)'
    BY <2>1, KeptThread DEF OnlyMoves
  <2> QED
    BY <2>1, <2>2 DEF WaitsFor
<1>6. signaled_'[e] => waiters_'[e] = <<>>
  <2> SUFFICES ASSUME s = <<>> PROVE r = <<>>
    BY DEF EventInv, s, r
  <2>1. \A j \in 1..Len(r) : FALSE
    BY <1>2
  <2> QED
    BY <1>2, <2>1
<1>7. Len(waiters_'[e]) \in Nat /\ NoneTwice(waiters_'[e])
  BY <1>2 DEF r, s
<1> QED
  BY <1>3, <1>5, <1>6, <1>7 DEF EventInv

\* TimedWait leaves the wait-list and reports the signal, if it was fired.
LEMMA DequeueStep ==
    ASSUME IInv, NEW t \in Threads, Dequeue(t)
    PROVE  IInv'
<1>0. IsArray(raw_waitables[t]) /\ Len(raw_waitables[t]) = 1
  BY DEF Dequeue, IInv, CallInv
<1>10. PICK e \in Events : e = raw_waitables[t][1]
  BY <1>0, ArrayRange
<1>1. /\ pc[t] = "dequeue" /\ Free(e) /\ Return(t) /\ UNCHANGED <<signaled_, lock_>>
      /\ waiters_' = [waiters_ EXCEPT ![e] = RemoveFirst(@, t)]
      /\ IF result[t] = 1 THEN Paid(e) ELSE UNCHANGED owed
  BY <1>10 DEF Dequeue
<1>2. BaseTypeOK
  BY TypesHold DEF IInv
<1>3. signaling_event_[t] \in {e, NoEvent} /\ (result[t] = 1 <=> signaling_event_[t] # NoEvent)
  BY <1>10, <1>1 DEF IInv, CallInv
<1>4. Range(raw_waitables[t]) = {e}
  BY <1>0, <1>10, ArrayRange
<1>5. BaseTypeOK'
  <2>1. waiters_[e] \in Seq(Threads) /\ NoneTwice(waiters_[e])
    BY <1>2, <1>4 DEF BaseTypeOK, IInv, EventInv
  <2>2. RemoveFirst(waiters_[e], t) \in Seq(Threads)
    BY <2>1, RemovedFirst
  <2>3. waiters_' \in [Events -> Seq(Threads)]
    BY <1>1, <1>2, <2>2 DEF BaseTypeOK
  <2>4. owed' \in [Events -> Int]
    <3>1. owed[e] - 1 \in Int
      BY <1>2, <1>4 DEF BaseTypeOK
    <3> QED
      BY <1>1, <1>2, <3>1 DEF BaseTypeOK, Paid
  <2> QED
    BY <1>1, <1>2, <2>3, <2>4, Returned DEF BaseTypeOK
<1> SUFFICES ASSUME NEW f \in Events
             PROVE  LockStep(t, f) /\ EventStep(t, f) /\ OwedStep(t, f)
  BY <1>1, <1>2, <1>5, Returned, StepOf
<1>6. lock_[f] # t /\ (f # e => ~WaitsFor(t, f)) /\ ~InSignal(t, f)
  BY <1>1, <1>4 DEF IInv, LockInv, Holds, Signalling, WaitsFor, InSignal
<1>7. LockStep(t, f)
  BY <1>1, <1>2, <1>6, Returned DEF LockStep
<1>8. EventStep(t, f)
  <2>1. CASE f # e
    BY <1>1, <1>2, <1>6, <2>1 DEF EventStep, SameEvent, BaseTypeOK
  <2>2. CASE f = e
    <3>1. waiters_'[e] = RemoveFirst(waiters_[e], t) /\ Free(e)' /\ signaled_'[e] = signaled_[e]
      BY <1>1, <1>2, <1>4 DEF BaseTypeOK, Free
    <3>2. EventInv(e)'
      BY <1>1, <1>2, <1>4, <3>1, Returned, Dequeued DEF IInv
    <3> QED
      BY <2>2, <3>2 DEF EventStep
  <2> QED
    BY <2>1, <2>2
<1>9. OwedStep(t, f)
  <2>1. ServedBy(t, f) <=> f = e /\ result[t] = 1
    BY <1>1, <1>3, NoEventAssumption DEF ServedBy
  <2>2. ~ServedBy(t, f)' /\ ~InSignal(t, f)'
    BY <1>1, <1>2, Returned
  <2>3. owed[f] \in Int /\ signaled_'[f] = signaled_[f]
    BY <1>1, <1>2 DEF BaseTypeOK
  <2>4. owed'[f] = IF f = e /\ result[t] = 1 /\ f \in AutoReset THEN owed[f] - 1 ELSE owed[f]
    BY <1>1, <1>2 DEF BaseTypeOK, Paid
  <2> QED
    BY <1>6, <2>1, <2>2, <2>3, <2>4 DEF OwedStep, Ind
<1> QED
  BY <1>7, <1>8, <1>9

-----------------------------------------------------------------------------
(* WaitMany                                                                *)

\* The arrays of WaitMany's callers.
LEMMA RawArrayIs ==
    ASSUME NEW s \in RawArrays
    PROVE  IsArray(s)
<1>1. Cardinality(Events) \in Nat
  BY EventsAssumption, FS_CardinalityType
<1>2. PICK n \in 1..Cardinality(Events) : s \in [1..n -> Events]
  BY DEF RawArrays
<1>3. n \in Nat /\ n >= 1 /\ s \in Seq(Events) /\ Len(s) = n /\ DOMAIN s = 1..n
  BY <1>1, <1>2
<1>4. \A i, j \in DOMAIN s : s[i] = s[j] => i = j
  BY DEF RawArrays
<1> QED
  BY <1>3, <1>4 DEF IsArray, NoneTwice

\* A call of WaitMany begins.
LEMMA WaitManyStep ==
    ASSUME IInv, NEW t \in Threads, NEW events \in RawArrays, WaitMany(t, events)
    PROVE  IInv'
<1>1. /\ pc[t] = "idle" /\ pc' = [pc EXCEPT ![t] = "locking"]
      /\ raw_waitables' = [raw_waitables EXCEPT ![t] = events]
      /\ mode' = [mode EXCEPT ![t] = "many"]
      /\ UNCHANGED <<kernel, waiter, owed, idx, result>>
  BY DEF WaitMany, Enter
<1>2. IsArray(events)
  BY RawArrayIs
<1>3. /\ idx[t] = 0 /\ result[t] = 0 /\ ~fired_[t] /\ signaling_event_[t] = NoEvent
      /\ \A e \in Events : lock_[e] # t /\ ~WaitsFor(t, e) /\ ~ServedBy(t, e)
  BY <1>1, IdleThread
<1>4. OnlyMoves(t)
  BY <1>1 DEF OnlyMoves, Kept, IInv, TypeOK, waiter
<1>5. /\ pc'[t] = "locking" /\ raw_waitables'[t] = events /\ mode'[t] = "many"
      /\ idx'[t] = 0 /\ ~fired_'[t] /\ signaling_event_'[t] = NoEvent
  BY <1>1, <1>3 DEF IInv, TypeOK, waiter
<1>6. BaseTypeOK'
  <2>1. BaseTypeOK
    BY TypesHold DEF IInv
  <2> QED
    BY <1>1, <1>2, <2>1 DEF BaseTypeOK, PC, Mode, waiter, kernel, IsArray
<1>7. CallInv(t)'
  <2>1. 0 < Len(events)
    BY <1>2, ArrayRange
  <2> QED
    BY <1>2, <1>5, <2>1 DEF CallInv, Signalling, IsArray
<1>8. \A e \in Events : /\ ~Holds(t, e) /\ ~Holds(t, e)'
                        /\ ~ServedBy(t, e) /\ ~ServedBy(t, e)' /\ ~WaitsFor(t, e)
  <2> SUFFICES ASSUME NEW e \in Events
               PROVE  ~Holds(t, e) /\ ~Holds(t, e)' /\ ~ServedBy(t, e)'
    BY <1>3
  <2>1. ~Holds(t, e)
    BY <1>1 DEF Holds, Signalling
  <2>2. e \in Range(events) => Rank(events, e) >= 0
    BY <1>2, Ranks
  <2>3. e \in Range(events) => ~(Rank(events, e) < 0)
    <3>1. e \in Range(events) => Rank(events, e) \in 0..(Len(events) - 1)
      BY <1>2, Ranks
    <3> QED
      BY <3>1
  <2>4. ~Holds(t, e)'
    BY <1>5, <2>3 DEF Holds, Signalling, Rank
  <2>5. ~ServedBy(t, e)'
    BY <1>5, NoEventAssumption DEF ServedBy
  <2> QED
    BY <2>1, <2>4, <2>5
<1>9. pc[t] \notin Signalling /\ pc'[t] \notin Signalling
  BY <1>1, <1>5 DEF Signalling
<1> QED
  BY <1>1, <1>4, <1>6, <1>7, <1>8, <1>9, OwnStep

\* A step of t that takes or gives back the lock of e, and no more.
LEMMA LockedOrFreed ==
    ASSUME IInv, NEW t \in Threads, OnlyMoves(t), BaseTypeOK', CallInv(t)', NEW e \in Events,
           NEW h \in {t, NoThread}, lock_[e] \in {t, NoThread}, ~signaled_[e],
           lock_' = [lock_ EXCEPT ![e] = h], UNCHANGED <<signaled_, waiters_, owed>>,
           pc[t] \notin Signalling, pc'[t] \notin Signalling,
           \A f \in Events : /\ Holds(t, f)' <=> IF f = e THEN h = t ELSE Holds(t, f)
                             /\ WaitsFor(t, f) => WaitsFor(t, f)'
                             /\ ServedBy(t, f)' <=> ServedBy(t, f)
    PROVE  IInv'
<1>1. BaseTypeOK
  BY TypesHold DEF IInv
<1> SUFFICES ASSUME NEW f \in Events
             PROVE  LockStep(t, f) /\ EventStep(t, f) /\ OwedStep(t, f)
  BY StepOf
<1>2. lock_'[f] = IF f = e THEN h ELSE lock_[f]
  BY <1>1 DEF BaseTypeOK
<1>3. LockStep(t, f)
  BY <1>2, NoThreadAssumption DEF LockStep, IInv, LockInv
<1>4. /\ lock_[f] \in {t, NoThread} => Visited(f) = 0
      /\ lock_'[f] \in {t, NoThread} => Visited(f)' = 0
  BY DEF Visited, Free, Signalling
<1>5. EventStep(t, f)
  <2>1. CASE f # e
    BY <1>2, <1>4, <2>1 DEF EventStep, SameEvent
  <2>2. CASE f = e
    <3>1. \A u \in Threads : WaitsFor(u, f) => WaitsFor(u, f)'
      BY KeptThread DEF OnlyMoves
    <3>2. EventInv(f)'
      BY <1>1, <1>2, <1>4, <2>2, <3>1, KeptEvent DEF IInv
    <3> QED
      BY <3>2 DEF EventStep
  <2> QED
    BY <2>1, <2>2
<1>6. OwedStep(t, f)
  <2>1. ~InSignal(t, f) /\ ~InSignal(t, f)' /\ owed[f] \in Int
    BY <1>1 DEF InSignal, Signalling, BaseTypeOK
  <2> QED
    BY <2>1 DEF OwedStep, Ind
<1> QED
  BY <1>3, <1>5, <1>6

\* A call returns and reports e, the one event it was told of.
LEMMA ReportedAndReturned ==
    ASSUME IInv, NEW t \in Threads, NEW e \in Events, Return(t), Paid(e),
           UNCHANGED <<signaled_, lock_>>, waiters_' \in [Events -> Seq(Threads)],
           \A f \in Events :
              /\ lock_[f] # t
              /\ ServedBy(t, f) <=> f = e
              /\ \/ waiters_'[f] = waiters_[f] /\ ~WaitsFor(t, f)
                 \/ Free(f) /\ waiters_'[f] = RemoveFirst(waiters_[f], t)
    PROVE  IInv'
<1>1. BaseTypeOK
  BY TypesHold DEF IInv
<1>2. BaseTypeOK'
  <2>1. owed[e] - 1 \in Int
    BY <1>1 DEF BaseTypeOK
  <2>2. owed' \in [Events -> Int]
    BY <1>1, <2>1 DEF BaseTypeOK, Paid
  <2> QED
    BY <1>1, <2>2, Returned DEF BaseTypeOK
<1> SUFFICES ASSUME NEW f \in Events
             PROVE  LockStep(t, f) /\ EventStep(t, f) /\ OwedStep(t, f)
  BY <1>1, <1>2, Returned, StepOf
<1>3. LockStep(t, f)
  BY <1>1, Returned DEF LockStep
<1>4. EventStep(t, f)
  <2>1. CASE waiters_'[f] = waiters_[f] /\ ~WaitsFor(t, f)
    BY <2>1 DEF EventStep, SameEvent
  <2>2. CASE Free(f) /\ waiters_'[f] = RemoveFirst(waiters_[f], t)
    <3>1. Free(f)' /\ signaled_'[f] = signaled_[f]
      BY <2>2 DEF Free
    <3>2. EventInv(f)'
      BY <1>1, <2>2, <3>1, Returned, Dequeued DEF IInv
    <3> QED
      BY <3>2 DEF EventStep
  <2> QED
    BY <2>1, <2>2
<1>5. OwedStep(t, f)
  <2>1. ~InSignal(t, f) /\ ~InSignal(t, f)' /\ ~ServedBy(t, f)' /\ owed[f] \in Int
    BY <1>1, Returned DEF InSignal, BaseTypeOK
  <2>2. owed'[f] = IF f = e /\ f \in AutoReset THEN owed[f] - 1 ELSE owed[f]
    BY <1>1 DEF BaseTypeOK, Paid
  <2> QED
    BY <2>1, <2>2 DEF OwedStep, Ind
<1> QED
  BY <1>3, <1>4, <1>5

\* The step that gives back the lock of the event of rank idx, once it is in all lists.
LEMMA ReleaseManyStep ==
    ASSUME IInv, NEW t \in Threads, ReleaseMany(t)
    PROVE  IInv'
<1>1. /\ pc[t] = "releasing" /\ CallInv(t) /\ BaseTypeOK
      /\ UNCHANGED <<signaled_, waiters_, waiter, raw_waitables, mode, result, owed>>
  BY TypesHold DEF ReleaseMany, IInv
<1>2. /\ IsArray(raw_waitables[t]) /\ idx[t] \in 0..(Len(raw_waitables[t]) - 1)
      /\ idx[t] \in Nat /\ Len(raw_waitables[t]) \in Nat
  BY <1>1, ArrayRange DEF CallInv, BaseTypeOK
<1>3. PICK e \in Events : /\ e = NthWaitable(t, idx[t]) /\ e \in Range(raw_waitables[t])
                          /\ Rank(raw_waitables[t], e) = idx[t]
  BY <1>2, Nth
<1>4. lock_' = [lock_ EXCEPT ![e] = NoThread]
  BY <1>3 DEF ReleaseMany
<1>5. lock_[e] = t /\ ~signaled_[e]
  <2>1. Holds(t, e)
    BY <1>1, <1>2, <1>3 DEF Holds
  <2> QED
    BY <2>1, NoThreadAssumption DEF IInv, LockInv, EventInv, Free
<1>6. \A f \in Range(raw_waitables[t]) :
         Rank(raw_waitables[t], f) \in Nat /\ (f # e => Rank(raw_waitables[t], f) # idx[t])
  <2>1. \A f \in Range(raw_waitables[t]) : Rank(raw_waitables[t], f) \in 0..(Len(raw_waitables[t]) - 1)
    BY <1>2, Ranks
  <2>2. \A f \in Range(raw_waitables[t]) :
           Rank(raw_waitables[t], f) = Rank(raw_waitables[t], e) => f = e
    BY <1>2, <1>3, Ranks
  <2> QED
    BY <1>2, <1>3, <2>1, <2>2
<1>7. CASE idx[t] > 0
  <2>1. idx' = [idx EXCEPT ![t] = @ - 1] /\ pc' = pc
    BY <1>7 DEF ReleaseMany
  <2>2. OnlyMoves(t)
    BY <1>1, <2>1 DEF OnlyMoves, Kept, waiter, BaseTypeOK
  <2>3. /\ pc'[t] = "releasing" /\ raw_waitables'[t] = raw_waitables[t] /\ mode'[t] = mode[t]
        /\ idx'[t] = idx[t] - 1 /\ result'[t] = result[t]
        /\ fired_'[t] = fired_[t] /\ signaling_event_'[t] = signaling_event_[t]
    BY <1>1, <2>1 DEF waiter, BaseTypeOK
  <2>4. BaseTypeOK'
    <3>1. idx' \in [Threads -> Nat] /\ lock_' \in [Events -> Threads \cup {NoThread}]
      <4>1. idx[t] - 1 \in Nat
        BY <1>2, <1>7
      <4>2. idx' \in [Threads -> Nat]
        BY <1>1, <2>1, <4>1 DEF BaseTypeOK
      <4>3. lock_' \in [Events -> Threads \cup {NoThread}]
        BY <1>1, <1>4 DEF BaseTypeOK
      <4> QED
        BY <4>2, <4>3
    <3> QED
      BY <1>1, <2>1, <3>1 DEF BaseTypeOK, waiter
  <2>5. CallInv(t)'
    BY <1>1, <1>2, <2>3 DEF CallInv, Signalling, IsArray
  <2>6. \A f \in Events : /\ Holds(t, f)' <=> IF f = e THEN NoThread = t ELSE Holds(t, f)
                          /\ WaitsFor(t, f) => WaitsFor(t, f)'
                          /\ ServedBy(t, f)' <=> ServedBy(t, f)
    <3> SUFFICES ASSUME NEW f \in Events
                 PROVE  Holds(t, f)' <=> IF f = e THEN NoThread = t ELSE Holds(t, f)
      BY <1>1, <2>3 DEF WaitsFor, ServedBy
    <3>1. Holds(t, f) <=> f \in Range(raw_waitables[t]) /\ Rank(raw_waitables[t], f) <= idx[t]
      BY <1>1 DEF Holds, Signalling
    <3>2. Holds(t, f)' <=> f \in Range(raw_waitables[t])
                           /\ Rank(raw_waitables[t], f) <= idx[t] - 1
      BY <2>3 DEF Holds, Signalling, Rank
    <3> QED
      BY <1>2, <1>3, <1>6, <3>1, <3>2, NoThreadAssumption
  <2>9. pc[t] \notin Signalling /\ pc'[t] \notin Signalling
    BY <1>1, <2>3 DEF Signalling
  <2> QED
    BY <1>1, <1>4, <1>5, <2>2, <2>3, <2>4, <2>5, <2>6, <2>9, LockedOrFreed
<1>8. CASE ~(idx[t] > 0)
  <2>1. idx[t] = 0 /\ UNCHANGED idx /\ pc' = [pc EXCEPT ![t] = "armed"]
    BY <1>2, <1>8 DEF ReleaseMany, Goto
  <2>2. OnlyMoves(t)
    BY <1>1, <2>1 DEF OnlyMoves, Kept, waiter, BaseTypeOK
  <2>3. /\ pc'[t] = "armed" /\ raw_waitables'[t] = raw_waitables[t] /\ mode'[t] = mode[t]
        /\ idx'[t] = 0 /\ result'[t] = result[t]
        /\ fired_'[t] = fired_[t] /\ signaling_event_'[t] = signaling_event_[t]
    BY <1>1, <2>1 DEF waiter, BaseTypeOK
  <2>4. BaseTypeOK'
    BY <1>1, <1>4, <2>1 DEF BaseTypeOK, waiter, PC
  <2>5. CallInv(t)'
    BY <1>1, <1>2, <2>3 DEF CallInv, Signalling, IsArray
  <2>6. \A f \in Events : /\ Holds(t, f)' <=> IF f = e THEN NoThread = t ELSE Holds(t, f)
                          /\ WaitsFor(t, f) => WaitsFor(t, f)'
                          /\ ServedBy(t, f)' <=> ServedBy(t, f)
    <3> SUFFICES ASSUME NEW f \in Events
                 PROVE  ~Holds(t, f)' /\ (f # e => ~Holds(t, f))
      BY <1>1, <2>3, NoThreadAssumption DEF WaitsFor, ServedBy, Waiting
    <3>1. ~Holds(t, f)'
      BY <2>3 DEF Holds, Signalling
    <3>2. Holds(t, f) <=> f \in Range(raw_waitables[t]) /\ Rank(raw_waitables[t], f) <= idx[t]
      BY <1>1 DEF Holds, Signalling
    <3> QED
      BY <1>2, <1>6, <2>1, <3>1, <3>2
  <2>9. pc[t] \notin Signalling /\ pc'[t] \notin Signalling
    BY <1>1, <2>3 DEF Signalling
  <2> QED
    BY <1>1, <1>4, <1>5, <2>2, <2>3, <2>4, <2>5, <2>6, <2>9, LockedOrFreed
<1> QED
  BY <1>7, <1>8

\* EnqueueMany found a signaled event: the locks are given back, WaitMany returns.
LEMMA UnwindStep ==
    ASSUME IInv, NEW t \in Threads, Unwind(t)
    PROVE  IInv'
<1>1. /\ pc[t] = "unwinding" /\ CallInv(t) /\ BaseTypeOK /\ UNCHANGED <<signaled_, waiters_>>
  BY TypesHold DEF Unwind, IInv
<1>2. /\ IsArray(raw_waitables[t]) /\ idx[t] \in 0..(Len(raw_waitables[t]) - 1)
      /\ idx[t] \in Nat /\ Len(raw_waitables[t]) \in Nat
      /\ \A f \in Range(raw_waitables[t]) : Rank(raw_waitables[t], f) \in Nat
  BY <1>1, ArrayRange, Ranks DEF CallInv, BaseTypeOK
<1>3. \A f \in Events : Holds(t, f) <=>
         f \in Range(raw_waitables[t]) /\ Rank(raw_waitables[t], f) < idx[t]
  BY <1>1 DEF Holds, Signalling
<1>4. CASE idx[t] > 0
  <2>1. /\ lock_' = [lock_ EXCEPT ![NthWaitable(t, idx[t] - 1)] = NoThread]
        /\ idx' = [idx EXCEPT ![t] = @ - 1]
        /\ UNCHANGED <<waiter, pc, raw_waitables, mode, result, owed>>
    BY <1>4 DEF Unwind
  <2>2. PICK e \in Events :
           /\ e = NthWaitable(t, idx[t] - 1) /\ e \in Range(raw_waitables[t])
           /\ Rank(raw_waitables[t], e) = idx[t] - 1
    BY <1>2, <1>4, Nth
  <2>3. lock_[e] = t /\ ~signaled_[e]
    <3>1. Holds(t, e)
      BY <1>2, <1>3, <2>2
    <3> QED
      BY <3>1, NoThreadAssumption DEF IInv, LockInv, EventInv, Free
  <2>4. OnlyMoves(t)
    BY <1>1, <2>1 DEF OnlyMoves, Kept, waiter, BaseTypeOK
  <2>5. /\ pc'[t] = "unwinding" /\ raw_waitables'[t] = raw_waitables[t] /\ mode'[t] = mode[t]
        /\ idx'[t] = idx[t] - 1 /\ result'[t] = result[t]
        /\ fired_'[t] = fired_[t] /\ signaling_event_'[t] = signaling_event_[t]
    BY <1>1, <2>1 DEF waiter, BaseTypeOK
  <2>6. BaseTypeOK'
    <3>1. idx' \in [Threads -> Nat] /\ lock_' \in [Events -> Threads \cup {NoThread}]
      <4>1. idx[t] - 1 \in Nat
        BY <1>2, <1>4
      <4>2. idx' \in [Threads -> Nat]
        BY <1>1, <2>1, <4>1 DEF BaseTypeOK
      <4>3. lock_' \in [Events -> Threads \cup {NoThread}]
        BY <1>1, <2>1, <2>2 DEF BaseTypeOK
      <4> QED
        BY <4>2, <4>3
    <3> QED
      BY <1>1, <2>1, <3>1 DEF BaseTypeOK, waiter
  <2>7. CallInv(t)'
    BY <1>1, <1>2, <2>5 DEF CallInv, Signalling, IsArray
  <2>8. \A f \in Events : /\ Holds(t, f)' <=> IF f = e THEN NoThread = t ELSE Holds(t, f)
                          /\ WaitsFor(t, f) => WaitsFor(t, f)'
                          /\ ServedBy(t, f)' <=> ServedBy(t, f)
    <3> SUFFICES ASSUME NEW f \in Events
                 PROVE  Holds(t, f)' <=> IF f = e THEN NoThread = t ELSE Holds(t, f)
      BY <1>1, <2>5 DEF WaitsFor, ServedBy, Waiting
    <3>1. Holds(t, f)' <=> f \in Range(raw_waitables[t])
                           /\ Rank(raw_waitables[t], f) < idx[t] - 1
      BY <2>5 DEF Holds, Signalling, Rank
    <3>2. f \in Range(raw_waitables[t]) /\ f # e => Rank(raw_waitables[t], f) # idx[t] - 1
      BY <1>2, <2>2, Ranks
    <3> QED
      BY <1>2, <1>3, <2>2, <3>1, <3>2, NoThreadAssumption
  <2>9. pc[t] \notin Signalling /\ pc'[t] \notin Signalling
    BY <1>1, <2>5 DEF Signalling
  <2> QED
    BY <1>1, <2>1, <2>2, <2>3, <2>4, <2>5, <2>6, <2>7, <2>8, <2>9, LockedOrFreed
<1>5. CASE ~(idx[t] > 0)
  <2>1. idx[t] = 0 /\ Paid(raw_waitables[t][result[t]]) /\ Return(t) /\ UNCHANGED lock_
    BY <1>2, <1>5 DEF Unwind
  <2>2. PICK e \in Events : e = raw_waitables[t][result[t]]
    BY <1>1, <1>2, ArrayRange DEF CallInv
  <2>3. waiters_' \in [Events -> Seq(Threads)]
    BY <1>1 DEF BaseTypeOK
  <2> SUFFICES ASSUME NEW f \in Events
               PROVE  lock_[f] # t /\ (ServedBy(t, f) <=> f = e) /\ ~WaitsFor(t, f)
    BY <1>1, <2>1, <2>2, <2>3, ReportedAndReturned
  <2>4. ~Holds(t, f)
    BY <1>2, <1>3, <2>1
  <2>5. ServedBy(t, f) <=> f = e
    BY <1>1, <2>2, NoEventAssumption DEF ServedBy, CallInv, Signalling
  <2>6. ~WaitsFor(t, f)
    BY <1>1 DEF WaitsFor, Waiting
  <2> QED
    BY <2>4, <2>5, <2>6 DEF IInv, LockInv
<1> QED
  BY <1>4, <1>5

\* WaitMany leaves the wait-lists one by one, but that of the event that fired it.
LEMMA DequeueManyStep ==
    ASSUME IInv, NEW t \in Threads, DequeueMany(t)
    PROVE  IInv'
<1>1. pc[t] = "dequeueMany" /\ CallInv(t) /\ BaseTypeOK /\ UNCHANGED <<signaled_, lock_>>
  BY TypesHold DEF DequeueMany, IInv
<1>2. /\ IsArray(raw_waitables[t]) /\ idx[t] \in Nat /\ Len(raw_waitables[t]) \in Nat
      /\ idx[t] < Len(raw_waitables[t])
      /\ result[t] \in 1..Len(raw_waitables[t])
      /\ fired_[t] /\ signaling_event_[t] \in Range(raw_waitables[t])
      /\ \A j \in 1..idx[t] : raw_waitables[t][j] = signaling_event_[t] =>
            raw_waitables[t][result[t]] = signaling_event_[t]
  BY <1>1, ArrayRange DEF CallInv, BaseTypeOK
<1>3. PICK e \in Events : e = raw_waitables[t][idx[t] + 1]
  <2>1. idx[t] + 1 \in 1..Len(raw_waitables[t])
    BY <1>2
  <2> QED
    BY <1>2, <2>1, ArrayRange
<1>4. PICK s \in Events : s = signaling_event_[t]
  BY <1>2, ArrayRange
<1>5. PICK index : index = IF e = s THEN idx[t] + 1 ELSE result[t]
  OBVIOUS
<1>6. /\ IF e = s THEN UNCHANGED waiters_
                  ELSE Free(e) /\ waiters_' = [waiters_ EXCEPT ![e] = RemoveFirst(@, t)]
      /\ IF idx[t] + 1 = Len(raw_waitables[t])
           THEN Paid(raw_waitables[t][index]) /\ Return(t)
           ELSE /\ idx' = [idx EXCEPT ![t] = @ + 1]
                /\ result' = [result EXCEPT ![t] = index]
                /\ UNCHANGED <<waiter, pc, raw_waitables, mode, owed>>
  BY <1>3, <1>4, <1>5 DEF DequeueMany
<1>7. index \in 1..Len(raw_waitables[t])
      /\ \A j \in 1..(idx[t] + 1) : raw_waitables[t][j] = s => raw_waitables[t][index] = s
  <2>1. index \in 1..Len(raw_waitables[t])
    BY <1>2, <1>5
  <2>2. CASE e = s
    BY <2>2, <1>3, <1>5, <2>1
  <2>3. CASE e # s
    <3>1. \A j \in 1..(idx[t] + 1) : j \in 1..idx[t] \/ j = idx[t] + 1
      BY <1>2
    <3> QED
      BY <1>2, <1>3, <1>4, <1>5, <2>1, <2>3, <3>1
  <2> QED
    BY <2>2, <2>3, <2>1
<1>8. waiters_' \in [Events -> Seq(Threads)]
  <2>1. waiters_[e] \in Seq(Threads) /\ NoneTwice(waiters_[e])
    BY <1>1 DEF BaseTypeOK, IInv, EventInv
  <2>2. RemoveFirst(waiters_[e], t) \in Seq(Threads)
    BY <2>1, RemovedFirst
  <2> QED
    BY <1>1, <1>6, <2>2 DEF BaseTypeOK
<1>9. \A f \in Events : \/ waiters_'[f] = waiters_[f] /\ (f = e => f = s)
                        \/ f = e /\ Free(f) /\ waiters_'[f] = RemoveFirst(waiters_[f], t)
  BY <1>1, <1>6 DEF BaseTypeOK
<1>10. \A f \in Events : lock_[f] # t /\ (ServedBy(t, f) <=> f = s)
  BY <1>1, <1>4 DEF IInv, LockInv, Holds, Signalling, ServedBy
<1>11. CASE idx[t] + 1 = Len(raw_waitables[t])
  <2>1. \A f \in Range(raw_waitables[t]) : \E j \in 1..(idx[t] + 1) : raw_waitables[t][j] = f
    BY <1>2, <1>11, ArrayRange
  <2>2. raw_waitables[t][index] = s
    BY <1>2, <1>4, <1>7, <2>1
  <2>3. Paid(s) /\ Return(t)
    BY <1>6, <1>11, <2>2
  <2>4. ASSUME NEW f \in Events, f = e => f = s
        PROVE  ~WaitsFor(t, f)
    <3> SUFFICES ASSUME WaitsFor(t, f) PROVE FALSE
      OBVIOUS
    <3>1. f \in Range(raw_waitables[t]) /\ f # s /\ f # e
          /\ \A j \in 1..idx[t] : raw_waitables[t][j] # f
      BY <1>1, <1>4, <2>4 DEF WaitsFor
    <3>2. PICK j \in 1..(idx[t] + 1) : raw_waitables[t][j] = f
      BY <2>1, <3>1
    <3>3. j \in 1..idx[t] \/ j = idx[t] + 1
      BY <1>2
    <3> QED
      BY <1>3, <3>1, <3>2, <3>3
  <2> QED
    BY <1>1, <1>8, <1>9, <1>10, <2>3, <2>4, ReportedAndReturned
<1>12. CASE idx[t] + 1 # Len(raw_waitables[t])
  <2>1. /\ idx' = [idx EXCEPT ![t] = @ + 1]
        /\ result' = [result EXCEPT ![t] = index]
        /\ UNCHANGED <<waiter, pc, raw_waitables, mode, owed>>
    BY <1>6, <1>12
  <2>2. OnlyMoves(t)
    BY <1>1, <2>1 DEF OnlyMoves, Kept, waiter, BaseTypeOK
  <2>3. /\ pc'[t] = "dequeueMany" /\ raw_waitables'[t] = raw_waitables[t]
        /\ mode'[t] = mode[t] /\ idx'[t] = idx[t] + 1 /\ result'[t] = index
        /\ fired_'[t] = fired_[t] /\ signaling_event_'[t] = s
    BY <1>1, <1>4, <2>1 DEF waiter, BaseTypeOK
  <2>4. BaseTypeOK'
    <3>3. index \in Nat
      BY <1>2, <1>7
    <3>1. idx' \in [Threads -> Nat] /\ result' \in [Threads -> Nat]
      BY <1>1, <2>1, <3>3 DEF BaseTypeOK
    <3> QED
      BY <1>1, <1>8, <2>1, <3>1 DEF BaseTypeOK, waiter
  <2>5. CallInv(t)'
    <3>1. idx[t] + 1 < Len(raw_waitables[t])
      BY <1>2, <1>12
    <3>2. IsArray(raw_waitables[t])' /\ s \in Range(raw_waitables[t])
      BY <1>2, <1>4, <2>3 DEF IsArray
    <3> QED
      BY <1>2, <1>7, <2>3, <3>1, <3>2 DEF CallInv, Signalling
  <2> SUFFICES ASSUME NEW f \in Events
               PROVE  LockStep(t, f) /\ EventStep(t, f) /\ OwedStep(t, f)
    BY <2>2, <2>4, <2>5, StepOf
  <2>6. LockStep(t, f)
    BY <1>1, <1>10, <2>3 DEF LockStep, Holds, Signalling
  <2>7. EventStep(t, f)
    <3>1. CASE waiters_'[f] = waiters_[f] /\ (f = e => f = s)
      <4>1. WaitsFor(t, f) => WaitsFor(t, f)'
        <5>1. \A j \in 1..(idx[t] + 1) : j \in 1..idx[t] \/ j = idx[t] + 1
          BY <1>2
        <5> QED
          BY <1>1, <1>3, <1>4, <2>3, <3>1, <5>1 DEF WaitsFor
      <4> QED
        BY <1>1, <1>10, <3>1, <4>1 DEF EventStep, SameEvent
    <3>2. CASE Free(f) /\ waiters_'[f] = RemoveFirst(waiters_[f], t)
      <4>1. Free(f)' /\ signaled_'[f] = signaled_[f]
        BY <1>1, <3>2 DEF Free
      <4>2. EventInv(f)'
        BY <1>1, <2>2, <3>2, <4>1, Dequeued DEF IInv
      <4> QED
        BY <4>2 DEF EventStep
    <3> QED
      BY <1>9, <3>1, <3>2
  <2>8. OwedStep(t, f)
    <3>1. ~InSignal(t, f) /\ ~InSignal(t, f)' /\ owed[f] \in Int
      BY <1>1, <1>10 DEF InSignal, BaseTypeOK
    <3>2. ServedBy(t, f)' <=> ServedBy(t, f)
      BY <1>1, <1>4, <2>3 DEF ServedBy
    <3> QED
      BY <1>1, <2>1, <3>1, <3>2 DEF OwedStep, Ind
  <2> QED
    BY <2>6, <2>7, <2>8
<1> QED
  BY <1>11, <1>12

\* EnqueueMany finds an event signaled, locks one, or locks the last and queues for all.
LEMMA EnqueueManyStep ==
    ASSUME IInv, NEW t \in Threads, EnqueueMany(t)
    PROVE  IInv'
<1> DEFINE raw == raw_waitables[t]
<1>1. /\ pc[t] = "locking" /\ CallInv(t) /\ BaseTypeOK
      /\ UNCHANGED <<waiter, raw_waitables, mode, owed>>
  BY TypesHold DEF EnqueueMany, IInv
<1>2. /\ IsArray(raw) /\ idx[t] \in 0..(Len(raw) - 1)
      /\ idx[t] \in Nat /\ Len(raw) \in Nat
      /\ \A f \in Range(raw) : Rank(raw, f) \in Nat /\ Rank(raw, f) <= Len(raw) - 1
      /\ mode[t] = "many" /\ ~fired_[t] /\ signaling_event_[t] = NoEvent
  <2>1. /\ IsArray(raw) /\ idx[t] \in Nat /\ idx[t] < Len(raw)
        /\ mode[t] = "many" /\ ~fired_[t] /\ signaling_event_[t] = NoEvent
    BY <1>1 DEF CallInv, BaseTypeOK
  <2>2. Len(raw) \in Nat /\ \A f \in Range(raw) : Rank(raw, f) \in 0..(Len(raw) - 1)
    BY <2>1, ArrayRange, Ranks
  <2> QED
    BY <2>1, <2>2
<1>3. PICK e \in Events : /\ e = NthWaitable(t, idx[t]) /\ e \in Range(raw)
                          /\ Rank(raw, e) = idx[t]
  BY <1>2, Nth
<1>4. \A f \in Events : Holds(t, f) <=> f \in Range(raw) /\ Rank(raw, f) < idx[t]
  BY <1>1 DEF Holds, Signalling
<1>5. \A f \in Events : ~WaitsFor(t, f) /\ ~ServedBy(t, f) /\ ~InSignal(t, f)
  BY <1>1, <1>2, NoEventAssumption DEF WaitsFor, ServedBy, Waiting, InSignal
<1>6. Free(e) /\ lock_[e] \in {t, NoThread}
  BY <1>3 DEF EnqueueMany, Free
<1>7. \A f \in Range(raw) : f # e => Rank(raw, f) # idx[t]
  BY <1>2, <1>3, Ranks
<1>8. CASE signaled_[e]
  <2>1. PICK i : i = IndexOf(t, e)
    OBVIOUS
  <2>2. i \in 1..Len(raw) /\ raw[i] = e
    <3>1. \E j \in 1..Len(raw) : raw[j] = e
      BY <1>2, <1>3, ArrayRange
    <3>2. DOMAIN raw = 1..Len(raw)
      BY <1>2 DEF IsArray
    <3> QED
      BY <2>1, <3>1, <3>2 DEF IndexOf
  <2>3. /\ signaled_' = [signaled_ EXCEPT ![e] = e \in ManualReset]
        /\ result' = [result EXCEPT ![t] = i]
        /\ pc' = [pc EXCEPT ![t] = "unwinding"] /\ UNCHANGED <<waiters_, lock_, idx>>
    <3>1. Len(raw) - (Len(raw) - idx[t]) = idx[t]
      BY <1>2
    <3> QED
      BY <1>3, <1>8, <2>1, <3>1 DEF EnqueueMany, AutoResets, Goto
  <2>4. OnlyMoves(t)
    BY <1>1, <2>3 DEF OnlyMoves, Kept, waiter, BaseTypeOK
  <2>5. /\ pc'[t] = "unwinding" /\ raw_waitables'[t] = raw /\ mode'[t] = mode[t]
        /\ idx'[t] = idx[t] /\ result'[t] = i
        /\ fired_'[t] = fired_[t] /\ signaling_event_'[t] = signaling_event_[t]
    BY <1>1, <2>3 DEF waiter, BaseTypeOK
  <2>6. BaseTypeOK'
    <3>1. i \in Nat
      BY <2>2
    <3>2. signaled_' \in [Events -> BOOLEAN]
      BY <1>1, <2>3 DEF BaseTypeOK
    <3> QED
      BY <1>1, <2>3, <3>1, <3>2 DEF BaseTypeOK, waiter, PC
  <2>7. CallInv(t)'
    BY <1>1, <1>2, <2>2, <2>5 DEF CallInv, Signalling, IsArray
  <2> SUFFICES ASSUME NEW f \in Events
               PROVE  LockStep(t, f) /\ EventStep(t, f) /\ OwedStep(t, f)
    BY <2>4, <2>6, <2>7, StepOf
  <2>8. LockStep(t, f)
    <3>1. Holds(t, f)' <=> Holds(t, f)
      BY <1>4, <2>5 DEF Holds, Signalling, Rank
    <3> QED
      BY <2>3, <3>1 DEF LockStep, IInv, LockInv
  <2>9. signaled_'[f] = IF f = e THEN f \in ManualReset ELSE signaled_[f]
    BY <1>1, <2>3 DEF BaseTypeOK
  <2>10. EventStep(t, f)
    <3>1. CASE f # e
      <4>1. lock_[f] = t => Visited(f) = 0 /\ Visited(f)' = 0
        BY <1>1, <2>3, <2>5 DEF Visited
      <4> QED
        BY <1>5, <2>3, <2>9, <3>1, <4>1 DEF EventStep, SameEvent
    <3>2. CASE f = e
      <4>1. waiters_'[f] = <<>> /\ Len(waiters_'[f]) = 0 /\ Free(f)' /\ Visited(f)' = 0
        BY <1>6, <1>8, <2>3, <3>2 DEF IInv, EventInv, Free, Visited
      <4> QED
        BY <4>1 DEF EventStep, EventInv, NoneTwice
    <3> QED
      BY <3>1, <3>2
  <2>11. OwedStep(t, f)
    <3>1. ServedBy(t, f)' <=> f = e
      BY <1>2, <2>2, <2>5, NoEventAssumption DEF ServedBy
    <3>2. ~InSignal(t, f)' /\ owed[f] \in Int
      BY <1>1, <2>5 DEF InSignal, BaseTypeOK
    <3>3. owed'[f] = owed[f] /\ ~ServedBy(t, f) /\ ~InSignal(t, f)
      BY <1>1, <1>5
    <3>4. f \in AutoReset => (Ind(signaled_'[f]) = IF f = e THEN 0 ELSE Ind(signaled_[f]))
      BY <2>9 DEF Ind, AutoReset
    <3>5. Ind(signaled_[e]) = 1
      BY <1>8 DEF Ind
    <3>6. Ind(signaled_[f]) \in Int
      BY DEF Ind
    <3>7. Ind(ServedBy(t, f)') = (IF f = e THEN 1 ELSE 0) /\ Ind(ServedBy(t, f)) = 0
          /\ Ind(InSignal(t, f)) = 0 /\ Ind(InSignal(t, f)') = 0
      BY <3>1, <3>2, <3>3 DEF Ind
    <3> QED
      BY <3>2, <3>3, <3>4, <3>5, <3>6, <3>7 DEF OwedStep
  <2> QED
    BY <2>8, <2>10, <2>11
<1>9. CASE ~signaled_[e] /\ Len(raw) - idx[t] > 1
  <2>1. /\ lock_' = [lock_ EXCEPT ![e] = t] /\ idx' = [idx EXCEPT ![t] = @ + 1]
        /\ UNCHANGED <<waiters_, pc, signaled_, result>>
    BY <1>3, <1>9 DEF EnqueueMany
  <2>2. OnlyMoves(t)
    BY <1>1, <2>1 DEF OnlyMoves, Kept, waiter, BaseTypeOK
  <2>3. /\ pc'[t] = "locking" /\ raw_waitables'[t] = raw /\ mode'[t] = mode[t]
        /\ idx'[t] = idx[t] + 1 /\ result'[t] = result[t]
        /\ fired_'[t] = fired_[t] /\ signaling_event_'[t] = signaling_event_[t]
    BY <1>1, <2>1 DEF waiter, BaseTypeOK
  <2>4. BaseTypeOK'
    BY <1>1, <2>1 DEF BaseTypeOK, waiter
  <2>5. CallInv(t)'
    <3>1. idx[t] + 1 < Len(raw)
      BY <1>2, <1>9
    <3> QED
      BY <1>1, <1>2, <2>3, <3>1 DEF CallInv, Signalling, IsArray
  <2>6. \A f \in Events : /\ Holds(t, f)' <=> IF f = e THEN t = t ELSE Holds(t, f)
                          /\ WaitsFor(t, f) => WaitsFor(t, f)'
                          /\ ServedBy(t, f)' <=> ServedBy(t, f)
    <3> SUFFICES ASSUME NEW f \in Events
                 PROVE  Holds(t, f)' <=> IF f = e THEN t = t ELSE Holds(t, f)
      BY <1>1, <1>5, <2>3 DEF ServedBy
    <3>1. Holds(t, f)' <=> f \in Range(raw) /\ Rank(raw, f) < idx[t] + 1
      BY <2>3 DEF Holds, Signalling, Rank
    <3> HIDE DEF raw
    <3> QED
      BY <1>2, <1>3, <1>4, <1>7, <3>1
  <2>9. pc[t] \notin Signalling /\ pc'[t] \notin Signalling
    BY <1>1, <2>3 DEF Signalling
  <2> QED
    BY <1>1, <1>6, <1>9, <2>1, <2>2, <2>3, <2>4, <2>5, <2>6, <2>9, LockedOrFreed
<1>10. CASE ~signaled_[e] /\ ~(Len(raw) - idx[t] > 1)
  <2>1. /\ lock_' = [lock_ EXCEPT ![e] = t] /\ pc' = [pc EXCEPT ![t] = "releasing"]
        /\ waiters_' = [f \in Events |-> IF f \in Range(raw) THEN Append(waiters_[f], t)
                                                             ELSE waiters_[f]]
        /\ UNCHANGED <<idx, signaled_, result>>
    BY <1>3, <1>10 DEF EnqueueMany, Goto
  <2>2. OnlyMoves(t)
    BY <1>1, <2>1 DEF OnlyMoves, Kept, waiter, BaseTypeOK
  <2>3. /\ pc'[t] = "releasing" /\ raw_waitables'[t] = raw /\ mode'[t] = mode[t]
        /\ idx'[t] = idx[t] /\ result'[t] = result[t]
        /\ fired_'[t] = fired_[t] /\ signaling_event_'[t] = signaling_event_[t]
    BY <1>1, <2>1 DEF waiter, BaseTypeOK
  <2>4. BaseTypeOK'
    <3>1. waiters_' \in [Events -> Seq(Threads)]
      BY <1>1, <2>1 DEF BaseTypeOK
    <3> QED
      BY <1>1, <2>1, <3>1 DEF BaseTypeOK, waiter, PC
  <2>5. CallInv(t)'
    BY <1>1, <1>2, <2>3 DEF CallInv, Signalling, IsArray
  <2>6. idx[t] = Len(raw) - 1
    BY <1>2, <1>10
  <2> SUFFICES ASSUME NEW f \in Events
               PROVE  LockStep(t, f) /\ EventStep(t, f) /\ OwedStep(t, f)
    BY <2>2, <2>4, <2>5, StepOf
  <2>7. lock_'[f] = IF f = e THEN t ELSE lock_[f]
    BY <1>1, <2>1 DEF BaseTypeOK
  <2>8. f \in Range(raw) => lock_'[f] = t /\ (f = e \/ lock_[f] = t)
    <3> SUFFICES ASSUME f \in Range(raw), f # e PROVE Holds(t, f)
      BY <2>7 DEF IInv, LockInv
    <3> HIDE DEF raw
    <3>1. Rank(raw, f) < idx[t]
      BY <1>2, <1>7, <2>6
    <3> QED
      BY <1>4, <3>1
  <2>9. LockStep(t, f)
    <3>1. Holds(t, f)' <=> f \in Range(raw) /\ Rank(raw, f) <= idx[t]
      BY <2>3 DEF Holds, Signalling, Rank
    <3>2. Holds(t, f)' <=> f \in Range(raw)
      BY <1>2, <2>6, <3>1
    <3>3. f \notin Range(raw) => lock_[f] # t /\ f # e
      BY <1>3, <1>4 DEF IInv, LockInv
    <3> QED
      BY <1>6, <2>7, <2>8, <3>2, <3>3 DEF LockStep
  <2>10. EventStep(t, f)
    <3>1. CASE f \notin Range(raw)
      <4>1. f # e /\ lock_[f] # t
        BY <1>3, <1>4, <3>1 DEF IInv, LockInv
      <4> QED
        BY <1>5, <2>1, <2>7, <3>1, <4>1 DEF EventStep, SameEvent
    <3>2. CASE f \in Range(raw)
      <4>1. Visited(f) = 0
        BY <1>1, <1>6, <2>8, <3>2 DEF Visited
      <4>2. Visited(f)' = 0
        BY <2>3, <2>8, <3>2 DEF Visited
      <4>3. ~signaled_[f] /\ ~signaled_'[f]
        BY <1>10, <2>1, <2>8, <3>2, NoThreadAssumption DEF IInv, EventInv, Free
      <4>4. WaitsFor(t, f)'
        BY <1>2, <2>3, <3>2, NoEventAssumption DEF WaitsFor, Waiting
      <4>5. waiters_'[f] = Append(waiters_[f], t) /\ EventInv(f)
        BY <2>1, <3>2 DEF IInv
      <4>6. EventInv(f)'
        BY <1>1, <1>5, <2>2, <4>1, <4>2, <4>3, <4>4, <4>5, Enqueued
      <4> QED
        BY <4>6 DEF EventStep
    <3> QED
      BY <3>1, <3>2
  <2>11. OwedStep(t, f)
    <3>1. ~ServedBy(t, f)' /\ ~InSignal(t, f)' /\ owed[f] \in Int
      BY <1>1, <1>2, <2>3, NoEventAssumption DEF ServedBy, InSignal, BaseTypeOK
    <3> QED
      BY <1>1, <1>5, <2>1, <3>1 DEF OwedStep, Ind
  <2> QED
    BY <2>9, <2>10, <2>11
<1> QED
  BY <1>8, <1>9, <1>10

-----------------------------------------------------------------------------
(* Signal                                                                  *)

\* A thread in Signal() has the lock of the event, and no other, and waits for none.
LEMMA SignallingThread ==
    ASSUME IInv, NEW t \in Threads, pc[t] \in Signalling
    PROVE  /\ raw_waitables[t][1] \in Events /\ lock_[raw_waitables[t][1]] = t
           /\ IsArray(raw_waitables[t]) /\ Len(raw_waitables[t]) = 1
           /\ pc[t] = "signalAll" <=> raw_waitables[t][1] \in ManualReset
           /\ ~fired_[t] /\ signaling_event_[t] = NoEvent
           /\ \A f \in Events : /\ lock_[f] = t => f = raw_waitables[t][1] /\ ~signaled_[f]
                                /\ ~WaitsFor(t, f) /\ ~ServedBy(t, f)
<1>1. /\ IsArray(raw_waitables[t]) /\ Len(raw_waitables[t]) = 1
      /\ pc[t] = "signalAll" <=> raw_waitables[t][1] \in ManualReset
      /\ ~fired_[t] /\ signaling_event_[t] = NoEvent
  BY DEF IInv, CallInv, Signalling
<1>2. raw_waitables[t][1] \in Events
  BY <1>1, ArrayRange
<1>3. \A f \in Events : lock_[f] = t <=> f = raw_waitables[t][1]
  BY DEF IInv, LockInv, Holds, Signalling
<1>4. \A f \in Events : lock_[f] = t => ~signaled_[f]
  BY NoThreadAssumption DEF IInv, EventInv, Free
<1>5. \A f \in Events : ~WaitsFor(t, f) /\ ~ServedBy(t, f)
  BY <1>1, NoEventAssumption DEF WaitsFor, ServedBy, Signalling, Waiting
<1> QED
  BY <1>1, <1>2, <1>3, <1>4, <1>5

\* Signal() takes the lock of an event that is not signaled.
LEMMA SignalStep ==
    ASSUME IInv, NEW t \in Threads, NEW e \in Events, Signal(t, e)
    PROVE  IInv'
<1> DEFINE p == IF e \in ManualReset THEN "signalAll" ELSE "signalOne"
<1>1. /\ pc[t] = "idle" /\ pc' = [pc EXCEPT ![t] = p]
      /\ raw_waitables' = [raw_waitables EXCEPT ![t] = <<e>>]
      /\ mode' = [mode EXCEPT ![t] = "wait"] /\ lock_' = [lock_ EXCEPT ![e] = t]
      /\ owed' = [owed EXCEPT ![e] = IF e \in AutoReset THEN @ + 1 ELSE @]
      /\ Free(e) /\ ~signaled_[e] /\ UNCHANGED <<signaled_, waiters_, waiter, idx, result>>
  BY DEF Signal, Enter
<1>2. p \in {"signalAll", "signalOne"} /\ (p = "signalAll" <=> e \in ManualReset)
  OBVIOUS
<1> HIDE DEF p
<1>3. /\ <<e>> \in Seq(Events) /\ Len(<<e>>) = 1 /\ <<e>>[1] = e
      /\ NoneTwice(<<e>>) /\ Range(<<e>>) = {e}
  BY OneElement
<1>4. /\ idx[t] = 0 /\ result[t] = 0 /\ ~fired_[t] /\ signaling_event_[t] = NoEvent
      /\ \A f \in Events : lock_[f] # t /\ ~WaitsFor(t, f) /\ ~ServedBy(t, f)
  BY <1>1, IdleThread
<1>5. BaseTypeOK
  BY TypesHold DEF IInv
<1>6. OnlyMoves(t)
  BY <1>1, <1>5 DEF OnlyMoves, Kept, BaseTypeOK, waiter
<1>7. /\ pc'[t] = p /\ raw_waitables'[t] = <<e>>
      /\ idx'[t] = 0 /\ result'[t] = 0 /\ ~fired_'[t] /\ signaling_event_'[t] = NoEvent
  BY <1>1, <1>4, <1>5 DEF BaseTypeOK, waiter
<1>8. BaseTypeOK'
  <2>1. raw_waitables' \in [Threads -> Seq(Events)] /\ mode' \in [Threads -> Mode]
    BY <1>1, <1>3, <1>5 DEF BaseTypeOK, Mode
  <2>2. owed' \in [Events -> Int]
    <3>1. owed[e] + 1 \in Int
      BY <1>5 DEF BaseTypeOK
    <3> QED
      BY <1>1, <1>5, <3>1 DEF BaseTypeOK
  <2>3. pc' \in [Threads -> PC]
    BY <1>1, <1>2, <1>5 DEF BaseTypeOK, PC
  <2> QED
    BY <1>1, <1>5, <2>1, <2>2, <2>3 DEF BaseTypeOK, waiter
<1>9. CallInv(t)'
  BY <1>2, <1>3, <1>7 DEF CallInv, IsArray, Signalling
<1> SUFFICES ASSUME NEW f \in Events
             PROVE  LockStep(t, f) /\ EventStep(t, f) /\ OwedStep(t, f)
  BY <1>6, <1>8, <1>9, StepOf
<1>10. lock_'[f] = IF f = e THEN t ELSE lock_[f]
  BY <1>1, <1>5 DEF BaseTypeOK
<1>11. LockStep(t, f)
  BY <1>1, <1>2, <1>3, <1>4, <1>7, <1>10 DEF LockStep, Holds, Signalling, Free
<1>12. EventStep(t, f)
  <2>1. CASE f # e
    BY <1>1, <1>4, <1>10, <2>1 DEF EventStep, SameEvent
  <2>2. CASE f = e
    <3>1. Visited(f) = 0 /\ Visited(f)' = 0
      BY <1>1, <1>2, <1>7, <1>10, <2>2 DEF Visited
    <3>2. \A u \in Threads : WaitsFor(u, f) => WaitsFor(u, f)'
      BY <1>4, <1>6, KeptThread DEF OnlyMoves
    <3>3. EventInv(f)'
      BY <1>1, <1>5, <2>2, <3>1, <3>2, KeptEvent DEF IInv
    <3> QED
      BY <3>3 DEF EventStep
  <2> QED
    BY <2>1, <2>2
<1>13. OwedStep(t, f)
  <2>1. ~ServedBy(t, f) /\ ~ServedBy(t, f)'
    BY <1>2, <1>4, <1>7, NoEventAssumption DEF ServedBy
  <2>2. ~InSignal(t, f) /\ (f \in AutoReset => (InSignal(t, f)' <=> f = e))
    BY <1>2, <1>4, <1>7, <1>10 DEF InSignal, AutoReset
  <2>3. owed[f] \in Int /\ owed'[f] = IF f = e /\ f \in AutoReset THEN owed[f] + 1 ELSE owed[f]
    BY <1>1, <1>5 DEF BaseTypeOK
  <2> QED
    BY <1>1, <2>1, <2>2, <2>3 DEF OwedStep, Ind
<1> QED
  BY <1>11, <1>12, <1>13

\* Signal() returns: it leaves the lock, and the signal in signaled_ if it had it yet.
LEMMA SignalDoneStep ==
    ASSUME IInv, NEW t \in Threads, NEW e \in Events, pc[t] \in Signalling,
           e = raw_waitables[t][1], NEW b \in BOOLEAN, SignalDone(t, e, b),
           waiters_' \in [Events -> Seq(Threads)],
           \A f \in Events \ {e} : waiters_'[f] = waiters_[f],
           e \in AutoReset => (b <=> InSignal(t, e)),
           EventInv(e)'
    PROVE  IInv'
<1>1. BaseTypeOK
  BY TypesHold DEF IInv
<1>2. /\ signaled_' = [signaled_ EXCEPT ![e] = b] /\ lock_' = [lock_ EXCEPT ![e] = NoThread]
      /\ Return(t) /\ UNCHANGED owed
  BY DEF SignalDone
<1>3. BaseTypeOK'
  BY <1>1, <1>2, Returned DEF BaseTypeOK
<1> SUFFICES ASSUME NEW f \in Events
             PROVE  LockStep(t, f) /\ EventStep(t, f) /\ OwedStep(t, f)
  BY <1>1, <1>2, <1>3, Returned, StepOf
<1>4. /\ lock_[e] = t /\ ~signaled_[e] /\ (f # e => lock_[f] # t)
      /\ ~WaitsFor(t, f) /\ ~ServedBy(t, f)
  BY SignallingThread
<1>5. /\ lock_'[f] = IF f = e THEN NoThread ELSE lock_[f]
      /\ signaled_'[f] = IF f = e THEN b ELSE signaled_[f]
  BY <1>1, <1>2 DEF BaseTypeOK
<1>6. ~Holds(t, f)' /\ ~ServedBy(t, f)' /\ ~InSignal(t, f)'
  BY <1>1, <1>2, Returned
<1>7. LockStep(t, f)
  BY <1>4, <1>5, <1>6, NoThreadAssumption DEF LockStep
<1>8. EventStep(t, f)
  BY <1>4, <1>5 DEF EventStep, SameEvent
<1>9. OwedStep(t, f)
  <2>1. owed[f] \in Int /\ (f # e => ~InSignal(t, f))
    BY <1>1, <1>4 DEF InSignal, BaseTypeOK
  <2> QED
    BY <1>2, <1>4, <1>5, <1>6, <2>1 DEF OwedStep, Ind
<1> QED
  BY <1>7, <1>8, <1>9

\* The front waiter, which Signal() has fired, is popped.
LEMMA Popped ==
    ASSUME BaseTypeOK, NEW t \in Threads, OnlyMoves(t), NEW e \in Events, EventInv(e),
           Visited(e) = 1, Visited(e)' = 0, waiters_'[e] = Tail(waiters_[e]),
           ~signaled_'[e], ~WaitsFor(t, e)
    PROVE  EventInv(e)'
<1> DEFINE s == waiters_[e]
<1>1. s \in Seq(Threads) /\ NoneTwice(s) /\ Len(s) \in Nat /\ Len(s) >= 1
  BY DEF BaseTypeOK, EventInv
<1>2. \A i \in 2..Len(s) : s[i] \in Threads /\ WaitsFor(s[i], e)
  <2>1. \A i \in 2..Len(s) : i \in 1..Len(s)
    BY <1>1
  <2> QED
    BY <1>1, <2>1 DEF EventInv
<1> HIDE DEF s
<1>3. /\ Tail(s) \in Seq(Threads) /\ NoneTwice(Tail(s))
      /\ \A i \in 1..Len(Tail(s)) : i + 1 \in 2..Len(s) /\ Tail(s)[i] = s[i + 1]
  BY <1>1, TailOf
<1>4. ASSUME NEW i \in 1..Len(waiters_'[e])
      PROVE  WaitsFor(waiters_[e][i], e)'
  <2>1. PICK u \in Threads : u = waiters_'[e][i] /\ WaitsFor(u, e)
    BY <1>2, <1>3 DEF s
  <2>2. WaitsFor(u, e)'
    BY <2>1, KeptThread DEF OnlyMoves
  <2> QED
    BY <2>1, <2>2 DEF WaitsFor
<1>5. NoneTwice(waiters_'[e]) /\ Len(waiters_'[e]) \in Nat
  BY <1>3 DEF s
<1> QED
  BY <1>4, <1>5 DEF EventInv

\* An event with no waiters and no one walking its list.
LEMMA NoWaiters ==
    ASSUME NEW e \in Events, waiters_'[e] = <<>>, Free(e)'
    PROVE  EventInv(e)'
<1>1. Visited(e)' = 0 /\ Len(waiters_'[e]) = 0
  BY DEF Visited
<1> QED
  BY <1>1 DEF EventInv, NoneTwice

\* SignalOne() without a waiter to fire, and after it has fired one.
LEMMA SignalOnePopStep ==
    ASSUME IInv, NEW t \in Threads, SignalOne(t),
           pc[t] = "signalOne" => waiters_[raw_waitables[t][1]] = <<>>
    PROVE  IInv'
<1>1. BaseTypeOK /\ pc[t] \in {"signalOne", "popWoken", "popRefused"}
  BY TypesHold DEF IInv, SignalOne
<1>2. PICK e \in Events : e = raw_waitables[t][1]
  BY <1>1, SignallingThread DEF Signalling
<1>3. lock_[e] = t /\ ~signaled_[e] /\ ~WaitsFor(t, e)
  BY <1>1, <1>2, SignallingThread DEF Signalling
<1>4. EventInv(e) /\ waiters_[e] \in Seq(Threads)
  BY <1>1 DEF IInv, BaseTypeOK
<1>5. CASE pc[t] = "signalOne"
  <2>1. SignalDone(t, e, TRUE) /\ UNCHANGED waiters_ /\ waiters_[e] = <<>>
    BY <1>2, <1>5 DEF SignalOne
  <2>2. Free(e)' /\ waiters_'[e] = <<>>
    BY <1>1, <2>1 DEF SignalDone, Free, BaseTypeOK
  <2>3. waiters_' \in [Events -> Seq(Threads)]
    BY <1>1, <2>1 DEF BaseTypeOK
  <2>4. InSignal(t, e)
    BY <1>3, <1>5 DEF InSignal
  <2> QED
    BY <1>1, <1>2, <2>1, <2>2, <2>3, <2>4, NoWaiters, SignalDoneStep DEF Signalling
<1>6. ASSUME pc[t] \in {"popWoken", "popRefused"}
      PROVE  /\ waiters_' = [waiters_ EXCEPT ![e] = Tail(@)] /\ Visited(e) = 1
             /\ waiters_' \in [Events -> Seq(Threads)]
             /\ waiters_'[e] = Tail(waiters_[e])
  <2>1. waiters_' = [waiters_ EXCEPT ![e] = Tail(@)]
    BY <1>2, <1>6 DEF SignalOne
  <2>2. Visited(e) = 1
    BY <1>3, <1>6, NoThreadAssumption DEF Visited, Free
  <2>3. Tail(waiters_[e]) \in Seq(Threads)
    BY <1>4, <2>2, TailOf DEF EventInv
  <2> QED
    BY <1>1, <2>1, <2>2, <2>3 DEF BaseTypeOK
<1>7. CASE pc[t] = "popWoken"
  <2>1. SignalDone(t, e, FALSE)
    BY <1>2, <1>7 DEF SignalOne
  <2>2. OnlyMoves(t)
    BY <1>1, <2>1, Returned DEF SignalDone
  <2>3. Free(e)' /\ ~signaled_'[e]
    BY <1>1, <2>1 DEF SignalDone, Free, BaseTypeOK
  <2>4. Visited(e)' = 0
    BY <2>3 DEF Visited
  <2>5. EventInv(e)'
    BY <1>1, <1>3, <1>4, <1>6, <1>7, <2>2, <2>3, <2>4, Popped
  <2>6. ~InSignal(t, e)
    BY <1>7 DEF InSignal
  <2>7. \A f \in Events \ {e} : waiters_'[f] = waiters_[f]
    BY <1>1, <1>6, <1>7 DEF BaseTypeOK
  <2> QED
    BY <1>1, <1>2, <1>6, <1>7, <2>1, <2>5, <2>6, <2>7, SignalDoneStep DEF Signalling
<1>8. CASE pc[t] = "popRefused"
  <2>1. /\ pc' = [pc EXCEPT ![t] = "signalOne"]
        /\ UNCHANGED <<signaled_, lock_, waiter, raw_waitables, mode, idx, result, owed>>
    BY <1>8 DEF SignalOne, Goto
  <2>2. OnlyMoves(t)
    BY <1>1, <2>1 DEF OnlyMoves, Kept, BaseTypeOK, waiter
  <2>3. pc'[t] = "signalOne"
    BY <1>1, <2>1 DEF BaseTypeOK
  <2>4. BaseTypeOK'
    BY <1>1, <1>6, <1>8, <2>1 DEF BaseTypeOK, PC, waiter
  <2>5. CallInv(t)'
    <3>1. CallInv(t)
      BY DEF IInv
    <3> QED
      BY <1>8, <2>1, <2>3, <3>1 DEF CallInv, IsArray, Signalling, waiter
  <2> SUFFICES ASSUME NEW f \in Events
               PROVE  LockStep(t, f) /\ EventStep(t, f) /\ OwedStep(t, f)
    BY <2>2, <2>4, <2>5, StepOf
  <2>6. ~WaitsFor(t, f) /\ ~ServedBy(t, f) /\ (f # e => lock_[f] # t)
    BY <1>1, <1>2, SignallingThread DEF Signalling
  <2>7. LockStep(t, f)
    <3>1. Holds(t, f)' <=> Holds(t, f)
      BY <1>8, <2>1, <2>3 DEF Holds, Signalling
    <3> QED
      BY <2>1, <3>1 DEF LockStep, IInv, LockInv
  <2>8. EventStep(t, f)
    <3>1. CASE f # e
      BY <1>1, <1>6, <1>8, <2>1, <2>6, <3>1 DEF EventStep, SameEvent, BaseTypeOK
    <3>2. CASE f = e
      <4>1. Visited(e)' = 0
        BY <1>3, <2>1, <2>3 DEF Visited
      <4>2. EventInv(e)'
        BY <1>1, <1>3, <1>4, <1>6, <1>8, <2>1, <2>2, <4>1, Popped
      <4> QED
        BY <3>2, <4>2 DEF EventStep
    <3> QED
      BY <3>1, <3>2
  <2>9. OwedStep(t, f)
    <3>1. ~ServedBy(t, f)'
      BY <1>8, <2>1, <2>3, <2>6 DEF ServedBy, waiter
    <3>2. (InSignal(t, f)' <=> InSignal(t, f)) /\ owed[f] \in Int
      BY <1>1, <1>8, <2>1, <2>3 DEF InSignal, BaseTypeOK
    <3> QED
      BY <2>1, <2>6, <3>1, <3>2 DEF OwedStep, Ind
  <2> QED
    BY <2>7, <2>8, <2>9
<1> QED
  BY <1>1, <1>5, <1>7, <1>8

\* SignalAll() has fired every waiter.
LEMMA SignalAllEndStep ==
    ASSUME IInv, NEW t \in Threads, SignalAll(t), idx[t] = Len(waiters_[raw_waitables[t][1]])
    PROVE  IInv'
<1>1. BaseTypeOK /\ pc[t] = "signalAll"
  BY TypesHold DEF IInv, SignalAll
<1>2. PICK e \in Events : e = raw_waitables[t][1] /\ e \in ManualReset
  BY <1>1, SignallingThread DEF Signalling
<1>3. waiters_' = [waiters_ EXCEPT ![e] = <<>>] /\ SignalDone(t, e, TRUE)
  <2>1. Len(waiters_[e]) \in Nat
    BY <1>1 DEF BaseTypeOK
  <2>2. ~(idx[t] < Len(waiters_[e]))
    BY <1>2, <2>1
  <2> QED
    BY <1>2, <2>2 DEF SignalAll
<1>4. <<>> \in Seq(Threads)
  OBVIOUS
<1>5. waiters_' \in [Events -> Seq(Threads)] /\ waiters_'[e] = <<>>
      /\ \A f \in Events \ {e} : waiters_'[f] = waiters_[f]
  BY <1>1, <1>3, <1>4 DEF BaseTypeOK
<1>6. Free(e)'
  BY <1>1, <1>3 DEF SignalDone, Free, BaseTypeOK
<1>7. e \notin AutoReset
  BY <1>2 DEF AutoReset
<1> QED
  BY <1>1, <1>2, <1>3, <1>5, <1>6, <1>7, NoWaiters, SignalDoneStep DEF Signalling

\* Signal() of e, by t, fires the first waiter it has not looked at yet: w.  Next it pops
\* it (SignalOne) or goes on to the one behind it (SignalAll).
FireOf(t, e, w, woken, refused) ==
    /\ e = raw_waitables[t][1]
    /\ Visited(e) < Len(waiters_[e])
    /\ w = waiters_[e][Visited(e) + 1]
    /\ Fire(t, w, e, woken, refused)
    /\ UNCHANGED <<kernel, raw_waitables, mode, result, owed>>
    /\ \/ /\ pc[t] = "signalOne" /\ woken = "popWoken" /\ refused = "popRefused"
          /\ UNCHANGED idx
       \/ /\ pc[t] = "signalAll" /\ woken = "signalAll" /\ refused = "signalAll"
          /\ idx' = [idx EXCEPT ![t] = @ + 1]

\* What firing w means for t and for e, whether w accepts or not.
FireFacts(t, e, w, woken, refused) ==
    /\ w \in Threads /\ w # t /\ WaitsFor(w, e)
    /\ pc[w] \in {"blocked", "awake", "dequeue", "dequeueMany"}
    /\ \A u \in Threads \ {t, w} : Kept(u)
    /\ pc'[t] = IF fired_[w] THEN refused ELSE woken
    /\ pc'[w] = IF pc[w] = "blocked" /\ ~fired_[w] THEN "awake" ELSE pc[w]
    /\ raw_waitables'[w] = raw_waitables[w] /\ mode'[w] = mode[w]
    /\ idx'[w] = idx[w] /\ result'[w] = result[w]
    /\ fired_'[w] = TRUE
    /\ signaling_event_'[w] = IF fired_[w] THEN signaling_event_[w] ELSE e
    /\ raw_waitables'[t] = raw_waitables[t] /\ idx'[t] \in Nat
    /\ ~fired_'[t] /\ signaling_event_'[t] = NoEvent
    /\ BaseTypeOK' /\ CallInv(t)'
    /\ \A f \in Events : /\ Holds(t, f)' <=> Holds(t, f)
                         /\ ~WaitsFor(t, f) /\ ~WaitsFor(t, f)'
                         /\ ~ServedBy(t, f) /\ ~ServedBy(t, f)'
    /\ Visited(e)' = Visited(e) + 1

\* Fire() is called for somebody else who waits for e, and t stays in Signal().
LEMMA FireBasics ==
    ASSUME IInv, NEW t \in Threads, NEW e \in Events, NEW w, NEW woken, NEW refused,
           FireOf(t, e, w, woken, refused)
    PROVE  FireFacts(t, e, w, woken, refused)
<1>1. /\ BaseTypeOK /\ pc[t] \in {"signalOne", "signalAll"} /\ e = raw_waitables[t][1]
      /\ pc[t] \in Signalling
  BY TypesHold DEF IInv, FireOf, Signalling
<1>2. /\ lock_[e] = t /\ IsArray(raw_waitables[t]) /\ Len(raw_waitables[t]) = 1
      /\ pc[t] = "signalAll" <=> e \in ManualReset
      /\ ~fired_[t] /\ signaling_event_[t] = NoEvent
      /\ \A f \in Events : ~WaitsFor(t, f) /\ ~ServedBy(t, f)
  BY <1>1, SignallingThread
<1>3. Visited(e) = IF pc[t] = "signalAll" THEN idx[t] ELSE 0
  BY <1>1, <1>2, NoThreadAssumption DEF Visited, Free
<1>4. w \in Threads /\ WaitsFor(w, e)
  <2>1. waiters_[e] \in Seq(Threads) /\ Len(waiters_[e]) \in Nat /\ Visited(e) \in Nat
        /\ Visited(e) < Len(waiters_[e])
    BY <1>1, VisitedType DEF BaseTypeOK, FireOf
  <2>2. Visited(e) + 1 \in 1..Len(waiters_[e])
        /\ Visited(e) + 1 \in (Visited(e) + 1)..Len(waiters_[e])
    BY <2>1
  <2>3. w = waiters_[e][Visited(e) + 1] /\ EventInv(e)
    BY DEF FireOf, IInv
  <2> HIDE DEF Visited
  <2> QED
    BY <2>1, <2>2, <2>3 DEF EventInv
<1>5. w # t
  BY <1>2, <1>4
<1>6. pc[w] \in {"blocked", "awake", "dequeue", "dequeueMany"}
  BY <1>4 DEF WaitsFor, Waiting, FireOf, Fire, HoldsWaiterLock
<1>7. /\ fired_' = [fired_ EXCEPT ![w] = TRUE]
      /\ signaling_event_' = [signaling_event_ EXCEPT ![w] = IF fired_[w] THEN @ ELSE e]
      /\ pc' = [pc EXCEPT ![t] = IF fired_[w] THEN refused ELSE woken,
                          ![w] = IF @ = "blocked" /\ ~fired_[w] THEN "awake" ELSE @]
      /\ UNCHANGED <<kernel, raw_waitables, mode, result, owed>>
      /\ idx' \in [Threads -> Nat] /\ \A u \in Threads \ {t} : idx'[u] = idx[u]
      /\ idx'[t] = IF pc[t] = "signalAll" THEN idx[t] + 1 ELSE idx[t]
  <2>1. \/ UNCHANGED idx /\ pc[t] = "signalOne"
        \/ idx' = [idx EXCEPT ![t] = @ + 1] /\ pc[t] = "signalAll"
    BY DEF FireOf
  <2>2. idx \in [Threads -> Nat]
    BY <1>1 DEF BaseTypeOK
  <2>3. /\ idx' \in [Threads -> Nat] /\ \A u \in Threads \ {t} : idx'[u] = idx[u]
        /\ idx'[t] = IF pc[t] = "signalAll" THEN idx[t] + 1 ELSE idx[t]
    BY <2>1, <2>2
  <2>4. Fire(t, w, e, woken, refused) /\ UNCHANGED <<kernel, raw_waitables, mode, result, owed>>
    BY DEF FireOf
  <2> QED
    BY <2>3, <2>4 DEF Fire
<1>8. \A u \in Threads \ {t, w} : Kept(u)
  BY <1>1, <1>4, <1>7 DEF Kept, BaseTypeOK
<1>9. /\ pc'[t] = IF fired_[w] THEN refused ELSE woken
      /\ pc'[w] = IF pc[w] = "blocked" /\ ~fired_[w] THEN "awake" ELSE pc[w]
  BY <1>1, <1>4, <1>5, <1>7 DEF BaseTypeOK
<1>10. /\ raw_waitables'[w] = raw_waitables[w] /\ mode'[w] = mode[w]
       /\ idx'[w] = idx[w] /\ result'[w] = result[w]
       /\ fired_'[w] = TRUE
       /\ signaling_event_'[w] = IF fired_[w] THEN signaling_event_[w] ELSE e
  BY <1>1, <1>4, <1>5, <1>7 DEF BaseTypeOK
<1>11. /\ raw_waitables'[t] = raw_waitables[t] /\ idx'[t] \in Nat
       /\ ~fired_'[t] /\ signaling_event_'[t] = NoEvent
  BY <1>1, <1>2, <1>4, <1>5, <1>7 DEF BaseTypeOK
<1>12. /\ pc'[t] \in {"popWoken", "popRefused", "signalAll"}
       /\ pc'[t] = "signalAll" <=> pc[t] = "signalAll"
  BY <1>9 DEF FireOf
<1>13. BaseTypeOK'
  <2>1. pc' \in [Threads -> PC]
    <3>1. refused \in PC /\ woken \in PC
      BY DEF FireOf, PC
    <3> QED
      BY <1>1, <1>7, <3>1 DEF BaseTypeOK, PC
  <2>2. signaling_event_' \in [Threads -> Events \cup {NoEvent}] /\ fired_' \in [Threads -> BOOLEAN]
    BY <1>1, <1>7 DEF BaseTypeOK
  <2> QED
    BY <1>1, <1>7, <2>1, <2>2 DEF BaseTypeOK, kernel
<1>14. CallInv(t)'
  BY <1>1, <1>2, <1>11, <1>12 DEF CallInv, Signalling, IsArray
<1>15. ASSUME NEW f \in Events
       PROVE  /\ Holds(t, f)' <=> Holds(t, f)
              /\ ~WaitsFor(t, f)' /\ ~ServedBy(t, f)'
  BY <1>1, <1>11, <1>12, NoEventAssumption DEF Holds, WaitsFor, ServedBy, Signalling, Waiting
<1>16. Visited(e)' = Visited(e) + 1
  <2>1. lock_'[e] = t /\ ~Free(e)'
    BY <1>2, <1>7, NoThreadAssumption DEF kernel, Free
  <2>2. Visited(e)' = IF pc'[t] = "signalAll" THEN idx'[t] ELSE 1
    BY <1>12, <2>1 DEF Visited
  <2> QED
    BY <1>3, <1>7, <1>12, <2>2
<1> QED
  BY <1>2, <1>4, <1>5, <1>6, <1>8, <1>9, <1>10, <1>11, <1>13, <1>14, <1>15, <1>16
  DEF FireFacts

\* The waiters behind the one that was fired are as they were.
LEMMA FiredEvent ==
    ASSUME IInv, NEW t \in Threads, NEW e \in Events, NEW w, NEW woken, NEW refused,
           FireOf(t, e, w, woken, refused)
    PROVE  EventInv(e)'
<1>0. FireFacts(t, e, w, woken, refused)
  BY FireBasics
<1> DEFINE s == waiters_[e]
           v == Visited(e)
<1>1. BaseTypeOK /\ EventInv(e) /\ v \in Nat /\ w = s[v + 1] /\ v < Len(s)
  BY TypesHold, VisitedType DEF IInv, FireOf
<1>2. /\ s \in Seq(Threads) /\ Len(s) \in Nat /\ NoneTwice(s) /\ waiters_'[e] = s
      /\ lock_'[e] = lock_[e] /\ signaled_'[e] = signaled_[e]
  BY <1>1 DEF BaseTypeOK, EventInv, FireOf, kernel
<1>3. /\ \A u \in Threads \ {t, w} : Kept(u)
      /\ \A f \in Events : ~WaitsFor(t, f)
      /\ Visited(e)' = v + 1
  BY <1>0 DEF FireFacts
<1>4. ASSUME NEW i \in (v + 2)..Len(s)
      PROVE  WaitsFor(waiters_[e][i], e)'
  <2>1. i \in (v + 1)..Len(s) /\ i \in 1..Len(s) /\ v + 1 \in 1..Len(s) /\ i # v + 1
    BY <1>1, <1>2
  <2>2. PICK u \in Threads : u = s[i]
    BY <1>2, <2>1
  <2>3. WaitsFor(u, e)
    BY <1>1, <2>1, <2>2 DEF EventInv
  <2>4. u # w
    BY <1>1, <1>2, <2>1, <2>2 DEF NoneTwice
  <2>5. WaitsFor(u, e)'
    BY <1>3, <2>3, <2>4, KeptThread
  <2>6. u = waiters_'[e][i]
    BY <1>2, <2>2
  <2> QED
    BY <2>5, <2>6 DEF WaitsFor
<1>5. /\ signaled_'[e] => waiters_'[e] = <<>>
      /\ ~Free(e)' => ~signaled_'[e]
  BY <1>1, <1>2 DEF EventInv, Free
<1>6. Visited(e)' + 1 = v + 2 /\ Visited(e)' <= Len(s)
  BY <1>1, <1>2, <1>3
<1> HIDE DEF v, s
<1>7. Visited(e)' <= Len(waiters_'[e]) /\ NoneTwice(waiters_'[e])
      /\ \A i \in (Visited(e)' + 1)..Len(waiters_'[e]) : WaitsFor(waiters_[e][i], e)'
  BY <1>2, <1>4, <1>6
<1> QED
  BY <1>5, <1>7 DEF EventInv

\* w was fired before or is disabled: nothing happens to it.
LEMMA FireRefusedStep ==
    ASSUME IInv, NEW t \in Threads, NEW e \in Events, NEW w, NEW woken, NEW refused,
           FireOf(t, e, w, woken, refused), fired_[w]
    PROVE  IInv'
<1>0. FireFacts(t, e, w, woken, refused)
  BY FireBasics
<1>1. BaseTypeOK /\ pc[t] \in {"signalOne", "signalAll"} /\ pc[t] \in Signalling
      /\ e = raw_waitables[t][1] /\ UNCHANGED <<kernel, owed>>
  BY TypesHold DEF IInv, FireOf, Signalling
<1>11. pc'[t] = refused
  <2>1. w \in Threads /\ w # t
    BY <1>0 DEF FireFacts
  <2> QED
    BY <1>1, <2>1 DEF FireOf, Fire, BaseTypeOK
<1>2. OnlyMoves(t)
  <2>1. /\ \A u \in Threads \ {t, w} : Kept(u)
        /\ pc'[w] = pc[w] /\ raw_waitables'[w] = raw_waitables[w] /\ mode'[w] = mode[w]
        /\ idx'[w] = idx[w] /\ result'[w] = result[w]
        /\ signaling_event_'[w] = signaling_event_[w]
    BY <1>0 DEF FireFacts
  <2>2. fired_'[w] = fired_[w]
    <3>1. w \in Threads /\ fired_'[w] = TRUE
      BY <1>0 DEF FireFacts
    <3>2. fired_[w] = TRUE
      BY <1>1, <3>1 DEF BaseTypeOK
    <3> QED
      BY <3>1, <3>2
  <2> QED
    BY <2>1, <2>2 DEF OnlyMoves, Kept
<1> SUFFICES ASSUME NEW f \in Events
             PROVE  LockStep(t, f) /\ EventStep(t, f) /\ OwedStep(t, f)
  BY <1>2, <1>0, StepOf DEF FireFacts
<1>3. LockStep(t, f)
  <2>1. Holds(t, f)' <=> Holds(t, f)
    BY <1>0 DEF FireFacts
  <2> QED
    BY <1>1, <2>1 DEF LockStep, kernel, IInv, LockInv
<1>4. lock_[f] = t <=> f = e
  BY <1>1, SignallingThread
<1>5. EventStep(t, f)
  <2>1. CASE f # e
    <3>1. ~WaitsFor(t, f)
      BY <1>0 DEF FireFacts
    <3> QED
      BY <1>1, <1>4, <2>1, <3>1 DEF EventStep, SameEvent, kernel
  <2>2. CASE f = e
    BY <2>2, FiredEvent DEF EventStep
  <2> QED
    BY <2>1, <2>2
<1>6. OwedStep(t, f)
  <2>1. ~ServedBy(t, f) /\ ~ServedBy(t, f)'
    BY <1>0 DEF FireFacts
  <2>2. owed[f] \in Int /\ owed'[f] = owed[f] /\ signaled_'[f] = signaled_[f]
    BY <1>1 DEF BaseTypeOK, kernel
  <2>3. f \in AutoReset => (InSignal(t, f)' <=> InSignal(t, f))
    <3>1. f = e => (pc[t] = "signalAll" <=> f \in ManualReset)
      BY <1>1, SignallingThread
    <3> QED
      BY <1>1, <1>4, <1>11, <3>1 DEF InSignal, FireOf, kernel, AutoReset
  <2> QED
    BY <2>1, <2>2, <2>3 DEF OwedStep, Ind
<1> QED
  BY <1>3, <1>5, <1>6

\* w accepts: it wakes up, if asleep, and one signal of e is its own.
LEMMA FireAcceptedStep ==
    ASSUME IInv, NEW t \in Threads, NEW e \in Events, NEW w \in Threads, NEW woken, NEW refused,
           FireOf(t, e, w, woken, refused), ~fired_[w]
    PROVE  IInv'
<1>0. FireFacts(t, e, w, woken, refused)
  BY FireBasics
<1>1. BaseTypeOK /\ pc[t] \in {"signalOne", "signalAll"} /\ pc[t] \in Signalling
      /\ e = raw_waitables[t][1] /\ UNCHANGED <<kernel, owed>>
  BY TypesHold DEF IInv, FireOf, Signalling
<1>2. /\ w # t /\ WaitsFor(w, e) /\ CallInv(w)
      /\ pc[w] \in {"blocked", "awake", "dequeue", "dequeueMany"}
  BY <1>0 DEF FireFacts, IInv
<1>3. pc[w] \in {"blocked", "awake"} /\ signaling_event_[w] = NoEvent
      /\ IsArray(raw_waitables[w])
  BY <1>2 DEF CallInv
<1>4. pc'[t] = woken /\ pc'[w] = "awake"
  BY <1>1, <1>2, <1>3 DEF FireOf, Fire, BaseTypeOK
<1>5. /\ raw_waitables'[w] = raw_waitables[w] /\ mode'[w] = mode[w]
      /\ idx'[w] = idx[w] /\ result'[w] = result[w]
      /\ fired_'[w] = TRUE
  BY <1>1, <1>2 DEF FireOf, Fire, BaseTypeOK
<1>6. signaling_event_'[w] = e
  BY <1>1 DEF FireOf, Fire, BaseTypeOK
<1>7. \A u \in Threads \ {t, w} : Kept(u)
  BY <1>0 DEF FireFacts
<1>8. e \in Range(raw_waitables[w])
  BY <1>2 DEF WaitsFor
<1>9. ASSUME NEW f \in Events
      PROVE  /\ ~Holds(w, f) /\ ~Holds(w, f)'
             /\ ~ServedBy(w, f) /\ (ServedBy(w, f)' <=> f = e)
             /\ f # e /\ WaitsFor(w, f) => WaitsFor(w, f)'
  <2>1. ~Holds(w, f) /\ ~Holds(w, f)'
    BY <1>3, <1>4 DEF Holds, Signalling
  <2>2. ~ServedBy(w, f) /\ (ServedBy(w, f)' <=> f = e)
    BY <1>3, <1>4, <1>6, NoEventAssumption DEF ServedBy
  <2>3. f # e /\ WaitsFor(w, f) => WaitsFor(w, f)'
    BY <1>3, <1>4, <1>5, <1>6 DEF WaitsFor, Waiting
  <2> QED
    BY <2>1, <2>2, <2>3
<1>10. BaseTypeOK'
  BY <1>0 DEF FireFacts
<1>11. \A u \in Threads : CallInv(u)'
  <2>1. CallInv(w)'
    BY <1>2, <1>3, <1>4, <1>5, <1>6, <1>8, NoEventAssumption DEF CallInv, Signalling, IsArray
  <2>2. CallInv(t)'
    BY <1>0 DEF FireFacts
  <2>3. \A u \in Threads \ {t, w} : CallInv(u)'
    BY <1>7, KeptThread DEF IInv
  <2> QED
    BY <2>1, <2>2, <2>3
<1>12. \A f \in Events : lock_'[f] = lock_[f] /\ signaled_'[f] = signaled_[f]
                         /\ waiters_'[f] = waiters_[f] /\ owed'[f] = owed[f]
  BY <1>1 DEF kernel
<1>13. LockInv'
  <2> SUFFICES ASSUME NEW f \in Events, NEW u \in Threads
               PROVE  lock_'[f] = u <=> Holds(u, f)'
    BY DEF LockInv
  <2>1. Holds(u, f)' <=> Holds(u, f)
    <3>1. Holds(t, f)' <=> Holds(t, f)
      BY <1>0 DEF FireFacts
    <3>2. u \notin {t, w} => (Holds(u, f)' <=> Holds(u, f))
      BY <1>7, KeptThread
    <3> QED
      BY <1>9, <3>1, <3>2
  <2> QED
    BY <1>12, <2>1 DEF IInv, LockInv
<1>14. \A f \in Events : lock_[f] # w /\ (lock_[f] = t <=> f = e)
  BY <1>1, <1>9, SignallingThread DEF IInv, LockInv
<1>15. ASSUME NEW f \in Events, f # e
       PROVE  /\ Visited(f)' = Visited(f) /\ (MidSignal(f)' <=> MidSignal(f))
              /\ lock_[f] \in Threads => Kept(lock_[f])
  <2>1. lock_'[f] = lock_[f] /\ lock_[f] \notin {t, w}
    BY <1>12, <1>14, <1>15
  <2>2. lock_[f] \in Threads => Kept(lock_[f])
    BY <1>7, <2>1
  <2>3. lock_[f] \in Threads \cup {NoThread}
    BY <1>1 DEF BaseTypeOK
  <2>4. Visited(f)' = Visited(f)
    BY <2>1, <2>2, <2>3 DEF Visited, Free, Kept
  <2>5. MidSignal(f)' <=> MidSignal(f)
    BY <2>1, <2>2 DEF MidSignal, Kept
  <2> QED
    BY <2>2, <2>4, <2>5
<1>16. ASSUME NEW f \in Events
       PROVE  EventInv(f)'
  <2>1. CASE f = e
    BY <2>1, FiredEvent
  <2>2. CASE f # e
    <3>1. EventInv(f) /\ (~Free(f)' => ~signaled_[f])
      BY <1>12 DEF IInv, EventInv, Free
    <3>2. \A u \in Threads : WaitsFor(u, f) => WaitsFor(u, f)'
      <4>1. ~WaitsFor(t, f)
        BY <1>0 DEF FireFacts
      <4>2. \A u \in Threads \ {t, w} : WaitsFor(u, f) => WaitsFor(u, f)'
        BY <1>7, KeptThread
      <4> QED
        BY <1>9, <2>2, <4>1, <4>2
    <3> QED
      BY <1>1, <1>12, <1>15, <2>2, <3>1, <3>2, KeptEvent
  <2> QED
    BY <2>1, <2>2
<1>17. ASSUME NEW f \in AutoReset
       PROVE  OwedInv(f)'
  <2>1. f \in Events /\ f \notin ManualReset
    BY DEF AutoReset
  <2>2. \A u \in Threads \ {w} : ServedBy(u, f)' <=> ServedBy(u, f)
    <3>1. ~ServedBy(t, f) /\ ~ServedBy(t, f)'
      BY <2>1, <1>0 DEF FireFacts
    <3>2. \A u \in Threads \ {t, w} : ServedBy(u, f)' <=> ServedBy(u, f)
      BY <1>7, KeptThread
    <3> QED
      BY <3>1, <3>2
  <2>3. f = e => MidSignal(f) /\ ~MidSignal(f)'
    <3> SUFFICES ASSUME f = e PROVE MidSignal(f) /\ ~MidSignal(f)'
      OBVIOUS
    <3>1. pc[t] = "signalOne" /\ woken = "popWoken"
      BY <1>1, <2>1, SignallingThread DEF FireOf
    <3>2. lock_[f] = t /\ lock_'[f] = t
      BY <1>12, <1>14
    <3> QED
      BY <1>4, <3>1, <3>2 DEF MidSignal
  <2>4. owed[f] \in Int /\ owed'[f] = owed[f] /\ signaled_'[f] = signaled_[f]
    BY <1>1, <1>12, <2>1 DEF BaseTypeOK
  <2>5. Balanced(w, f)
    <3>1. CASE f = e
      BY <1>9, <2>1, <2>2, <2>3, <2>4, <3>1 DEF Balanced, Ind
    <3>2. CASE f # e
      BY <1>9, <1>15, <2>1, <2>2, <2>4, <3>2 DEF Balanced, Ind
    <3> QED
      BY <3>1, <3>2
  <2> QED
    BY <1>10, <2>1, <2>5, OwedKept DEF IInv
<1>18. TypeOK'
  BY <1>1, <1>10 DEF IInv, TypeOK, BaseTypeOK
<1> QED
  BY <1>11, <1>13, <1>16, <1>17, <1>18 DEF IInv

\* SignalOne(): fire the front waiter, pop it, or find nobody.
LEMMA SignalOneStep ==
    ASSUME IInv, NEW t \in Threads, SignalOne(t)
    PROVE  IInv'
<1> DEFINE e == raw_waitables[t][1]
<1>1. CASE pc[t] = "signalOne" /\ waiters_[e] # <<>>
  <2>1. e \in Events /\ lock_[e] = t /\ BaseTypeOK
    BY <1>1, SignallingThread, TypesHold DEF IInv, Signalling
  <2>2. Visited(e) = 0
    BY <1>1, <2>1, NoThreadAssumption DEF Visited, Free
  <2>3. PICK w \in Threads : w = Head(waiters_[e]) /\ w = waiters_[e][1] /\ 0 < Len(waiters_[e])
    <3>1. waiters_[e] \in Seq(Threads) /\ waiters_[e] # <<>>
      BY <1>1, <2>1 DEF BaseTypeOK
    <3> HIDE DEF e
    <3>2. \A s \in Seq(Threads) : s # <<>> => Head(s) \in Threads /\ Head(s) = s[1] /\ 0 < Len(s)
      OBVIOUS
    <3> QED
      BY <3>1, <3>2
  <2>4. /\ Fire(t, w, e, "popWoken", "popRefused")
        /\ UNCHANGED <<kernel, raw_waitables, mode, idx, result, owed>>
    BY <1>1, <2>3 DEF SignalOne
  <2>5. FireOf(t, e, w, "popWoken", "popRefused")
    BY <1>1, <2>2, <2>3, <2>4 DEF FireOf
  <2> QED
    BY <2>1, <2>5, FireRefusedStep, FireAcceptedStep
<1>2. CASE ~(pc[t] = "signalOne" /\ waiters_[e] # <<>>)
  BY <1>2, SignalOnePopStep
<1> QED
  BY <1>1, <1>2

\* SignalAll(): fire the next waiter, or find all fired.
LEMMA SignalAllStep ==
    ASSUME IInv, NEW t \in Threads, SignalAll(t)
    PROVE  IInv'
<1> DEFINE e == raw_waitables[t][1]
<1>1. pc[t] = "signalAll" /\ e \in Events /\ lock_[e] = t /\ BaseTypeOK
  BY SignallingThread, TypesHold DEF IInv, Signalling, SignalAll
<1>2. CASE idx[t] < Len(waiters_[e])
  <2>1. Visited(e) = idx[t]
    BY <1>1, NoThreadAssumption DEF Visited, Free
  <2>2. waiters_[e] \in Seq(Threads) /\ idx[t] \in Nat /\ Len(waiters_[e]) \in Nat
    BY <1>1 DEF BaseTypeOK
  <2>3. idx[t] + 1 \in 1..Len(waiters_[e]) /\ idx[t] # Len(waiters_[e])
    BY <1>2, <2>2
  <2>4. PICK w \in Threads : w = waiters_[e][idx[t] + 1]
    BY <2>2, <2>3
  <2>5. /\ Fire(t, w, e, "signalAll", "signalAll")
        /\ idx' = [idx EXCEPT ![t] = @ + 1]
        /\ UNCHANGED <<kernel, raw_waitables, mode, result, owed>>
    BY <2>3, <2>4 DEF SignalAll
  <2>6. FireOf(t, e, w, "signalAll", "signalAll")
    BY <1>1, <1>2, <2>1, <2>4, <2>5 DEF FireOf
  <2> QED
    BY <1>1, <2>6, FireRefusedStep, FireAcceptedStep
<1>3. CASE idx[t] = Len(waiters_[e])
  BY <1>3, SignalAllEndStep
<1> QED
  BY <1>2, <1>3 DEF SignalAll

-----------------------------------------------------------------------------
(* The theorems                                                            *)

\* Each step keeps the invariant.
LEMMA NextIInv == IInv /\ [Next]_vars => IInv'
<1> SUFFICES ASSUME IInv, [Next]_vars PROVE IInv'
  OBVIOUS
<1>1. CASE UNCHANGED vars
  <2>1. \A u \in Threads : Kept(u)
    BY <1>1 DEF vars, Kept
  <2>2. TypeOK' /\ LockInv'
    <3>1. TypeOK'
      BY <1>1 DEF vars, IInv, TypeOK
    <3>2. LockInv'
      BY <1>1, <2>1, KeptThread DEF vars, IInv, LockInv
    <3> QED
      BY <3>1, <3>2
  <2>3. \A u \in Threads : CallInv(u)'
    BY <2>1, KeptThread DEF IInv
  <2>4. \A e \in Events : EventInv(e)'
    BY <1>1 DEF vars, IInv, EventInv, Visited, Free, WaitsFor
  <2>5. \A e \in AutoReset : OwedInv(e)'
    BY <1>1 DEF vars, IInv, OwedInv, Served, MidSignal
  <2> QED
    BY <2>2, <2>3, <2>4, <2>5 DEF IInv
<1>2. ASSUME NEW t \in Threads, Call(t)
      PROVE  IInv'
  BY <1>2, ResetStep, IsSignaledStep, SignalStep, TimedWaitStep, WaitManyStep DEF Call
<1>3. ASSUME NEW t \in Threads, Proceed(t)
      PROVE  IInv'
  BY <1>3, SignalOneStep, SignalAllStep, CheckFiredStep, DequeueStep, EnqueueManyStep,
     UnwindStep, ReleaseManyStep, DequeueManyStep DEF Proceed
<1> QED
  BY <1>1, <1>2, <1>3, EndTimePassesStep, SpuriousWakeupStep DEF Next

\* The four parts of the invariant hold always: the program counter says which locks a
\* thread holds, what it was told and for which events it waits.
THEOREM Invariance == Spec => []IInv
<1>1. Init => IInv
  BY InitIInv
<1>2. IInv /\ [Next]_vars => IInv'
  BY NextIInv
<1> QED
  BY <1>1, <1>2, PTL DEF Spec

\* Signal() never calls Fire() on a SyncWaiter that is gone, and an event that is signaled
\* has no waiters, for any number of threads, events and waits in WaitMany().
THEOREM WaitListsHoldWaiters == Spec => []WaitListsSound
<1>1. IInv => WaitListsSound
  <2> SUFFICES ASSUME IInv PROVE WaitListsSound
    OBVIOUS
  <2>1. BaseTypeOK /\ TypeOK /\ \A e \in Events : EventInv(e)
    BY TypesHold DEF IInv
  <2>2. SignaledMeansNoWaiters
    BY <2>1 DEF SignaledMeansNoWaiters, EventInv
  <2>3. NoDanglingWaiter
    <3> SUFFICES ASSUME NEW e \in Events, NEW i \in Unvisited(e)
                 PROVE  WaitsFor(waiters_[e][i], e)
      BY DEF NoDanglingWaiter, WaitsFor, Waiting
    <3>1. Unvisited(e) = {j \in DOMAIN waiters_[e] : j > Visited(e)}
      BY DEF Unvisited, Visited
    <3>2. waiters_[e] \in Seq(Threads) /\ Visited(e) \in Nat
      BY <2>1, VisitedType DEF BaseTypeOK
    <3>3. i \in (Visited(e) + 1)..Len(waiters_[e])
      BY <3>1, <3>2
    <3> QED
      BY <2>1, <3>3 DEF EventInv
  <2> QED
    BY <2>1, <2>2, <2>3 DEF WaitListsSound
<1> QED
  BY <1>1, Invariance, PTL

\* Each signal of an auto-reset event makes one call return it, or stays in signaled_.
THEOREM SignalsAreConserved == Spec => []SignalConserved
<1>1. IInv => SignalConserved
  BY DEF IInv, OwedInv, SignalConserved, Ind
<1> QED
  BY <1>1, Invariance, PTL

-----------------------------------------------------------------------------
(* The order of the locks                                                  *)

\* Of two events of an array, the one of the smaller rank has the smaller address.
LEMMA RankOrder ==
    ASSUME NEW s, IsArray(s), NEW e \in Range(s), NEW f \in Range(s),
           Rank(s, e) < Rank(s, f)
    PROVE  e < f
<1> DEFINE Below(x) == {g \in Range(s) : g < x}
<1>1. Range(s) \subseteq Nat /\ IsFiniteSet(Range(s))
  BY ArrayRange, EventsAssumption
<1>2. e \in Nat /\ f \in Nat
  BY <1>1
<1>3. SUFFICES ASSUME f <= e PROVE FALSE
  BY <1>2
<1>4. \A g \in Range(s) : g < f => g < e
  BY <1>1, <1>2, <1>3
<1>5. Below(f) \subseteq Below(e) /\ Below(e) \subseteq Range(s)
  BY <1>4
<1>6. IsFiniteSet(Below(e)) /\ Below(f) \in SUBSET Below(e)
  BY <1>1, <1>5, FS_Subset
<1>7. Cardinality(Below(f)) <= Cardinality(Below(e))
  BY <1>6, FS_Subset
<1>8. Rank(s, e) = Cardinality(Below(e)) /\ Rank(s, f) = Cardinality(Below(f))
  BY DEF Rank
<1>9. Rank(s, e) \in Nat /\ Rank(s, f) \in Nat
  <2>1. Len(s) \in Nat /\ Rank(s, e) \in 0..(Len(s) - 1) /\ Rank(s, f) \in 0..(Len(s) - 1)
    BY Ranks, ArrayRange
  <2> QED
    BY <2>1
<1> HIDE DEF Below
<1> QED
  BY <1>7, <1>8, <1>9

\* The event whose lock a thread in EnqueueMany goes for comes after those it has locked.
LEMMA LocksInOrder ==
    ASSUME IInv, NEW t \in Threads, pc[t] = "locking"
    PROVE  /\ NthWaitable(t, idx[t]) \in Events
           /\ \A e \in Events : lock_[e] = t => e < NthWaitable(t, idx[t])
<1> DEFINE s == raw_waitables[t]
           n == NthWaitable(t, idx[t])
<1>1. IsArray(s) /\ idx[t] < Len(s)
  BY DEF IInv, CallInv
<1>2. idx[t] \in Nat /\ Len(s) \in Nat
  BY <1>1, ArrayRange DEF IInv, TypeOK
<1>3. n \in Range(s) /\ n \in Events /\ Rank(s, n) = idx[t]
  BY <1>1, <1>2, Nth
<1>4. ASSUME NEW e \in Events, lock_[e] = t
      PROVE  e < n
  <2>1. Holds(t, e)
    BY <1>4 DEF IInv, LockInv
  <2>2. e \in Range(s) /\ Rank(s, e) < idx[t]
    BY <2>1 DEF Holds, Signalling
  <2> HIDE DEF s, n
  <2> QED
    BY <1>1, <1>3, <2>2, RankOrder
<1> QED
  BY <1>3, <1>4

\* Among some numbers of a finite set there is a largest.
LEMMA Largest ==
    ASSUME NEW S, S \subseteq Nat, IsFiniteSet(S), S # {}
    PROVE  \E m \in S : \A n \in S : n <= m
<1> DEFINE Above(m) == {n \in S : m < n}
           Sizes == {Cardinality(Above(m)) : m \in S}
<1>1. \A m \in S : Above(m) \in SUBSET S
  OBVIOUS
<1>2. \A m \in S : IsFiniteSet(Above(m)) /\ Cardinality(Above(m)) \in Nat
  BY <1>1, FS_Subset, FS_CardinalityType
<1>3. Sizes \subseteq Nat /\ Sizes # {}
  BY <1>2
<1>4. PICK k \in Sizes : \A j \in Sizes : k <= j
  <2> HIDE DEF Sizes
  <2> DEFINE Less == {p \in Nat \X Nat : p[1] < p[2]}
  <2>1. IsWellFoundedOn(Less, Nat)
    BY NatLessThanWellFounded DEF OpToRel
  <2>2. \A i, j \in Nat : i < j => <<i, j>> \in Less
    OBVIOUS
  <2> HIDE DEF Less
  <2>3. PICK k \in Sizes : \A j \in Sizes : <<j, k>> \notin Less
    BY <1>3, <2>1, WFMin
  <2>4. \A j \in Sizes : j \in Nat /\ k \in Nat /\ ~(j < k)
    BY <1>3, <2>2, <2>3
  <2> QED
    BY <2>4
<1>5. PICK m \in S : Cardinality(Above(m)) = k
  BY <1>4
<1>6. ASSUME NEW n \in S, m < n
      PROVE  FALSE
  <2>1. m \in Nat /\ n \in Nat /\ S \subseteq Nat
    BY <1>5, <1>6
  <2>2. n \in Above(m) /\ n \notin Above(n) /\ Above(n) \subseteq Above(m)
    <3>1. n \in Above(m) /\ n \notin Above(n)
      BY <2>1, <1>6
    <3>2. \A i \in S : n < i => m < i
      BY <2>1, <1>6
    <3> QED
      BY <3>1, <3>2
  <2>3. Cardinality(Above(n)) <= Cardinality(Above(m)) /\ Cardinality(Above(n)) # Cardinality(Above(m))
    <3>1. IsFiniteSet(Above(m)) /\ Above(n) \in SUBSET Above(m) /\ Above(n) # Above(m)
      BY <1>2, <2>2
    <3> HIDE DEF Above
    <3> QED
      BY <3>1, FS_Subset
  <2>4. Cardinality(Above(n)) \in Sizes
    OBVIOUS
  <2>5. k <= Cardinality(Above(n)) /\ k \in Nat /\ Cardinality(Above(n)) \in Nat
    BY <1>2, <1>3, <1>4, <2>4
  <2> HIDE DEF Above, Sizes
  <2> QED
    BY <1>5, <2>3, <2>5
<1> QED
  BY <1>5, <1>6

\* A thread in EnqueueMany that goes for the largest address any of them goes for is not
\* kept from it by another: whoever holds that lock does not go for one.
LEMMA LastLocker ==
    ASSUME IInv, \E t \in Threads : pc[t] = "locking"
    PROVE  \E t \in Threads :
              /\ pc[t] = "locking"
              /\ \A u \in Threads : pc[u] = "locking" => lock_[NthWaitable(t, idx[t])] # u
<1> DEFINE L == {t \in Threads : pc[t] = "locking"}
           W(t) == NthWaitable(t, idx[t])
           S == {W(t) : t \in L}
<1>1. \A t \in L : W(t) \in Events
  BY LocksInOrder
<1>2. S \subseteq Events /\ S # {} /\ S \subseteq Nat /\ IsFiniteSet(S)
  <2>1. S \subseteq Events /\ S # {}
    BY <1>1
  <2> HIDE DEF S
  <2> QED
    BY <2>1, EventsAssumption, FS_Subset
<1>3. PICK m \in S : \A n \in S : n <= m
  <2> HIDE DEF S
  <2> QED
    BY <1>2, Largest
<1>4. PICK t \in L : m = W(t)
  BY <1>3
<1>5. ASSUME NEW u \in L, lock_[m] = u
      PROVE  FALSE
  <2>1. m \in Events /\ W(u) \in Events /\ W(u) \in S
    BY <1>1, <1>2, <1>3
  <2>2. m < W(u)
    BY <1>5, <2>1, LocksInOrder
  <2>3. W(u) <= m
    BY <1>3, <2>1
  <2>4. m \in Nat /\ W(u) \in Nat
    BY <2>1, EventsAssumption
  <2> HIDE DEF W
  <2> QED
    BY <2>2, <2>3, <2>4
<1> QED
  BY <1>4, <1>5

\* Whoever holds an event's lock, if nobody holds a SyncWaiter's: a thread that can go on
\* or one that goes for the next lock of its array.
LEMMA Holder ==
    ASSUME IInv, NEW e \in Events, ~Free(e),
           \A w \in Threads : ~HoldsWaiterLock(w)
    PROVE  \E u \in Threads :
              lock_[e] = u /\ (pc[u] = "locking" \/ (pc[u] # "idle" /\ ~Stuck(u)))
<1>1. PICK u \in Threads : lock_[e] = u
  BY DEF IInv, TypeOK, Free
<1>2. Holds(u, e)
  BY <1>1 DEF IInv, LockInv
<1>3. pc[u] \in Signalling \cup {"locking", "unwinding"}
  BY <1>2 DEF Holds, HoldsWaiterLock
<1>4. CASE pc[u] \in Signalling
  <2>1. e = raw_waitables[u][1]
    BY <1>2, <1>4 DEF Holds, Signalling
  <2>2. waiters_[e] \in Seq(Threads) /\ idx[u] \in Nat
    BY DEF IInv, TypeOK
  <2>3. CASE pc[u] = "signalOne"
    <3>1. waiters_[e] # <<>> => Head(waiters_[e]) \in Threads
      BY <2>2
    <3> QED
      BY <1>1, <2>1, <2>3, <3>1 DEF Stuck
  <2>4. CASE pc[u] = "signalAll"
    <3>1. Visited(e) = idx[u] /\ Visited(e) <= Len(waiters_[e])
      BY <1>1, <2>4 DEF Visited, IInv, EventInv
    <3>2. idx[u] # Len(waiters_[e]) => waiters_[e][idx[u] + 1] \in Threads
      <4> SUFFICES ASSUME idx[u] # Len(waiters_[e]) PROVE waiters_[e][idx[u] + 1] \in Threads
        OBVIOUS
      <4>1. idx[u] + 1 \in 1..Len(waiters_[e])
        BY <2>2, <3>1
      <4> QED
        BY <2>2, <4>1
    <3> QED
      BY <1>1, <2>1, <2>4, <3>2 DEF Stuck
  <2>5. CASE pc[u] \in {"popWoken", "popRefused"}
    BY <1>1, <2>5 DEF Stuck
  <2> QED
    BY <1>4, <2>3, <2>4, <2>5 DEF Signalling
<1>5. CASE pc[u] = "unwinding"
  BY <1>1, <1>5 DEF Stuck
<1> QED
  BY <1>1, <1>3, <1>4, <1>5

\* The invariant rules out a gridlock.
LEMMA SomebodyGoesOn ==
    ASSUME IInv
    PROVE  NotAllStuck
<1> DEFINE MayGoOn(t) == pc[t] # "idle" /\ ~Stuck(t)
<1>1. SUFFICES ASSUME NEW t \in Threads, pc[t] \notin {"idle", "blocked"},
                      \A u \in Threads : ~MayGoOn(u)
               PROVE  FALSE
  BY DEF NotAllStuck
<1>2. ASSUME NEW w \in Threads PROVE ~HoldsWaiterLock(w)
  BY <1>1 DEF HoldsWaiterLock, Stuck
<1>3. ASSUME NEW e \in Events, ~Free(e)
      PROVE  \E u \in Threads : lock_[e] = u /\ pc[u] = "locking"
  BY <1>1, <1>2, <1>3, Holder
\* Where nobody is between two locks, every lock is free.
<1>4. \E u \in Threads : pc[u] = "locking"
  <2>1. SUFFICES ASSUME \A u \in Threads : pc[u] # "locking" PROVE FALSE
    OBVIOUS
  <2>2. \A e \in Events : Free(e)
    BY <1>3, <2>1
  <2>3. IsArray(raw_waitables[t])
    BY <1>1 DEF IInv, CallInv
  <2>4. \A i \in 1..Len(raw_waitables[t]) : raw_waitables[t][i] \in Events
    BY <2>3, ArrayRange
  <2>5. Stuck(t) /\ pc[t] \in PC /\ idx[t] \in Nat
    BY <1>1 DEF IInv, TypeOK
  <2>6. Len(raw_waitables[t]) \in Nat /\ Len(raw_waitables[t]) >= 1
    BY <2>3, ArrayRange
  <2>7. pc[t] # "dequeue"
    <3> SUFFICES ASSUME pc[t] = "dequeue" PROVE FALSE
      OBVIOUS
    <3>1. raw_waitables[t][1] \in Events
      BY <2>4, <2>6
    <3> QED
      BY <2>2, <2>5, <3>1 DEF Stuck
  <2>8. pc[t] # "dequeueMany"
    <3> SUFFICES ASSUME pc[t] = "dequeueMany" PROVE FALSE
      OBVIOUS
    <3>1. idx[t] < Len(raw_waitables[t])
      BY DEF IInv, CallInv
    <3>2. raw_waitables[t][idx[t] + 1] \in Events
      BY <2>4, <2>5, <2>6, <3>1
    <3> QED
      BY <2>2, <2>5, <3>2 DEF Stuck
  <2>9. pc[t] \in {"signalOne", "signalAll"}
    BY <1>1, <2>1, <2>5, <2>7, <2>8 DEF Stuck
  <2>10. Holds(t, raw_waitables[t][1]) /\ raw_waitables[t][1] \in Events
    BY <2>4, <2>6, <2>9 DEF Holds, Signalling
  <2>11. lock_[raw_waitables[t][1]] = t
    BY <2>10 DEF IInv, LockInv
  <2> QED
    BY <2>2, <2>10, <2>11, NoThreadAssumption DEF Free
\* Where somebody is, the one that goes for the last of the events finds it free.
<1>5. PICK u \in Threads :
         /\ pc[u] = "locking"
         /\ \A v \in Threads : pc[v] = "locking" => lock_[NthWaitable(u, idx[u])] # v
  BY <1>4, LastLocker
<1>6. NthWaitable(u, idx[u]) \in Events
  BY <1>5, LocksInOrder
<1>7. Free(NthWaitable(u, idx[u]))
  BY <1>3, <1>5, <1>6
<1>8. MayGoOn(u)
  BY <1>5, <1>7 DEF Stuck
<1> QED
  BY <1>1, <1>8

\* Whatever the threads, the events, the arrays handed to WaitMany() and the order they list
\* their events in, some thread inside a call can go on unless all of them are asleep for
\* their events: the locks of events are taken in order of address, and no thread that
\* holds a SyncWaiter's lock waits for one.
THEOREM NoSetOfThreadsBlocksItself == Spec => []NotAllStuck
<1>1. IInv => NotAllStuck
  BY SomebodyGoesOn
<1> QED
  BY <1>1, Invariance, PTL
===============================================================================
