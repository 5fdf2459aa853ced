-------------------------- MODULE SyncChannelProofs --------------------------
(***************************************************************************)
(* For any threads and ends of channels: the Sends of an end nest as the   *)
(* calls on its listener thread's stack do (IInv), and no message and no   *)
(* reply is overlooked in the queues (JInv, which needs IInv).             *)
(*                                                                         *)
(* A frame is known by its depth, counted from the outermost one, which    *)
(* pushes and pops at the other end of the stack leave alone.              *)
(***************************************************************************)
EXTENDS SyncChannel, SequencesExt, SequenceTheorems, FiniteSetTheorems, WellFoundedInduction, TLAPS

-----------------------------------------------------------------------------
(* Sequences                                                               *)

\* The sequence that RemoveAt() returns: the same elements in the same order but one.
LEMMA RemovedOne ==
    ASSUME NEW S, NEW s \in Seq(S), NEW i \in DOMAIN s
    PROVE  /\ RemoveAt(s, i) \in Seq(S)
           /\ Len(RemoveAt(s, i)) = Len(s) - 1
           /\ \A j \in 1 .. Len(s) - 1 :
                 RemoveAt(s, i)[j] = IF j < i THEN s[j] ELSE s[j + 1]
<1> DEFINE front == SubSeq(s, 1, i - 1)
           back == SubSeq(s, i + 1, Len(s))
<1>1. front \in Seq(S) /\ Len(front) = i - 1 /\ \A j \in 1 .. i - 1 : front[j] = s[j]
  OBVIOUS
<1>2. /\ back \in Seq(S) /\ Len(back) = Len(s) - i
      /\ \A j \in 1 .. Len(s) - i : back[j] = s[i + j]
  OBVIOUS
<1>3. RemoveAt(s, i) = front \o back
  BY DEF RemoveAt
<1>4. /\ front \o back \in Seq(S) /\ Len(front \o back) = Len(s) - 1
      /\ \A j \in 1 .. Len(s) - 1 :
            (front \o back)[j] = IF j < i THEN front[j] ELSE back[j - (i - 1)]
  <2> HIDE DEF front, back
  <2>1. /\ front \o back \in Seq(S)
        /\ Len(front \o back) = Len(front) + Len(back)
        /\ \A j \in 1 .. Len(front) + Len(back) :
              (front \o back)[j] = IF j <= Len(front) THEN front[j] ELSE back[j - Len(front)]
    BY <1>1, <1>2, ConcatProperties
  <2> QED
    BY <1>1, <1>2, <2>1, SMTT(40)
<1>5. \A j \in 1 .. Len(s) - 1 :
         (front \o back)[j] = IF j < i THEN s[j] ELSE s[j + 1]
  <2> SUFFICES ASSUME NEW j \in 1 .. Len(s) - 1
               PROVE  (front \o back)[j] = IF j < i THEN s[j] ELSE s[j + 1]
    OBVIOUS
  <2> HIDE DEF front, back
  <2>1. CASE j < i
    BY <2>1, <1>1, <1>4
  <2>2. CASE ~(j < i)
    <3>1. j - (i - 1) \in 1 .. Len(s) - i /\ i + (j - (i - 1)) = j + 1
      BY <2>2
    <3> QED
      BY <2>2, <3>1, <1>2, <1>4
  <2> QED
    BY <2>1, <2>2
<1> QED
  BY <1>3, <1>4, <1>5

-----------------------------------------------------------------------------
(* The inductive invariant                                                 *)

Context == [id : Nat, done : BOOLEAN]
Item == [end : Channels, id : Nat]
Message == [type : {"request", "reply"}, id : Nat]
Frame ==
    [call : {"OnDispatchMessage", "WaitForReply"}, end : Channels, id : Nat]
    \cup [call : {"DispatchMessages"}, end : Channels, delayed : Seq(Item)]
Task(p) == [watcher : BOOLEAN, end : Range(Ends[p])]
Queueing(p) == [end : Range(Ends[p]), post : BOOLEAN]

QueueInv ==
    /\ message_queue_ \in [Threads -> Seq(Item)]
    /\ dispatch_event_ \in [Threads -> BOOLEAN]
    /\ task_pending_ \in [Threads -> BOOLEAN]
    /\ watching = [p \in Threads |-> watching[p]]
    /\ \A p \in Threads : watching[p] \in Seq(Range(Ends[p]))
    /\ loop = [p \in Threads |-> loop[p]]
    /\ \A p \in Threads : loop[p] \in Seq(Task(p))
    /\ ipc = [p \in Threads |-> ipc[p]]
    /\ \A p \in Threads : ipc[p] = None \/ ipc[p] \in Queueing(p)

ReplyInv ==
    /\ received_replies_ \in [Threads -> Seq(Item)]
    /\ dispatchReplies \in [Threads -> Nat]
    /\ wire \in [Channels -> Seq(Message)]
    /\ owed \in [Threads -> SUBSET Item]
    /\ budget \in [Channels -> Nat]
    /\ dead \subseteq Mortal

SendInv ==
    /\ deserializers_ \in [Channels -> Seq(Context)]
    /\ stack \in [Threads -> Seq(Frame)]

\* The Sends of d are the waits for c on the stack s.
Nests(s, d, c) ==
    /\ Depth(s, c, 1) = Len(d)
    /\ \A i \in 1..Len(s) : WaitsOn(s[i], c) => s[i].id = d[Depth(s, c, i)].id

\* A thread waits only for its own ends.
OwnWaits(s, p) ==
    \A i \in 1..Len(s) : s[i].call = "WaitForReply" => Owner[s[i].end] = p

NestInv ==
    /\ \A p \in Threads : OwnWaits(stack[p], p)
    /\ \A c \in Channels : Nests(stack[Owner[c]], deserializers_[c], c)

IInv == QueueInv /\ ReplyInv /\ SendInv /\ NestInv

-----------------------------------------------------------------------------
(* Ends, and frames                                                        *)

\* Every end is one of a single thread.
LEMMA Owners ==
    /\ Owner \in [Channels -> Threads]
    /\ \A c \in Channels : c \in Range(Ends[Owner[c]])
    /\ \A p \in Threads : /\ Ends[p] \in Seq(Channels) /\ Range(Ends[p]) \subseteq Channels
                          /\ \A c \in Range(Ends[p]) : Owner[c] = p
<1>1. ASSUME NEW c \in Channels
      PROVE  /\ Owner[c] \in Threads /\ c \in Range(Ends[Owner[c]])
             /\ \A p \in Threads : c \in Range(Ends[p]) => Owner[c] = p
  <2>1. PICK p \in Threads : \A q \in Threads : c \in Range(Ends[q]) <=> q = p
    BY ChannelAssumption
  <2>2. Owner[c] = CHOOSE q \in Threads : c \in Range(Ends[q])
    BY DEF Owner
  <2>3. c \in Range(Ends[p])
    BY <2>1
  <2> QED
    BY <2>1, <2>2, <2>3
<1>2. Owner \in [Channels -> Threads]
  BY <1>1 DEF Owner
<1>3. ASSUME NEW p \in Threads
      PROVE  Ends[p] \in Seq(Channels) /\ Range(Ends[p]) \subseteq Channels
  <2>1. Ends[p] \in Seq(Channels)
    BY ChannelAssumption
  <2> QED
    BY <2>1 DEF Range
<1> QED
  BY <1>1, <1>2, <1>3

\* The waits for an end on a stack are finitely many, the outer ones fewer.
LEMMA DepthFinite ==
    ASSUME NEW s \in Seq(Frame), NEW c, NEW i \in Nat
    PROVE  IsFiniteSet({j \in i..Len(s) : WaitsOn(s[j], c)}) /\ Depth(s, c, i) \in Nat
<1> DEFINE at == {j \in i..Len(s) : WaitsOn(s[j], c)}
<1>1. IsFiniteSet(i..Len(s))
  BY FS_Interval
<1>2. at \in SUBSET (i..Len(s))
  OBVIOUS
<1>3. IsFiniteSet(at) /\ Cardinality(at) \in Nat
  BY <1>1, <1>2, FS_Subset, FS_CardinalityType
<1> QED
  BY <1>3 DEF Depth

\* A wait on the stack has a depth, at most that of the top one.
LEMMA DepthBounds ==
    ASSUME NEW s \in Seq(Frame), NEW c, NEW i \in 1..Len(s), WaitsOn(s[i], c)
    PROVE  Depth(s, c, i) \in 1..Depth(s, c, 1)
<1> DEFINE at(k) == {j \in k..Len(s) : WaitsOn(s[j], c)}
<1>1. Len(s) \in Nat /\ 1 \in Nat /\ i \in Nat
  OBVIOUS
<1>2. /\ IsFiniteSet(at(1)) /\ IsFiniteSet(at(i))
      /\ Depth(s, c, 1) = Cardinality(at(1)) /\ Depth(s, c, i) = Cardinality(at(i))
      /\ Depth(s, c, 1) \in Nat /\ Depth(s, c, i) \in Nat
  BY <1>1, DepthFinite DEF Depth
<1>3. at(i) \in SUBSET at(1) /\ i \in at(i)
  BY <1>1
<1> HIDE DEF at
<1>4. Cardinality(at(i)) <= Cardinality(at(1)) /\ Cardinality(at(i)) # 0
  BY <1>2, <1>3, FS_Subset, FS_EmptySet
<1> QED
  BY <1>2, <1>4

\* A frame pushed, or seen from below: it is the top one, and the depth of the others
\* is what it was.
LEMMA Pushed ==
    ASSUME NEW s \in Seq(Frame), NEW f \in Frame, NEW c
    PROVE  LET t == <<f>> \o s IN
           /\ t \in Seq(Frame) /\ Len(t) = Len(s) + 1 /\ t[1] = f
           /\ \A i \in 1..Len(s) : t[i + 1] = s[i] /\ Depth(t, c, i + 1) = Depth(s, c, i)
           /\ Depth(t, c, 1) = Depth(s, c, 1) + (IF WaitsOn(f, c) THEN 1 ELSE 0)
<1> DEFINE t == <<f>> \o s
           n == Len(s)
<1>1. /\ t \in Seq(Frame) /\ Len(t) = n + 1 /\ n \in Nat
      /\ t[1] = f /\ \A i \in 1..n : t[i + 1] = s[i]
  <2>1. <<f>> \in Seq(Frame) /\ Len(<<f>>) = 1 /\ <<f>>[1] = f
    OBVIOUS
  <2>2. /\ t \in Seq(Frame) /\ Len(t) = 1 + n
        /\ \A j \in 1..(1 + n) : t[j] = IF j <= 1 THEN <<f>>[j] ELSE s[j - 1]
    BY <2>1, ConcatProperties
  <2> HIDE DEF t
  <2>3. \A i \in 1..n : i + 1 \in 1..(1 + n) /\ ~(i + 1 <= 1) /\ i + 1 - 1 = i
    OBVIOUS
  <2> QED
    BY <2>1, <2>2, <2>3
<1> HIDE DEF t
<1>2. ASSUME NEW i \in 1..(n + 1)
      PROVE  Depth(t, c, i + 1) = Depth(s, c, i)
  <2> DEFINE A == {j \in i..n : WaitsOn(s[j], c)}
             B == {j \in (i + 1)..(n + 1) : WaitsOn(t[j], c)}
             shift == [j \in A |-> j + 1]
  <2>1. IsFiniteSet(A)
    <3>1. i \in Nat
      BY <1>1
    <3>2. IsFiniteSet({j \in i..Len(s) : WaitsOn(s[j], c)})
      BY <3>1, DepthFinite
    <3> QED
      BY <3>2
  <2>2. shift \in [A -> B]
    <3>1. \A j \in A : j \in 1..n /\ j + 1 \in (i + 1)..(n + 1) /\ t[j + 1] = s[j]
      BY <1>1
    <3> QED
      BY <3>1
  <2>3. \A j, k \in A : shift[j] = shift[k] => j = k
    OBVIOUS
  <2>4. ASSUME NEW k \in B
        PROVE  \E j \in A : shift[j] = k
    <3>1. k - 1 \in 1..n /\ k - 1 \in i..n /\ t[(k - 1) + 1] = s[k - 1] /\ (k - 1) + 1 = k
      BY <1>1
    <3>2. k - 1 \in A
      BY <3>1
    <3> QED
      BY <3>1, <3>2
  <2>5. shift \in Bijection(A, B)
    <3>1. IsInjective(shift)
      BY <2>3 DEF IsInjective
    <3> HIDE DEF A, B, shift
    <3> QED
      BY <2>2, <2>4, <3>1 DEF Bijection, Injection, Surjection
  <2>6. ExistsBijection(A, B)
    BY <2>5 DEF ExistsBijection
  <2> HIDE DEF A, B, shift
  <2>7. Cardinality(B) = Cardinality(A)
    BY <2>1, <2>6, FS_Bijection
  <2> QED
    BY <1>1, <2>7 DEF Depth, A, B
<1>3. Depth(t, c, 1) = Depth(s, c, 1) + (IF WaitsOn(f, c) THEN 1 ELSE 0)
  <2> DEFINE B == {j \in 2..(n + 1) : WaitsOn(t[j], c)}
             All == {j \in 1..(n + 1) : WaitsOn(t[j], c)}
  <2>1. Depth(t, c, 2) = Depth(s, c, 1)
    <3>1. 1 \in 1..(n + 1) /\ 1 + 1 = 2
      BY <1>1
    <3> QED
      BY <1>2, <3>1
  <2>2. IsFiniteSet(B)
    <3>1. 2 \in Nat /\ t \in Seq(Frame) /\ Len(t) = n + 1
      BY <1>1
    <3>2. IsFiniteSet({j \in 2..Len(t) : WaitsOn(t[j], c)})
      BY <3>1, DepthFinite
    <3> QED
      BY <3>1, <3>2
  <2>3. All = IF WaitsOn(f, c) THEN B \cup {1} ELSE B
    BY <1>1
  <2>4. 1 \notin B
    OBVIOUS
  <2>5. Depth(t, c, 1) = Cardinality(All) /\ Depth(t, c, 2) = Cardinality(B)
    BY <1>1 DEF Depth
  <2>6. Cardinality(B) \in Nat
    BY <2>2, FS_CardinalityType
  <2> HIDE DEF B, All
  <2>7. Cardinality(B \cup {1}) = Cardinality(B) + 1
    BY <2>2, <2>4, FS_AddElement
  <2>8. CASE WaitsOn(f, c)
    BY <2>1, <2>3, <2>5, <2>7, <2>8
  <2>9. CASE ~WaitsOn(f, c)
    BY <2>1, <2>3, <2>5, <2>6, <2>9
  <2> QED
    BY <2>8, <2>9
<1>4. \A i \in 1..n : i \in 1..(n + 1)
  BY <1>1
<1> QED
  BY <1>1, <1>2, <1>3, <1>4 DEF t

\* What is no wait for c changes nothing for c.
LEMMA PushedOther ==
    ASSUME NEW s \in Seq(Frame), NEW f \in Frame, NEW c, ~WaitsOn(f, c), NEW d
    PROVE  Nests(s, d, c) <=> Nests(<<f>> \o s, d, c)
<1> DEFINE t == <<f>> \o s
           n == Len(s)
<1>1. /\ Len(t) = n + 1 /\ t[1] = f /\ n \in Nat
      /\ \A i \in 1..n : t[i + 1] = s[i] /\ Depth(t, c, i + 1) = Depth(s, c, i)
      /\ Depth(t, c, 1) = Depth(s, c, 1)
  <2>1. Depth(s, c, 1) \in Nat
    BY DepthFinite
  <2> QED
    BY <2>1, Pushed
<1> HIDE DEF t
<1>2. \A i \in 1..n : i + 1 \in 1..(n + 1)
  BY <1>1
<1>3. \A k \in 1..(n + 1) : k = 1 \/ \E i \in 1..n : k = i + 1
  <2> SUFFICES ASSUME NEW k \in 1..(n + 1), k # 1 PROVE \E i \in 1..n : k = i + 1
    OBVIOUS
  <2>1. k - 1 \in 1..n /\ k = (k - 1) + 1
    BY <1>1
  <2> QED
    BY <2>1
<1>4. ASSUME Nests(s, d, c)
      PROVE  Nests(t, d, c)
  <2>1. ASSUME NEW k \in 1..Len(t), WaitsOn(t[k], c)
        PROVE  t[k].id = d[Depth(t, c, k)].id
    <3>1. PICK i \in 1..n : k = i + 1
      BY <1>1, <1>3, <2>1
    <3> QED
      BY <1>1, <1>4, <2>1, <3>1 DEF Nests
  <2> QED
    BY <1>1, <1>4, <2>1 DEF Nests
<1>5. ASSUME Nests(t, d, c)
      PROVE  Nests(s, d, c)
  <2>1. ASSUME NEW i \in 1..n, WaitsOn(s[i], c)
        PROVE  s[i].id = d[Depth(s, c, i)].id
    <3>1. i + 1 \in 1..Len(t) /\ WaitsOn(t[i + 1], c)
      BY <1>1, <1>2, <2>1
    <3>2. t[i + 1].id = d[Depth(t, c, i + 1)].id
      BY <1>5, <3>1 DEF Nests
    <3> QED
      BY <1>1, <3>2
  <2> QED
    BY <1>1, <1>5, <2>1 DEF Nests
<1> QED
  BY <1>4, <1>5 DEF t

\* A Send pushes its wait and its entry.
LEMMA PushedWait ==
    ASSUME NEW s \in Seq(Frame), NEW f \in Frame, NEW c, WaitsOn(f, c),
           NEW d \in Seq(Context), NEW x \in Context, x.id = f.id, Nests(s, d, c)
    PROVE  Nests(<<f>> \o s, Append(d, x), c)
<1> DEFINE t == <<f>> \o s
           n == Len(s)
           e == Append(d, x)
<1>1. /\ Len(t) = n + 1 /\ t[1] = f /\ n \in Nat
      /\ \A i \in 1..n : t[i + 1] = s[i] /\ Depth(t, c, i + 1) = Depth(s, c, i)
      /\ Depth(t, c, 1) = Depth(s, c, 1) + 1
  BY Pushed
<1>2. /\ Len(d) \in Nat /\ Len(e) = Len(d) + 1 /\ e[Len(d) + 1] = x
      /\ \A k \in 1..Len(d) : e[k] = d[k]
  OBVIOUS
<1>3. Depth(s, c, 1) = Len(d)
  BY DEF Nests
<1> HIDE DEF t, e
<1>4. ASSUME NEW i \in 1..n, WaitsOn(t[i + 1], c)
      PROVE  t[i + 1].id = e[Depth(t, c, i + 1)].id
  <2>1. WaitsOn(s[i], c) /\ s[i].id = d[Depth(s, c, i)].id
    BY <1>1, <1>4 DEF Nests
  <2>2. Depth(s, c, i) \in 1..Len(d)
    BY <1>1, <1>3, <2>1, DepthBounds
  <2> QED
    BY <1>1, <1>2, <2>1, <2>2
<1>5. ASSUME NEW k \in 1..(n + 1), WaitsOn(t[k], c)
      PROVE  t[k].id = e[Depth(t, c, k)].id
  <2>1. CASE k = 1
    BY <1>1, <1>2, <1>3, <2>1
  <2>2. CASE k # 1
    <3>1. k - 1 \in 1..n /\ (k - 1) + 1 = k
      BY <1>1, <2>2
    <3>2. WaitsOn(t[(k - 1) + 1], c)
      BY <3>1, <1>5
    <3>3. t[(k - 1) + 1].id = e[Depth(t, c, (k - 1) + 1)].id
      BY <3>1, <3>2, <1>4
    <3> QED
      BY <3>1, <3>3
  <2> QED
    BY <2>1, <2>2
<1> QED
  BY <1>1, <1>2, <1>3, <1>5 DEF Nests, t, e

\* When the top wait for c ends, the last entry is its own and the others stay.
LEMMA PoppedWait ==
    ASSUME NEW s \in Seq(Frame), NEW f \in Frame, NEW c, WaitsOn(f, c),
           NEW d \in Seq(Context), Nests(<<f>> \o s, d, c)
    PROVE  d # <<>> /\ Last(d).id = f.id /\ Front(d) \in Seq(Context) /\ Nests(s, Front(d), c)
<1> DEFINE t == <<f>> \o s
           n == Len(s)
           e == Front(d)
<1>1. /\ Len(t) = n + 1 /\ t[1] = f /\ n \in Nat
      /\ \A i \in 1..n : t[i + 1] = s[i] /\ Depth(t, c, i + 1) = Depth(s, c, i)
      /\ Depth(t, c, 1) = Depth(s, c, 1) + 1
  BY Pushed
<1>2. Depth(s, c, 1) \in Nat
  BY DepthFinite
<1>3. Len(d) \in Nat /\ Len(d) = Depth(s, c, 1) + 1
  BY <1>1 DEF Nests
<1>4. e \in Seq(Context) /\ Len(e) = Len(d) - 1 /\ \A k \in 1..(Len(d) - 1) : e[k] = d[k]
  <2>1. Len(d) >= 1
    BY <1>2, <1>3
  <2> QED
    BY <2>1 DEF Front
<1> HIDE DEF t, e
<1>5. Last(d).id = f.id
  <2>1. 1 \in 1..Len(t) /\ Nests(t, d, c)
    BY <1>1 DEF t
  <2> QED
    BY <2>1, <1>1, <1>3 DEF Nests, Last
<1>6. ASSUME NEW i \in 1..n, WaitsOn(s[i], c)
      PROVE  s[i].id = e[Depth(s, c, i)].id
  <2>1. i + 1 \in 1..Len(t) /\ Nests(t, d, c)
    BY <1>1 DEF t
  <2>2. s[i].id = d[Depth(s, c, i)].id
    BY <2>1, <1>1, <1>6 DEF Nests
  <2>3. Depth(s, c, i) \in 1..(Len(d) - 1)
    BY <1>1, <1>2, <1>3, <1>6, DepthBounds
  <2> QED
    BY <2>2, <2>3, <1>4
<1>7. d # <<>>
  BY <1>2, <1>3
<1> QED
  BY <1>2, <1>3, <1>4, <1>5, <1>6, <1>7 DEF Nests, e

\* It is only the ids that matter, not whether a Send is done.
LEMMA SameIds ==
    ASSUME NEW s \in Seq(Frame), NEW c, NEW d, NEW e, Len(e) = Len(d),
           \A k \in 1..Len(d) : e[k].id = d[k].id, Nests(s, d, c)
    PROVE  Nests(s, e, c)
<1>1. ASSUME NEW i \in 1..Len(s), WaitsOn(s[i], c)
      PROVE  s[i].id = e[Depth(s, c, i)].id
  <2>1. Depth(s, c, i) \in 1..Len(d)
    BY <1>1, DepthBounds DEF Nests
  <2> QED
    BY <1>1, <2>1 DEF Nests
<1> QED
  BY <1>1 DEF Nests

\* The top of a stack and the rest.
LEMMA TopAndRest ==
    ASSUME NEW s \in Seq(Frame), s # <<>>
    PROVE  /\ Head(s) \in Frame /\ Tail(s) \in Seq(Frame)
           /\ s = <<Head(s)>> \o Tail(s)
OBVIOUS

-----------------------------------------------------------------------------
(* What a step leaves of the invariant                                     *)

\* The three sorts of frames.
LEMMA Frames ==
    /\ \A c \in Channels, id \in Nat : Handler(c, id) \in Frame /\ Wait(c, id) \in Frame
    /\ \A c \in Channels : Dispatch(c) \in Frame
    /\ \A f \in Frame : /\ f.call \in {"OnDispatchMessage", "DispatchMessages", "WaitForReply"}
                        /\ f.end \in Channels
                        /\ f.call # "DispatchMessages" => f.id \in Nat
                        /\ f.call = "DispatchMessages" =>
                              f \in [call : {"DispatchMessages"}, end : Channels,
                                     delayed : Seq(Item)]
<1>1. \A c \in Channels : Dispatch(c) \in Frame
  <2>1. <<>> \in Seq(Item)
    OBVIOUS
  <2> QED
    BY <2>1 DEF Dispatch, Frame
<1>2. \A c \in Channels, id \in Nat : Handler(c, id) \in Frame /\ Wait(c, id) \in Frame
  BY DEF Handler, Wait, Frame
<1> QED
  BY <1>1, <1>2 DEF Frame

\* The stack of a thread changes, and of the Sends only those of its ends.
LEMMA StackStep ==
    ASSUME SendInv, NestInv, NEW p \in Threads, NEW t \in Seq(Frame),
           stack' = [stack EXCEPT ![p] = t], OwnWaits(t, p),
           deserializers_' \in [Channels -> Seq(Context)],
           \A c \in Channels : Owner[c] = p => Nests(t, deserializers_'[c], c),
           \A c \in Channels : Owner[c] # p => deserializers_'[c] = deserializers_[c]
    PROVE  SendInv' /\ NestInv'
<1>1. /\ stack' \in [Threads -> Seq(Frame)] /\ stack'[p] = t
      /\ \A q \in Threads : q # p => stack'[q] = stack[q]
  BY DEF SendInv
<1>2. ASSUME NEW q \in Threads
      PROVE  OwnWaits(stack'[q], q)
  BY <1>1 DEF NestInv
<1>3. ASSUME NEW c \in Channels
      PROVE  Nests(stack'[Owner[c]], deserializers_'[c], c)
  <2>1. Owner[c] \in Threads
    BY Owners
  <2>2. CASE Owner[c] = p
    BY <1>1, <2>2
  <2>3. CASE Owner[c] # p
    BY <1>1, <2>1, <2>3 DEF NestInv
  <2> QED
    BY <2>2, <2>3
<1>4. (\A q \in Threads : OwnWaits(stack[q], q))'
  BY <1>2 DEF OwnWaits
<1>5. (\A c \in Channels : Nests(stack[Owner[c]], deserializers_[c], c))'
  BY <1>3 DEF Nests, Depth
<1> QED
  BY <1>1, <1>4, <1>5 DEF SendInv, NestInv

\* A frame that is no wait comes on top.
LEMMA PushStep ==
    ASSUME SendInv, NestInv, NEW p \in Threads, NEW f \in Frame, f.call # "WaitForReply",
           stack' = [stack EXCEPT ![p] = <<f>> \o @], UNCHANGED deserializers_
    PROVE  SendInv' /\ NestInv'
<1> DEFINE s == stack[p]
           t == <<f>> \o s
<1>1. s \in Seq(Frame) /\ OwnWaits(s, p)
  BY DEF SendInv, NestInv
<1> HIDE DEF s
<1>2. /\ t \in Seq(Frame) /\ Len(t) = Len(s) + 1 /\ t[1] = f
      /\ \A i \in 1..Len(s) : t[i + 1] = s[i]
  BY <1>1, Pushed
<1>3. OwnWaits(t, p)
  <2> SUFFICES ASSUME NEW k \in 1..Len(t), t[k].call = "WaitForReply"
               PROVE  Owner[t[k].end] = p
    BY DEF OwnWaits
  <2>1. k - 1 \in 1..Len(s) /\ (k - 1) + 1 = k
    BY <1>1, <1>2
  <2>2. t[k] = s[k - 1]
    BY <1>2, <2>1
  <2> HIDE DEF t
  <2> QED
    BY <1>1, <2>1, <2>2 DEF OwnWaits
<1>4. ASSUME NEW c \in Channels, Owner[c] = p
      PROVE  Nests(t, deserializers_[c], c)
  <2>1. Nests(s, deserializers_[c], c) /\ ~WaitsOn(f, c)
    BY <1>4 DEF NestInv, WaitsOn, s
  <2> QED
    BY <1>1, <2>1, PushedOther
<1>5. stack' = [stack EXCEPT ![p] = t]
  BY DEF s
<1> HIDE DEF t
<1> QED
  BY <1>2, <1>3, <1>4, <1>5, StackStep DEF SendInv

\* The top frame, which is no wait, gives way to the others or to one like it.
LEMMA PopStep ==
    ASSUME SendInv, NestInv, NEW p \in Threads, stack[p] # <<>>,
           Top(p).call # "WaitForReply", UNCHANGED deserializers_,
           \/ stack' = [stack EXCEPT ![p] = Tail(@)]
           \/ \E f \in Frame : /\ f.call # "WaitForReply"
                               /\ stack' = [stack EXCEPT ![p] = <<f>> \o Tail(@)]
    PROVE  SendInv' /\ NestInv'
<1> DEFINE s == stack[p]
           h == Head(s)
           r == Tail(s)
<1>1. s \in Seq(Frame) /\ OwnWaits(s, p) /\ s # <<>> /\ h.call # "WaitForReply"
  BY DEF SendInv, NestInv, Top
<1>2. h \in Frame /\ r \in Seq(Frame) /\ s = <<h>> \o r
  BY <1>1, TopAndRest
<1> HIDE DEF s, h, r
<1>3. Len(s) = Len(r) + 1 /\ \A i \in 1..Len(r) : s[i + 1] = r[i]
  BY <1>2, Pushed
<1>4. OwnWaits(r, p)
  <2>1. \A i \in 1..Len(r) : i + 1 \in 1..Len(s)
    BY <1>2, <1>3
  <2> QED
    BY <1>1, <1>3, <2>1 DEF OwnWaits
<1>5. ASSUME NEW c \in Channels, Owner[c] = p
      PROVE  Nests(r, deserializers_[c], c)
  <2>1. Nests(s, deserializers_[c], c) /\ ~WaitsOn(h, c)
    BY <1>1, <1>5 DEF NestInv, WaitsOn, s
  <2> QED
    BY <1>2, <2>1, PushedOther
<1>6. CASE stack' = [stack EXCEPT ![p] = Tail(@)]
  <2>1. stack' = [stack EXCEPT ![p] = r]
    BY <1>6 DEF r, s
  <2> QED
    BY <1>2, <1>4, <1>5, <2>1, StackStep DEF SendInv
<1>7. ASSUME NEW f \in Frame, f.call # "WaitForReply",
             stack' = [stack EXCEPT ![p] = <<f>> \o Tail(@)]
      PROVE  SendInv' /\ NestInv'
  <2> DEFINE t == <<f>> \o r
  <2>1. stack' = [stack EXCEPT ![p] = t]
    BY <1>7 DEF r, s
  <2>2. /\ t \in Seq(Frame) /\ Len(t) = Len(r) + 1 /\ t[1] = f
        /\ \A i \in 1..Len(r) : t[i + 1] = r[i]
    BY <1>2, Pushed
  <2>3. OwnWaits(t, p)
    <3> SUFFICES ASSUME NEW k \in 1..Len(t), t[k].call = "WaitForReply"
                 PROVE  Owner[t[k].end] = p
      BY DEF OwnWaits
    <3>1. k # 1
      BY <1>7, <2>2
    <3>2. k - 1 \in 1..Len(r) /\ (k - 1) + 1 = k
      BY <1>2, <2>2, <3>1
    <3>3. t[k] = r[k - 1]
      BY <2>2, <3>2
    <3> HIDE DEF t
    <3> QED
      BY <1>4, <3>2, <3>3 DEF OwnWaits
  <2>4. ASSUME NEW c \in Channels, Owner[c] = p
        PROVE  Nests(t, deserializers_[c], c)
    <3>1. ~WaitsOn(f, c)
      BY <1>7 DEF WaitsOn
    <3> QED
      BY <1>2, <1>5, <2>4, <3>1, PushedOther
  <2> HIDE DEF t
  <2> QED
    BY <2>1, <2>2, <2>3, <2>4, StackStep DEF SendInv
<1> QED
  BY <1>6, <1>7

\* Sends are done, or not: those under way are the same.
LEMMA DoneStep ==
    ASSUME SendInv, NestInv, UNCHANGED stack,
           deserializers_' \in [Channels -> Seq(Context)],
           \A c \in Channels :
              /\ Len(deserializers_'[c]) = Len(deserializers_[c])
              /\ \A k \in 1..Len(deserializers_[c]) :
                    deserializers_'[c][k].id = deserializers_[c][k].id
    PROVE  SendInv' /\ NestInv'
<1>1. ASSUME NEW c \in Channels
      PROVE  Nests(stack'[Owner[c]], deserializers_'[c], c)
  <2>1. Owner[c] \in Threads /\ stack[Owner[c]] \in Seq(Frame)
    BY Owners DEF SendInv
  <2>2. Nests(stack[Owner[c]], deserializers_[c], c)
    BY DEF NestInv
  <2> QED
    BY <2>1, <2>2, SameIds
<1>2. (\A c \in Channels : Nests(stack[Owner[c]], deserializers_[c], c))'
  BY <1>1 DEF Nests, Depth
<1>3. (\A q \in Threads : OwnWaits(stack[q], q))'
  BY DEF OwnWaits, NestInv
<1> QED
  BY <1>2, <1>3 DEF SendInv, NestInv

\* One Send of an end is done.
LEMMA DoneOne ==
    ASSUME SendInv, NestInv, UNCHANGED stack, NEW c \in Channels,
           NEW i \in 1..Len(deserializers_[c]),
           deserializers_' = [deserializers_ EXCEPT ![c][i].done = TRUE]
    PROVE  SendInv' /\ NestInv'
<1> DEFINE d == deserializers_[c]
           x == [d[i] EXCEPT !.done = TRUE]
           e == [d EXCEPT ![i] = x]
<1>1. d \in Seq(Context) /\ d[i] \in Context
  BY DEF SendInv
<1>2. x \in Context /\ x.id = d[i].id
  BY <1>1 DEF Context
<1>3. deserializers_' = [deserializers_ EXCEPT ![c] = e]
  OBVIOUS
<1> HIDE DEF x
<1>4. e \in Seq(Context) /\ Len(e) = Len(d) /\ \A k \in 1..Len(d) : e[k].id = d[k].id
  BY <1>1, <1>2
<1> HIDE DEF e
<1>5. /\ deserializers_' \in [Channels -> Seq(Context)] /\ deserializers_'[c] = e
      /\ \A b \in Channels : b # c => deserializers_'[b] = deserializers_[b]
  BY <1>3, <1>4 DEF SendInv
<1>6. ASSUME NEW b \in Channels
      PROVE  /\ Len(deserializers_'[b]) = Len(deserializers_[b])
             /\ \A k \in 1..Len(deserializers_[b]) :
                   deserializers_'[b][k].id = deserializers_[b][k].id
  BY <1>4, <1>5
<1> QED
  BY <1>5, <1>6, DoneStep

\* A step that leaves the calls alone.
LEMMA SameCalls ==
    ASSUME SendInv, NestInv, UNCHANGED <<stack, deserializers_>>
    PROVE  SendInv' /\ NestInv'
<1>1. deserializers_' \in [Channels -> Seq(Context)]
  BY DEF SendInv
<1> QED
  BY <1>1, DoneStep

\* A message on its way to an end.
LEMMA Delivered ==
    ASSUME ReplyInv, NEW c \in Channels, NEW m \in Message
    PROVE  Deliver(c, m) \in [Channels -> Seq(Message)]
<1>1. wire \in [Channels -> Seq(Message)]
  BY DEF ReplyInv
<1>2. Append(wire[c], m) \in Seq(Message)
  BY <1>1
<1> QED
  BY <1>1, <1>2 DEF Deliver

\* A function of threads with the value of one thread changed.
LEMMA Updated ==
    ASSUME NEW f, f = [q \in Threads |-> f[q]], NEW p \in Threads, NEW v,
           NEW g, g = [f EXCEPT ![p] = v]
    PROVE  /\ g = [q \in Threads |-> g[q]] /\ g[p] = v
           /\ \A q \in Threads : q # p => g[q] = f[q]
OBVIOUS

\* Steps that leave the queues, and those that leave the replies, keep their types.
LEMMA SameQueue == ASSUME QueueInv, UNCHANGED queueVars PROVE QueueInv'
BY DEF QueueInv, queueVars

\* The same of replies, messages on their way and requests to be answered.
LEMMA SameReplies ==
    ASSUME ReplyInv,
           UNCHANGED <<received_replies_, dispatchReplies, wire, owed, budget, dead>>
    PROVE  ReplyInv'
BY DEF ReplyInv

-----------------------------------------------------------------------------
(* The listener thread                                                     *)

\* Send pushes its wait, with its entry, and the first DispatchMessages over it.
LEMMA SendKeeps == ASSUME IInv, NEW c \in Channels, Send(c) PROVE IInv'
<1> DEFINE p == Owner[c]
           id == budget[c]
           x == [id |-> id, done |-> FALSE]
           s == stack[p]
           w == Wait(c, id)
           t == <<w>> \o s
           u == <<Dispatch(c)>> \o t
           d == Append(deserializers_[c], x)
<1>1. QueueInv /\ ReplyInv /\ SendInv /\ NestInv
  BY DEF IInv
<1>2. p \in Threads /\ id \in Nat /\ id > 0 /\ s \in Seq(Frame) /\ Peer[c] \in Channels
  BY <1>1, Owners, ChannelAssumption DEF Send, ReplyInv, SendInv
<1>3. w \in Frame /\ Dispatch(c) \in Frame /\ w.id = id
      /\ w.call = "WaitForReply" /\ w.end = c /\ Dispatch(c).call = "DispatchMessages"
  BY <1>2, Frames DEF Wait, Dispatch
<1>4. x \in Context /\ x.id = id
  BY <1>2 DEF Context
<1>5. stack' = [stack EXCEPT ![p] = u]
  <2>1. stack' = [stack EXCEPT ![p] = <<Dispatch(c), w>> \o s]
    BY DEF Send
  <2> HIDE DEF w, s
  <2>2. <<Dispatch(c), w>> \o s = <<Dispatch(c)>> \o (<<w>> \o s)
    BY <1>2, <1>3
  <2> QED
    BY <2>1, <2>2
<1>6. deserializers_' = [deserializers_ EXCEPT ![c] = d]
  BY DEF Send
<1>7. QueueInv'
  BY <1>1, SameQueue DEF Send
<1>8. ReplyInv'
  <2>1. Request(id) \in Message
    BY <1>2 DEF Request, Message
  <2>2. wire' \in [Channels -> Seq(Message)]
    BY <1>1, <1>2, <2>1, Delivered DEF Send
  <2>3. budget' \in [Channels -> Nat]
    <3>1. id - 1 \in Nat
      BY <1>2
    <3> QED
      BY <1>1, <3>1 DEF Send, ReplyInv
  <2> QED
    BY <1>1, <2>2, <2>3 DEF Send, ReplyInv
<1> HIDE DEF x, w
<1>9. d \in Seq(Context) /\ deserializers_[c] \in Seq(Context)
  BY <1>1, <1>4 DEF SendInv
<1>10. /\ deserializers_' \in [Channels -> Seq(Context)] /\ deserializers_'[c] = d
       /\ \A b \in Channels : b # c => deserializers_'[b] = deserializers_[b]
  <2> HIDE DEF d
  <2> QED
    BY <1>1, <1>6, <1>9 DEF SendInv
<1>11. OwnWaits(s, p) /\ \A b \in Channels : Owner[b] = p => Nests(s, deserializers_[b], b)
  BY <1>1, <1>2 DEF NestInv
<1> HIDE DEF s, d, p
<1>12. /\ t \in Seq(Frame) /\ Len(t) = Len(s) + 1 /\ t[1] = w
       /\ \A i \in 1..Len(s) : t[i + 1] = s[i]
  BY <1>2, <1>3, Pushed
<1> HIDE DEF t
<1>13. /\ u \in Seq(Frame) /\ Len(u) = Len(t) + 1 /\ u[1] = Dispatch(c)
       /\ \A i \in 1..Len(t) : u[i + 1] = t[i]
  BY <1>3, <1>12, Pushed
<1> HIDE DEF u
<1>14. OwnWaits(u, p)
  <2> SUFFICES ASSUME NEW k \in 1..Len(u), u[k].call = "WaitForReply"
               PROVE  Owner[u[k].end] = p
    BY DEF OwnWaits
  <2>1. CASE k = 1
    BY <1>3, <1>13, <2>1
  <2>2. CASE k = 2
    <3>1. u[2] = w
      <4>1. 1 \in 1..Len(t) /\ 1 + 1 = 2
        BY <1>2, <1>12
      <4> QED
        BY <4>1, <1>12, <1>13
    <3> QED
      BY <1>3, <2>2, <3>1 DEF p
  <2>3. CASE k > 2
    <3>1. /\ k - 1 \in 1..Len(t) /\ (k - 1) + 1 = k
          /\ k - 2 \in 1..Len(s) /\ (k - 2) + 1 = k - 1
      BY <1>2, <1>12, <1>13, <2>3
    <3>2. u[k] = t[k - 1] /\ t[k - 1] = s[k - 2]
      BY <1>12, <1>13, <3>1
    <3> QED
      BY <1>11, <3>1, <3>2 DEF OwnWaits
  <2> QED
    BY <2>1, <2>2, <2>3
<1>15. ASSUME NEW b \in Channels, Owner[b] = p
       PROVE  Nests(u, deserializers_'[b], b)
  <2>1. ~WaitsOn(Dispatch(c), b)
    BY <1>3 DEF WaitsOn
  <2>2. CASE b = c
    <3>1. WaitsOn(w, c) /\ Nests(s, deserializers_[c], c)
      BY <1>3, <1>11, <1>15, <2>2 DEF WaitsOn
    <3>2. Nests(t, d, c)
      BY <1>2, <1>3, <1>4, <1>9, <3>1, PushedWait DEF t, d
    <3> QED
      BY <1>3, <1>10, <1>12, <2>1, <2>2, <3>2, PushedOther DEF u
  <2>3. CASE b # c
    <3>1. ~WaitsOn(w, b) /\ Nests(s, deserializers_[b], b)
      BY <1>3, <1>11, <1>15, <2>3 DEF WaitsOn
    <3>2. Nests(t, deserializers_[b], b)
      BY <1>2, <1>3, <3>1, PushedOther DEF t
    <3> QED
      BY <1>3, <1>10, <1>12, <2>1, <2>3, <3>2, PushedOther DEF u
  <2> QED
    BY <2>2, <2>3
<1>16. SendInv' /\ NestInv'
  <2>1. \A b \in Channels : Owner[b] # p => deserializers_'[b] = deserializers_[b]
    BY <1>10 DEF p
  <2> QED
    BY <1>1, <1>2, <1>5, <1>10, <1>13, <1>14, <1>15, <2>1, StackStep
<1> QED
  BY <1>7, <1>8, <1>16 DEF IInv

\* A turn of DispatchMessages calls a handler, puts a message aside or returns.
LEMMA DispatchMessagesKeeps ==
    ASSUME IInv, NEW p \in Threads, DispatchMessages(p) PROVE IInv'
<1> DEFINE q == message_queue_[p]
           top == Top(p)
<1>1. QueueInv /\ ReplyInv /\ SendInv /\ NestInv
  BY DEF IInv
<1>2. /\ stack[p] # <<>> /\ top.call = "DispatchMessages"
      /\ q \in Seq(Item) /\ stack[p] \in Seq(Frame)
  BY <1>1 DEF DispatchMessages, InCall, QueueInv, SendInv
<1>3. top \in [call : {"DispatchMessages"}, end : Channels, delayed : Seq(Item)]
  <2>1. top \in Frame
    BY <1>2, TopAndRest DEF Top
  <2> QED
    BY <1>2, <2>1, Frames
<1>4. ReplyInv'
  BY <1>1, SameReplies DEF DispatchMessages
<1>5. /\ UNCHANGED <<dispatch_event_, task_pending_, watching, loop, ipc>>
      /\ UNCHANGED deserializers_
  BY DEF DispatchMessages
<1>6. CASE q = <<>>
  <2>1. /\ message_queue_' = [message_queue_ EXCEPT ![p] = top.delayed]
        /\ stack' = [stack EXCEPT ![p] = Tail(@)]
    BY <1>6 DEF DispatchMessages
  <2>2. QueueInv'
    BY <1>1, <1>3, <1>5, <2>1 DEF QueueInv
  <2>3. SendInv' /\ NestInv'
    BY <1>1, <1>2, <1>5, <2>1, PopStep
  <2> QED
    BY <1>4, <2>2, <2>3 DEF IInv
<1>7. CASE q # <<>>
  <2> DEFINE aside == q[1].end \in Restricted /\ q[1].end # top.end
  <2>1. q[1] \in Item /\ Tail(q) \in Seq(Item)
    BY <1>2, <1>7
  <2>2. message_queue_' = [message_queue_ EXCEPT ![p] = Tail(q)]
    BY <1>7 DEF DispatchMessages
  <2>3. QueueInv'
    BY <1>1, <1>5, <2>1, <2>2 DEF QueueInv
  <2>4. CASE aside
    <3> DEFINE f == [top EXCEPT !.delayed = Append(@, q[1])]
    <3>1. f \in Frame /\ f.call = "DispatchMessages"
      <4>1. Append(top.delayed, q[1]) \in Seq(Item)
        BY <1>3, <2>1
      <4> HIDE DEF top
      <4>2. f \in [call : {"DispatchMessages"}, end : Channels, delayed : Seq(Item)]
        BY <1>3, <4>1
      <4> QED
        BY <4>2 DEF Frame
    <3>2. stack' = [stack EXCEPT ![p] = <<f>> \o Tail(stack[p])]
      BY <1>7, <2>4 DEF DispatchMessages
    <3> HIDE DEF f, top
    <3>3. SendInv' /\ NestInv'
      BY <1>1, <1>2, <1>5, <3>1, <3>2, PopStep DEF top
    <3> QED
      BY <1>4, <2>3, <3>3 DEF IInv
  <2>5. CASE ~aside
    <3> DEFINE f == Handler(q[1].end, q[1].id)
    <3>1. f \in Frame /\ f.call = "OnDispatchMessage"
      <4>1. q[1].end \in Channels /\ q[1].id \in Nat
        BY <2>1 DEF Item
      <4> QED
        BY <4>1, Frames DEF Handler
    <3>2. stack' = [stack EXCEPT ![p] = <<f>> \o @]
      BY <1>7, <2>5 DEF DispatchMessages
    <3> HIDE DEF f
    <3>3. SendInv' /\ NestInv'
      BY <1>1, <1>5, <3>1, <3>2, PushStep
    <3> QED
      BY <1>4, <2>3, <3>3 DEF IInv
  <2> QED
    BY <2>4, <2>5
<1> QED
  BY <1>6, <1>7

\* A blocked Send dispatches what has come.
LEMMA WaitDispatchesKeeps ==
    ASSUME IInv, NEW p \in Threads, WaitDispatches(p) PROVE IInv'
<1>1. QueueInv /\ ReplyInv /\ SendInv /\ NestInv
  BY DEF IInv
<1>2. /\ stack[p] # <<>> /\ stack[p] \in Seq(Frame)
      /\ stack' = [stack EXCEPT ![p] = <<Dispatch(Top(p).end)>> \o @]
      /\ dispatch_event_' = [dispatch_event_ EXCEPT ![p] = FALSE]
      /\ UNCHANGED <<message_queue_, task_pending_, watching, loop, ipc, deserializers_>>
  BY <1>1 DEF WaitDispatches, InCall, SendInv
<1>3. Top(p).end \in Channels
  BY <1>2, TopAndRest, Frames DEF Top
<1>4. /\ Dispatch(Top(p).end) \in Frame
      /\ Dispatch(Top(p).end).call = "DispatchMessages"
  BY <1>3, Frames DEF Dispatch
<1>5. SendInv' /\ NestInv'
  BY <1>1, <1>2, <1>4, PushStep
<1>6. QueueInv'
  BY <1>1, <1>2 DEF QueueInv
<1>7. ReplyInv'
  BY <1>1, SameReplies DEF WaitDispatches
<1> QED
  BY <1>5, <1>6, <1>7 DEF IInv

\* Pop removes the entry of the Send that returns.
LEMMA PopKeeps == ASSUME IInv, NEW p \in Threads, Pop(p) PROVE IInv'
<1> DEFINE s == stack[p]
           h == Head(s)
           r == Tail(s)
           c == h.end
           d == deserializers_[c]
<1>1. QueueInv /\ ReplyInv /\ SendInv /\ NestInv
  BY DEF IInv
<1>2. /\ s # <<>> /\ s \in Seq(Frame) /\ h.call = "WaitForReply"
      /\ stack' = [stack EXCEPT ![p] = r]
      /\ deserializers_' = [deserializers_ EXCEPT ![c] = Front(d)]
  BY <1>1 DEF Pop, InCall, Top, SendInv
<1> HIDE DEF s
<1>3. h \in Frame /\ r \in Seq(Frame) /\ s = <<h>> \o r /\ c \in Channels
  BY <1>2, TopAndRest, Frames
<1>4. OwnWaits(s, p) /\ \A b \in Channels : Owner[b] = p => Nests(s, deserializers_[b], b)
  BY <1>1 DEF NestInv, s
<1> HIDE DEF h, r
<1>5. Len(s) = Len(r) + 1 /\ s[1] = h /\ \A i \in 1..Len(r) : s[i + 1] = r[i]
  BY <1>3, Pushed
<1>6. Owner[c] = p
  <2>1. 1 \in 1..Len(s)
    BY <1>3, <1>5
  <2> QED
    BY <1>2, <1>4, <1>5, <2>1 DEF OwnWaits
<1>7. OwnWaits(r, p)
  <2>1. \A i \in 1..Len(r) : i + 1 \in 1..Len(s)
    BY <1>3, <1>5
  <2> QED
    BY <1>4, <1>5, <2>1 DEF OwnWaits
<1>8. d \in Seq(Context) /\ WaitsOn(h, c) /\ Nests(s, d, c)
  BY <1>1, <1>2, <1>3, <1>4, <1>6 DEF SendInv, WaitsOn
<1> HIDE DEF c, d
<1>9. Front(d) \in Seq(Context) /\ Nests(r, Front(d), c)
  BY <1>3, <1>8, PoppedWait
<1>10. /\ deserializers_' \in [Channels -> Seq(Context)] /\ deserializers_'[c] = Front(d)
       /\ \A b \in Channels : b # c => deserializers_'[b] = deserializers_[b]
  BY <1>1, <1>2, <1>3, <1>9 DEF SendInv
<1>11. ASSUME NEW b \in Channels, Owner[b] = p
       PROVE  Nests(r, deserializers_'[b], b)
  <2>1. CASE b = c
    BY <1>9, <1>10, <2>1
  <2>2. CASE b # c
    <3>1. ~WaitsOn(h, b) /\ Nests(s, deserializers_[b], b)
      BY <1>4, <1>11, <2>2 DEF WaitsOn, c
    <3> QED
      BY <1>3, <1>10, <2>2, <3>1, PushedOther
  <2> QED
    BY <2>1, <2>2
<1>12. SendInv' /\ NestInv'
  <2>1. \A b \in Channels : Owner[b] # p => deserializers_'[b] = deserializers_[b]
    BY <1>6, <1>10
  <2> QED
    BY <1>1, <1>2, <1>3, <1>7, <1>10, <1>11, <2>1, StackStep
<1>13. QueueInv'
  BY <1>1, SameQueue DEF Pop
<1>14. ReplyInv'
  BY <1>1 DEF Pop, ReplyInv
<1> QED
  BY <1>12, <1>13, <1>14 DEF IInv

\* A request is answered, at once or not.
LEMMA AnswerKeeps ==
    ASSUME IInv, NEW p \in Threads, AnswerRequest(p) \/ DelayAnswer(p) \/ AnswerLater(p)
    PROVE  IInv'
<1>1. QueueInv /\ ReplyInv /\ SendInv /\ NestInv
  BY DEF IInv
<1>2. QueueInv'
  BY <1>1, SameQueue DEF AnswerRequest, DelayAnswer, AnswerLater
<1>3. ASSUME InCall(p, "OnDispatchMessage")
      PROVE  /\ stack[p] # <<>> /\ Top(p).call = "OnDispatchMessage"
             /\ Top(p).end \in Channels /\ Top(p).id \in Nat
  <2>1. stack[p] # <<>> /\ stack[p] \in Seq(Frame) /\ Top(p).call = "OnDispatchMessage"
    BY <1>1, <1>3 DEF InCall, SendInv
  <2> QED
    BY <2>1, TopAndRest, Frames DEF Top
<1>4. \A c \in Channels, id \in Nat : Deliver(Peer[c], Reply(id)) \in [Channels -> Seq(Message)]
  <2> SUFFICES ASSUME NEW c \in Channels, NEW id \in Nat
               PROVE  Deliver(Peer[c], Reply(id)) \in [Channels -> Seq(Message)]
    OBVIOUS
  <2>1. Peer[c] \in Channels /\ Reply(id) \in Message
    BY ChannelAssumption DEF Reply, Message
  <2> QED
    BY <1>1, <2>1, Delivered
<1>5. CASE AnswerRequest(p)
  <2>1. /\ stack' = [stack EXCEPT ![p] = Tail(@)] /\ InCall(p, "OnDispatchMessage")
        /\ wire' = Deliver(Peer[Top(p).end], Reply(Top(p).id))
        /\ UNCHANGED <<deserializers_, received_replies_, dispatchReplies, owed, budget, dead>>
    BY <1>5 DEF AnswerRequest
  <2>2. SendInv' /\ NestInv'
    BY <1>1, <1>3, <2>1, PopStep
  <2>3. ReplyInv'
    BY <1>1, <1>3, <1>4, <2>1 DEF ReplyInv
  <2> QED
    BY <1>2, <2>2, <2>3 DEF IInv
<1>6. CASE DelayAnswer(p)
  <2>1. /\ stack' = [stack EXCEPT ![p] = Tail(@)] /\ InCall(p, "OnDispatchMessage")
        /\ owed' = [owed EXCEPT ![p] = @ \cup {[end |-> Top(p).end, id |-> Top(p).id]}]
        /\ UNCHANGED <<deserializers_, received_replies_, dispatchReplies, wire, budget, dead>>
    BY <1>6 DEF DelayAnswer
  <2>2. SendInv' /\ NestInv'
    BY <1>1, <1>3, <2>1, PopStep
  <2>3. [end |-> Top(p).end, id |-> Top(p).id] \in Item
    BY <1>3, <2>1 DEF Item
  <2>4. ReplyInv'
    BY <1>1, <2>1, <2>3 DEF ReplyInv
  <2> QED
    BY <1>2, <2>2, <2>4 DEF IInv
<1>7. CASE AnswerLater(p)
  <2>1. PICK r \in owed[p] : /\ owed' = [owed EXCEPT ![p] = @ \ {r}]
                             /\ wire' = Deliver(Peer[r.end], Reply(r.id))
    BY <1>7 DEF AnswerLater
  <2>2. UNCHANGED <<deserializers_, received_replies_, dispatchReplies, stack, budget, dead>>
    BY <1>7 DEF AnswerLater
  <2>3. r.end \in Channels /\ r.id \in Nat
    BY <1>1 DEF ReplyInv, Item
  <2>4. ReplyInv'
    BY <1>1, <1>4, <2>1, <2>2, <2>3 DEF ReplyInv
  <2>5. SendInv' /\ NestInv'
    BY <1>1, <2>2, SameCalls
  <2> QED
    BY <1>2, <2>4, <2>5 DEF IInv
<1> QED
  BY <1>5, <1>6, <1>7

\* The message loop dispatches for a task or a watcher.
LEMMA RunTaskKeeps == ASSUME IInv, NEW p \in Threads, RunTask(p) PROVE IInv'
<1> DEFINE task == Head(loop[p])
<1>1. QueueInv /\ ReplyInv /\ SendInv /\ NestInv
  BY DEF IInv
<1>2. /\ stack[p] = <<>> /\ loop[p] # <<>>
      /\ loop' = [loop EXCEPT ![p] = Tail(@)]
      /\ stack' = [stack EXCEPT ![p] = <<Dispatch(task.end)>>]
      /\ UNCHANGED <<message_queue_, ipc, deserializers_>>
  BY DEF RunTask
<1>3. loop[p] \in Seq(Task(p)) /\ task \in Task(p) /\ Tail(loop[p]) \in Seq(Task(p))
  BY <1>1, <1>2 DEF QueueInv
<1>4. task.end \in Range(Ends[p]) /\ task.end \in Channels
  BY <1>3, Owners DEF Task
<1>5. SendInv' /\ NestInv'
  <2>1. Dispatch(task.end) \in Frame /\ Dispatch(task.end).call = "DispatchMessages"
    BY <1>4, Frames DEF Dispatch
  <2>2. stack' = [stack EXCEPT ![p] = <<Dispatch(task.end)>> \o @]
    <3> HIDE DEF task
    <3>1. <<Dispatch(task.end)>> \o <<>> = <<Dispatch(task.end)>>
      BY <2>1
    <3> QED
      BY <1>2, <3>1
  <2> QED
    BY <1>1, <1>2, <2>1, <2>2, PushStep
<1>6. ReplyInv'
  BY <1>1, SameReplies DEF RunTask
<1>7. /\ loop' = [q \in Threads |-> loop'[q]]
      /\ \A q \in Threads : loop'[q] \in Seq(Task(q))
  <2>1. /\ loop' = [q \in Threads |-> loop'[q]] /\ loop'[p] = Tail(loop[p])
        /\ \A q \in Threads : q # p => loop'[q] = loop[q]
    BY <1>1, <1>2, Updated DEF QueueInv
  <2> QED
    BY <1>1, <1>3, <2>1 DEF QueueInv
<1>8. /\ watching' = [q \in Threads |-> watching'[q]]
      /\ \A q \in Threads : watching'[q] \in Seq(Range(Ends[q]))
  <2>1. CASE watching' = watching
    BY <1>1, <2>1 DEF QueueInv
  <2>2. CASE watching' = [watching EXCEPT ![p] = Append(@, task.end)]
    <3>1. /\ watching' = [q \in Threads |-> watching'[q]]
          /\ watching'[p] = Append(watching[p], task.end)
          /\ \A q \in Threads : q # p => watching'[q] = watching[q]
      BY <1>1, <2>2, Updated DEF QueueInv
    <3>2. Append(watching[p], task.end) \in Seq(Range(Ends[p]))
      BY <1>1, <1>4 DEF QueueInv
    <3> QED
      BY <1>1, <3>1, <3>2 DEF QueueInv
  <2> QED
    BY <2>1, <2>2 DEF RunTask
<1>9. dispatch_event_' \in [Threads -> BOOLEAN] /\ task_pending_' \in [Threads -> BOOLEAN]
  BY <1>1 DEF RunTask, QueueInv
<1>10. QueueInv'
  BY <1>1, <1>2, <1>7, <1>8, <1>9 DEF QueueInv
<1> QED
  BY <1>5, <1>6, <1>10 DEF IInv

-----------------------------------------------------------------------------
(* The IPC thread                                                          *)

\* A reply finds the innermost Send of its end, and marks it done.
LEMMA UnblockKeeps ==
    ASSUME SendInv, NestInv, UNCHANGED stack, NEW c \in Channels, NEW id, Matches(c, id),
           deserializers_' = Unblock(c)
    PROVE  SendInv' /\ NestInv'
<1>1. deserializers_[c] \in Seq(Context) /\ deserializers_[c] # <<>>
  BY DEF SendInv, Matches
<1>2. Len(deserializers_[c]) \in 1..Len(deserializers_[c])
  BY <1>1
<1> QED
  BY <1>2, DoneOne DEF Unblock

\* A message comes: a request is queued, a reply unblocks its Send or is kept.
LEMMA OnMessageReceivedKeeps ==
    ASSUME IInv, NEW c \in Channels, OnMessageReceived(c) PROVE IInv'
<1> DEFINE p == Owner[c]
           m == Head(wire[c])
           x == [end |-> c, id |-> m.id]
<1>1. QueueInv /\ ReplyInv /\ SendInv /\ NestInv
  BY DEF IInv
<1>2. p \in Threads /\ c \in Range(Ends[p])
  BY Owners
<1>3. wire[c] \in Seq(Message) /\ wire[c] # <<>> /\ wire' = [wire EXCEPT ![c] = Tail(@)]
  BY <1>1 DEF OnMessageReceived, ReplyInv
<1>4. m \in Message /\ Tail(wire[c]) \in Seq(Message)
  BY <1>3
<1>5. x \in Item
  BY <1>4 DEF Message, Item
<1>6. wire' \in [Channels -> Seq(Message)]
  BY <1>1, <1>3, <1>4 DEF ReplyInv
<1>7. UNCHANGED <<dispatch_event_, watching, loop, stack, dispatchReplies, owed, budget, dead>>
  BY DEF OnMessageReceived
<1>8. CASE m.type = "request"
  <2>1. /\ message_queue_' = [message_queue_ EXCEPT ![p] = Append(@, x)]
        /\ ipc' = [ipc EXCEPT ![p] = [end |-> c, post |-> ~task_pending_[p]]]
        /\ task_pending_' = [task_pending_ EXCEPT ![p] = TRUE]
        /\ UNCHANGED <<deserializers_, received_replies_>>
    BY <1>8 DEF OnMessageReceived
  <2> HIDE DEF x, m, p
  <2>2. SendInv' /\ NestInv'
    BY <1>1, <1>7, <2>1, SameCalls
  <2>3. ReplyInv'
    BY <1>1, <1>6, <1>7, <2>1 DEF ReplyInv
  <2>4. message_queue_' \in [Threads -> Seq(Item)] /\ task_pending_' \in [Threads -> BOOLEAN]
    <3>1. Append(message_queue_[p], x) \in Seq(Item)
      BY <1>1, <1>2, <1>5 DEF QueueInv
    <3> QED
      BY <1>1, <2>1, <3>1 DEF QueueInv
  <2>5. [end |-> c, post |-> ~task_pending_[p]] \in Queueing(p)
    BY <1>1, <1>2 DEF QueueInv, Queueing
  <2>6. /\ ipc' = [q \in Threads |-> ipc'[q]]
        /\ \A q \in Threads : ipc'[q] = None \/ ipc'[q] \in Queueing(q)
    <3>1. /\ ipc' = [q \in Threads |-> ipc'[q]]
          /\ ipc'[p] = [end |-> c, post |-> ~task_pending_[p]]
          /\ \A q \in Threads : q # p => ipc'[q] = ipc[q]
      BY <1>1, <1>2, <2>1, Updated DEF QueueInv
    <3> QED
      BY <1>1, <2>5, <3>1 DEF QueueInv
  <2>7. QueueInv'
    BY <1>1, <1>7, <2>4, <2>6 DEF QueueInv, Task, Queueing
  <2> QED
    BY <2>2, <2>3, <2>7 DEF IInv
<1>9. CASE m.type # "request"
  <2>1. UNCHANGED <<message_queue_, ipc, task_pending_>>
    BY <1>9 DEF OnMessageReceived
  <2>2. QueueInv'
    BY <1>1, <1>7, <2>1, SameQueue DEF queueVars
  <2>3. CASE Matches(c, m.id)
    <3>1. deserializers_' = Unblock(c) /\ UNCHANGED received_replies_
      BY <1>9, <2>3 DEF OnMessageReceived
    <3>2. SendInv' /\ NestInv'
      BY <1>1, <1>7, <2>3, <3>1, UnblockKeeps
    <3>3. ReplyInv'
      BY <1>1, <1>6, <1>7, <3>1 DEF ReplyInv
    <3> QED
      BY <2>2, <3>2, <3>3 DEF IInv
  <2>4. CASE ~Matches(c, m.id)
    <3>1. /\ received_replies_' = [received_replies_ EXCEPT ![p] = Append(@, x)]
          /\ UNCHANGED deserializers_
      BY <1>9, <2>4 DEF OnMessageReceived
    <3> HIDE DEF x, m, p
    <3>2. Append(received_replies_[p], x) \in Seq(Item)
      BY <1>1, <1>2, <1>5 DEF ReplyInv
    <3>3. ReplyInv'
      BY <1>1, <1>6, <1>7, <3>1, <3>2 DEF ReplyInv
    <3>4. SendInv' /\ NestInv'
      BY <1>1, <1>7, <3>1, SameCalls
    <3> QED
      BY <2>2, <3>3, <3>4 DEF IInv
  <2> QED
    BY <2>3, <2>4
<1> QED
  BY <1>8, <1>9

\* The event is set and the tasks are posted.
LEMMA SignalDispatchEventKeeps ==
    ASSUME IInv, NEW p \in Threads, SignalDispatchEvent(p) PROVE IInv'
<1> DEFINE called == [i \in DOMAIN watching[p] |->
                          [watcher |-> TRUE, end |-> watching[p][i]]]
           posted == IF ipc[p].post THEN <<[watcher |-> FALSE, end |-> ipc[p].end]>> ELSE <<>>
           l == loop[p] \o called \o posted
<1>1. QueueInv /\ ReplyInv /\ SendInv /\ NestInv
  BY DEF IInv
<1>2. /\ ipc[p] # None
      /\ dispatch_event_' = [dispatch_event_ EXCEPT ![p] = TRUE]
      /\ watching' = [watching EXCEPT ![p] = <<>>]
      /\ ipc' = [ipc EXCEPT ![p] = None]
      /\ UNCHANGED <<message_queue_, task_pending_>>
  BY DEF SignalDispatchEvent
<1>3. loop' = [loop EXCEPT ![p] = l]
  BY DEF SignalDispatchEvent
<1>4. called \in Seq(Task(p))
  <2>1. watching[p] \in Seq(Range(Ends[p]))
    BY <1>1 DEF QueueInv
  <2>2. \A i \in 1..Len(watching[p]) :
           [watcher |-> TRUE, end |-> watching[p][i]] \in Task(p)
    BY <2>1 DEF Task
  <2>3. DOMAIN watching[p] = 1..Len(watching[p]) /\ Len(watching[p]) \in Nat
    BY <2>1
  <2> QED
    BY <2>2, <2>3
<1>5. posted \in Seq(Task(p))
  <2>1. ipc[p] \in Queueing(p)
    BY <1>1, <1>2 DEF QueueInv
  <2>2. [watcher |-> FALSE, end |-> ipc[p].end] \in Task(p)
    BY <2>1 DEF Queueing, Task
  <2>3. CASE ipc[p].post
    BY <2>2, <2>3
  <2>4. CASE ~ipc[p].post
    BY <2>4
  <2> QED
    BY <2>3, <2>4
<1>6. l \in Seq(Task(p))
  <2>1. loop[p] \in Seq(Task(p))
    BY <1>1 DEF QueueInv
  <2> HIDE DEF called, posted
  <2> QED
    BY <1>4, <1>5, <2>1
<1> HIDE DEF l
<1>7. /\ loop' = [q \in Threads |-> loop'[q]]
      /\ \A q \in Threads : loop'[q] \in Seq(Task(q))
  <2>1. /\ loop' = [q \in Threads |-> loop'[q]] /\ loop'[p] = l
        /\ \A q \in Threads : q # p => loop'[q] = loop[q]
    BY <1>1, <1>3, Updated DEF QueueInv
  <2> QED
    BY <1>1, <1>6, <2>1 DEF QueueInv
<1>8. /\ watching' = [q \in Threads |-> watching'[q]]
      /\ \A q \in Threads : watching'[q] \in Seq(Range(Ends[q]))
  <2>1. /\ watching' = [q \in Threads |-> watching'[q]] /\ watching'[p] = <<>>
        /\ \A q \in Threads : q # p => watching'[q] = watching[q]
    BY <1>1, <1>2, Updated DEF QueueInv
  <2>2. <<>> \in Seq(Range(Ends[p]))
    OBVIOUS
  <2> QED
    BY <1>1, <2>1, <2>2 DEF QueueInv
<1>9. /\ ipc' = [q \in Threads |-> ipc'[q]]
      /\ \A q \in Threads : ipc'[q] = None \/ ipc'[q] \in Queueing(q)
  <2>1. /\ ipc' = [q \in Threads |-> ipc'[q]] /\ ipc'[p] = None
        /\ \A q \in Threads : q # p => ipc'[q] = ipc[q]
    BY <1>1, <1>2, Updated DEF QueueInv
  <2> QED
    BY <1>1, <2>1 DEF QueueInv
<1>10. QueueInv'
  <2>1. dispatch_event_' \in [Threads -> BOOLEAN]
    BY <1>1, <1>2 DEF QueueInv
  <2> QED
    BY <1>1, <1>2, <1>7, <1>8, <1>9, <2>1 DEF QueueInv, Task, Queueing
<1>11. SendInv' /\ NestInv'
  BY <1>1, SameCalls DEF SignalDispatchEvent
<1>12. ReplyInv'
  BY <1>1, SameReplies DEF SignalDispatchEvent
<1> QED
  BY <1>10, <1>11, <1>12 DEF IInv

\* A set of indices has a least one.
LEMMA LeastIndex ==
    ASSUME NEW n \in Nat, NEW S \in SUBSET (1..n), S # {}
    PROVE  Min(S) \in S
<1>1. S \subseteq Nat
  OBVIOUS
<1>2. PICK k \in S : \A l \in S : ~(l < k)
  <2>1. IsWellFoundedOn(OpToRel(<, Nat), Nat)
    BY NatLessThanWellFounded
  <2>2. PICK k \in S : \A l \in S : ~(<<l, k>> \in OpToRel(<, Nat))
    BY <1>1, <2>1, WFMin
  <2>3. \A l \in S : l < k => <<l, k>> \in OpToRel(<, Nat)
    BY <1>1 DEF OpToRel
  <2> QED
    BY <2>2, <2>3
<1>3. \A l \in S : k <= l
  BY <1>1, <1>2
<1> QED
  BY <1>3 DEF Min

\* A reply that was kept unblocks the Send that now waits for it.
LEMMA DispatchRepliesKeeps ==
    ASSUME IInv, NEW p \in Threads, DispatchReplies(p) PROVE IInv'
<1> DEFINE q == received_replies_[p]
           k == Min(Ready(p))
<1>1. QueueInv /\ ReplyInv /\ SendInv /\ NestInv
  BY DEF IInv
<1>2. QueueInv'
  BY <1>1, SameQueue DEF DispatchReplies
<1>3. q \in Seq(Item)
  BY <1>1 DEF ReplyInv
<1>4. dispatchReplies' \in [Threads -> Nat]
  <2>1. dispatchReplies[p] \in Nat /\ dispatchReplies[p] > 0
    BY <1>1 DEF ReplyInv, DispatchReplies
  <2>2. dispatchReplies[p] - 1 \in Nat
    BY <2>1
  <2> QED
    BY <1>1, <2>2 DEF ReplyInv, DispatchReplies
<1>5. UNCHANGED <<stack, wire, owed, budget, dead>>
  BY DEF DispatchReplies
<1>6. CASE Ready(p) = {}
  <2>1. UNCHANGED <<received_replies_, deserializers_>>
    BY <1>6 DEF DispatchReplies
  <2>2. SendInv' /\ NestInv'
    BY <1>1, <1>5, <2>1, SameCalls
  <2>3. ReplyInv'
    BY <1>1, <1>4, <1>5, <2>1 DEF ReplyInv
  <2> QED
    BY <1>2, <2>2, <2>3 DEF IInv
<1>7. CASE Ready(p) # {}
  <2>1. /\ received_replies_' = [received_replies_ EXCEPT ![p] = RemoveAt(q, k)]
        /\ deserializers_' = Unblock(q[k].end)
    BY <1>7 DEF DispatchReplies
  <2>2. k \in Ready(p)
    <3>1. Ready(p) \in SUBSET (1..Len(q)) /\ Len(q) \in Nat
      BY <1>3 DEF Ready
    <3> QED
      BY <1>7, <3>1, LeastIndex
  <2> HIDE DEF k
  <2>3. k \in DOMAIN q /\ Matches(q[k].end, q[k].id)
    BY <2>2 DEF Ready
  <2>4. q[k].end \in Channels
    <3> HIDE DEF q
    <3>1. q[k] \in Item
      BY <1>3, <2>3
    <3> QED
      BY <3>1 DEF Item
  <2>5. SendInv' /\ NestInv'
    BY <1>1, <1>5, <2>1, <2>3, <2>4, UnblockKeeps
  <2>6. RemoveAt(q, k) \in Seq(Item)
    BY <1>3, <2>3, RemovedOne
  <2>7. ReplyInv'
    <3> HIDE DEF q
    <3> QED
      BY <1>1, <1>4, <1>5, <2>1, <2>6 DEF ReplyInv
  <2> QED
    BY <1>2, <2>5, <2>7 DEF IInv
<1> QED
  BY <1>6, <1>7

\* A Send times out.
LEMMA OnSendTimeoutKeeps ==
    ASSUME IInv, NEW c \in Channels, OnSendTimeout(c) PROVE IInv'
<1>1. QueueInv /\ ReplyInv /\ SendInv /\ NestInv
  BY DEF IInv
<1>2. QueueInv' /\ ReplyInv'
  BY <1>1, SameQueue, SameReplies DEF OnSendTimeout
<1>3. SendInv' /\ NestInv'
  <2>1. deserializers_[c] \in Seq(Context) /\ UNCHANGED stack
    BY <1>1 DEF SendInv, OnSendTimeout
  <2>2. DOMAIN deserializers_[c] = 1..Len(deserializers_[c])
    BY <2>1
  <2>3. PICK i \in 1..Len(deserializers_[c]) :
           deserializers_' = [deserializers_ EXCEPT ![c][i].done = TRUE]
    BY <2>2 DEF OnSendTimeout
  <2> QED
    BY <1>1, <2>1, <2>3, DoneOne
<1> QED
  BY <1>2, <1>3 DEF IInv

\* The Sends of an end fail when its channel does.
LEMMA CancelPendingSendsKeeps ==
    ASSUME IInv, NEW c \in Channels, CancelPendingSends(c) PROVE IInv'
<1> DEFINE d == deserializers_[c]
           e == [i \in DOMAIN d |-> [d[i] EXCEPT !.done = TRUE]]
<1>1. QueueInv /\ ReplyInv /\ SendInv /\ NestInv
  BY DEF IInv
<1>2. QueueInv' /\ ReplyInv'
  BY <1>1, SameQueue, SameReplies DEF CancelPendingSends
<1>3. deserializers_' = [deserializers_ EXCEPT ![c] = e] /\ UNCHANGED stack
  BY DEF CancelPendingSends
<1>4. d \in Seq(Context)
  BY <1>1 DEF SendInv
<1>5. e \in Seq(Context) /\ Len(e) = Len(d) /\ \A k \in 1..Len(d) : e[k].id = d[k].id
  <2>1. \A k \in 1..Len(d) : /\ [d[k] EXCEPT !.done = TRUE] \in Context
                             /\ [d[k] EXCEPT !.done = TRUE].id = d[k].id
    <3> HIDE DEF d
    <3>1. \A k \in 1..Len(d) : d[k] \in Context
      BY <1>4
    <3> QED
      BY <3>1 DEF Context
  <2>2. DOMAIN d = 1..Len(d) /\ Len(d) \in Nat
    BY <1>4
  <2> QED
    BY <2>1, <2>2
<1> HIDE DEF d, e
<1>6. /\ deserializers_' \in [Channels -> Seq(Context)] /\ deserializers_'[c] = e
      /\ \A b \in Channels : b # c => deserializers_'[b] = deserializers_[b]
  BY <1>1, <1>3, <1>5 DEF SendInv
<1>7. ASSUME NEW b \in Channels
      PROVE  /\ Len(deserializers_'[b]) = Len(deserializers_[b])
             /\ \A k \in 1..Len(deserializers_[b]) :
                   deserializers_'[b][k].id = deserializers_[b][k].id
  BY <1>5, <1>6 DEF d
<1>8. SendInv' /\ NestInv'
  BY <1>1, <1>3, <1>6, <1>7, DoneStep
<1> QED
  BY <1>2, <1>8 DEF IInv

\* A thread that waits for nothing has no Sends.
LEMMA NothingNests == ASSUME NEW c PROVE Nests(<<>>, <<>>, c)
<1>1. {j \in 1..Len(<<>>) : WaitsOn(<<>>[j], c)} = {}
  OBVIOUS
<1>2. Depth(<<>>, c, 1) = 0
  BY <1>1, FS_EmptySet DEF Depth
<1> QED
  BY <1>2 DEF Nests

\* A process dies with its stack and its Sends.
LEMMA CrashKeeps == ASSUME IInv, NEW p \in Threads, Crash(p) PROVE IInv'
<1>1. QueueInv /\ ReplyInv /\ SendInv /\ NestInv
  BY DEF IInv
<1>2. <<>> \in Seq(Item) /\ <<>> \in Seq(Frame) /\ <<>> \in Seq(Message)
      /\ <<>> \in Seq(Context) /\ <<>> \in Seq(Task(p)) /\ <<>> \in Seq(Range(Ends[p]))
  OBVIOUS
<1>3. SendInv' /\ NestInv'
  <2>1. /\ stack' = [stack EXCEPT ![p] = <<>>]
        /\ deserializers_' = [c \in Channels |->
                                 IF Owner[c] = p THEN <<>> ELSE deserializers_[c]]
    BY DEF Crash
  <2>2. deserializers_' \in [Channels -> Seq(Context)]
    BY <1>1, <1>2, <2>1 DEF SendInv
  <2>3. OwnWaits(<<>>, p)
    BY DEF OwnWaits
  <2>4. \A c \in Channels : Owner[c] = p => Nests(<<>>, deserializers_'[c], c)
    BY <2>1, NothingNests
  <2>5. \A c \in Channels : Owner[c] # p => deserializers_'[c] = deserializers_[c]
    BY <2>1
  <2> QED
    BY <1>1, <1>2, <2>1, <2>2, <2>3, <2>4, <2>5, StackStep
<1>4. ReplyInv'
  <2>1. wire' \in [Channels -> Seq(Message)]
    <3>1. wire' = [c \in Channels |-> IF Owner[c] = p THEN <<>> ELSE wire[c]]
      BY DEF Crash
    <3> QED
      BY <1>1, <1>2, <3>1 DEF ReplyInv
  <2>2. /\ received_replies_' = [received_replies_ EXCEPT ![p] = <<>>]
        /\ dispatchReplies' = [dispatchReplies EXCEPT ![p] = 0]
        /\ owed' = [owed EXCEPT ![p] = {}]
        /\ p \in Mortal /\ dead' = dead \cup {p} /\ UNCHANGED budget
    BY DEF Crash
  <2>3. received_replies_' \in [Threads -> Seq(Item)]
    BY <1>1, <1>2, <2>2 DEF ReplyInv
  <2>4. dispatchReplies' \in [Threads -> Nat] /\ owed' \in [Threads -> SUBSET Item]
    BY <1>1, <2>2 DEF ReplyInv
  <2> QED
    BY <1>1, <2>1, <2>2, <2>3, <2>4 DEF ReplyInv
<1>5. /\ message_queue_' \in [Threads -> Seq(Item)]
      /\ dispatch_event_' \in [Threads -> BOOLEAN]
      /\ task_pending_' \in [Threads -> BOOLEAN]
  BY <1>1, <1>2 DEF Crash, QueueInv
<1>6. /\ watching' = [q \in Threads |-> watching'[q]]
      /\ \A q \in Threads : watching'[q] \in Seq(Range(Ends[q]))
  <2>1. watching' = [watching EXCEPT ![p] = <<>>]
    BY DEF Crash
  <2>2. /\ watching' = [q \in Threads |-> watching'[q]] /\ watching'[p] = <<>>
        /\ \A q \in Threads : q # p => watching'[q] = watching[q]
    BY <1>1, <2>1, Updated DEF QueueInv
  <2> QED
    BY <1>1, <1>2, <2>2 DEF QueueInv
<1>7. /\ loop' = [q \in Threads |-> loop'[q]]
      /\ \A q \in Threads : loop'[q] \in Seq(Task(q))
  <2>1. loop' = [loop EXCEPT ![p] = <<>>]
    BY DEF Crash
  <2>2. /\ loop' = [q \in Threads |-> loop'[q]] /\ loop'[p] = <<>>
        /\ \A q \in Threads : q # p => loop'[q] = loop[q]
    BY <1>1, <2>1, Updated DEF QueueInv
  <2> QED
    BY <1>1, <1>2, <2>2 DEF QueueInv
<1>8. /\ ipc' = [q \in Threads |-> ipc'[q]]
      /\ \A q \in Threads : ipc'[q] = None \/ ipc'[q] \in Queueing(q)
  <2>1. ipc' = [ipc EXCEPT ![p] = None]
    BY DEF Crash
  <2>2. /\ ipc' = [q \in Threads |-> ipc'[q]] /\ ipc'[p] = None
        /\ \A q \in Threads : q # p => ipc'[q] = ipc[q]
    BY <1>1, <2>1, Updated DEF QueueInv
  <2> QED
    BY <1>1, <2>2 DEF QueueInv
<1>9. QueueInv'
  BY <1>5, <1>6, <1>7, <1>8 DEF QueueInv, Task, Queueing
<1> QED
  BY <1>3, <1>4, <1>9 DEF IInv

-----------------------------------------------------------------------------
(* The theorems                                                            *)

\* At first no thread does anything and each of its ends watches the event.
LEMMA InitKeeps == Init => IInv
<1> SUFFICES ASSUME Init PROVE IInv
  OBVIOUS
<1>1. \A p \in Threads : /\ <<>> \in Seq(Item) /\ <<>> \in Seq(Frame)
                         /\ <<>> \in Seq(Message) /\ <<>> \in Seq(Context)
                         /\ <<>> \in Seq(Task(p))
  OBVIOUS
<1>2. QueueInv
  <2>1. watching = [p \in Threads |-> watching[p]]
    BY ChannelAssumption DEF Init
  <2>2. \A p \in Threads : watching[p] \in Seq(Range(Ends[p]))
    <3> SUFFICES ASSUME NEW p \in Threads PROVE Ends[p] \in Seq(Range(Ends[p]))
      BY DEF Init
    <3>1. Ends[p] \in Seq(Channels)
      BY ChannelAssumption
    <3>2. \A i \in 1..Len(Ends[p]) : Ends[p][i] \in Range(Ends[p])
      BY <3>1 DEF Range
    <3> QED
      BY <3>1, <3>2
  <2>3. /\ message_queue_ \in [Threads -> Seq(Item)]
        /\ dispatch_event_ \in [Threads -> BOOLEAN]
        /\ task_pending_ \in [Threads -> BOOLEAN]
    BY <1>1 DEF Init
  <2>4. /\ loop = [p \in Threads |-> loop[p]]
        /\ \A p \in Threads : loop[p] \in Seq(Task(p))
        /\ ipc = [p \in Threads |-> ipc[p]]
        /\ \A p \in Threads : ipc[p] = None
    BY <1>1 DEF Init
  <2> QED
    BY <2>1, <2>2, <2>3, <2>4 DEF QueueInv
<1>3. ReplyInv
  BY <1>1, ChannelAssumption DEF Init, ReplyInv
<1>4. SendInv
  BY <1>1 DEF Init, SendInv
<1>5. NestInv
  <2>1. \A p \in Threads : OwnWaits(stack[p], p)
    BY DEF Init, OwnWaits
  <2>2. \A c \in Channels : Nests(stack[Owner[c]], deserializers_[c], c)
    BY Owners, NothingNests DEF Init
  <2> QED
    BY <2>1, <2>2 DEF NestInv
<1> QED
  BY <1>2, <1>3, <1>4, <1>5 DEF IInv

\* Every step of the channels, the threads and the processes keeps the invariant.
THEOREM Invariance == Spec => []IInv
<1>1. ASSUME IInv, [Next]_vars
      PROVE  IInv'
  <2>1. ASSUME NEW p \in Threads, Listener(p) PROVE IInv'
    BY <1>1, <2>1, DispatchMessagesKeeps, WaitDispatchesKeeps, PopKeeps, AnswerKeeps,
       RunTaskKeeps DEF Listener
  <2>2. ASSUME NEW p \in Threads, IpcThread(p) PROVE IInv'
    <3>1. Range(Ends[p]) \subseteq Channels
      BY Owners
    <3> QED
      BY <1>1, <2>2, <3>1, OnMessageReceivedKeeps, CancelPendingSendsKeeps,
         SignalDispatchEventKeeps, DispatchRepliesKeeps DEF IpcThread
  <2>3. CASE UNCHANGED vars
    <3>1. QueueInv /\ ReplyInv /\ SendInv /\ NestInv
      BY <1>1 DEF IInv
    <3>2. QueueInv' /\ ReplyInv' /\ SendInv' /\ NestInv'
      BY <2>3, <3>1, SameQueue, SameReplies, SameCalls DEF vars, queueVars
    <3> QED
      BY <3>2 DEF IInv
  <2> QED
    BY <1>1, <2>1, <2>2, <2>3, AnswerKeeps, CrashKeeps, SendKeeps, OnSendTimeoutKeeps
       DEF Next
<1> QED
  BY InitKeeps, <1>1, PTL DEF Spec

\* The types of the state follow.
LEMMA Types == IInv => TypeOK
<1> SUFFICES ASSUME IInv PROVE TypeOK
  OBVIOUS
<1>1. QueueInv /\ ReplyInv /\ SendInv
  BY DEF IInv
<1>2. ASSUME NEW p \in Threads
      PROVE  ToSet(watching[p]) \subseteq ToSet(Ends[p])
  <2>1. watching[p] \in Seq(Range(Ends[p])) /\ Ends[p] \in Seq(Channels)
    BY <1>1, ChannelAssumption DEF QueueInv
  <2>2. \A i \in DOMAIN watching[p] : watching[p][i] \in Range(Ends[p])
    BY <2>1
  <2> QED
    BY <2>2 DEF ToSet, Range
<1>3. ASSUME NEW c \in Channels, NEW i \in DOMAIN deserializers_[c]
      PROVE  deserializers_[c][i] \in [id : Nat, done : BOOLEAN]
  <2>1. deserializers_[c] \in Seq(Context)
    BY <1>1 DEF SendInv
  <2>2. deserializers_[c][i] \in Context
    BY <2>1, <1>3
  <2> QED
    BY <2>2 DEF Context
<1>4. ASSUME NEW p \in Threads, NEW i \in DOMAIN stack[p]
      PROVE  stack[p][i].call \in {"OnDispatchMessage", "DispatchMessages", "WaitForReply"}
  <2>1. stack[p] \in Seq(Frame)
    BY <1>1 DEF SendInv
  <2>2. stack[p][i] \in Frame
    BY <2>1, <1>4
  <2> QED
    BY <2>2, Frames
<1> QED
  BY <1>1, <1>2, <1>3, <1>4 DEF QueueInv, ReplyInv, TypeOK

\* The Sends of an end that are under way are the waits on its thread's stack, in their
\* order: a Send that returns is the one whose entry Pop removes, however messages,
\* replies, timeouts and errors of channels interleave.
THEOREM SendsNestAsCalls == Spec => []SendsNest
<1>1. IInv => SendsNest
  <2> SUFFICES ASSUME IInv PROVE SendsNest
    OBVIOUS
  <2>1. SendInv /\ NestInv /\ TypeOK
    BY Types DEF IInv
  <2>2. ASSUME NEW c \in Channels
        PROVE  /\ Depth(stack[Owner[c]], c, 1) = Len(deserializers_[c])
               /\ \A i \in DOMAIN stack[Owner[c]] : WaitsOn(stack[Owner[c]][i], c) =>
                     stack[Owner[c]][i].id
                        = deserializers_[c][Depth(stack[Owner[c]], c, i)].id
    <3>1. Owner[c] \in Threads
      BY Owners
    <3>2. DOMAIN stack[Owner[c]] = 1..Len(stack[Owner[c]])
      BY <2>1, <3>1 DEF SendInv
    <3> QED
      BY <2>1, <3>2 DEF NestInv, Nests
  <2> QED
    BY <2>1, <2>2 DEF SendsNest
<1> QED
  BY <1>1, Invariance, PTL

-----------------------------------------------------------------------------
(* What is queued is not overlooked: the invariant                         *)

\* x is an element of the sequence s; it is so once at most.
Has(s, x) == \E i \in 1..Len(s) : s[i] = x
Once(s, x) == \A i, j \in 1..Len(s) : s[i] = x /\ s[j] = x => i = j

\* The same of the messages that the frames of a stack have put aside.
Dispatches(f) == f.call = "DispatchMessages"
HasAside(s, x) == \E k \in 1..Len(s) : Dispatches(s[k]) /\ Has(s[k].delayed, x)
OnceAside(s, x) ==
    /\ \A k \in 1..Len(s) : Dispatches(s[k]) => Once(s[k].delayed, x)
    /\ \A k, l \in 1..Len(s) :
          Dispatches(s[k]) /\ Dispatches(s[l]) /\ Has(s[k].delayed, x) /\ Has(s[l].delayed, x)
             => k = l

\* Messages and frames are with the thread of their end.
AreOf(q, p) == \A i \in 1..Len(q) : Owner[q[i].end] = p

\* A frame puts aside only messages for other, restricted ends.
FrameInv(f, p) ==
    /\ Owner[f.end] = p
    /\ Dispatches(f) => /\ AreOf(f.delayed, p)
                        /\ \A i \in 1..Len(f.delayed) : f.delayed[i].end \in Restricted \ {f.end}

\* A wait calls nothing but DispatchMessages for its own end.
CallsFrom(f, g) == g.call = "WaitForReply" => Dispatches(f) /\ f.end = g.end

ShapeInv(s, p) ==
    /\ \A k \in 1..Len(s) : FrameInv(s[k], p)
    /\ \A k \in 1..(Len(s) - 1) : CallsFrom(s[k], s[k + 1])

HomeInv ==
    \A p \in Threads :
        /\ AreOf(message_queue_[p], p) /\ AreOf(received_replies_[p], p)
        /\ \A r \in owed[p] : Owner[r.end] = p
        /\ ShapeInv(stack[p], p)

DeadInv ==
    \A p \in dead : /\ message_queue_[p] = <<>> /\ stack[p] = <<>> /\ ipc[p] = None
                    /\ \A c \in Channels : Owner[c] = p => wire[c] = <<>>

\* Where the one request id of end c, or the reply to it, can be.
Places == {"asked", "queued", "aside", "handled", "owed", "answered", "kept"}
Asked(c, id) == [end |-> Peer[c], id |-> id]
At(c, id, k) ==
    LET p == Owner[Peer[c]] IN
    \/ k = "asked" /\ Has(wire[Peer[c]], Request(id))
    \/ k = "queued" /\ Has(message_queue_[p], Asked(c, id))
    \/ k = "aside" /\ HasAside(stack[p], Asked(c, id))
    \/ k = "handled" /\ Has(stack[p], Handler(Peer[c], id))
    \/ k = "owed" /\ Asked(c, id) \in owed[p]
    \/ k = "answered" /\ Has(wire[c], Reply(id))
    \/ k = "kept" /\ Has(received_replies_[Owner[c]], [end |-> c, id |-> id])
OnceAt(c, id, k) ==
    LET p == Owner[Peer[c]] IN
    /\ k = "asked" => Once(wire[Peer[c]], Request(id))
    /\ k = "queued" => Once(message_queue_[p], Asked(c, id))
    /\ k = "aside" => OnceAside(stack[p], Asked(c, id))
    /\ k = "handled" => Once(stack[p], Handler(Peer[c], id))
    /\ k = "answered" => Once(wire[c], Reply(id))
    /\ k = "kept" => Once(received_replies_[Owner[c]], [end |-> c, id |-> id])

\* It is in one place, once, and was sent.
TokenInv(c, id) ==
    /\ \A k, l \in Places : At(c, id, k) /\ At(c, id, l) => k = l
    /\ \A k \in Places : OnceAt(c, id, k)
    /\ \A k \in Places : At(c, id, k) => budget[c] < id

\* A frame that will dispatch a message for c, and the task of c's watcher.
Serves(f, c) == Dispatches(f) /\ (f.end = c \/ c \notin Restricted)
ServedFrom(s, c, k) == \E l \in k..Len(s) : Serves(s[l], c)
Watched(l, c) == Has(l, [watcher |-> TRUE, end |-> c])

\* Each message that is queued, or put aside by a frame, has a task, or a frame further out,
\* to dispatch it.
Covered(l, q, s) ==
    /\ \A i \in 1..Len(q) : Watched(l, q[i].end) \/ ServedFrom(s, q[i].end, 1)
    /\ \A k \in 1..Len(s) : Dispatches(s[k]) =>
          \A i \in 1..Len(s[k].delayed) :
              Watched(l, s[k].delayed[i].end) \/ ServedFrom(s, s[k].delayed[i].end, k + 1)

\* The thread waits for end c and does not have to look at the queue q.
MayWait(q, c) == \A i \in 1..Len(q) : q[i].end \in Restricted \ {c}

SeenInv(p) ==
    /\ p \notin dead =>
          \A c \in Range(Ends[p]) : Has(watching[p], c) \/ Watched(loop[p], c)
    /\ ipc[p] = None =>
          /\ Covered(loop[p], message_queue_[p], stack[p])
          /\ stack[p] # <<>> /\ Top(p).call = "WaitForReply" =>
                dispatch_event_[p] \/ MayWait(message_queue_[p], Top(p).end)

JInv ==
    /\ HomeInv
    /\ DeadInv
    /\ \A c \in Channels, id \in Nat : TokenInv(c, id)
    /\ QueuedReplyIsFound
    /\ \A p \in Threads : SeenInv(p)

-----------------------------------------------------------------------------
(* Elements of sequences                                                   *)

\* What Append does to the elements.
LEMMA HasAppended ==
    ASSUME NEW S, NEW s \in Seq(S), NEW y \in S
    PROVE  LET t == Append(s, y) IN
           /\ t \in Seq(S)
           /\ \A x : Has(t, x) <=> Has(s, x) \/ x = y
           /\ \A x : x # y /\ Once(s, x) => Once(t, x)
           /\ ~Has(s, y) => Once(t, y)
<1> DEFINE t == Append(s, y)
           n == Len(s)
<1>1. /\ t \in Seq(S) /\ Len(t) = n + 1 /\ n \in Nat /\ t[n + 1] = y
      /\ \A i \in 1..n : t[i] = s[i]
  OBVIOUS
<1> HIDE DEF t, n
<1>2. \A i \in 1..Len(t) : i = n + 1 \/ i \in 1..n
  BY <1>1
<1>3. n + 1 \in 1..Len(t) /\ \A i \in 1..n : i \in 1..Len(t)
  BY <1>1
<1>4. \A x : Has(t, x) <=> Has(s, x) \/ x = y
  BY <1>1, <1>2, <1>3 DEF Has, n
<1>5. \A x : x # y /\ Once(s, x) => Once(t, x)
  BY <1>1, <1>2 DEF Once, n
<1>6. ~Has(s, y) => Once(t, y)
  BY <1>1, <1>2 DEF Once, Has, n
<1> QED
  BY <1>1, <1>4, <1>5, <1>6 DEF t

\* What Tail does to the elements.
LEMMA HasInTail ==
    ASSUME NEW S, NEW s \in Seq(S), s # <<>>
    PROVE  LET t == Tail(s) IN
           /\ t \in Seq(S) /\ Head(s) \in S /\ Has(s, Head(s))
           /\ \A x : Has(t, x) => Has(s, x)
           /\ \A x : Has(s, x) /\ x # Head(s) => Has(t, x)
           /\ \A x : Once(s, x) => Once(t, x)
           /\ Once(s, Head(s)) => ~Has(t, Head(s))
<1> DEFINE t == Tail(s)
           n == Len(s)
<1>1. /\ t \in Seq(S) /\ Len(t) = n - 1 /\ n \in Nat /\ n >= 1 /\ Head(s) = s[1]
      /\ \A i \in 1..(n - 1) : t[i] = s[i + 1]
  OBVIOUS
<1> HIDE DEF t, n
<1>2. \A i \in 1..Len(t) : i + 1 \in 1..n /\ t[i] = s[i + 1]
  BY <1>1
<1>3. \A i \in 1..n : i # 1 => i - 1 \in 1..Len(t) /\ t[i - 1] = s[i]
  <2> SUFFICES ASSUME NEW i \in 1..n, i # 1 PROVE i - 1 \in 1..Len(t) /\ t[i - 1] = s[i]
    OBVIOUS
  <2>1. i - 1 \in 1..(n - 1) /\ (i - 1) + 1 = i
    BY <1>1
  <2> QED
    BY <1>1, <2>1
<1>4. Head(s) \in S /\ 1 \in 1..n
  BY <1>1 DEF n
<1>5. Has(s, Head(s))
  BY <1>1, <1>4 DEF Has, n
<1>6. \A x : Has(t, x) => Has(s, x)
  BY <1>2 DEF Has, n
<1>7. \A x : Has(s, x) /\ x # Head(s) => Has(t, x)
  BY <1>1, <1>3 DEF Has, n
<1>8. \A x : Once(s, x) => Once(t, x)
  <2> SUFFICES ASSUME NEW x, Once(s, x), NEW i \in 1..Len(t), NEW j \in 1..Len(t),
                      t[i] = x, t[j] = x
               PROVE  i = j
    BY DEF Once
  <2>1. i + 1 = j + 1
    BY <1>2 DEF Once, n
  <2> QED
    BY <2>1
<1>9. Once(s, Head(s)) => ~Has(t, Head(s))
  <2> SUFFICES ASSUME Once(s, Head(s)), NEW i \in 1..Len(t), t[i] = Head(s) PROVE FALSE
    BY DEF Has
  <2>1. i + 1 = 1
    BY <1>1, <1>2, <1>4 DEF Once, n
  <2> QED
    BY <2>1
<1> QED
  BY <1>1, <1>4, <1>5, <1>6, <1>7, <1>8, <1>9 DEF t

\* What a new first element does to the elements.
LEMMA HasPushed ==
    ASSUME NEW s \in Seq(Frame), NEW f \in Frame
    PROVE  LET t == <<f>> \o s IN
           /\ \A x : Has(t, x) <=> Has(s, x) \/ x = f
           /\ \A x : x # f => (Once(s, x) <=> Once(t, x))
           /\ \A x : Once(t, x) => Once(s, x)
           /\ ~Has(s, f) <=> Once(t, f)
<1> DEFINE t == <<f>> \o s
           n == Len(s)
<1>1. /\ Len(t) = n + 1 /\ n \in Nat /\ t[1] = f
      /\ \A i \in 1..n : t[i + 1] = s[i]
  BY Pushed
<1> HIDE DEF t, n
<1>2. \A i \in 1..Len(t) : i = 1 \/ \E j \in 1..n : i = j + 1 /\ t[i] = s[j]
  <2> SUFFICES ASSUME NEW i \in 1..Len(t), i # 1
               PROVE  \E j \in 1..n : i = j + 1 /\ t[i] = s[j]
    OBVIOUS
  <2>1. i - 1 \in 1..n /\ (i - 1) + 1 = i
    BY <1>1
  <2> QED
    BY <1>1, <2>1
<1>3. 1 \in 1..Len(t) /\ \A i \in 1..n : i + 1 \in 1..Len(t) /\ i + 1 # 1 /\ t[i + 1] = s[i]
  BY <1>1
<1>4. ASSUME NEW x
      PROVE  Has(t, x) <=> Has(s, x) \/ x = f
  <2>1. Has(t, x) => Has(s, x) \/ x = f
    BY <1>1, <1>2 DEF Has, n
  <2>2. Has(s, x) => Has(t, x)
    BY <1>3 DEF Has, n
  <2>3. Has(t, f)
    BY <1>1, <1>3 DEF Has
  <2> QED
    BY <2>1, <2>2, <2>3
<1>5. ASSUME NEW x, x # f, Once(s, x)
      PROVE  Once(t, x)
  <2> SUFFICES ASSUME NEW i \in 1..Len(t), NEW j \in 1..Len(t), t[i] = x, t[j] = x
               PROVE  i = j
    BY DEF Once
  <2>1. PICK k \in 1..n : i = k + 1 /\ s[k] = x
    BY <1>1, <1>2, <1>5
  <2>2. PICK l \in 1..n : j = l + 1 /\ s[l] = x
    BY <1>1, <1>2, <1>5
  <2>3. k = l
    BY <1>5, <2>1, <2>2 DEF Once, n
  <2> QED
    BY <2>1, <2>2, <2>3
<1>6. \A x : Once(t, x) => Once(s, x)
  <2> SUFFICES ASSUME NEW x, Once(t, x), NEW i \in 1..Len(s), NEW j \in 1..Len(s),
                      s[i] = x, s[j] = x
               PROVE  i = j
    BY DEF Once
  <2>1. i + 1 = j + 1
    BY <1>3 DEF Once, n
  <2> QED
    BY <2>1
<1>7. ~Has(s, f) => Once(t, f)
  <2> SUFFICES ASSUME ~Has(s, f), NEW i \in 1..Len(t), NEW j \in 1..Len(t), t[i] = f, t[j] = f
               PROVE  i = j
    BY DEF Once
  <2> QED
    BY <1>2 DEF Has, n
<1>8. Once(t, f) => ~Has(s, f)
  BY <1>1, <1>3 DEF Has, Once, n
<1> QED
  BY <1>4, <1>5, <1>6, <1>7, <1>8 DEF t

\* What the removal of an element leaves.
LEMMA HasRemoved ==
    ASSUME NEW S, NEW s \in Seq(S), NEW i \in 1..Len(s)
    PROVE  LET t == RemoveAt(s, i) IN
           /\ \A x : Has(t, x) => Has(s, x)
           /\ \A x : Once(s, x) => Once(t, x)
<1> DEFINE t == RemoveAt(s, i)
           n == Len(s)
           at(j) == IF j < i THEN j ELSE j + 1
<1>1. n \in Nat /\ i \in 1..n /\ i \in DOMAIN s
  OBVIOUS
<1>2. Len(t) = n - 1 /\ \A j \in 1..(n - 1) : t[j] = s[at(j)]
  BY <1>1, RemovedOne
<1> HIDE DEF t, n
<1>3. \A j \in 1..Len(t) : at(j) \in 1..n /\ t[j] = s[at(j)]
  BY <1>1, <1>2
<1>4. \A j, k \in 1..Len(t) : at(j) = at(k) => j = k
  BY <1>1, <1>2
<1> HIDE DEF at
<1>5. \A x : Has(t, x) => Has(s, x)
  BY <1>3 DEF Has, n
<1>6. \A x : Once(s, x) => Once(t, x)
  BY <1>3, <1>4 DEF Once, n
<1> QED
  BY <1>5, <1>6 DEF t

\* The elements of a concatenation.
LEMMA HasConcat ==
    ASSUME NEW S, NEW s \in Seq(S), NEW t \in Seq(S)
    PROVE  \A x : Has(s \o t, x) <=> Has(s, x) \/ Has(t, x)
<1> DEFINE u == s \o t
           m == Len(s)
           n == Len(t)
<1>1. /\ Len(u) = m + n /\ m \in Nat /\ n \in Nat
      /\ \A i \in 1..(m + n) : u[i] = IF i <= m THEN s[i] ELSE t[i - m]
  OBVIOUS
<1> HIDE DEF u, m, n
<1>2. \A i \in 1..m : i \in 1..(m + n) /\ u[i] = s[i]
  BY <1>1
<1>3. \A i \in 1..n : i + m \in 1..(m + n) /\ u[i + m] = t[i]
  <2> SUFFICES ASSUME NEW i \in 1..n PROVE i + m \in 1..(m + n) /\ u[i + m] = t[i]
    OBVIOUS
  <2>1. i + m \in 1..(m + n) /\ ~(i + m <= m) /\ (i + m) - m = i
    BY <1>1
  <2> QED
    BY <1>1, <2>1
<1>4. \A i \in 1..(m + n) : (i \in 1..m /\ u[i] = s[i]) \/ (i - m \in 1..n /\ u[i] = t[i - m])
  BY <1>1
<1> QED
  BY <1>1, <1>2, <1>3, <1>4, ZenonT(60) DEF Has, u, m, n

-----------------------------------------------------------------------------
(* Stacks, seen from their top frame                                       *)

\* The frames of a stack are its top one and those of the rest.
LEMMA FramesOf ==
    ASSUME NEW s \in Seq(Frame), NEW f \in Frame
    PROVE  LET t == <<f>> \o s IN
           /\ Len(t) = Len(s) + 1 /\ Len(s) \in Nat /\ t[1] = f /\ 1 \in 1..Len(t)
           /\ \A k \in 1..Len(s) : k + 1 \in 1..Len(t) /\ t[k + 1] = s[k]
           /\ \A i \in 1..Len(t) : i = 1 \/ \E k \in 1..Len(s) : i = k + 1 /\ t[i] = s[k]
<1> DEFINE t == <<f>> \o s
           n == Len(s)
<1>1. /\ Len(t) = n + 1 /\ n \in Nat /\ t[1] = f
      /\ \A i \in 1..n : t[i + 1] = s[i]
  BY Pushed
<1> HIDE DEF t, n
<1>2. \A i \in 1..Len(t) : i = 1 \/ \E j \in 1..n : i = j + 1 /\ t[i] = s[j]
  <2> SUFFICES ASSUME NEW i \in 1..Len(t), i # 1
               PROVE  \E j \in 1..n : i = j + 1 /\ t[i] = s[j]
    OBVIOUS
  <2>1. i - 1 \in 1..n /\ (i - 1) + 1 = i
    BY <1>1
  <2> QED
    BY <1>1, <2>1
<1>3. 1 \in 1..Len(t) /\ \A i \in 1..n : i + 1 \in 1..Len(t) /\ t[i + 1] = s[i]
  BY <1>1
<1> QED
  BY <1>1, <1>2, <1>3 DEF t, n

\* What the frames have put aside.
LEMMA AsideOf ==
    ASSUME NEW s \in Seq(Frame), NEW f \in Frame, NEW x
    PROVE  LET t == <<f>> \o s
               top == Dispatches(f) /\ Has(f.delayed, x)
           IN  /\ HasAside(t, x) <=> HasAside(s, x) \/ top
               /\ OnceAside(t, x) <=> /\ OnceAside(s, x)
                                      /\ Dispatches(f) => Once(f.delayed, x)
                                      /\ ~(top /\ HasAside(s, x))
<1> DEFINE t == <<f>> \o s
           n == Len(s)
           In(g) == Dispatches(g) /\ Has(g.delayed, x)
           One(g) == Dispatches(g) => Once(g.delayed, x)
<1>1. /\ t[1] = f /\ 1 \in 1..Len(t) /\ n \in Nat
      /\ \A k \in 1..n : k + 1 \in 1..Len(t) /\ t[k + 1] = s[k]
      /\ \A i \in 1..Len(t) : i = 1 \/ \E k \in 1..n : i = k + 1 /\ t[i] = s[k]
  BY FramesOf
<1>2. /\ HasAside(t, x) <=> \E i \in 1..Len(t) : In(t[i])
      /\ HasAside(s, x) <=> \E i \in 1..n : In(s[i])
      /\ OnceAside(t, x) <=> /\ \A i \in 1..Len(t) : One(t[i])
                             /\ \A i, j \in 1..Len(t) : In(t[i]) /\ In(t[j]) => i = j
      /\ OnceAside(s, x) <=> /\ \A i \in 1..n : One(s[i])
                             /\ \A i, j \in 1..n : In(s[i]) /\ In(s[j]) => i = j
  BY DEF HasAside, OnceAside
<1> HIDE DEF t, n, In, One
<1>3. HasAside(t, x) <=> HasAside(s, x) \/ In(f)
  BY <1>1, <1>2
<1>4. ASSUME OnceAside(t, x)
      PROVE  OnceAside(s, x) /\ One(f) /\ ~(In(f) /\ HasAside(s, x))
  <2>1. \A i \in 1..n : One(s[i])
    BY <1>1, <1>2, <1>4
  <2>2. ASSUME NEW i \in 1..n, NEW j \in 1..n, In(s[i]), In(s[j])
        PROVE  i = j
    <3>1. i + 1 = j + 1
      BY <1>1, <1>2, <1>4, <2>2
    <3> QED
      BY <3>1
  <2>3. ASSUME In(f), NEW i \in 1..n, In(s[i])
        PROVE  FALSE
    <3>1. 1 = i + 1
      BY <1>1, <1>2, <1>4, <2>3
    <3> QED
      BY <3>1
  <2> QED
    BY <1>1, <1>2, <1>4, <2>1, <2>2, <2>3
<1>5. ASSUME OnceAside(s, x), One(f), ~(In(f) /\ HasAside(s, x))
      PROVE  OnceAside(t, x)
  <2>1. \A i \in 1..Len(t) : One(t[i])
    BY <1>1, <1>2, <1>5
  <2>2. ASSUME NEW i \in 1..Len(t), NEW j \in 1..Len(t), In(t[i]), In(t[j])
        PROVE  i = j
    BY <1>1, <1>2, <1>5, <2>2, SMTT(40)
  <2> QED
    BY <1>2, <2>1, <2>2
<1> QED
  BY <1>3, <1>4, <1>5 DEF t, In, One

\* Whom the frames serve.
LEMMA ServedOf ==
    ASSUME NEW s \in Seq(Frame), NEW f \in Frame, NEW c
    PROVE  LET t == <<f>> \o s IN
           /\ ServedFrom(t, c, 1) <=> Serves(f, c) \/ ServedFrom(s, c, 1)
           /\ \A k \in 1..(Len(s) + 1) : ServedFrom(t, c, k + 1) <=> ServedFrom(s, c, k)
<1> DEFINE t == <<f>> \o s
           n == Len(s)
<1>1. /\ t[1] = f /\ n \in Nat /\ Len(t) = n + 1
      /\ \A k \in 1..n : t[k + 1] = s[k]
  BY FramesOf
<1> HIDE DEF t, n
<1>2. ASSUME NEW k \in 1..(n + 1)
      PROVE  ServedFrom(t, c, k + 1) <=> ServedFrom(s, c, k)
  <2>1. ASSUME NEW i \in (k + 1)..Len(t), Serves(t[i], c)
        PROVE  ServedFrom(s, c, k)
    <3>1. i - 1 \in k..n /\ i - 1 \in 1..n /\ (i - 1) + 1 = i
      BY <1>1
    <3>2. Serves(s[i - 1], c)
      BY <1>1, <2>1, <3>1
    <3> QED
      BY <3>1, <3>2 DEF ServedFrom, n
  <2>2. ASSUME NEW i \in k..n, Serves(s[i], c)
        PROVE  ServedFrom(t, c, k + 1)
    <3>1. i \in 1..n /\ i + 1 \in (k + 1)..Len(t)
      BY <1>1
    <3>2. Serves(t[i + 1], c)
      BY <1>1, <2>2, <3>1
    <3> QED
      BY <3>1, <3>2 DEF ServedFrom
  <2> QED
    BY <2>1, <2>2 DEF ServedFrom, n
<1>3. ServedFrom(t, c, 1) <=> Serves(f, c) \/ ServedFrom(t, c, 2)
  <2>1. 1 \in 1..Len(t) /\ \A i : i \in 1..Len(t) <=> i = 1 \/ i \in 2..Len(t)
    BY <1>1
  <2> QED
    BY <1>1, <2>1 DEF ServedFrom
<1>4. ServedFrom(t, c, 2) <=> ServedFrom(s, c, 1)
  <2>1. 1 \in 1..(n + 1) /\ 1 + 1 = 2
    BY <1>1
  <2> QED
    BY <1>2, <2>1
<1> QED
  BY <1>2, <1>3, <1>4 DEF t, n

\* Who dispatches the messages of a queue, and of a frame.
CoveredQueue(l, q, s) ==
    \A i \in 1..Len(q) : Watched(l, q[i].end) \/ ServedFrom(s, q[i].end, 1)

\* Every message has who dispatches it.
LEMMA CoveredOf ==
    ASSUME NEW s \in Seq(Frame), NEW f \in Frame, NEW l, NEW q
    PROVE  LET t == <<f>> \o s IN
           Covered(l, q, t) <=>
               /\ CoveredQueue(l, q, t)
               /\ Dispatches(f) => CoveredQueue(l, f.delayed, s)
               /\ Covered(l, <<>>, s)
<1> DEFINE t == <<f>> \o s
           n == Len(s)
           Out(g, u, k) == Dispatches(g) =>
              \A i \in 1..Len(g.delayed) :
                  Watched(l, g.delayed[i].end) \/ ServedFrom(u, g.delayed[i].end, k)
<1>1. /\ t[1] = f /\ n \in Nat /\ 1 \in 1..Len(t)
      /\ \A k \in 1..n : k + 1 \in 1..Len(t) /\ t[k + 1] = s[k]
      /\ \A i \in 1..Len(t) : i = 1 \/ \E k \in 1..n : i = k + 1 /\ t[i] = s[k]
  BY FramesOf
<1>2. /\ \A c : ServedFrom(t, c, 2) <=> ServedFrom(s, c, 1)
      /\ \A c : \A k \in 1..(n + 1) : ServedFrom(t, c, k + 1) <=> ServedFrom(s, c, k)
  <2>1. \A c : \A k \in 1..(n + 1) : ServedFrom(t, c, k + 1) <=> ServedFrom(s, c, k)
    BY ServedOf
  <2>2. 1 \in 1..(n + 1) /\ 1 + 1 = 2
    BY <1>1
  <2> HIDE DEF t, n
  <2> QED
    BY <2>1, <2>2
<1>3. Covered(l, q, t) <=>
         CoveredQueue(l, q, t) /\ \A i \in 1..Len(t) : Out(t[i], t, i + 1)
  BY DEF Covered, CoveredQueue
<1>4. Covered(l, <<>>, s) <=> \A k \in 1..n : Out(s[k], s, k + 1)
  BY DEF Covered
<1>5. (Dispatches(f) => CoveredQueue(l, f.delayed, s)) <=> Out(f, s, 1)
  BY DEF CoveredQueue
<1>6. Out(f, s, 1) <=> Out(f, t, 2)
  <2> HIDE DEF t, n
  <2> QED
    BY <1>2
<1>7. ASSUME NEW k \in 1..n
      PROVE  Out(s[k], s, k + 1) <=> Out(s[k], t, (k + 1) + 1)
  <2>1. k + 1 \in 1..(n + 1)
    BY <1>1
  <2> HIDE DEF t, n
  <2> QED
    BY <1>2, <2>1
<1>8. (\A i \in 1..Len(t) : Out(t[i], t, i + 1)) <=>
         Out(f, t, 2) /\ \A k \in 1..n : Out(s[k], t, (k + 1) + 1)
  <2>1. 1 + 1 = 2
    OBVIOUS
  <2> HIDE DEF t, n, Out
  <2>2. ASSUME \A i \in 1..Len(t) : Out(t[i], t, i + 1)
        PROVE  Out(f, t, 2) /\ \A k \in 1..n : Out(s[k], t, (k + 1) + 1)
    <3>1. Out(f, t, 2)
      BY <1>1, <2>1, <2>2
    <3>2. ASSUME NEW k \in 1..n PROVE Out(s[k], t, (k + 1) + 1)
      <4>1. k + 1 \in 1..Len(t) /\ t[k + 1] = s[k]
        BY <1>1
      <4> QED
        BY <2>2, <4>1
    <3> QED
      BY <3>1, <3>2
  <2>3. ASSUME Out(f, t, 2), \A k \in 1..n : Out(s[k], t, (k + 1) + 1), NEW i \in 1..Len(t)
        PROVE  Out(t[i], t, i + 1)
    BY <1>1, <2>1, <2>3
  <2> QED
    BY <2>2, <2>3
<1> HIDE DEF t, n, Out
<1> QED
  BY <1>3, <1>4, <1>5, <1>6, <1>7, <1>8 DEF t

\* What is right of the frames of a stack.
LEMMA ShapeOf ==
    ASSUME NEW s \in Seq(Frame), NEW f \in Frame, NEW p
    PROVE  ShapeInv(<<f>> \o s, p) <=>
              FrameInv(f, p) /\ ShapeInv(s, p) /\ (s # <<>> => CallsFrom(f, Head(s)))
<1> DEFINE t == <<f>> \o s
           n == Len(s)
<1>1. /\ t[1] = f /\ n \in Nat /\ 1 \in 1..Len(t) /\ Len(t) = n + 1
      /\ \A k \in 1..n : k + 1 \in 1..Len(t) /\ t[k + 1] = s[k]
      /\ \A i \in 1..Len(t) : i = 1 \/ \E k \in 1..n : i = k + 1 /\ t[i] = s[k]
  BY FramesOf
<1>2. (s # <<>> <=> 1 \in 1..n) /\ (s # <<>> => Head(s) = s[1])
  OBVIOUS
<1> HIDE DEF t, n
<1>3. (\A i \in 1..Len(t) : FrameInv(t[i], p)) <=>
         FrameInv(f, p) /\ \A k \in 1..n : FrameInv(s[k], p)
  BY <1>1
<1>4. Len(t) - 1 = n
  BY <1>1
<1>5. ASSUME \A i \in 1..(Len(t) - 1) : CallsFrom(t[i], t[i + 1])
      PROVE  /\ \A k \in 1..(n - 1) : CallsFrom(s[k], s[k + 1])
             /\ s # <<>> => CallsFrom(f, Head(s))
  <2>1. ASSUME NEW k \in 1..(n - 1) PROVE CallsFrom(s[k], s[k + 1])
    <3>1. k \in 1..n /\ k + 1 \in 1..n
      BY <1>1
    <3>2. t[k + 1] = s[k] /\ t[(k + 1) + 1] = s[k + 1]
      BY <1>1, <3>1
    <3> QED
      BY <1>4, <1>5, <3>1, <3>2
  <2>2. ASSUME s # <<>> PROVE CallsFrom(f, Head(s))
    <3>1. 1 \in 1..n /\ Head(s) = s[1]
      BY <1>2, <2>2
    <3>2. t[1 + 1] = s[1]
      BY <1>1, <3>1
    <3> QED
      BY <1>1, <1>4, <1>5, <3>1, <3>2
  <2> QED
    BY <2>1, <2>2
<1>6. ASSUME \A k \in 1..(n - 1) : CallsFrom(s[k], s[k + 1]),
             s # <<>> => CallsFrom(f, Head(s)), NEW i \in 1..(Len(t) - 1)
      PROVE  CallsFrom(t[i], t[i + 1])
  <2>1. i \in 1..n /\ t[i + 1] = s[i]
    BY <1>1, <1>4
  <2>2. CASE i = 1
    BY <1>1, <1>2, <1>6, <2>1, <2>2
  <2>3. CASE i # 1
    <3>1. i - 1 \in 1..(n - 1) /\ i - 1 \in 1..n /\ (i - 1) + 1 = i
      BY <1>1, <2>1, <2>3
    <3>2. t[i] = s[i - 1]
      BY <1>1, <3>1
    <3>3. CallsFrom(s[i - 1], s[(i - 1) + 1])
      BY <1>6, <3>1
    <3> QED
      BY <2>1, <3>1, <3>2, <3>3
  <2> QED
    BY <2>2, <2>3
<1> QED
  BY <1>3, <1>5, <1>6 DEF ShapeInv, t, n

-----------------------------------------------------------------------------
(* Where a request can be                                                  *)

\* From s to t, x comes to no place where it was not.
Shrinks(s, t, x) == (Has(t, x) => Has(s, x)) /\ (Once(s, x) => Once(t, x))
ShrinksAside(s, t, x) ==
    (HasAside(t, x) => HasAside(s, x)) /\ (OnceAside(s, x) => OnceAside(t, x))

SameAt(c, id, k) == (At(c, id, k)' => At(c, id, k)) /\ (OnceAt(c, id, k) => OnceAt(c, id, k)')

Tokens == \A c \in Channels, id \in Nat : TokenInv(c, id)

\* What keeps a request out of each place.
LEMMA SamePlaces ==
    ASSUME NEW c, NEW id
    PROVE  LET p == Owner[Peer[c]] IN
           /\ Shrinks(wire[Peer[c]], wire'[Peer[c]], Request(id)) => SameAt(c, id, "asked")
           /\ Shrinks(message_queue_[p], message_queue_'[p], Asked(c, id))
                 => SameAt(c, id, "queued")
           /\ ShrinksAside(stack[p], stack'[p], Asked(c, id)) => SameAt(c, id, "aside")
           /\ Shrinks(stack[p], stack'[p], Handler(Peer[c], id)) => SameAt(c, id, "handled")
           /\ (Asked(c, id) \in owed'[p] => Asked(c, id) \in owed[p]) => SameAt(c, id, "owed")
           /\ Shrinks(wire[c], wire'[c], Reply(id)) => SameAt(c, id, "answered")
           /\ Shrinks(received_replies_[Owner[c]], received_replies_'[Owner[c]],
                      [end |-> c, id |-> id])
                 => SameAt(c, id, "kept")
<1> DEFINE p == Owner[Peer[c]]
<1>1. Shrinks(wire[Peer[c]], wire'[Peer[c]], Request(id)) => SameAt(c, id, "asked")
  BY DEF SameAt, At, OnceAt, Shrinks, Has, Once
<1>2. Shrinks(message_queue_[p], message_queue_'[p], Asked(c, id)) => SameAt(c, id, "queued")
  BY DEF SameAt, At, OnceAt, Shrinks, Has, Once, Asked
<1>3. ShrinksAside(stack[p], stack'[p], Asked(c, id)) => SameAt(c, id, "aside")
  BY DEF SameAt, At, OnceAt, ShrinksAside, HasAside, OnceAside, Asked, Has, Once, Dispatches
<1>4. Shrinks(stack[p], stack'[p], Handler(Peer[c], id)) => SameAt(c, id, "handled")
  BY DEF SameAt, At, OnceAt, Shrinks, Has, Once, Handler
<1>5. (Asked(c, id) \in owed'[p] => Asked(c, id) \in owed[p]) => SameAt(c, id, "owed")
  BY DEF SameAt, At, OnceAt, Asked
<1>6. Shrinks(wire[c], wire'[c], Reply(id)) => SameAt(c, id, "answered")
  BY DEF SameAt, At, OnceAt, Shrinks, Has, Once
<1>7. Shrinks(received_replies_[Owner[c]], received_replies_'[Owner[c]], [end |-> c, id |-> id])
         => SameAt(c, id, "kept")
  BY DEF SameAt, At, OnceAt, Shrinks, Has, Once
<1> QED
  BY <1>1, <1>2, <1>3, <1>4, <1>5, <1>6, <1>7

\* Nothing comes to a place that stays as it is.
LEMMA SameIsKept ==
    /\ \A s, x : Shrinks(s, s, x) /\ ShrinksAside(s, s, x)
    /\ \A x : Shrinks(<<>>, <<>>, x)
    /\ \A s, x : Shrinks(s, <<>>, x) /\ ShrinksAside(s, <<>>, x)
<1>1. \A s, x : Shrinks(s, s, x) /\ ShrinksAside(s, s, x)
  BY DEF Shrinks, ShrinksAside
<1>2. \A x : ~Has(<<>>, x) /\ Once(<<>>, x) /\ ~HasAside(<<>>, x) /\ OnceAside(<<>>, x)
  BY DEF Has, Once, HasAside, OnceAside
<1> QED
  BY <1>1, <1>2 DEF Shrinks, ShrinksAside

\* What is not in a place is not there twice.
LEMMA AbsentOnce ==
    ASSUME NEW c, NEW id, NEW k \in Places, ~At(c, id, k)
    PROVE  OnceAt(c, id, k)
<1>1. /\ \A s, x : ~Has(s, x) => Once(s, x)
      /\ \A s, x : ~HasAside(s, x) => OnceAside(s, x)
  BY DEF Has, Once, HasAside, OnceAside
<1> QED
  BY <1>1 DEF At, OnceAt

\* A request that comes to no other place.
LEMMA TokenKept ==
    ASSUME ReplyInv, ReplyInv', NEW c \in Channels, NEW id \in Nat, TokenInv(c, id),
           budget'[c] <= budget[c], \A k \in Places : SameAt(c, id, k)
    PROVE  TokenInv(c, id)'
<1>1. budget[c] \in Nat /\ budget'[c] \in Nat
  BY DEF ReplyInv
<1>2. \A k, l \in Places : At(c, id, k)' /\ At(c, id, l)' => k = l
  BY DEF SameAt, TokenInv
<1>3. \A k \in Places : OnceAt(c, id, k)'
  BY DEF SameAt, TokenInv
<1>4. \A k \in Places : At(c, id, k)' => budget'[c] < id
  <2> SUFFICES ASSUME NEW k \in Places, At(c, id, k)' PROVE budget'[c] < id
    OBVIOUS
  <2>1. budget[c] < id
    BY DEF SameAt, TokenInv
  <2> QED
    BY <1>1, <2>1
<1> QED
  BY <1>2, <1>3, <1>4 DEF TokenInv

\* A request that goes from one place to another.
LEMMA TokenMoved ==
    ASSUME ReplyInv, ReplyInv', NEW c \in Channels, NEW id \in Nat, TokenInv(c, id),
           budget'[c] <= budget[c], NEW a \in Places, NEW b \in Places, a # b,
           At(c, id, a), ~At(c, id, a)', OnceAt(c, id, b)' \/ ~At(c, id, b)',
           \A k \in Places \ {a, b} : SameAt(c, id, k)
    PROVE  TokenInv(c, id)'
<1>1. budget[c] \in Nat /\ budget'[c] \in Nat /\ budget[c] < id
  BY DEF ReplyInv, TokenInv
<1>2. \A k \in Places : At(c, id, k)' => k = b
  BY DEF SameAt, TokenInv
<1>3. \A k \in Places : OnceAt(c, id, k)'
  <2> SUFFICES ASSUME NEW k \in Places PROVE OnceAt(c, id, k)'
    OBVIOUS
  <2>1. ASSUME ~At(c, id, k)' PROVE OnceAt(c, id, k)'
    <3>1. /\ \A s, x : ~Has(s, x) => Once(s, x)
          /\ \A s, x : ~HasAside(s, x) => OnceAside(s, x)
      BY SMTT(40) DEF Has, Once, HasAside, OnceAside
    <3> QED
      BY <2>1, <3>1 DEF At, OnceAt
  <2> QED
    BY <1>2, <2>1
<1>4. \A k \in Places : At(c, id, k)' => budget'[c] < id
  <2>1. budget'[c] < id
    BY <1>1
  <2> QED
    BY <2>1
<1> QED
  BY <1>2, <1>3, <1>4 DEF TokenInv

\* Frames that hold no request come and go.
LEMMA FramesHoldNone ==
    ASSUME NEW s \in Seq(Frame), NEW f \in Frame, NEW x, NEW e, NEW id
    PROVE  /\ f.call # "OnDispatchMessage" => Shrinks(s, <<f>> \o s, Handler(e, id))
           /\ (Dispatches(f) => f.delayed = <<>>) => ShrinksAside(s, <<f>> \o s, x)
           /\ Shrinks(<<f>> \o s, s, Handler(e, id)) /\ ShrinksAside(<<f>> \o s, s, x)
<1>1. f.call # "OnDispatchMessage" => f # Handler(e, id)
  BY DEF Handler
<1>2. ~Has(<<>>, x) /\ Once(<<>>, x)
  BY DEF Has, Once
<1>3. /\ f.call # "OnDispatchMessage" => Shrinks(s, <<f>> \o s, Handler(e, id))
      /\ Shrinks(<<f>> \o s, s, Handler(e, id))
  BY <1>1, HasPushed DEF Shrinks
<1>4. (Dispatches(f) => f.delayed = <<>>) => ShrinksAside(s, <<f>> \o s, x)
  BY <1>2, AsideOf DEF ShrinksAside
<1>5. ShrinksAside(<<f>> \o s, s, x)
  BY AsideOf DEF ShrinksAside
<1> QED
  BY <1>3, <1>4, <1>5

\* The ends and threads of a request.
LEMMA EndsOf ==
    ASSUME NEW c \in Channels
    PROVE  /\ Peer[c] \in Channels /\ Peer[Peer[c]] = c
           /\ Owner[c] \in Threads /\ Owner[Peer[c]] \in Threads
BY Owners, ChannelAssumption

\* The top frame of a thread that has one.
LEMMA TopOf ==
    ASSUME SendInv, HomeInv, NEW p \in Threads, stack[p] # <<>>
    PROVE  LET h == Top(p)
               r == Tail(stack[p])
           IN  /\ stack[p] = <<h>> \o r /\ h \in Frame /\ r \in Seq(Frame)
               /\ h.end \in Channels /\ Owner[h.end] = p
               /\ FrameInv(h, p) /\ ShapeInv(r, p) /\ (r # <<>> => CallsFrom(h, Head(r)))
               /\ h.call # "DispatchMessages" => h.id \in Nat
               /\ h.call = "OnDispatchMessage" => h = Handler(h.end, h.id)
               /\ Dispatches(h) =>
                     h \in [call : {"DispatchMessages"}, end : Channels, delayed : Seq(Item)]
<1> DEFINE h == Top(p)
           r == Tail(stack[p])
<1>1. stack[p] \in Seq(Frame)
  BY DEF SendInv
<1>2. stack[p] = <<h>> \o r /\ h \in Frame /\ r \in Seq(Frame)
  BY <1>1, TopAndRest DEF Top
<1> HIDE DEF h, r
<1>3. /\ h.end \in Channels /\ (h.call # "DispatchMessages" => h.id \in Nat)
      /\ h.call = "DispatchMessages" =>
            h \in [call : {"DispatchMessages"}, end : Channels, delayed : Seq(Item)]
  BY <1>2, Frames
<1>4. h.call = "OnDispatchMessage" => h = Handler(h.end, h.id)
  BY <1>2 DEF Frame, Handler
<1>5. FrameInv(h, p) /\ ShapeInv(r, p) /\ (r # <<>> => CallsFrom(h, Head(r)))
  <2>1. ShapeInv(<<h>> \o r, p)
    BY <1>2 DEF HomeInv
  <2> QED
    BY <1>2, <2>1, ShapeOf
<1>6. Owner[h.end] = p
  BY <1>5 DEF FrameInv
<1> QED
  BY <1>2, <1>3, <1>4, <1>5, <1>6 DEF h, r, Dispatches

-----------------------------------------------------------------------------
(* Each step keeps every request in one place                              *)

\* Steps on which no request goes anywhere.
LEMMA TokensStay ==
    ASSUME ReplyInv, ReplyInv', Tokens, UNCHANGED budget,
           \A c \in Channels, id \in Nat : \A k \in Places : SameAt(c, id, k)
    PROVE  Tokens'
<1> SUFFICES ASSUME NEW c \in Channels, NEW id \in Nat PROVE TokenInv(c, id)'
  BY DEF Tokens
<1>1. TokenInv(c, id) /\ \A k \in Places : SameAt(c, id, k)
  BY DEF Tokens
<1>2. budget'[c] <= budget[c]
  BY DEF ReplyInv
<1> QED
  BY <1>1, <1>2, TokenKept

\* A frame that comes or goes, but for handlers and put-aside messages, takes no request.
QuietStack(p) ==
    \/ stack'[p] = stack[p]
    \/ \E f \in Frame : /\ f.call # "OnDispatchMessage" /\ (Dispatches(f) => f.delayed = <<>>)
                        /\ stack'[p] = <<f>> \o stack[p]
    \/ \E f \in Frame : stack[p] = <<f>> \o stack'[p]
    \/ stack'[p] = <<>>

\* Steps that change no place but a stack.
LEMMA QuietStep ==
    ASSUME ReplyInv, ReplyInv', SendInv, SendInv', Tokens,
           UNCHANGED <<wire, message_queue_, owed, received_replies_, budget>>,
           \A p \in Threads : QuietStack(p)
    PROVE  Tokens'
<1>1. ASSUME NEW p \in Threads, NEW x, NEW e, NEW id
      PROVE  Shrinks(stack[p], stack'[p], Handler(e, id)) /\ ShrinksAside(stack[p], stack'[p], x)
  <2>1. stack[p] \in Seq(Frame) /\ stack'[p] \in Seq(Frame)
    BY DEF SendInv
  <2>2. CASE stack'[p] = stack[p] \/ stack'[p] = <<>>
    BY <2>2, SameIsKept
  <2>3. CASE \E f \in Frame : /\ f.call # "OnDispatchMessage" /\ (Dispatches(f) => f.delayed = <<>>)
                              /\ stack'[p] = <<f>> \o stack[p]
    BY <2>1, <2>3, FramesHoldNone
  <2>4. CASE \E f \in Frame : stack[p] = <<f>> \o stack'[p]
    BY <2>1, <2>4, FramesHoldNone
  <2> QED
    BY <2>2, <2>3, <2>4 DEF QuietStack
<1>2. ASSUME NEW c \in Channels, NEW id \in Nat, NEW k \in Places
      PROVE  SameAt(c, id, k)
  <2>1. Owner[Peer[c]] \in Threads
    BY EndsOf
  <2> QED
    BY <1>1, <2>1, SamePlaces, SameIsKept DEF Places
<1> QED
  BY <1>2, TokensStay

\* The listener thread's steps that only push or pop a frame.
LEMMA QuietListener ==
    ASSUME IInv, IInv', HomeInv, Tokens, NEW p \in Threads,
           WaitDispatches(p) \/ RunTask(p) \/ Pop(p)
    PROVE  Tokens'
<1>1. ReplyInv /\ ReplyInv' /\ SendInv /\ SendInv' /\ QueueInv
  BY DEF IInv
<1>2. UNCHANGED <<wire, message_queue_, owed, received_replies_, budget>>
  BY DEF WaitDispatches, RunTask, Pop, queueVars
<1>3. \A q \in Threads : q # p => stack'[q] = stack[q]
  BY <1>1 DEF WaitDispatches, RunTask, Pop, SendInv
<1>4. ASSUME NEW e \in Channels
      PROVE  Dispatch(e) \in Frame /\ Dispatch(e).call # "OnDispatchMessage"
             /\ Dispatch(e).delayed = <<>>
  BY Frames DEF Dispatch
<1>5. CASE WaitDispatches(p)
  <2>1. stack[p] # <<>> /\ stack'[p] = <<Dispatch(Top(p).end)>> \o stack[p]
    BY <1>1, <1>5 DEF WaitDispatches, InCall, SendInv
  <2>2. Top(p).end \in Channels
    BY <1>1, <2>1, TopOf
  <2>3. QuietStack(p)
    BY <1>4, <2>1, <2>2 DEF QuietStack
  <2> QED
    BY <1>1, <1>2, <1>3, <2>3, QuietStep DEF QuietStack
<1>6. CASE RunTask(p)
  <2>1. /\ stack[p] = <<>> /\ loop[p] # <<>> /\ stack'[p] = <<Dispatch(Head(loop[p]).end)>>
    BY <1>1, <1>6 DEF RunTask, SendInv
  <2>2. Head(loop[p]).end \in Channels
    <3>1. loop[p] \in Seq(Task(p)) /\ Range(Ends[p]) \subseteq Channels
      BY <1>1, Owners DEF QueueInv
    <3>2. Head(loop[p]) \in Task(p)
      BY <2>1, <3>1
    <3> QED
      BY <3>1, <3>2 DEF Task
  <2>3. QuietStack(p)
    <3> DEFINE f == Dispatch(Head(loop[p]).end)
    <3>1. f \in Frame /\ f.call # "OnDispatchMessage" /\ f.delayed = <<>>
      BY <1>4, <2>2
    <3> HIDE DEF f
    <3>2. <<f>> = <<f>> \o <<>>
      BY <3>1
    <3>3. stack'[p] = <<f>> \o stack[p]
      BY <2>1, <3>2 DEF f
    <3> QED
      BY <3>1, <3>3 DEF QuietStack
  <2> QED
    BY <1>1, <1>2, <1>3, <2>3, QuietStep DEF QuietStack
<1>7. CASE Pop(p)
  <2>1. stack[p] # <<>> /\ stack'[p] = Tail(stack[p])
    BY <1>1, <1>7 DEF Pop, InCall, SendInv
  <2>2. Top(p) \in Frame /\ stack[p] = <<Top(p)>> \o stack'[p]
    BY <1>1, <2>1, TopOf
  <2>3. QuietStack(p)
    BY <2>2 DEF QuietStack
  <2> QED
    BY <1>1, <1>2, <1>3, <2>3, QuietStep DEF QuietStack
<1> QED
  BY <1>5, <1>6, <1>7

\* The steps that change no place at all.
LEMMA QuietIpc ==
    ASSUME IInv, IInv', Tokens,
           \/ \E p \in Threads : SignalDispatchEvent(p)
           \/ \E c \in Channels : OnSendTimeout(c) \/ CancelPendingSends(c)
           \/ UNCHANGED vars
    PROVE  Tokens'
<1>1. ReplyInv /\ ReplyInv' /\ SendInv /\ SendInv'
  BY DEF IInv
<1>2. UNCHANGED <<wire, message_queue_, owed, received_replies_, budget, stack>>
  BY DEF SignalDispatchEvent, OnSendTimeout, CancelPendingSends, queueVars, vars
<1> QED
  BY <1>1, <1>2, QuietStep DEF QuietStack

\* A reply that is taken for a Send.
LEMMA TokensDispatchReplies ==
    ASSUME IInv, IInv', Tokens, NEW p \in Threads, DispatchReplies(p)
    PROVE  Tokens'
<1>1. ReplyInv /\ ReplyInv'
  BY DEF IInv
<1>2. UNCHANGED <<wire, message_queue_, owed, stack, budget>>
  BY DEF DispatchReplies, queueVars
<1>3. ASSUME NEW x
      PROVE  Shrinks(received_replies_[p], received_replies_'[p], x)
  <2> DEFINE s == received_replies_[p]
             i == Min(Ready(p))
  <2>1. s \in Seq(Item)
    BY <1>1 DEF ReplyInv
  <2>2. CASE Ready(p) = {}
    BY <2>2, SameIsKept DEF DispatchReplies
  <2>3. CASE Ready(p) # {}
    <3>1. received_replies_'[p] = RemoveAt(s, i)
      BY <1>1, <2>3 DEF DispatchReplies, ReplyInv
    <3>2. i \in 1..Len(s)
      <4>1. Ready(p) \in SUBSET (1..Len(s)) /\ Len(s) \in Nat
        BY <2>1 DEF Ready
      <4> QED
        BY <2>3, <4>1, LeastIndex
    <3> HIDE DEF s, i
    <3>3. Shrinks(s, RemoveAt(s, i), x)
      BY <2>1, <3>2, HasRemoved DEF Shrinks
    <3> QED
      BY <3>1, <3>3 DEF s
  <2> QED
    BY <2>2, <2>3
<1>4. \A q \in Threads : q # p => received_replies_'[q] = received_replies_[q]
  BY <1>1 DEF DispatchReplies, ReplyInv
<1>5. \A q \in Threads : \A x : Shrinks(received_replies_[q], received_replies_'[q], x)
  BY <1>3, <1>4, SameIsKept
<1>6. ASSUME NEW c \in Channels, NEW id \in Nat, NEW k \in Places
      PROVE  SameAt(c, id, k)
  <2>1. Owner[c] \in Threads
    BY EndsOf
  <2> QED
    BY <1>2, <1>5, <2>1, SamePlaces, SameIsKept DEF Places
<1> QED
  BY <1>1, <1>2, <1>6, TokensStay

\* What a process that dies had is gone.
LEMMA TokensCrash ==
    ASSUME IInv, IInv', Tokens, NEW p \in Threads, Crash(p)
    PROVE  Tokens'
<1>1. ReplyInv /\ ReplyInv' /\ SendInv /\ QueueInv /\ UNCHANGED budget
  BY DEF IInv, Crash
<1>2. /\ \A c \in Channels : wire'[c] = wire[c] \/ wire'[c] = <<>>
      /\ \A q \in Threads :
            /\ message_queue_'[q] = message_queue_[q] \/ message_queue_'[q] = <<>>
            /\ stack'[q] = stack[q] \/ stack'[q] = <<>>
            /\ received_replies_'[q] = received_replies_[q] \/ received_replies_'[q] = <<>>
            /\ owed'[q] \subseteq owed[q]
  <2>1. \A c \in Channels : wire'[c] = wire[c] \/ wire'[c] = <<>>
    BY DEF Crash
  <2>2. \A q \in Threads :
            /\ message_queue_'[q] = message_queue_[q] \/ message_queue_'[q] = <<>>
            /\ stack'[q] = stack[q] \/ stack'[q] = <<>>
            /\ received_replies_'[q] = received_replies_[q] \/ received_replies_'[q] = <<>>
    BY <1>1 DEF Crash, QueueInv, SendInv, ReplyInv
  <2>3. \A q \in Threads : owed'[q] \subseteq owed[q]
    BY <1>1 DEF Crash, ReplyInv
  <2> QED
    BY <2>1, <2>2, <2>3
<1>3. ASSUME NEW c \in Channels, NEW id \in Nat, NEW k \in Places
      PROVE  SameAt(c, id, k)
  <2>1. Owner[c] \in Threads /\ Owner[Peer[c]] \in Threads /\ Peer[c] \in Channels
    BY EndsOf
  <2>2. /\ \A x : Shrinks(wire[Peer[c]], wire'[Peer[c]], x) /\ Shrinks(wire[c], wire'[c], x)
        /\ \A x : Shrinks(message_queue_[Owner[Peer[c]]], message_queue_'[Owner[Peer[c]]], x)
        /\ \A x : /\ Shrinks(stack[Owner[Peer[c]]], stack'[Owner[Peer[c]]], x)
                  /\ ShrinksAside(stack[Owner[Peer[c]]], stack'[Owner[Peer[c]]], x)
        /\ \A x : Shrinks(received_replies_[Owner[c]], received_replies_'[Owner[c]], x)
        /\ \A x : x \in owed'[Owner[Peer[c]]] => x \in owed[Owner[Peer[c]]]
    BY <1>2, <2>1, SameIsKept
  <2> QED
    BY <2>2, SamePlaces DEF Places
<1> QED
  BY <1>1, <1>3, TokensStay

\* A message is delivered to one end.
LEMMA DeliverOf ==
    ASSUME ReplyInv, NEW d \in Channels, NEW m \in Message, wire' = Deliver(d, m)
    PROVE  /\ \A x \in Channels : \A y : (x # d \/ y # m) => Shrinks(wire[x], wire'[x], y)
           /\ ~Has(wire[d], m) => Once(wire'[d], m)
<1>1. wire[d] \in Seq(Message) /\ (wire' = wire \/ wire' = [wire EXCEPT ![d] = Append(@, m)])
  BY DEF ReplyInv, Deliver
<1>2. CASE wire' = wire
  <2>1. \A s, x : ~Has(s, x) => Once(s, x)
    BY DEF Has, Once
  <2> QED
    BY <1>2, <2>1, SameIsKept
<1>3. CASE wire' = [wire EXCEPT ![d] = Append(@, m)]
  <2>1. /\ wire'[d] = Append(wire[d], m)
        /\ \A x \in Channels : x # d => wire'[x] = wire[x]
    BY <1>3 DEF ReplyInv
  <2>2. /\ \A y : y # m => Shrinks(wire[d], Append(wire[d], m), y)
        /\ ~Has(wire[d], m) => Once(Append(wire[d], m), m)
    BY <1>1, HasAppended DEF Shrinks
  <2> QED
    BY <2>1, <2>2, SameIsKept
<1> QED
  BY <1>1, <1>2, <1>3

\* Messages are the same only if their requests are.
LEMMA SameMessage ==
    /\ \A i, j : Request(i) # Reply(j)
    /\ \A i, j : Request(i) = Request(j) => i = j
    /\ \A i, j : Reply(i) = Reply(j) => i = j
    /\ \A i \in Nat : Request(i) \in Message /\ Reply(i) \in Message
BY DEF Request, Reply, Message

\* A request is sent: it was nowhere.
LEMMA TokensSend ==
    ASSUME IInv, IInv', Tokens, NEW x \in Channels, Send(x)
    PROVE  Tokens'
<1> DEFINE p == Owner[x]
           b == budget[x]
           s == stack[p]
           w == Wait(x, b)
           t == <<w>> \o s
           f == Dispatch(x)
<1>1. ReplyInv /\ ReplyInv' /\ SendInv
  BY DEF IInv
<1>2. p \in Threads /\ b \in Nat /\ s \in Seq(Frame) /\ Peer[x] \in Channels
  BY <1>1, EndsOf DEF ReplyInv, SendInv
<1>3. /\ w \in Frame /\ f \in Frame /\ w.call = "WaitForReply" /\ Dispatches(f)
      /\ f.call # "OnDispatchMessage" /\ f.delayed = <<>> /\ ~Dispatches(w)
  BY <1>2, Frames DEF Wait, Dispatch, Dispatches
<1>4. /\ budget' = [budget EXCEPT ![x] = b - 1] /\ b > 0
      /\ wire' = Deliver(Peer[x], Request(b))
      /\ stack' = [stack EXCEPT ![p] = <<f, w>> \o s]
      /\ UNCHANGED <<message_queue_, received_replies_, owed>>
  BY DEF Send, queueVars
<1> HIDE DEF f, w
<1>5. t \in Seq(Frame) /\ <<f, w>> \o s = <<f>> \o t
  BY <1>2, <1>3
<1>6. ASSUME NEW q \in Threads, NEW y, NEW e, NEW id
      PROVE  Shrinks(stack[q], stack'[q], Handler(e, id)) /\ ShrinksAside(stack[q], stack'[q], y)
  <2>1. CASE q = p
    <3>1. stack'[q] = <<f>> \o t /\ stack[q] = s
      BY <1>1, <1>4, <1>5, <2>1 DEF SendInv
    <3>2. Shrinks(s, t, Handler(e, id)) /\ ShrinksAside(s, t, y)
      BY <1>2, <1>3, FramesHoldNone
    <3> HIDE DEF t, s
    <3>3. Shrinks(t, <<f>> \o t, Handler(e, id)) /\ ShrinksAside(t, <<f>> \o t, y)
      BY <1>3, <1>5, FramesHoldNone
    <3> QED
      BY <3>1, <3>2, <3>3 DEF Shrinks, ShrinksAside
  <2>2. CASE q # p
    <3>1. stack'[q] = stack[q]
      BY <1>1, <1>4, <2>2 DEF SendInv
    <3> QED
      BY <3>1, SameIsKept
  <2> QED
    BY <2>1, <2>2
<1>7. /\ \A d \in Channels : \A y :
            (d # Peer[x] \/ y # Request(b)) => Shrinks(wire[d], wire'[d], y)
      /\ ~Has(wire[Peer[x]], Request(b)) => Once(wire'[Peer[x]], Request(b))
  <2>1. Request(b) \in Message
    BY <1>2, SameMessage
  <2> QED
    BY <1>1, <1>2, <1>4, <2>1, DeliverOf
<1> SUFFICES ASSUME NEW c \in Channels, NEW id \in Nat PROVE TokenInv(c, id)'
  BY DEF Tokens
<1>8. /\ Peer[c] \in Channels /\ Owner[c] \in Threads /\ Owner[Peer[c]] \in Threads
      /\ TokenInv(c, id)
  BY EndsOf DEF Tokens
<1>9. \A k \in Places \ {"asked"} : SameAt(c, id, k)
  <2>1. Reply(id) # Request(b)
    BY SameMessage
  <2> QED
    BY <1>4, <1>6, <1>7, <1>8, <2>1, SamePlaces, SameIsKept DEF Places
<1>10. CASE c = x /\ id = b
  <2>1. \A k \in Places : ~At(c, id, k)
    BY <1>2, <1>8, <1>10 DEF TokenInv
  <2>2. \A k \in Places : At(c, id, k)' => k = "asked"
    BY <1>9, <2>1 DEF SameAt
  <2>3. ~Has(wire[Peer[x]], Request(b))
    <3>1. "asked" \in Places
      BY DEF Places
    <3> QED
      BY <1>10, <2>1, <3>1 DEF At
  <2>4. OnceAt(c, id, "asked")'
    BY <1>7, <1>10, <2>3 DEF OnceAt, Once
  <2>5. \A k \in Places : OnceAt(c, id, k)'
    BY <1>8, <1>9, <2>4 DEF SameAt, TokenInv
  <2>6. budget'[c] < id
    BY <1>1, <1>2, <1>4, <1>10 DEF ReplyInv
  <2> QED
    BY <2>2, <2>5, <2>6 DEF TokenInv
<1>11. CASE ~(c = x /\ id = b)
  <2>1. SameAt(c, id, "asked")
    <3>1. Peer[c] # Peer[x] \/ Request(id) # Request(b)
      BY <1>11, EndsOf, SameMessage
    <3> QED
      BY <1>7, <1>8, <3>1, SamePlaces
  <2>2. budget'[c] <= budget[c]
    BY <1>1, <1>2, <1>4, SMTT(40) DEF ReplyInv
  <2> QED
    BY <1>1, <1>8, <1>9, <2>1, <2>2, TokenKept
<1> QED
  BY <1>10, <1>11

\* A message that is dispatched goes to its handler or is put aside; what was put aside
\* comes back.
LEMMA TokensDispatchMessages ==
    ASSUME IInv, IInv', HomeInv, Tokens, NEW p \in Threads, DispatchMessages(p)
    PROVE  Tokens'
<1> DEFINE q == message_queue_[p]
           h == Top(p)
           r == Tail(stack[p])
<1>1. ReplyInv /\ ReplyInv' /\ SendInv /\ QueueInv /\ UNCHANGED budget
  BY DEF IInv, DispatchMessages
<1>2. /\ stack[p] # <<>> /\ Dispatches(h) /\ h.call # "OnDispatchMessage"
      /\ q \in Seq(Item) /\ AreOf(q, p)
  BY <1>1 DEF DispatchMessages, InCall, QueueInv, HomeInv, Dispatches
<1>3. /\ stack[p] = <<h>> \o r /\ h \in Frame /\ r \in Seq(Frame)
      /\ h \in [call : {"DispatchMessages"}, end : Channels, delayed : Seq(Item)]
  BY <1>1, <1>2, TopOf
<1>4. UNCHANGED <<wire, owed, received_replies_, budget>>
  BY DEF DispatchMessages
<1>5. \A o \in Threads : o # p => message_queue_'[o] = message_queue_[o] /\ stack'[o] = stack[o]
  <2>1. /\ \E v : message_queue_' = [message_queue_ EXCEPT ![p] = v]
        /\ \E v : stack' = [stack EXCEPT ![p] = v]
    BY DEF DispatchMessages
  <2> QED
    BY <1>1, <2>1 DEF QueueInv, SendInv
<1> SUFFICES ASSUME NEW c \in Channels, NEW id \in Nat PROVE TokenInv(c, id)'
  BY DEF Tokens
<1> DEFINE o == Owner[Peer[c]]
           A == Asked(c, id)
           H == Handler(Peer[c], id)
<1>6. /\ Peer[c] \in Channels /\ Owner[c] \in Threads /\ o \in Threads
      /\ TokenInv(c, id) /\ budget'[c] <= budget[c]
  BY <1>1, EndsOf DEF Tokens, ReplyInv
<1>7. /\ SameAt(c, id, "asked") /\ SameAt(c, id, "owed") /\ SameAt(c, id, "answered")
      /\ SameAt(c, id, "kept")
  BY <1>4, SamePlaces, SameIsKept
<1>8. CASE o # p
  <2>1. SameAt(c, id, "queued") /\ SameAt(c, id, "aside") /\ SameAt(c, id, "handled")
    BY <1>5, <1>6, <1>8, SamePlaces, SameIsKept
  <2> QED
    BY <1>1, <1>6, <1>7, <2>1, TokenKept DEF Places
<1>9. CASE o = p
  <2>1. /\ At(c, id, "queued") <=> Has(q, A)
        /\ At(c, id, "aside") <=> HasAside(stack[p], A)
        /\ At(c, id, "handled") <=> Has(stack[p], H)
        /\ At(c, id, "queued")' <=> Has(message_queue_'[p], A)
        /\ At(c, id, "aside")' <=> HasAside(stack'[p], A)
        /\ At(c, id, "handled")' <=> Has(stack'[p], H)
    BY <1>9 DEF At, Asked, Handler, Has, HasAside, Dispatches
  <2>2. /\ OnceAt(c, id, "queued") <=> Once(q, A)
        /\ OnceAt(c, id, "aside") <=> OnceAside(stack[p], A)
        /\ OnceAt(c, id, "handled") <=> Once(stack[p], H)
        /\ OnceAt(c, id, "queued")' <=> Once(message_queue_'[p], A)
        /\ OnceAt(c, id, "aside")' <=> OnceAside(stack'[p], A)
        /\ OnceAt(c, id, "handled")' <=> Once(stack'[p], H)
    BY <1>9 DEF OnceAt, Asked, Handler, Has, Once, OnceAside, Dispatches
  <2>3. {"queued", "aside", "handled"} \subseteq Places
    BY DEF Places
  <2>4. Once(q, A) /\ OnceAside(stack[p], A) /\ Once(stack[p], H)
    BY <1>6, <2>2, <2>3 DEF TokenInv
  <2>5. ~(Has(q, A) /\ HasAside(stack[p], A)) /\ ~(Has(q, A) /\ Has(stack[p], H))
    BY <1>6, <2>1, <2>3 DEF TokenInv
  <2> HIDE DEF A, H, o
  <2>6. Shrinks(stack[p], r, H)
    BY <1>3, FramesHoldNone DEF H
  <2>7. CASE q = <<>>
    <3>1. message_queue_'[p] = h.delayed /\ stack'[p] = r
      BY <1>1, <2>7 DEF DispatchMessages, QueueInv, SendInv
    <3> HIDE DEF h, r
    <3>2. SameAt(c, id, "handled")
      BY <2>1, <2>2, <2>6, <3>1 DEF SameAt, Shrinks
    <3>3. /\ HasAside(stack[p], A) <=> HasAside(r, A) \/ Has(h.delayed, A)
          /\ OnceAside(r, A) /\ Once(h.delayed, A) /\ ~(Has(h.delayed, A) /\ HasAside(r, A))
      BY <1>2, <1>3, <2>4, AsideOf
    <3>4. CASE Has(h.delayed, A)
      BY <1>1, <1>6, <1>7, <2>1, <2>2, <2>3, <3>1, <3>2, <3>3, <3>4, TokenMoved DEF Places
    <3>5. CASE ~Has(h.delayed, A)
      <4>1. SameAt(c, id, "queued") /\ SameAt(c, id, "aside")
        BY <2>1, <2>2, <3>1, <3>3, <3>5 DEF SameAt
      <4> QED
        BY <1>1, <1>6, <1>7, <3>2, <4>1, TokenKept DEF Places
    <3> QED
      BY <3>4, <3>5
  <2>8. ASSUME q # <<>>
        PROVE  /\ q[1] \in Item /\ message_queue_'[p] = Tail(q) /\ Has(q, q[1])
               /\ A = q[1] => ~Has(Tail(q), A)
               /\ Shrinks(q, Tail(q), A)
    <3>1. Head(q) = q[1]
      BY <1>2
    <3>2. message_queue_'[p] = Tail(q)
      BY <1>1, <2>8 DEF DispatchMessages, QueueInv
    <3> HIDE DEF q
    <3> QED
      BY <1>2, <2>4, <2>8, <3>1, <3>2, HasInTail DEF Shrinks
  <2>9. CASE q # <<>> /\ q[1].end \in Restricted /\ q[1].end # h.end
    <3> DEFINE f == [h EXCEPT !.delayed = Append(@, q[1])]
    <3>1. f \in Frame /\ Dispatches(f) /\ f.delayed = Append(h.delayed, q[1])
          /\ f.call # "OnDispatchMessage"
      <4>1. Append(h.delayed, q[1]) \in Seq(Item)
        BY <1>3, <2>8, <2>9
      <4> HIDE DEF h
      <4>2. f \in [call : {"DispatchMessages"}, end : Channels, delayed : Seq(Item)]
            /\ f.delayed = Append(h.delayed, q[1])
        BY <1>3, <4>1
      <4> QED
        BY <4>2 DEF Frame, Dispatches
    <3>2. stack'[p] = <<f>> \o r
      BY <1>1, <2>9 DEF DispatchMessages, SendInv
    <3> HIDE DEF f, h, r
    <3>3. Shrinks(stack[p], stack'[p], H)
      <4>1. Shrinks(r, <<f>> \o r, H)
        BY <1>3, <3>1, FramesHoldNone DEF H
      <4> QED
        BY <2>6, <3>2, <4>1 DEF Shrinks
    <3>4. SameAt(c, id, "handled")
      BY <2>1, <2>2, <3>3 DEF SameAt, Shrinks
    <3>5. /\ HasAside(stack[p], A) <=> HasAside(r, A) \/ Has(h.delayed, A)
          /\ OnceAside(r, A) /\ Once(h.delayed, A) /\ ~(Has(h.delayed, A) /\ HasAside(r, A))
      BY <1>2, <1>3, <2>4, AsideOf
    <3>6. /\ HasAside(stack'[p], A) <=> HasAside(r, A) \/ Has(f.delayed, A)
          /\ OnceAside(stack'[p], A) <=>
                OnceAside(r, A) /\ Once(f.delayed, A) /\ ~(Has(f.delayed, A) /\ HasAside(r, A))
      <4> DEFINE t == <<f>> \o r
      <4>1. /\ HasAside(t, A) <=> HasAside(r, A) \/ Has(f.delayed, A)
            /\ OnceAside(t, A) <=>
                  OnceAside(r, A) /\ Once(f.delayed, A) /\ ~(Has(f.delayed, A) /\ HasAside(r, A))
        BY <1>3, <3>1, AsideOf
      <4>2. stack'[p] = t
        BY <3>2
      <4> HIDE DEF t
      <4> QED
        BY <4>1, <4>2
    <3>7. /\ Has(f.delayed, A) <=> Has(h.delayed, A) \/ A = q[1]
          /\ A # q[1] => Once(f.delayed, A)
          /\ ~Has(h.delayed, q[1]) => Once(f.delayed, q[1])
      <4>1. h.delayed \in Seq(Item) /\ q[1] \in Item
        BY <1>3, <2>8, <2>9
      <4> QED
        BY <3>1, <3>5, <4>1, HasAppended
    <3>8. CASE A = q[1]
      <4>1. Has(q, A) /\ ~Has(message_queue_'[p], A)
        BY <2>8, <2>9, <3>8
      <4>2. ~HasAside(stack[p], A)
        BY <2>5, <4>1
      <4>3. OnceAside(stack'[p], A)
        BY <3>5, <3>6, <3>7, <3>8, <4>2
      <4> QED
        BY <1>1, <1>6, <1>7, <2>1, <2>2, <2>3, <3>4, <4>1, <4>3, TokenMoved DEF Places
    <3>9. CASE A # q[1]
      <4>1. SameAt(c, id, "queued")
        BY <2>1, <2>2, <2>8, <2>9 DEF SameAt, Shrinks
      <4>2. SameAt(c, id, "aside")
        BY <2>1, <2>2, <3>5, <3>6, <3>7, <3>9 DEF SameAt
      <4> QED
        BY <1>1, <1>6, <1>7, <3>4, <4>1, <4>2, TokenKept DEF Places
    <3> QED
      BY <3>8, <3>9
  <2>10. CASE q # <<>> /\ ~(q[1].end \in Restricted /\ q[1].end # h.end)
    <3> DEFINE f == Handler(q[1].end, q[1].id)
    <3>1. f \in Frame /\ ~Dispatches(f)
      <4>1. q[1].end \in Channels /\ q[1].id \in Nat
        BY <2>8, <2>10 DEF Item
      <4> QED
        BY <4>1, Frames DEF Handler, Dispatches
    <3>2. stack'[p] = <<f>> \o stack[p]
      BY <1>1, <2>10 DEF DispatchMessages, SendInv
    <3>3. H = f <=> A = q[1]
      <4>1. q[1] \in Item
        BY <2>8, <2>10
      <4> HIDE DEF q
      <4> QED
        BY <4>1 DEF H, A, Handler, Asked, Item
    <3> HIDE DEF f
    <3>4. stack[p] \in Seq(Frame)
      BY <1>1 DEF SendInv
    <3>5. SameAt(c, id, "aside")
      <4>1. ShrinksAside(stack[p], stack'[p], A)
        BY <3>1, <3>2, <3>4, FramesHoldNone
      <4> QED
        BY <2>1, <2>2, <4>1 DEF SameAt, ShrinksAside
    <3>6. CASE A = q[1]
      <4>1. Has(q, A) /\ ~Has(message_queue_'[p], A)
        BY <2>8, <2>10, <3>6
      <4>2. Once(stack'[p], H)
        BY <2>5, <3>1, <3>2, <3>3, <3>4, <3>6, <4>1, HasPushed
      <4> QED
        BY <1>1, <1>6, <1>7, <2>1, <2>2, <2>3, <3>5, <4>1, <4>2, TokenMoved DEF Places
    <3>7. CASE A # q[1]
      <4>1. SameAt(c, id, "queued")
        BY <2>1, <2>2, <2>8, <2>10 DEF SameAt, Shrinks
      <4>2. Has(stack'[p], H) => Has(stack[p], H)
        <5>1. Has(<<f>> \o stack[p], H) => Has(stack[p], H) \/ H = f
          BY <3>1, <3>4, HasPushed
        <5> QED
          BY <3>2, <3>3, <3>7, <5>1
      <4>3. Once(stack'[p], H)
        BY <2>4, <3>1, <3>2, <3>3, <3>4, <3>7, HasPushed
      <4>4. SameAt(c, id, "handled")
        BY <2>1, <2>2, <4>2, <4>3 DEF SameAt
      <4> QED
        BY <1>1, <1>6, <1>7, <3>5, <4>1, <4>4, TokenKept DEF Places
    <3> QED
      BY <3>6, <3>7
  <2> QED
    BY <2>7, <2>9, <2>10
<1> QED
  BY <1>8, <1>9

\* An answer is sent, or owed, for the request its handler had, or that was owed.
LEMMA TokensAnswer ==
    ASSUME IInv, IInv', HomeInv, Tokens, NEW p \in Threads,
           AnswerRequest(p) \/ DelayAnswer(p)
    PROVE  Tokens'
<1> DEFINE h == Top(p)
           r == Tail(stack[p])
           e == h.end
           d == Peer[e]
           j == h.id
<1>1. ReplyInv /\ ReplyInv' /\ SendInv /\ UNCHANGED budget
  BY DEF IInv, AnswerRequest, DelayAnswer
<1>2. stack[p] # <<>> /\ h.call = "OnDispatchMessage"
  BY DEF AnswerRequest, DelayAnswer, InCall
<1>3. /\ stack[p] = <<h>> \o r /\ h \in Frame /\ r \in Seq(Frame)
      /\ e \in Channels /\ Owner[e] = p /\ j \in Nat /\ h = Handler(e, j)
  BY <1>1, <1>2, TopOf
<1>4. /\ stack' = [stack EXCEPT ![p] = r]
      /\ UNCHANGED <<message_queue_, received_replies_>>
      /\ \/ wire' = Deliver(d, Reply(j)) /\ UNCHANGED owed
         \/ UNCHANGED wire /\ owed' = [owed EXCEPT ![p] = @ \cup {[end |-> e, id |-> j]}]
  BY DEF AnswerRequest, DelayAnswer, queueVars
<1>5. stack'[p] = r /\ \A o \in Threads : o # p => stack'[o] = stack[o]
  BY <1>1, <1>4 DEF SendInv
<1> HIDE DEF h, r, e, j
<1>6. ASSUME NEW o \in Threads, NEW y, NEW x, NEW id
      PROVE  Shrinks(stack[o], stack'[o], Handler(x, id)) /\ ShrinksAside(stack[o], stack'[o], y)
  <2>1. CASE o = p
    BY <1>3, <1>5, <2>1, FramesHoldNone
  <2>2. CASE o # p
    BY <1>5, <2>2, SameIsKept
  <2> QED
    BY <2>1, <2>2
<1> SUFFICES ASSUME NEW c \in Channels, NEW id \in Nat PROVE TokenInv(c, id)'
  BY DEF Tokens
<1>7. /\ Peer[c] \in Channels /\ Peer[Peer[c]] = c /\ Owner[c] \in Threads
      /\ Owner[Peer[c]] \in Threads /\ TokenInv(c, id) /\ budget'[c] <= budget[c]
      /\ d \in Channels /\ Peer[d] = e /\ d = Peer[e]
  BY <1>1, <1>3, EndsOf, SMTT(40) DEF Tokens, ReplyInv
<1> HIDE DEF d
<1>8. SameAt(c, id, "queued") /\ SameAt(c, id, "aside") /\ SameAt(c, id, "kept")
      /\ SameAt(c, id, "handled")
  BY <1>4, <1>6, <1>7, SamePlaces, SameIsKept
<1>9. CASE wire' = Deliver(d, Reply(j)) /\ UNCHANGED owed
  <2>1. /\ \A x \in Channels : \A y :
              (x # d \/ y # Reply(j)) => Shrinks(wire[x], wire'[x], y)
        /\ ~Has(wire[d], Reply(j)) => Once(wire'[d], Reply(j))
    <3>1. Reply(j) \in Message
      BY <1>3, SameMessage
    <3> QED
      BY <1>1, <1>7, <1>9, <3>1, DeliverOf
  <2>2. SameAt(c, id, "asked")
    <3>1. Request(id) # Reply(j)
      BY SameMessage
    <3> QED
      BY <1>7, <2>1, <3>1, SamePlaces
  <2>3. SameAt(c, id, "owed")
    BY <1>9, SamePlaces
  <2>4. CASE c = d /\ id = j
    <3>1. At(c, id, "handled") /\ ~At(c, id, "handled")'
      <4>1. Has(stack[p], h)
        BY <1>3, HasPushed
      <4>2. At(c, id, "handled")
        BY <1>3, <1>7, <2>4, <4>1 DEF At
      <4>3. OnceAt(c, id, "handled")
        BY <1>7 DEF TokenInv, Places
      <4>4. Once(stack[p], h)
        BY <1>3, <1>7, <2>4, <4>3 DEF OnceAt
      <4>5. ~Has(r, h)
        BY <1>3, <4>4, HasPushed
      <4> QED
        BY <1>3, <1>5, <1>7, <2>4, <4>2, <4>5 DEF At, Handler, Has
    <3>2. ~At(c, id, "answered")
      BY <1>7, <3>1 DEF TokenInv, Places
    <3>3. OnceAt(c, id, "answered")'
      BY <2>1, <2>4, <3>2 DEF At, OnceAt, Has, Once
    <3> QED
      BY <1>1, <1>7, <1>8, <2>2, <2>3, <3>1, <3>3, TokenMoved DEF Places
  <2>5. CASE ~(c = d /\ id = j)
    <3>1. SameAt(c, id, "answered")
      <4>1. c # d \/ Reply(id) # Reply(j)
        BY <2>5, SameMessage
      <4> QED
        BY <2>1, <4>1, SamePlaces
    <3> QED
      BY <1>1, <1>7, <1>8, <2>2, <2>3, <3>1, TokenKept DEF Places
  <2> QED
    BY <2>4, <2>5
<1>10. CASE UNCHANGED wire /\ owed' = [owed EXCEPT ![p] = @ \cup {[end |-> e, id |-> j]}]
  <2>1. SameAt(c, id, "asked") /\ SameAt(c, id, "answered")
    BY <1>10, SamePlaces, SameIsKept
  <2>2. /\ owed'[p] = owed[p] \cup {[end |-> e, id |-> j]}
        /\ \A o \in Threads : o # p => owed'[o] = owed[o]
    BY <1>1, <1>10 DEF ReplyInv
  <2>3. CASE c = d /\ id = j
    <3>1. At(c, id, "handled") /\ ~At(c, id, "handled")'
      <4>1. Has(stack[p], h)
        BY <1>3, HasPushed
      <4>2. At(c, id, "handled")
        BY <1>3, <1>7, <2>3, <4>1 DEF At
      <4>3. OnceAt(c, id, "handled")
        BY <1>7 DEF TokenInv, Places
      <4>4. Once(stack[p], h)
        BY <1>3, <1>7, <2>3, <4>3 DEF OnceAt
      <4>5. ~Has(r, h)
        BY <1>3, <4>4, HasPushed
      <4> QED
        BY <1>3, <1>5, <1>7, <2>3, <4>2, <4>5 DEF At, Handler, Has
    <3>2. OnceAt(c, id, "owed")'
      BY DEF OnceAt
    <3> QED
      BY <1>1, <1>7, <1>8, <2>1, <3>1, <3>2, TokenMoved DEF Places
  <2>4. CASE ~(c = d /\ id = j)
    <3>1. Asked(c, id) # [end |-> e, id |-> j]
      <4>1. Asked(c, id).end = Peer[c] /\ Asked(c, id).id = id
        BY DEF Asked
      <4> QED
        BY <1>7, <2>4, <4>1
    <3>2. Asked(c, id) \in owed'[Owner[Peer[c]]] => Asked(c, id) \in owed[Owner[Peer[c]]]
      BY <1>7, <2>2, <3>1
    <3>3. SameAt(c, id, "owed")
      BY <3>2, SamePlaces
    <3> QED
      BY <1>1, <1>7, <1>8, <2>1, <3>3, TokenKept DEF Places
  <2> QED
    BY <2>3, <2>4
<1> QED
  BY <1>4, <1>9, <1>10 DEF d, e, h, j

\* An answer that was owed is sent.
LEMMA TokensAnswerLater ==
    ASSUME IInv, IInv', HomeInv, Tokens, NEW p \in Threads, AnswerLater(p)
    PROVE  Tokens'
<1>1. ReplyInv /\ ReplyInv' /\ SendInv /\ UNCHANGED budget
  BY DEF IInv, AnswerLater
<1>2. PICK a \in owed[p] : owed' = [owed EXCEPT ![p] = @ \ {a}]
                           /\ wire' = Deliver(Peer[a.end], Reply(a.id))
  BY DEF AnswerLater
<1>3. a \in Item /\ Owner[a.end] = p
  BY <1>1 DEF ReplyInv, HomeInv
<1> DEFINE e == a.end
           d == Peer[e]
           j == a.id
<1>4. e \in Channels /\ j \in Nat /\ a = [end |-> e, id |-> j]
  BY <1>3 DEF Item
<1>5. UNCHANGED <<message_queue_, received_replies_, stack>>
  BY DEF AnswerLater, queueVars
<1>6. wire' = Deliver(d, Reply(j))
  BY <1>2
<1> HIDE DEF e, j
<1> SUFFICES ASSUME NEW c \in Channels, NEW id \in Nat PROVE TokenInv(c, id)'
  BY DEF Tokens
<1>7. /\ Peer[c] \in Channels /\ Peer[Peer[c]] = c /\ Owner[c] \in Threads
      /\ Owner[Peer[c]] \in Threads /\ TokenInv(c, id) /\ budget'[c] <= budget[c]
      /\ d \in Channels /\ Peer[d] = e
  BY <1>1, <1>4, EndsOf DEF Tokens, ReplyInv
<1> HIDE DEF d
<1>8. SameAt(c, id, "queued") /\ SameAt(c, id, "aside") /\ SameAt(c, id, "kept")
      /\ SameAt(c, id, "handled")
  BY <1>5, SamePlaces, SameIsKept
<1>9. /\ \A x \in Channels : \A y :
            (x # d \/ y # Reply(j)) => Shrinks(wire[x], wire'[x], y)
      /\ ~Has(wire[d], Reply(j)) => Once(wire'[d], Reply(j))
  <2>1. Reply(j) \in Message
    BY <1>4, SameMessage
  <2> QED
    BY <1>1, <1>6, <1>7, <2>1, DeliverOf
<1>10. SameAt(c, id, "asked")
  <2>1. Request(id) # Reply(j)
    BY SameMessage
  <2> QED
    BY <1>7, <1>9, <2>1, SamePlaces
<1>11. owed'[p] = owed[p] \ {a} /\ \A o \in Threads : o # p => owed'[o] = owed[o]
  BY <1>1, <1>2 DEF ReplyInv
<1>12. CASE c = d /\ id = j
  <2>1. Asked(c, id) = a /\ Owner[Peer[c]] = p
    BY <1>3, <1>4, <1>7, <1>12 DEF Asked, e
  <2>2. At(c, id, "owed")
    BY <2>1 DEF At
  <2>3. ~At(c, id, "owed")'
    BY <1>11, <2>1 DEF At, Asked
  <2>4. ~At(c, id, "answered")
    BY <1>7, <2>2 DEF TokenInv, Places
  <2>5. OnceAt(c, id, "answered")'
    BY <1>9, <1>12, <2>4 DEF At, OnceAt, Has, Once
  <2> QED
    BY <1>1, <1>7, <1>8, <1>10, <2>2, <2>3, <2>5, TokenMoved DEF Places
<1>13. CASE ~(c = d /\ id = j)
  <2>1. SameAt(c, id, "answered")
    <3>1. c # d \/ Reply(id) # Reply(j)
      BY <1>13, SameMessage
    <3> QED
      BY <1>9, <3>1, SamePlaces
  <2>2. SameAt(c, id, "owed")
    BY <1>7, <1>11, SamePlaces
  <2> QED
    BY <1>1, <1>7, <1>8, <1>10, <2>1, <2>2, TokenKept DEF Places
<1> QED
  BY <1>12, <1>13

\* A request that arrives is queued; a reply unblocks its Send, or is kept.
LEMMA TokensOnMessageReceived ==
    ASSUME IInv, IInv', Tokens, NEW e \in Channels, OnMessageReceived(e)
    PROVE  Tokens'
<1> DEFINE p == Owner[e]
           s == wire[e]
           m == Head(s)
           j == m.id
           i == [end |-> e, id |-> j]
<1>1. ReplyInv /\ ReplyInv' /\ QueueInv /\ UNCHANGED budget
  BY DEF IInv, OnMessageReceived
<1>2. p \in Threads /\ s \in Seq(Message) /\ s # <<>>
  BY <1>1, EndsOf DEF ReplyInv, OnMessageReceived
<1>3. m \in Message /\ j \in Nat /\ i \in Item
      /\ (m.type = "request" => m = Request(j)) /\ (m.type # "request" => m = Reply(j))
  <2>1. m \in Message
    BY <1>2
  <2> HIDE DEF m
  <2> QED
    BY <2>1 DEF Message, Request, Reply, Item
<1>4. /\ wire' = [wire EXCEPT ![e] = Tail(s)]
      /\ UNCHANGED <<stack, owed>>
      /\ \/ /\ m.type = "request"
            /\ message_queue_' = [message_queue_ EXCEPT ![p] = Append(@, i)]
            /\ UNCHANGED received_replies_
         \/ UNCHANGED <<message_queue_, received_replies_>>
         \/ /\ m.type # "request"
            /\ received_replies_' = [received_replies_ EXCEPT ![p] = Append(@, i)]
            /\ UNCHANGED message_queue_
  BY DEF OnMessageReceived
<1>5. /\ \A x \in Channels : \A y : Shrinks(wire[x], wire'[x], y)
      /\ Has(wire[e], m) /\ (Once(wire[e], m) => ~Has(wire'[e], m))
  <2>1. wire'[e] = Tail(s) /\ \A x \in Channels : x # e => wire'[x] = wire[x]
    BY <1>1, <1>4 DEF ReplyInv
  <2>2. /\ \A y : Shrinks(s, Tail(s), y)
        /\ Has(s, m) /\ (Once(s, m) => ~Has(Tail(s), m))
    <3> HIDE DEF s
    <3> QED
      BY <1>2, HasInTail DEF Shrinks
  <2> HIDE DEF m
  <2> QED
    BY <2>1, <2>2, SameIsKept
<1> HIDE DEF m, s
<1> SUFFICES ASSUME NEW c \in Channels, NEW id \in Nat PROVE TokenInv(c, id)'
  BY DEF Tokens
<1>6. /\ Peer[c] \in Channels /\ Peer[Peer[c]] = c /\ Owner[c] \in Threads
      /\ Owner[Peer[c]] \in Threads /\ TokenInv(c, id) /\ budget'[c] <= budget[c]
  BY <1>1, EndsOf DEF Tokens, ReplyInv
<1>7. /\ SameAt(c, id, "asked") /\ SameAt(c, id, "aside") /\ SameAt(c, id, "handled")
      /\ SameAt(c, id, "owed") /\ SameAt(c, id, "answered")
  BY <1>4, <1>5, <1>6, SamePlaces, SameIsKept
<1>8. CASE UNCHANGED <<message_queue_, received_replies_>>
  <2>1. SameAt(c, id, "queued") /\ SameAt(c, id, "kept")
    BY <1>8, SamePlaces, SameIsKept
  <2> QED
    BY <1>1, <1>6, <1>7, <2>1, TokenKept DEF Places
<1>9. CASE /\ m.type = "request"
           /\ message_queue_' = [message_queue_ EXCEPT ![p] = Append(@, i)]
           /\ UNCHANGED received_replies_
  <2>1. /\ message_queue_'[p] = Append(message_queue_[p], i)
        /\ \A o \in Threads : o # p => message_queue_'[o] = message_queue_[o]
    BY <1>1, <1>2, <1>9 DEF QueueInv
  <2>2. /\ \A y : y # i => Shrinks(message_queue_[p], message_queue_'[p], y)
        /\ ~Has(message_queue_[p], i) => Once(message_queue_'[p], i)
    <3>1. message_queue_[p] \in Seq(Item)
      BY <1>1, <1>2 DEF QueueInv
    <3> HIDE DEF i, p
    <3> QED
      BY <1>3, <2>1, <3>1, HasAppended DEF Shrinks
  <2>3. SameAt(c, id, "kept")
    BY <1>9, SamePlaces, SameIsKept
  <2>4. CASE Peer[c] = e /\ id = j
    <3>1. At(c, id, "asked") /\ OnceAt(c, id, "asked")
      BY <1>3, <1>5, <1>6, <1>9, <2>4 DEF At, TokenInv, Places
    <3>2. ~At(c, id, "asked")'
      BY <1>3, <1>5, <1>9, <2>4, <3>1 DEF At, OnceAt, Request, Has
    <3>3. ~At(c, id, "queued")
      BY <1>6, <3>1 DEF TokenInv, Places
    <3>4. OnceAt(c, id, "queued")'
      <4>1. Asked(c, id) = i
        BY <2>4 DEF Asked
      <4>2. ~Has(message_queue_[p], i)
        BY <2>4, <3>3, <4>1 DEF At
      <4>3. Once(message_queue_'[Owner[Peer[c]]], i)
        BY <2>2, <2>4, <4>2
      <4> QED
        BY <4>1, <4>3 DEF OnceAt, Asked, Once
    <3> QED
      BY <1>1, <1>6, <1>7, <2>3, <3>1, <3>2, <3>4, TokenMoved DEF Places
  <2>5. CASE ~(Peer[c] = e /\ id = j)
    <3>1. Asked(c, id) # i
      <4>1. Asked(c, id).end = Peer[c] /\ Asked(c, id).id = id
        BY DEF Asked
      <4> QED
        BY <2>5, <4>1
    <3>2. SameAt(c, id, "queued")
      BY <1>6, <2>1, <2>2, <3>1, SamePlaces, SameIsKept
    <3> QED
      BY <1>1, <1>6, <1>7, <2>3, <3>2, TokenKept DEF Places
  <2> QED
    BY <2>4, <2>5
<1>10. CASE /\ m.type # "request"
            /\ received_replies_' = [received_replies_ EXCEPT ![p] = Append(@, i)]
            /\ UNCHANGED message_queue_
  <2>1. /\ received_replies_'[p] = Append(received_replies_[p], i)
        /\ \A o \in Threads : o # p => received_replies_'[o] = received_replies_[o]
    BY <1>1, <1>2, <1>10 DEF ReplyInv
  <2>2. /\ \A y : y # i => Shrinks(received_replies_[p], received_replies_'[p], y)
        /\ ~Has(received_replies_[p], i) => Once(received_replies_'[p], i)
    <3>1. received_replies_[p] \in Seq(Item)
      BY <1>1, <1>2 DEF ReplyInv
    <3> HIDE DEF i, p
    <3> QED
      BY <1>3, <2>1, <3>1, HasAppended DEF Shrinks
  <2>3. SameAt(c, id, "queued")
    BY <1>10, SamePlaces, SameIsKept
  <2>4. CASE c = e /\ id = j
    <3>1. At(c, id, "answered") /\ OnceAt(c, id, "answered")
      BY <1>3, <1>5, <1>6, <1>10, <2>4 DEF At, TokenInv, Places
    <3>2. ~At(c, id, "answered")'
      BY <1>3, <1>5, <1>10, <2>4, <3>1 DEF At, OnceAt, Reply, Has
    <3>3. ~At(c, id, "kept")
      BY <1>6, <3>1 DEF TokenInv, Places
    <3>4. OnceAt(c, id, "kept")'
      <4>1. ~Has(received_replies_[p], i)
        BY <2>4, <3>3 DEF At
      <4>2. Once(received_replies_'[Owner[c]], [end |-> c, id |-> id])
        BY <2>2, <2>4, <4>1
      <4> QED
        BY <4>2 DEF OnceAt, Once
    <3> QED
      BY <1>1, <1>6, <1>7, <2>3, <3>1, <3>2, <3>4, TokenMoved DEF Places
  <2>5. CASE ~(c = e /\ id = j)
    <3>1. [end |-> c, id |-> id] # i
      BY <2>5
    <3>2. SameAt(c, id, "kept")
      BY <1>6, <2>1, <2>2, <3>1, SamePlaces, SameIsKept
    <3> QED
      BY <1>1, <1>6, <1>7, <2>3, <3>2, TokenKept DEF Places
  <2> QED
    BY <2>4, <2>5
<1> QED
  BY <1>4, <1>8, <1>9, <1>10

-----------------------------------------------------------------------------
(* A step is a thread's own                                                *)

\* What another thread has stays.
Elsewhere(p) ==
    \A q \in Threads \ {p} :
        /\ message_queue_'[q] = message_queue_[q] /\ received_replies_'[q] = received_replies_[q]
        /\ owed'[q] = owed[q] /\ stack'[q] = stack[q] /\ ipc'[q] = ipc[q]
        /\ loop'[q] = loop[q] /\ watching'[q] = watching[q]
        /\ dispatch_event_'[q] = dispatch_event_[q]
        /\ dispatchReplies'[q] = dispatchReplies[q]

\* The steps of a thread: its own, and those of its process's IPC thread.
Steps(p) ==
    \/ DispatchMessages(p) \/ WaitDispatches(p) \/ Pop(p) \/ AnswerRequest(p)
    \/ DelayAnswer(p) \/ AnswerLater(p) \/ RunTask(p)
    \/ SignalDispatchEvent(p) \/ DispatchReplies(p) \/ Crash(p)
    \/ \E c \in Channels : Owner[c] = p /\ \/ Send(c) \/ OnMessageReceived(c)
                                           \/ OnSendTimeout(c) \/ CancelPendingSends(c)

\* No step changes what another thread has.
LEMMA StepsElsewhere ==
    ASSUME IInv, NEW p \in Threads, Steps(p)
    PROVE  Elsewhere(p)
<1>1. QueueInv /\ ReplyInv /\ SendInv
  BY DEF IInv
<1> DEFINE Own(f, g) == g = f \/ \E v : g = [f EXCEPT ![p] = v]
<1>2. /\ Own(message_queue_, message_queue_') /\ Own(received_replies_, received_replies_')
      /\ Own(owed, owed') /\ Own(stack, stack')
  <2>1. CASE DispatchMessages(p) \/ WaitDispatches(p) \/ Pop(p)
    BY <2>1 DEF DispatchMessages, WaitDispatches, Pop, queueVars
  <2>2. CASE AnswerRequest(p) \/ DelayAnswer(p) \/ AnswerLater(p)
    BY <2>2 DEF AnswerRequest, DelayAnswer, AnswerLater, queueVars
  <2>3. CASE RunTask(p) \/ SignalDispatchEvent(p)
    BY <2>3 DEF RunTask, SignalDispatchEvent
  <2>4. CASE DispatchReplies(p) \/ Crash(p)
    BY <2>4 DEF DispatchReplies, Crash, queueVars
  <2>5. ASSUME NEW c \in Channels, Owner[c] = p,
               Send(c) \/ OnMessageReceived(c) \/ OnSendTimeout(c) \/ CancelPendingSends(c)
        PROVE  /\ Own(message_queue_, message_queue_') /\ Own(received_replies_, received_replies_')
               /\ Own(owed, owed') /\ Own(stack, stack')
    <3>1. CASE Send(c)
      BY <2>5, <3>1 DEF Send, queueVars
    <3>2. CASE OnMessageReceived(c)
      BY <2>5, <3>2 DEF OnMessageReceived
    <3>3. CASE OnSendTimeout(c) \/ CancelPendingSends(c)
      BY <2>5, <3>3 DEF OnSendTimeout, CancelPendingSends, queueVars
    <3> QED
      BY <2>5, <3>1, <3>2, <3>3
  <2> HIDE DEF Own
  <2> QED
    BY <2>1, <2>2, <2>3, <2>4, <2>5 DEF Steps
<1>3. /\ Own(ipc, ipc') /\ Own(loop, loop') /\ Own(watching, watching')
      /\ Own(dispatch_event_, dispatch_event_') /\ Own(dispatchReplies, dispatchReplies')
  <2>1. CASE DispatchMessages(p) \/ WaitDispatches(p) \/ Pop(p)
    BY <2>1 DEF DispatchMessages, WaitDispatches, Pop, queueVars
  <2>2. CASE AnswerRequest(p) \/ DelayAnswer(p) \/ AnswerLater(p)
    BY <2>2 DEF AnswerRequest, DelayAnswer, AnswerLater, queueVars
  <2>3. CASE RunTask(p)
    BY <2>3 DEF RunTask
  <2>4. CASE SignalDispatchEvent(p)
    BY <2>4 DEF SignalDispatchEvent
  <2>5. CASE DispatchReplies(p) \/ Crash(p)
    BY <2>5 DEF DispatchReplies, Crash, queueVars
  <2>6. ASSUME NEW c \in Channels, Owner[c] = p,
               Send(c) \/ OnMessageReceived(c) \/ OnSendTimeout(c) \/ CancelPendingSends(c)
        PROVE  /\ Own(ipc, ipc') /\ Own(loop, loop') /\ Own(watching, watching')
               /\ Own(dispatch_event_, dispatch_event_')
               /\ Own(dispatchReplies, dispatchReplies')
    <3>1. CASE Send(c)
      BY <2>6, <3>1 DEF Send, queueVars
    <3>2. CASE OnMessageReceived(c)
      BY <2>6, <3>2 DEF OnMessageReceived
    <3>3. CASE OnSendTimeout(c) \/ CancelPendingSends(c)
      BY <2>6, <3>3 DEF OnSendTimeout, CancelPendingSends, queueVars
    <3> QED
      BY <2>6, <3>1, <3>2, <3>3
  <2> HIDE DEF Own
  <2> QED
    BY <2>1, <2>2, <2>3, <2>4, <2>5, <2>6 DEF Steps
<1>4. \A f, g : Own(f, g) /\ f = [q \in Threads |-> f[q]] =>
         \A q \in Threads \ {p} : g[q] = f[q]
  OBVIOUS
<1>5. /\ message_queue_ = [q \in Threads |-> message_queue_[q]]
      /\ received_replies_ = [q \in Threads |-> received_replies_[q]]
      /\ owed = [q \in Threads |-> owed[q]] /\ stack = [q \in Threads |-> stack[q]]
      /\ ipc = [q \in Threads |-> ipc[q]] /\ loop = [q \in Threads |-> loop[q]]
      /\ watching = [q \in Threads |-> watching[q]]
      /\ dispatch_event_ = [q \in Threads |-> dispatch_event_[q]]
      /\ dispatchReplies = [q \in Threads |-> dispatchReplies[q]]
  <2>1. /\ message_queue_ = [q \in Threads |-> message_queue_[q]]
        /\ dispatch_event_ = [q \in Threads |-> dispatch_event_[q]]
        /\ ipc = [q \in Threads |-> ipc[q]] /\ loop = [q \in Threads |-> loop[q]]
        /\ watching = [q \in Threads |-> watching[q]]
    BY <1>1 DEF QueueInv
  <2>2. /\ received_replies_ = [q \in Threads |-> received_replies_[q]]
        /\ owed = [q \in Threads |-> owed[q]]
        /\ dispatchReplies = [q \in Threads |-> dispatchReplies[q]]
    BY <1>1 DEF ReplyInv
  <2>3. stack = [q \in Threads |-> stack[q]]
    BY <1>1 DEF SendInv
  <2> QED
    BY <2>1, <2>2, <2>3
<1> HIDE DEF Own
<1> QED
  BY <1>2, <1>3, <1>4, <1>5 DEF Elsewhere

-----------------------------------------------------------------------------
(* Each step keeps messages at home, and the dead quiet                    *)

\* The messages of a queue, by its elements.
LEMMA AreOfElements ==
    ASSUME NEW q, NEW p
    PROVE  AreOf(q, p) <=> \A x : Has(q, x) => Owner[x.end] = p
BY DEF AreOf, Has

\* A step of one thread, by what it leaves the thread with.
LEMMA HomeStep ==
    ASSUME ReplyInv, HomeInv, DeadInv, NEW p \in Threads, Elsewhere(p),
           AreOf(message_queue_'[p], p), AreOf(received_replies_'[p], p),
           \A r \in owed'[p] : Owner[r.end] = p, ShapeInv(stack'[p], p),
           dead' = dead,
           p \in dead => /\ message_queue_'[p] = message_queue_[p]
                         /\ stack'[p] = stack[p] /\ ipc'[p] = ipc[p],
           \A c \in Channels : Owner[c] \in dead => wire'[c] = wire[c] \/ wire'[c] = <<>>
    PROVE  HomeInv' /\ DeadInv'
<1>1. HomeInv'
  <2> SUFFICES ASSUME NEW q \in Threads
               PROVE  /\ AreOf(message_queue_'[q], q) /\ AreOf(received_replies_'[q], q)
                      /\ \A r \in owed'[q] : Owner[r.end] = q
                      /\ ShapeInv(stack'[q], q)
    BY DEF HomeInv, AreOf, ShapeInv
  <2>1. CASE q = p
    BY <2>1
  <2>2. CASE q # p
    BY <2>2 DEF HomeInv, Elsewhere
  <2> QED
    BY <2>1, <2>2
<1>2. DeadInv'
  <2> SUFFICES ASSUME NEW q \in dead
               PROVE  /\ message_queue_'[q] = <<>> /\ stack'[q] = <<>> /\ ipc'[q] = None
                      /\ \A c \in Channels : Owner[c] = q => wire'[c] = <<>>
    BY DEF DeadInv
  <2>1. /\ message_queue_[q] = <<>> /\ stack[q] = <<>> /\ ipc[q] = None
        /\ \A c \in Channels : Owner[c] = q => wire[c] = <<>>
    BY DEF DeadInv
  <2>2. q \in Threads
    BY ChannelAssumption DEF ReplyInv
  <2>3. CASE q = p
    BY <2>1, <2>3
  <2>4. CASE q # p
    BY <2>1, <2>2, <2>4 DEF Elsewhere
  <2> QED
    BY <2>1, <2>3, <2>4
<1> QED
  BY <1>1, <1>2

\* The shape of a stack whose top frame changes.
LEMMA HomeDispatchMessages ==
    ASSUME IInv, HomeInv, DeadInv, NEW p \in Threads, DispatchMessages(p)
    PROVE  HomeInv' /\ DeadInv'
<1> DEFINE q == message_queue_[p]
           h == Top(p)
           r == Tail(stack[p])
<1>1. ReplyInv /\ SendInv /\ QueueInv
  BY DEF IInv
<1>2. /\ stack[p] # <<>> /\ Dispatches(h) /\ p \notin dead
      /\ q \in Seq(Item) /\ AreOf(q, p)
  BY <1>1 DEF DispatchMessages, InCall, QueueInv, HomeInv, Dispatches
<1>3. /\ stack[p] = <<h>> \o r /\ h \in Frame /\ r \in Seq(Frame)
      /\ h \in [call : {"DispatchMessages"}, end : Channels, delayed : Seq(Item)]
      /\ FrameInv(h, p) /\ ShapeInv(r, p) /\ (r # <<>> => CallsFrom(h, Head(r)))
      /\ ShapeInv(stack[p], p) /\ stack[p] \in Seq(Frame)
  BY <1>1, <1>2, TopOf DEF SendInv, HomeInv
<1>4. Elsewhere(p)
  BY StepsElsewhere DEF Steps
<1>5. /\ AreOf(received_replies_'[p], p) /\ \A x \in owed'[p] : Owner[x.end] = p
      /\ dead' = dead /\ wire' = wire
  BY DEF DispatchMessages, HomeInv, AreOf
<1> SUFFICES AreOf(message_queue_'[p], p) /\ ShapeInv(stack'[p], p)
  BY <1>1, <1>2, <1>4, <1>5, HomeStep
<1>6. CASE q = <<>>
  <2>1. message_queue_'[p] = h.delayed /\ stack'[p] = r
    BY <1>1, <1>6 DEF DispatchMessages, QueueInv, SendInv
  <2> QED
    BY <1>2, <1>3, <2>1 DEF FrameInv
<1>7. ASSUME q # <<>>
      PROVE  /\ q[1] \in Item /\ Owner[q[1].end] = p
             /\ message_queue_'[p] = Tail(q) /\ AreOf(Tail(q), p)
  <2>1. message_queue_'[p] = Tail(q)
    BY <1>1, <1>7 DEF DispatchMessages, QueueInv
  <2> HIDE DEF q
  <2>2. q[1] \in Item /\ 1 \in 1..Len(q)
    BY <1>2, <1>7
  <2>3. \A x : Has(Tail(q), x) => Has(q, x)
    BY <1>2, <1>7, HasInTail
  <2> QED
    BY <1>2, <2>1, <2>2, <2>3, AreOfElements DEF AreOf
<1>8. CASE q # <<>> /\ q[1].end \in Restricted /\ q[1].end # h.end
  <2> DEFINE f == [h EXCEPT !.delayed = Append(@, q[1])]
             d == h.delayed
             n == Len(d)
  <2>1. stack'[p] = <<f>> \o r
    BY <1>1, <1>8 DEF DispatchMessages, SendInv
  <2> HIDE DEF q, h, r
  <2>2. /\ d \in Seq(Item) /\ Append(d, q[1]) \in Seq(Item) /\ Len(Append(d, q[1])) = n + 1
        /\ \A i \in 1..(n + 1) : /\ i \in 1..n /\ Append(d, q[1])[i] = d[i]
                                 \/ Append(d, q[1])[i] = q[1]
    <3>1. d \in Seq(Item) /\ q[1] \in Item
      BY <1>3, <1>7, <1>8
    <3> HIDE DEF d
    <3> QED
      BY <3>1
  <2>3. /\ f \in Frame /\ f.delayed = Append(d, q[1]) /\ f.end = h.end /\ f.call = h.call
        /\ Dispatches(f)
    BY <1>3, <2>2 DEF Frame, Dispatches
  <2>4. FrameInv(f, p)
    <3>1. /\ AreOf(d, p) /\ Owner[h.end] = p
          /\ \A i \in 1..n : d[i].end \in Restricted \ {h.end}
      BY <1>2, <1>3 DEF FrameInv
    <3> HIDE DEF f, d
    <3>2. \A i \in 1..Len(f.delayed) :
             Owner[f.delayed[i].end] = p /\ f.delayed[i].end \in Restricted \ {h.end}
      BY <1>7, <1>8, <2>2, <2>3, <3>1 DEF AreOf
    <3> QED
      BY <2>3, <3>1, <3>2 DEF FrameInv, AreOf
  <2>5. r # <<>> => CallsFrom(f, Head(r))
    BY <1>3, <2>3 DEF CallsFrom, Dispatches
  <2> HIDE DEF f
  <2>6. ShapeInv(<<f>> \o r, p)
    BY <1>3, <2>3, <2>4, <2>5, ShapeOf
  <2> QED
    BY <1>7, <1>8, <2>1, <2>6
<1>9. CASE q # <<>> /\ ~(q[1].end \in Restricted /\ q[1].end # h.end)
  <2> DEFINE f == Handler(q[1].end, q[1].id)
  <2>1. stack'[p] = <<f>> \o stack[p]
    BY <1>1, <1>9 DEF DispatchMessages, SendInv
  <2>2. f \in Frame /\ ~Dispatches(f) /\ f.end = q[1].end
    <3>1. q[1].end \in Channels /\ q[1].id \in Nat
      BY <1>7, <1>9 DEF Item
    <3> QED
      BY <3>1, Frames DEF Handler, Dispatches
  <2>3. FrameInv(f, p)
    BY <1>7, <1>9, <2>2 DEF FrameInv
  <2>4. CallsFrom(f, Head(stack[p]))
    BY <1>2 DEF CallsFrom, Dispatches, Top
  <2> HIDE DEF f
  <2>5. ShapeInv(<<f>> \o stack[p], p)
    BY <1>3, <2>2, <2>3, <2>4, ShapeOf
  <2> QED
    BY <1>7, <1>9, <2>1, <2>5
<1> QED
  BY <1>6, <1>8, <1>9

\* A Send: the wait, and what dispatches for it.
LEMMA HomeSend ==
    ASSUME IInv, HomeInv, DeadInv, NEW c \in Channels, Send(c)
    PROVE  HomeInv' /\ DeadInv'
<1> DEFINE p == Owner[c]
           s == stack[p]
           b == budget[c]
           w == Wait(c, b)
           f == Dispatch(c)
           t == <<w>> \o s
<1>1. ReplyInv /\ SendInv
  BY DEF IInv
<1>2. /\ p \in Threads /\ b \in Nat /\ s \in Seq(Frame) /\ Peer[c] \in Channels
      /\ ShapeInv(s, p) /\ p \notin dead /\ (s # <<>> => Head(s).call = "OnDispatchMessage")
  BY <1>1, EndsOf DEF ReplyInv, SendInv, HomeInv, Send, InProgram, Top
<1>3. /\ w \in Frame /\ f \in Frame /\ w.call = "WaitForReply" /\ Dispatches(f)
      /\ f.delayed = <<>> /\ ~Dispatches(w) /\ w.end = c /\ f.end = c
  BY <1>2, Frames DEF Wait, Dispatch, Dispatches
<1> HIDE DEF w, f
<1>4. stack'[p] = <<f>> \o t /\ t \in Seq(Frame)
  <2>1. stack'[p] = <<f, w>> \o s
    BY <1>1, <1>2 DEF Send, SendInv, w, f
  <2> HIDE DEF s, p
  <2> QED
    BY <1>2, <1>3, <2>1
<1>5. ShapeInv(t, p)
  <2>1. FrameInv(w, p)
    BY <1>3 DEF FrameInv
  <2>2. s # <<>> => CallsFrom(w, Head(s))
    BY <1>2 DEF CallsFrom
  <2> HIDE DEF p, s
  <2> QED
    BY <1>2, <1>3, <2>1, <2>2, ShapeOf
<1>6. ShapeInv(<<f>> \o t, p)
  <2>1. FrameInv(f, p)
    BY <1>3 DEF FrameInv, AreOf
  <2>2. t # <<>> /\ Head(t) = w
    BY <1>2, <1>3
  <2>3. CallsFrom(f, Head(t))
    BY <1>3, <2>2 DEF CallsFrom
  <2> HIDE DEF p, t
  <2> QED
    BY <1>3, <1>4, <1>5, <2>1, <2>3, ShapeOf
<1>7. Elsewhere(p)
  BY <1>2, StepsElsewhere DEF Steps
<1>8. /\ AreOf(message_queue_'[p], p)
      /\ AreOf(received_replies_'[p], p) /\ \A x \in owed'[p] : Owner[x.end] = p
      /\ dead' = dead /\ wire' = Deliver(Peer[c], Request(b))
  BY <1>2 DEF Send, HomeInv, AreOf, queueVars
<1>9. \A x \in Channels : Owner[x] \in dead => wire'[x] = wire[x]
  BY <1>1, <1>2, <1>8 DEF Deliver, ReplyInv
<1> QED
  BY <1>1, <1>2, <1>4, <1>6, <1>7, <1>8, <1>9, HomeStep

\* The steps that push a frame to dispatch messages.
LEMMA HomeDispatch ==
    ASSUME IInv, HomeInv, DeadInv, NEW p \in Threads, WaitDispatches(p) \/ RunTask(p)
    PROVE  HomeInv' /\ DeadInv'
<1>1. ReplyInv /\ SendInv /\ QueueInv
  BY DEF IInv
<1>2. p \notin dead /\ stack[p] \in Seq(Frame) /\ ShapeInv(stack[p], p) /\ Elsewhere(p)
  BY <1>1, StepsElsewhere DEF WaitDispatches, RunTask, InCall, SendInv, HomeInv, Steps
<1>3. /\ AreOf(message_queue_'[p], p)
      /\ AreOf(received_replies_'[p], p) /\ \A x \in owed'[p] : Owner[x.end] = p
      /\ dead' = dead /\ wire' = wire
  BY DEF WaitDispatches, RunTask, HomeInv, AreOf
<1> SUFFICES ShapeInv(stack'[p], p)
  BY <1>1, <1>2, <1>3, HomeStep
<1>4. ASSUME NEW e \in Channels, Owner[e] = p
      PROVE  /\ Dispatch(e) \in Frame /\ FrameInv(Dispatch(e), p)
             /\ Dispatches(Dispatch(e)) /\ Dispatch(e).end = e
  <2>1. Dispatch(e) \in Frame
    BY Frames
  <2> QED
    BY <1>4, <2>1 DEF FrameInv, AreOf, Dispatch, Dispatches
<1>5. CASE WaitDispatches(p)
  <2> DEFINE e == Top(p).end
  <2>1. stack[p] # <<>> /\ stack'[p] = <<Dispatch(e)>> \o stack[p]
    BY <1>1, <1>5 DEF WaitDispatches, InCall, SendInv
  <2>2. e \in Channels /\ Owner[e] = p /\ e = Head(stack[p]).end
    BY <1>1, <2>1, TopOf DEF Top
  <2> HIDE DEF e
  <2>3. CallsFrom(Dispatch(e), Head(stack[p]))
    BY <1>4, <2>2 DEF CallsFrom
  <2> QED
    BY <1>2, <1>4, <2>1, <2>2, <2>3, ShapeOf
<1>6. CASE RunTask(p)
  <2> DEFINE e == Head(loop[p]).end
             f == Dispatch(e)
  <2>1. /\ stack[p] = <<>> /\ loop[p] # <<>> /\ stack'[p] = <<f>>
    BY <1>1, <1>6 DEF RunTask, SendInv
  <2>2. e \in Channels /\ Owner[e] = p
    <3>1. loop[p] \in Seq(Task(p)) /\ Range(Ends[p]) \subseteq Channels
          /\ \A c \in Range(Ends[p]) : Owner[c] = p
      BY <1>1, Owners DEF QueueInv
    <3>2. Head(loop[p]) \in Task(p)
      BY <2>1, <3>1
    <3> QED
      BY <3>1, <3>2 DEF Task
  <2>3. f \in Frame /\ FrameInv(f, p)
    BY <1>4, <2>2
  <2> HIDE DEF f
  <2>4. <<f>> = <<f>> \o stack[p]
    BY <2>1, <2>3
  <2>5. ShapeInv(<<f>> \o stack[p], p)
    BY <1>2, <2>1, <2>3, ShapeOf
  <2> QED
    BY <2>1, <2>4, <2>5
<1> QED
  BY <1>5, <1>6

\* The steps that pop a frame.
LEMMA HomePop ==
    ASSUME IInv, HomeInv, DeadInv, NEW p \in Threads,
           Pop(p) \/ AnswerRequest(p) \/ DelayAnswer(p)
    PROVE  HomeInv' /\ DeadInv'
<1>1. ReplyInv /\ SendInv
  BY DEF IInv
<1>2. p \notin dead /\ Elsewhere(p) /\ stack[p] # <<>>
  BY StepsElsewhere DEF Pop, AnswerRequest, DelayAnswer, InCall, Steps
<1>3. /\ Top(p).end \in Channels /\ Owner[Top(p).end] = p /\ ShapeInv(Tail(stack[p]), p)
  BY <1>1, <1>2, TopOf
<1>4. stack'[p] = Tail(stack[p])
  BY <1>1 DEF Pop, AnswerRequest, DelayAnswer, SendInv
<1>5. /\ AreOf(message_queue_'[p], p) /\ AreOf(received_replies_'[p], p) /\ dead' = dead
  BY DEF Pop, AnswerRequest, DelayAnswer, queueVars, HomeInv, AreOf
<1>6. \A x \in owed'[p] : Owner[x.end] = p
  <2>1. \A x \in owed'[p] : x \in owed[p] \/ x.end = Top(p).end
    BY <1>1 DEF Pop, AnswerRequest, DelayAnswer, ReplyInv
  <2> QED
    BY <1>3, <2>1 DEF HomeInv
<1>7. \A x \in Channels : Owner[x] \in dead => wire'[x] = wire[x]
  <2>1. wire' = wire \/ wire' = Deliver(Peer[Top(p).end], Reply(Top(p).id))
    BY DEF Pop, AnswerRequest, DelayAnswer
  <2>2. Peer[Top(p).end] \in Channels
    BY <1>3, EndsOf
  <2> HIDE DEF Top
  <2> QED
    BY <1>1, <2>1, <2>2 DEF Deliver, ReplyInv
<1> QED
  BY <1>1, <1>2, <1>3, <1>4, <1>5, <1>6, <1>7, HomeStep

\* An answer that was owed.
LEMMA HomeAnswerLater ==
    ASSUME IInv, HomeInv, DeadInv, NEW p \in Threads, AnswerLater(p)
    PROVE  HomeInv' /\ DeadInv'
<1>1. ReplyInv
  BY DEF IInv
<1>2. p \notin dead /\ Elsewhere(p)
  BY StepsElsewhere DEF AnswerLater, Steps
<1>3. PICK a \in owed[p] : owed' = [owed EXCEPT ![p] = @ \ {a}]
                           /\ wire' = Deliver(Peer[a.end], Reply(a.id))
  BY DEF AnswerLater
<1>4. /\ AreOf(message_queue_'[p], p) /\ AreOf(received_replies_'[p], p) /\ dead' = dead
      /\ ShapeInv(stack'[p], p)
  BY DEF AnswerLater, queueVars, HomeInv, AreOf, ShapeInv
<1>5. \A x \in owed'[p] : Owner[x.end] = p
  <2>1. owed'[p] \subseteq owed[p]
    BY <1>1, <1>3 DEF ReplyInv
  <2> QED
    BY <2>1 DEF HomeInv
<1>6. \A x \in Channels : Owner[x] \in dead => wire'[x] = wire[x]
  <2>1. Peer[a.end] \in Channels
    <3>1. a \in Item
      BY <1>1, <1>3 DEF ReplyInv
    <3> QED
      BY <3>1, EndsOf DEF Item
  <2> QED
    BY <1>1, <1>3, <2>1 DEF Deliver, ReplyInv
<1> QED
  BY <1>1, <1>2, <1>4, <1>5, <1>6, HomeStep

\* The steps of the IPC thread.
LEMMA HomeReceived ==
    ASSUME IInv, HomeInv, DeadInv, NEW c \in Channels, OnMessageReceived(c)
    PROVE  HomeInv' /\ DeadInv'
<1> DEFINE p == Owner[c]
           i == [end |-> c, id |-> Head(wire[c]).id]
<1>1. ReplyInv /\ QueueInv
  BY DEF IInv
<1>2. p \in Threads /\ wire[c] \in Seq(Message) /\ wire[c] # <<>> /\ p \notin dead
  BY <1>1, EndsOf DEF ReplyInv, OnMessageReceived, DeadInv
<1>3. Elsewhere(p)
  BY <1>2, StepsElsewhere DEF Steps
<1>4. /\ ShapeInv(stack'[p], p) /\ dead' = dead /\ \A x \in owed'[p] : Owner[x.end] = p
  BY <1>2 DEF OnMessageReceived, HomeInv, ShapeInv
<1>5. i \in Item /\ Owner[i.end] = p
  <2>1. Head(wire[c]) \in Message
    BY <1>2
  <2> QED
    BY <2>1 DEF Message, Item
<1>6. /\ message_queue_'[p] = message_queue_[p]
         \/ message_queue_'[p] = Append(message_queue_[p], i)
      /\ received_replies_'[p] = received_replies_[p]
         \/ received_replies_'[p] = Append(received_replies_[p], i)
  <2>1. /\ message_queue_' = message_queue_
           \/ message_queue_' = [message_queue_ EXCEPT ![p] = Append(@, i)]
        /\ received_replies_' = received_replies_
           \/ received_replies_' = [received_replies_ EXCEPT ![p] = Append(@, i)]
    BY DEF OnMessageReceived
  <2> HIDE DEF i
  <2> QED
    BY <1>1, <1>2, <2>1 DEF QueueInv, ReplyInv
<1>7. ASSUME NEW q \in Seq(Item), AreOf(q, p)
      PROVE  AreOf(Append(q, i), p)
  <2> HIDE DEF i, p
  <2>1. \A x : Has(Append(q, i), x) => Has(q, x) \/ x = i
    BY <1>5, HasAppended
  <2> QED
    BY <1>5, <1>7, <2>1, AreOfElements
<1>8. /\ message_queue_[p] \in Seq(Item) /\ AreOf(message_queue_[p], p)
      /\ received_replies_[p] \in Seq(Item) /\ AreOf(received_replies_[p], p)
  BY <1>1, <1>2 DEF QueueInv, ReplyInv, HomeInv
<1>9. AreOf(message_queue_'[p], p) /\ AreOf(received_replies_'[p], p)
  BY <1>6, <1>7, <1>8
<1>10. \A x \in Channels : Owner[x] \in dead => wire'[x] = wire[x]
  BY <1>1, <1>2 DEF OnMessageReceived, ReplyInv
<1> QED
  BY <1>1, <1>2, <1>3, <1>4, <1>9, <1>10, HomeStep

\* The rest of them, and the death of a process.
LEMMA HomeRest ==
    ASSUME IInv, HomeInv, DeadInv,
           \/ \E p \in Threads : SignalDispatchEvent(p) \/ DispatchReplies(p) \/ Crash(p)
           \/ \E c \in Channels : OnSendTimeout(c) \/ CancelPendingSends(c)
           \/ UNCHANGED vars
    PROVE  HomeInv' /\ DeadInv'
<1>1. ReplyInv /\ QueueInv /\ SendInv
  BY DEF IInv
<1>2. ASSUME NEW p \in Threads, SignalDispatchEvent(p) PROVE HomeInv' /\ DeadInv'
  <2>1. p \notin dead /\ Elsewhere(p)
    BY <1>2, StepsElsewhere DEF SignalDispatchEvent, DeadInv, Steps
  <2>2. /\ AreOf(message_queue_'[p], p) /\ AreOf(received_replies_'[p], p)
        /\ ShapeInv(stack'[p], p) /\ \A x \in owed'[p] : Owner[x.end] = p
        /\ dead' = dead /\ wire' = wire
    BY <1>2 DEF SignalDispatchEvent, HomeInv, AreOf, ShapeInv
  <2> QED
    BY <1>1, <2>1, <2>2, HomeStep
<1>3. ASSUME NEW p \in Threads, DispatchReplies(p) PROVE HomeInv' /\ DeadInv'
  <2>1. Elsewhere(p)
    BY <1>3, StepsElsewhere DEF Steps
  <2>2. /\ AreOf(message_queue_'[p], p)
        /\ ShapeInv(stack'[p], p) /\ \A x \in owed'[p] : Owner[x.end] = p
        /\ UNCHANGED <<dead, wire, message_queue_, stack, ipc>>
    BY <1>3 DEF DispatchReplies, HomeInv, AreOf, ShapeInv, queueVars
  <2>3. AreOf(received_replies_'[p], p)
    <3> DEFINE s == received_replies_[p]
               i == Min(Ready(p))
    <3>1. s \in Seq(Item) /\ AreOf(s, p)
      BY <1>1 DEF ReplyInv, HomeInv
    <3>2. CASE Ready(p) = {}
      BY <1>3, <3>1, <3>2 DEF DispatchReplies, AreOf
    <3>3. CASE Ready(p) # {}
      <4>1. received_replies_'[p] = RemoveAt(s, i)
        BY <1>1, <1>3, <3>3 DEF DispatchReplies, ReplyInv
      <4>2. i \in 1..Len(s)
        <5>1. Ready(p) \in SUBSET (1..Len(s)) /\ Len(s) \in Nat
          BY <3>1 DEF Ready
        <5> QED
          BY <3>3, <5>1, LeastIndex
      <4> HIDE DEF s, i
      <4>3. \A x : Has(RemoveAt(s, i), x) => Has(s, x)
        BY <3>1, <4>2, HasRemoved
      <4> QED
        BY <3>1, <4>1, <4>3, AreOfElements
    <3> QED
      BY <3>2, <3>3
  <2> QED
    BY <1>1, <2>1, <2>2, <2>3, HomeStep
<1>4. ASSUME NEW p \in Threads, Crash(p) PROVE HomeInv' /\ DeadInv'
  <2>1. Elsewhere(p) /\ dead' = dead \cup {p}
    BY <1>4, StepsElsewhere DEF Crash, Steps
  <2>2. /\ message_queue_'[p] = <<>> /\ received_replies_'[p] = <<>> /\ stack'[p] = <<>>
        /\ owed'[p] = {} /\ ipc'[p] = None
    BY <1>1, <1>4 DEF Crash, QueueInv, ReplyInv, SendInv
  <2>3. AreOf(<<>>, p) /\ ShapeInv(<<>>, p)
    BY DEF AreOf, ShapeInv
  <2>4. HomeInv'
    <3> SUFFICES ASSUME NEW q \in Threads
                 PROVE  /\ AreOf(message_queue_'[q], q) /\ AreOf(received_replies_'[q], q)
                        /\ \A r \in owed'[q] : Owner[r.end] = q
                        /\ ShapeInv(stack'[q], q)
      BY DEF HomeInv, AreOf, ShapeInv
    <3>1. CASE q = p
      BY <2>2, <2>3, <3>1
    <3>2. CASE q # p
      BY <2>1, <3>2 DEF HomeInv, Elsewhere
    <3> QED
      BY <3>1, <3>2
  <2>5. DeadInv'
    <3> SUFFICES ASSUME NEW q \in dead'
                 PROVE  /\ message_queue_'[q] = <<>> /\ stack'[q] = <<>> /\ ipc'[q] = None
                        /\ \A c \in Channels : Owner[c] = q => wire'[c] = <<>>
      BY DEF DeadInv
    <3>1. wire' = [c \in Channels |-> IF Owner[c] = p THEN <<>> ELSE wire[c]]
      BY <1>4 DEF Crash
    <3>2. CASE q = p
      BY <2>2, <3>1, <3>2
    <3>3. CASE q # p
      <4>1. q \in dead /\ q \in Threads
        BY <1>1, <2>1, <3>3, ChannelAssumption DEF ReplyInv
      <4>2. /\ message_queue_[q] = <<>> /\ stack[q] = <<>> /\ ipc[q] = None
            /\ \A c \in Channels : Owner[c] = q => wire[c] = <<>>
        BY <4>1 DEF DeadInv
      <4> QED
        BY <2>1, <3>1, <3>3, <4>1, <4>2 DEF Elsewhere
    <3> QED
      BY <3>2, <3>3
  <2> QED
    BY <2>4, <2>5
<1>5. ASSUME UNCHANGED <<message_queue_, received_replies_, owed, stack, dead, ipc, wire>>
      PROVE  HomeInv' /\ DeadInv'
  BY <1>5 DEF HomeInv, DeadInv, AreOf, ShapeInv
<1>6. ASSUME NEW c \in Channels, OnSendTimeout(c) \/ CancelPendingSends(c)
      PROVE  HomeInv' /\ DeadInv'
  BY <1>5, <1>6 DEF OnSendTimeout, CancelPendingSends, queueVars
<1>7. CASE UNCHANGED vars
  BY <1>5, <1>7 DEF vars
<1> QED
  BY <1>2, <1>3, <1>4, <1>6, <1>7

-----------------------------------------------------------------------------
(* Every reply that is kept has a task as soon as its Send is innermost    *)

\* The innermost Send of d has this id; the replies of r that such Sends wait for.
Waits(d, id) == d # <<>> /\ Last(d).id = id
ReadyOf(r, d) == {i \in 1..Len(r) : Waits(d[r[i].end], r[i].id)}

\* They are finitely many.
LEMMA ReadyFinite ==
    ASSUME NEW r \in Seq(Item), NEW d
    PROVE  IsFiniteSet(ReadyOf(r, d)) /\ Cardinality(ReadyOf(r, d)) \in Nat
<1>1. IsFiniteSet(1..Len(r))
  <2>1. Len(r) \in Nat /\ 1 \in Int
    OBVIOUS
  <2> QED
    BY <2>1, FS_Interval
<1>2. ReadyOf(r, d) \in SUBSET (1..Len(r))
  BY DEF ReadyOf
<1> QED
  BY <1>1, <1>2, FS_Subset, FS_CardinalityType

\* They are those that are ready.
LEMMA ReadyIs ==
    ASSUME ReplyInv, ReplyInv', NEW p \in Threads
    PROVE  /\ Ready(p) = ReadyOf(received_replies_[p], deserializers_)
           /\ Ready(p)' = ReadyOf(received_replies_'[p], deserializers_')
           /\ received_replies_[p] \in Seq(Item) /\ received_replies_'[p] \in Seq(Item)
<1>1. received_replies_[p] \in Seq(Item) /\ received_replies_'[p] \in Seq(Item)
  BY DEF ReplyInv
<1>2. /\ DOMAIN received_replies_[p] = 1..Len(received_replies_[p])
      /\ DOMAIN received_replies_'[p] = 1..Len(received_replies_'[p])
  BY <1>1
<1> QED
  BY <1>1, <1>2 DEF Ready, Matches, ReadyOf, Waits

\* Fewer Sends wait for a reply, fewer replies are ready.
LEMMA ReadyFewer ==
    ASSUME NEW r \in Seq(Item), NEW d, NEW e,
           \A i \in 1..Len(r) : Waits(e[r[i].end], r[i].id) => Waits(d[r[i].end], r[i].id)
    PROVE  Cardinality(ReadyOf(r, e)) <= Cardinality(ReadyOf(r, d))
<1>1. ReadyOf(r, e) \in SUBSET ReadyOf(r, d)
  BY DEF ReadyOf
<1> QED
  BY <1>1, ReadyFinite, FS_Subset

\* Only the ids of Sends matter.
LEMMA WaitsSame ==
    ASSUME NEW d \in Seq(Context), NEW e \in Seq(Context), Len(e) = Len(d),
           \A k \in 1..Len(d) : e[k].id = d[k].id, NEW id
    PROVE  Waits(e, id) <=> Waits(d, id)
<1>1. d # <<>> <=> e # <<>>
  OBVIOUS
<1>2. d # <<>> => Last(e).id = Last(d).id
  BY DEF Last
<1> QED
  BY <1>1, <1>2 DEF Waits

\* A step of one thread, by what is ready there.
LEMMA ReadyStep ==
    ASSUME IInv, IInv', HomeInv, QueuedReplyIsFound, NEW p \in Threads, Elsewhere(p),
           \A c \in Channels : Owner[c] # p => deserializers_'[c] = deserializers_[c],
           Cardinality(ReadyOf(received_replies_'[p], deserializers_')) <= dispatchReplies'[p]
    PROVE  QueuedReplyIsFound'
<1>1. ReplyInv /\ ReplyInv'
  BY DEF IInv
<1> SUFFICES ASSUME NEW q \in Threads
             PROVE  Cardinality(Ready(q)') <= dispatchReplies'[q]
  BY DEF QueuedReplyIsFound
<1>2. CASE q = p
  BY <1>1, <1>2, ReadyIs
<1>3. CASE q # p
  <2> DEFINE r == received_replies_[q]
  <2>1. received_replies_'[q] = r /\ dispatchReplies'[q] = dispatchReplies[q]
        /\ r \in Seq(Item) /\ dispatchReplies[q] \in Nat
    BY <1>1, <1>3 DEF Elsewhere, ReplyInv
  <2>2. \A i \in 1..Len(r) : r[i].end \in Channels /\ Owner[r[i].end] = q
    <3>1. \A i \in 1..Len(r) : Owner[r[i].end] = q
      BY DEF HomeInv, AreOf
    <3>2. \A i \in 1..Len(r) : r[i] \in Item
      <4> HIDE DEF r
      <4> QED
        BY <2>1
    <3> QED
      BY <3>1, <3>2 DEF Item
  <2>3. Ready(q)' = ReadyOf(r, deserializers_') /\ Ready(q) = ReadyOf(r, deserializers_)
    BY <1>1, <2>1, ReadyIs
  <2>4. Cardinality(Ready(q)) <= dispatchReplies[q]
    BY DEF QueuedReplyIsFound
  <2> HIDE DEF r
  <2>5. Cardinality(ReadyOf(r, deserializers_')) <= Cardinality(ReadyOf(r, deserializers_))
    BY <1>3, <2>1, <2>2, ReadyFewer
  <2>6. /\ Cardinality(ReadyOf(r, deserializers_')) \in Nat
        /\ Cardinality(ReadyOf(r, deserializers_)) \in Nat
    BY <2>1, ReadyFinite
  <2> QED
    BY <2>1, <2>3, <2>4, <2>5, <2>6
<1> QED
  BY <1>2, <1>3

\* Steps that change no Send but in whether it is done, and keep no reply.
LEMMA FoundStays ==
    ASSUME IInv, IInv', QueuedReplyIsFound, UNCHANGED <<received_replies_, dispatchReplies>>,
           \A c \in Channels : /\ Len(deserializers_'[c]) = Len(deserializers_[c])
                               /\ \A k \in 1..Len(deserializers_[c]) :
                                     deserializers_'[c][k].id = deserializers_[c][k].id
    PROVE  QueuedReplyIsFound'
<1>1. ReplyInv /\ ReplyInv' /\ SendInv /\ SendInv'
  BY DEF IInv
<1> SUFFICES ASSUME NEW q \in Threads
             PROVE  Cardinality(Ready(q)') <= dispatchReplies'[q]
  BY DEF QueuedReplyIsFound
<1> DEFINE r == received_replies_[q]
<1>2. r \in Seq(Item) /\ dispatchReplies[q] \in Nat
  BY <1>1 DEF ReplyInv
<1>3. Ready(q)' = ReadyOf(r, deserializers_') /\ Ready(q) = ReadyOf(r, deserializers_)
  BY <1>1, ReadyIs
<1>4. Cardinality(Ready(q)) <= dispatchReplies[q]
  BY DEF QueuedReplyIsFound
<1> HIDE DEF r
<1>5. \A c \in Channels : \A id : Waits(deserializers_'[c], id) => Waits(deserializers_[c], id)
  <2> SUFFICES ASSUME NEW c \in Channels, NEW id
               PROVE  Waits(deserializers_'[c], id) => Waits(deserializers_[c], id)
    OBVIOUS
  <2>1. deserializers_[c] \in Seq(Context) /\ deserializers_'[c] \in Seq(Context)
    BY <1>1 DEF SendInv
  <2> QED
    BY <2>1, WaitsSame
<1>6. Cardinality(ReadyOf(r, deserializers_')) <= Cardinality(ReadyOf(r, deserializers_))
  <2>1. \A i \in 1..Len(r) : r[i] \in Item
    BY <1>2
  <2>2. \A i \in 1..Len(r) : r[i].end \in Channels
    BY <2>1 DEF Item
  <2> QED
    BY <1>2, <1>5, <2>2, ReadyFewer
<1>7. /\ Cardinality(ReadyOf(r, deserializers_')) \in Nat
      /\ Cardinality(ReadyOf(r, deserializers_)) \in Nat
  BY <1>2, ReadyFinite
<1>8. dispatchReplies'[q] = dispatchReplies[q]
  OBVIOUS
<1> QED
  BY <1>2, <1>3, <1>4, <1>6, <1>7, <1>8

\* Such steps: all but those that push or pop a Send, or take or keep a reply.
LEMMA FoundQuiet ==
    ASSUME IInv, IInv', QueuedReplyIsFound,
           \/ \E p \in Threads : \/ DispatchMessages(p) \/ WaitDispatches(p) \/ AnswerRequest(p)
                                 \/ DelayAnswer(p) \/ AnswerLater(p) \/ RunTask(p)
                                 \/ SignalDispatchEvent(p)
           \/ \E c \in Channels : OnSendTimeout(c) \/ CancelPendingSends(c)
           \/ UNCHANGED vars
    PROVE  QueuedReplyIsFound'
<1>1. SendInv
  BY DEF IInv
<1>2. UNCHANGED <<received_replies_, dispatchReplies>>
  BY DEF DispatchMessages, WaitDispatches, AnswerRequest, DelayAnswer, AnswerLater, RunTask,
         SignalDispatchEvent, OnSendTimeout, CancelPendingSends, vars
<1>3. ASSUME NEW c \in Channels, OnSendTimeout(c) \/ CancelPendingSends(c), NEW b \in Channels
      PROVE  /\ Len(deserializers_'[b]) = Len(deserializers_[b])
             /\ \A k \in 1..Len(deserializers_[b]) :
                   deserializers_'[b][k].id = deserializers_[b][k].id
  <2> DEFINE d == deserializers_[c]
  <2>1. d \in Seq(Context) /\ DOMAIN d = 1..Len(d) /\ \A k \in 1..Len(d) : d[k] \in Context
    BY <1>1 DEF SendInv
  <2>2. PICK e : /\ deserializers_' = [deserializers_ EXCEPT ![c] = e]
                 /\ Len(e) = Len(d) /\ \A k \in 1..Len(d) : e[k].id = d[k].id
    <3>1. CASE OnSendTimeout(c)
      <4>1. PICK i \in 1..Len(d) : deserializers_' = [deserializers_ EXCEPT ![c][i].done = TRUE]
        BY <2>1, <3>1 DEF OnSendTimeout
      <4> DEFINE x == [d[i] EXCEPT !.done = TRUE]
                 e == [d EXCEPT ![i] = x]
      <4>2. x \in Context /\ x.id = d[i].id
        <5> HIDE DEF d
        <5> QED
          BY <2>1 DEF Context
      <4>3. deserializers_' = [deserializers_ EXCEPT ![c] = e]
        BY <4>1
      <4> HIDE DEF x, d
      <4>4. Len(e) = Len(d) /\ \A k \in 1..Len(d) : e[k].id = d[k].id
        BY <2>1, <4>2
      <4> HIDE DEF e
      <4> QED
        BY <4>3, <4>4
    <3>2. CASE CancelPendingSends(c)
      <4> DEFINE e == [k \in 1..Len(d) |-> [d[k] EXCEPT !.done = TRUE]]
      <4>1. deserializers_' = [deserializers_ EXCEPT ![c] = e]
        BY <2>1, <3>2 DEF CancelPendingSends
      <4> HIDE DEF d
      <4>2. \A k \in 1..Len(d) : /\ [d[k] EXCEPT !.done = TRUE] \in Context
                                 /\ [d[k] EXCEPT !.done = TRUE].id = d[k].id
        BY <2>1 DEF Context
      <4>3. Len(d) \in Nat
        BY <2>1
      <4>4. \A k \in 1..Len(d) : e[k] \in Context /\ e[k].id = d[k].id
        BY <4>2
      <4>5. e \in Seq(Context) /\ Len(e) = Len(d)
        BY <4>3, <4>4
      <4> HIDE DEF e
      <4> QED
        BY <4>1, <4>4, <4>5
    <3> QED
      BY <1>3, <3>1, <3>2
  <2>3. deserializers_'[c] = e /\ (b # c => deserializers_'[b] = deserializers_[b])
    BY <1>1, <2>2 DEF SendInv
  <2> HIDE DEF d
  <2> QED
    BY <2>2, <2>3 DEF d
<1>4. deserializers_' = deserializers_ \/ \E c \in Channels : OnSendTimeout(c) \/ CancelPendingSends(c)
  BY DEF DispatchMessages, WaitDispatches, AnswerRequest, DelayAnswer, AnswerLater, RunTask,
         SignalDispatchEvent, vars
<1> QED
  BY <1>2, <1>3, <1>4, FoundStays

\* A Send waits for no reply that is kept.
LEMMA FoundSend ==
    ASSUME IInv, IInv', HomeInv, Tokens, QueuedReplyIsFound, NEW c \in Channels, Send(c)
    PROVE  QueuedReplyIsFound'
<1> DEFINE p == Owner[c]
           r == received_replies_[p]
           b == budget[c]
           x == [id |-> b, done |-> FALSE]
           d == deserializers_[c]
<1>1. ReplyInv /\ ReplyInv' /\ SendInv
  BY DEF IInv
<1>2. /\ p \in Threads /\ r \in Seq(Item) /\ b \in Nat /\ x \in Context /\ d \in Seq(Context)
      /\ dispatchReplies[p] \in Nat
  BY <1>1, EndsOf DEF ReplyInv, SendInv, Context
<1>3. Elsewhere(p)
  BY <1>2, StepsElsewhere DEF Steps
<1>4. /\ deserializers_'[c] = Append(d, x)
      /\ \A a \in Channels : a # c => deserializers_'[a] = deserializers_[a]
      /\ received_replies_'[p] = r /\ dispatchReplies'[p] = dispatchReplies[p]
  BY <1>1 DEF Send, SendInv
<1>5. \A i \in 1..Len(r) : r[i] \in Item /\ r[i].end \in Channels /\ r[i].id \in Nat
  <2>1. \A i \in 1..Len(r) : r[i] \in Item
    BY <1>2
  <2> QED
    BY <2>1 DEF Item
<1>6. ASSUME NEW i \in 1..Len(r), Waits(deserializers_'[r[i].end], r[i].id)
      PROVE  Waits(deserializers_[r[i].end], r[i].id)
  <2>1. CASE r[i].end = c
    <3>1. r[i].id = b
      <4>1. Last(Append(d, x)) = x
        BY <1>2 DEF Last
      <4>2. Waits(Append(d, x), r[i].id)
        BY <1>4, <1>6, <2>1
      <4>3. r[i].id = x.id
        BY <4>1, <4>2 DEF Waits
      <4> QED
        BY <4>3
    <3>2. r[i] = [end |-> c, id |-> b]
      BY <1>5, <2>1, <3>1 DEF Item
    <3>3. Has(r, [end |-> c, id |-> b])
      BY <3>2 DEF Has
    <3>4. At(c, b, "kept") /\ "kept" \in Places
      BY <3>3 DEF At, Places
    <3>5. b < b
      BY <1>2, <3>4 DEF Tokens, TokenInv
    <3> QED
      BY <1>2, <3>5
  <2>2. CASE r[i].end # c
    BY <1>4, <1>5, <1>6, <2>2
  <2> QED
    BY <2>1, <2>2
<1> HIDE DEF p, r
<1>7. Cardinality(ReadyOf(r, deserializers_')) <= Cardinality(ReadyOf(r, deserializers_))
  BY <1>2, <1>6, ReadyFewer
<1>8. Cardinality(ReadyOf(r, deserializers_)) <= dispatchReplies[p]
  BY <1>1, <1>2, ReadyIs DEF QueuedReplyIsFound, r
<1>9. /\ Cardinality(ReadyOf(r, deserializers_')) \in Nat
      /\ Cardinality(ReadyOf(r, deserializers_)) \in Nat
  BY <1>2, ReadyFinite
<1>10. Cardinality(ReadyOf(received_replies_'[p], deserializers_')) <= dispatchReplies'[p]
  BY <1>2, <1>4, <1>7, <1>8, <1>9
<1>11. \A a \in Channels : Owner[a] # p => deserializers_'[a] = deserializers_[a]
  BY <1>4 DEF p
<1> QED
  BY <1>2, <1>3, <1>10, <1>11, ReadyStep

\* The Send that is innermost after a Pop waits for one reply at most, and Pop posts a task.
LEMMA FoundPop ==
    ASSUME IInv, IInv', HomeInv, Tokens, QueuedReplyIsFound, NEW p \in Threads, Pop(p)
    PROVE  QueuedReplyIsFound'
<1> DEFINE c == Top(p).end
           r == received_replies_[p]
           e == deserializers_'[c]
           j == Last(e).id
<1>1. ReplyInv /\ ReplyInv' /\ SendInv /\ SendInv'
  BY DEF IInv
<1>2. /\ r \in Seq(Item) /\ dispatchReplies[p] \in Nat /\ stack[p] # <<>>
  BY <1>1 DEF ReplyInv, Pop, InCall
<1>3. c \in Channels /\ Owner[c] = p
  BY <1>1, <1>2, TopOf
<1>4. Elsewhere(p)
  BY StepsElsewhere DEF Steps
<1>5. /\ \A a \in Channels : a # c => deserializers_'[a] = deserializers_[a]
      /\ received_replies_'[p] = r /\ dispatchReplies'[p] = dispatchReplies[p] + 1
  BY <1>1, <1>3 DEF Pop, SendInv, ReplyInv
<1>6. \A i \in 1..Len(r) : r[i] \in Item /\ r[i].end \in Channels /\ r[i].id \in Nat
  <2>1. \A i \in 1..Len(r) : r[i] \in Item
    BY <1>2
  <2> QED
    BY <2>1 DEF Item
<1>7. e \in Seq(Context)
  BY <1>1, <1>3 DEF SendInv
<1> HIDE DEF c, r, e
<1> DEFINE R == ReadyOf(r, deserializers_)
           Q == ReadyOf(r, deserializers_')
           k == CHOOSE i \in 1..Len(r) : r[i] = [end |-> c, id |-> j]
<1>8. Q \in SUBSET (R \cup {k})
  <2> SUFFICES ASSUME NEW i \in Q, i \notin R PROVE i = k
    OBVIOUS
  <2>1. /\ i \in 1..Len(r) /\ Waits(deserializers_'[r[i].end], r[i].id)
        /\ ~Waits(deserializers_[r[i].end], r[i].id)
    BY DEF ReadyOf
  <2>2. r[i].end = c
    BY <1>5, <1>6, <2>1
  <2>3. e # <<>> /\ r[i].id = j
    BY <2>1, <2>2 DEF Waits, e
  <2>4. j \in Nat
    BY <1>6, <2>1, <2>3
  <2> HIDE DEF j
  <2>5. r[i] = [end |-> c, id |-> j]
    BY <1>6, <2>1, <2>2, <2>3 DEF Item
  <2>6. Once(r, [end |-> c, id |-> j])
    <3>1. OnceAt(c, j, "kept")
      BY <1>3, <2>4 DEF Tokens, TokenInv, Places
    <3> QED
      BY <1>3, <3>1 DEF OnceAt, r
  <2>7. k \in 1..Len(r) /\ r[k] = [end |-> c, id |-> j]
    BY <2>1, <2>5
  <2> HIDE DEF k
  <2> QED
    BY <2>1, <2>5, <2>6, <2>7 DEF Once
<1>9. Cardinality(R) <= dispatchReplies[p]
  BY <1>1, ReadyIs DEF QueuedReplyIsFound, r
<1>10. /\ Cardinality(R) \in Nat /\ IsFiniteSet(R)
       /\ Cardinality(Q) \in Nat
  BY <1>2, ReadyFinite
<1> HIDE DEF R, Q, k
<1>11. Cardinality(Q) <= Cardinality(R) + 1
  <2>1. /\ IsFiniteSet(R \cup {k}) /\ Cardinality(R \cup {k}) \in Nat
        /\ Cardinality(R \cup {k}) <= Cardinality(R) + 1
    <3>1. /\ IsFiniteSet(R \cup {k})
          /\ Cardinality(R \cup {k}) = IF k \in R THEN Cardinality(R) ELSE Cardinality(R) + 1
      BY <1>10, FS_AddElement
    <3> QED
      BY <1>10, <3>1
  <2>2. Cardinality(Q) <= Cardinality(R \cup {k})
    BY <1>8, <2>1, FS_Subset
  <2> QED
    BY <1>10, <2>1, <2>2
<1>12. Cardinality(ReadyOf(received_replies_'[p], deserializers_')) <= dispatchReplies'[p]
  BY <1>2, <1>5, <1>9, <1>10, <1>11 DEF Q
<1>13. \A a \in Channels : Owner[a] # p => deserializers_'[a] = deserializers_[a]
  BY <1>3, <1>5
<1> QED
  BY <1>4, <1>12, <1>13, ReadyStep

\* A Send is done, which changes no id.
LEMMA UnblockIds ==
    ASSUME SendInv, NEW c \in Channels, NEW id, Matches(c, id), deserializers_' = Unblock(c)
    PROVE  \A b \in Channels : /\ Len(deserializers_'[b]) = Len(deserializers_[b])
                               /\ \A k \in 1..Len(deserializers_[b]) :
                                     deserializers_'[b][k].id = deserializers_[b][k].id
<1> DEFINE d == deserializers_[c]
           n == Len(d)
           x == [d[n] EXCEPT !.done = TRUE]
           e == [d EXCEPT ![n] = x]
<1>1. d \in Seq(Context) /\ d # <<>>
  BY DEF SendInv, Matches
<1>2. n \in 1..n /\ d[n] \in Context
  <2> HIDE DEF d
  <2> QED
    BY <1>1
<1>3. x.id = d[n].id /\ x \in Context
  BY <1>2 DEF Context
<1>4. deserializers_' = [deserializers_ EXCEPT ![c] = e]
  BY DEF Unblock
<1> HIDE DEF x
<1>5. Len(e) = n /\ \A k \in 1..n : e[k].id = d[k].id
  BY <1>1, <1>2, <1>3
<1> HIDE DEF e, n
<1>6. deserializers_'[c] = e /\ \A b \in Channels : b # c => deserializers_'[b] = deserializers_[b]
  BY <1>4 DEF SendInv
<1> QED
  BY <1>5, <1>6 DEF n

\* A reply that comes is kept only if no Send waits for it.
LEMMA FoundReceived ==
    ASSUME IInv, IInv', HomeInv, QueuedReplyIsFound, NEW c \in Channels, OnMessageReceived(c)
    PROVE  QueuedReplyIsFound'
<1> DEFINE p == Owner[c]
           r == received_replies_[p]
           m == Head(wire[c])
           i == [end |-> c, id |-> m.id]
<1>1. ReplyInv /\ ReplyInv' /\ SendInv
  BY DEF IInv
<1>2. /\ p \in Threads /\ r \in Seq(Item) /\ dispatchReplies[p] \in Nat
      /\ wire[c] \in Seq(Message) /\ wire[c] # <<>>
  BY <1>1, EndsOf DEF ReplyInv, OnMessageReceived
<1>3. Elsewhere(p)
  BY <1>2, StepsElsewhere DEF Steps
<1>4. UNCHANGED dispatchReplies
  BY DEF OnMessageReceived
<1>5. CASE UNCHANGED <<deserializers_, received_replies_>>
  BY <1>4, <1>5, FoundStays
<1>6. CASE /\ Matches(c, m.id) /\ deserializers_' = Unblock(c) /\ UNCHANGED received_replies_
  BY <1>1, <1>4, <1>6, UnblockIds, FoundStays
<1>7. CASE /\ ~Matches(c, m.id) /\ UNCHANGED deserializers_
           /\ received_replies_' = [received_replies_ EXCEPT ![p] = Append(@, i)]
  <2>1. received_replies_'[p] = Append(r, i)
    BY <1>1, <1>2, <1>7 DEF ReplyInv
  <2>2. i \in Item /\ i.end = c /\ i.id = m.id
    <3>1. m \in Message
      BY <1>2
    <3> QED
      BY <3>1 DEF Message, Item
  <2> HIDE DEF i
  <2>3. ReadyOf(Append(r, i), deserializers_) = ReadyOf(r, deserializers_)
    <3> DEFINE n == Len(r)
               t == Append(r, i)
    <3>1. /\ n \in Nat /\ Len(t) = n + 1 /\ t[n + 1] = i /\ \A k \in 1..n : t[k] = r[k]
      BY <1>2
    <3> HIDE DEF n, t
    <3>2. \A k \in 1..(n + 1) : k \in 1..n \/ k = n + 1
      BY <3>1
    <3>3. \A k \in 1..n : k \in 1..(n + 1)
      BY <3>1
    <3>4. ~Waits(deserializers_[i.end], i.id)
      BY <1>7, <2>2 DEF Waits, Matches
    <3>5. ReadyOf(t, deserializers_) = ReadyOf(r, deserializers_)
      BY <3>1, <3>2, <3>3, <3>4 DEF ReadyOf, n
    <3> QED
      BY <3>5 DEF t
  <2>4. Cardinality(ReadyOf(r, deserializers_)) <= dispatchReplies[p]
    BY <1>1, <1>2, ReadyIs DEF QueuedReplyIsFound
  <2> HIDE DEF p, r
  <2>5. Cardinality(ReadyOf(received_replies_'[p], deserializers_')) <= dispatchReplies'[p]
    BY <1>4, <1>7, <2>1, <2>3, <2>4
  <2> QED
    BY <1>2, <1>3, <1>7, <2>5, ReadyStep
<1> QED
  BY <1>5, <1>6, <1>7 DEF OnMessageReceived

\* A task takes a reply that is ready, if any.
LEMMA FoundDispatchReplies ==
    ASSUME IInv, IInv', HomeInv, QueuedReplyIsFound, NEW p \in Threads, DispatchReplies(p)
    PROVE  QueuedReplyIsFound'
<1> DEFINE r == received_replies_[p]
           R == ReadyOf(r, deserializers_)
           k == Min(Ready(p))
<1>1. ReplyInv /\ ReplyInv' /\ SendInv /\ SendInv'
  BY DEF IInv
<1>2. r \in Seq(Item) /\ dispatchReplies[p] \in Nat /\ dispatchReplies[p] > 0
  BY <1>1 DEF ReplyInv, DispatchReplies
<1>3. Elsewhere(p) /\ dispatchReplies'[p] = dispatchReplies[p] - 1
  BY <1>1, StepsElsewhere DEF Steps, DispatchReplies, ReplyInv
<1>4. Ready(p) = R /\ Cardinality(R) <= dispatchReplies[p]
  BY <1>1, ReadyIs DEF QueuedReplyIsFound
<1>5. IsFiniteSet(R) /\ Cardinality(R) \in Nat
  BY <1>2, ReadyFinite
<1>6. CASE R = {}
  <2>1. received_replies_'[p] = r /\ deserializers_' = deserializers_
    BY <1>4, <1>6 DEF DispatchReplies
  <2>2. Cardinality(ReadyOf(received_replies_'[p], deserializers_')) = 0
    BY <1>6, <2>1, FS_EmptySet
  <2> HIDE DEF r, R
  <2> QED
    BY <1>2, <1>3, <2>1, <2>2, ReadyStep
<1>7. CASE R # {}
  <2>1. received_replies_'[p] = RemoveAt(r, k) /\ deserializers_' = Unblock(r[k].end)
    BY <1>1, <1>4, <1>7 DEF DispatchReplies, ReplyInv
  <2>2. k \in R /\ k \in 1..Len(r) /\ Len(r) \in Nat
    <3>1. Ready(p) \in SUBSET (1..Len(r)) /\ Len(r) \in Nat
      BY <1>2, <1>4 DEF ReadyOf
    <3>2. k \in Ready(p)
      BY <1>4, <1>7, <3>1, LeastIndex
    <3> QED
      BY <1>4, <3>1, <3>2
  <2> HIDE DEF k
  <2>3. /\ r[k].end \in Channels /\ Owner[r[k].end] = p /\ Matches(r[k].end, r[k].id)
    <3>1. r[k] \in Item
      <4> HIDE DEF r
      <4> QED
        BY <1>2, <2>2
    <3>2. Owner[r[k].end] = p
      BY <2>2 DEF HomeInv, AreOf
    <3> QED
      BY <2>2, <3>1, <3>2 DEF Item, ReadyOf, Waits, Matches
  <2>4. \A b \in Channels : \A id : Waits(deserializers_'[b], id) <=> Waits(deserializers_[b], id)
    <3> SUFFICES ASSUME NEW b \in Channels, NEW id
                 PROVE  Waits(deserializers_'[b], id) <=> Waits(deserializers_[b], id)
      OBVIOUS
    <3>1. deserializers_[b] \in Seq(Context) /\ deserializers_'[b] \in Seq(Context)
      BY <1>1 DEF SendInv
    <3>2. /\ Len(deserializers_'[b]) = Len(deserializers_[b])
          /\ \A l \in 1..Len(deserializers_[b]) :
                deserializers_'[b][l].id = deserializers_[b][l].id
      BY <1>1, <2>1, <2>3, UnblockIds
    <3> QED
      BY <3>1, <3>2, WaitsSame
  <2>5. \A a \in Channels : Owner[a] # p => deserializers_'[a] = deserializers_[a]
    BY <1>1, <2>1, <2>3 DEF Unblock, SendInv
  <2> DEFINE t == RemoveAt(r, k)
             Q == ReadyOf(t, deserializers_')
             at == [j \in Q |-> IF j < k THEN j ELSE j + 1]
  <2>6. /\ Len(t) = Len(r) - 1
        /\ \A j \in 1..(Len(r) - 1) : t[j] = r[IF j < k THEN j ELSE j + 1]
    <3>1. k \in DOMAIN r
      BY <1>2, <2>2
    <3> HIDE DEF r
    <3> QED
      BY <1>2, <3>1, RemovedOne
  <2>7. \A i \in 1..Len(r) : r[i].end \in Channels
    <3>1. \A i \in 1..Len(r) : r[i] \in Item
      <4> HIDE DEF r
      <4> QED
        BY <1>2
    <3> QED
      BY <3>1 DEF Item
  <2> HIDE DEF t, r
  <2>8. \A j \in Q : at[j] \in R \ {k}
    <3> SUFFICES ASSUME NEW j \in Q PROVE at[j] \in R \ {k}
      OBVIOUS
    <3> DEFINE i == IF j < k THEN j ELSE j + 1
    <3>1. j \in 1..Len(t) /\ Waits(deserializers_'[t[j].end], t[j].id)
      BY DEF ReadyOf
    <3>2. i \in 1..Len(r) /\ i # k /\ t[j] = r[i]
      BY <2>2, <2>6, <3>1
    <3>3. Waits(deserializers_[r[i].end], r[i].id)
      BY <2>4, <2>7, <3>1, <3>2
    <3> QED
      BY <3>2, <3>3 DEF ReadyOf
  <2>9. \A i, j \in Q : at[i] = at[j] => i = j
    <3>1. \A j \in Q : j \in 1..Len(t)
      BY DEF ReadyOf
    <3>2. \A j \in Q : j \in Int
      BY <2>2, <2>6, <3>1
    <3> QED
      BY <2>2, <3>2
  <2>10. IsFiniteSet(R \ {k}) /\ Cardinality(R \ {k}) = Cardinality(R) - 1
    <3> HIDE DEF R
    <3> QED
      BY <1>5, <2>2, FS_RemoveElement
  <2>11. Cardinality(Q) <= Cardinality(R \ {k})
    <3>1. at \in [Q -> R \ {k}]
      BY <2>8
    <3> HIDE DEF at, Q, R
    <3>2. at \in Injection(Q, R \ {k})
      BY <2>9, <3>1 DEF Injection, IsInjective
    <3> QED
      BY <2>10, <3>2, FS_Injection
  <2>12. Cardinality(Q) \in Nat
    <3>1. t \in Seq(Item)
      BY <1>2, <2>2, RemovedOne DEF t
    <3> QED
      BY <3>1, ReadyFinite
  <2>13. Q = ReadyOf(received_replies_'[p], deserializers_')
    BY <2>1 DEF t
  <2> HIDE DEF Q, R
  <2>14. Cardinality(ReadyOf(received_replies_'[p], deserializers_')) <= dispatchReplies'[p]
    BY <1>2, <1>3, <1>4, <1>5, <2>10, <2>11, <2>12, <2>13
  <2> QED
    BY <1>3, <2>5, <2>14, ReadyStep
<1> QED
  BY <1>6, <1>7

\* No reply is ready in a process that died.
LEMMA FoundCrash ==
    ASSUME IInv, IInv', HomeInv, QueuedReplyIsFound, NEW p \in Threads, Crash(p)
    PROVE  QueuedReplyIsFound'
<1>1. ReplyInv
  BY DEF IInv
<1>2. Elsewhere(p)
  BY StepsElsewhere DEF Steps
<1>3. /\ received_replies_'[p] = <<>> /\ dispatchReplies'[p] = 0
      /\ \A a \in Channels : Owner[a] # p => deserializers_'[a] = deserializers_[a]
  BY <1>1 DEF Crash, ReplyInv
<1>4. ReadyOf(<<>>, deserializers_') = {}
  BY DEF ReadyOf
<1>5. Cardinality(ReadyOf(received_replies_'[p], deserializers_')) <= dispatchReplies'[p]
  <2>1. ReadyOf(received_replies_'[p], deserializers_') = {}
    BY <1>3, <1>4
  <2>2. Cardinality({}) = 0
    BY FS_EmptySet
  <2> QED
    BY <1>3, <2>1, <2>2, SMTT(40)
<1> QED
  BY <1>2, <1>3, <1>5, ReadyStep

-----------------------------------------------------------------------------
(* Every message that is queued has who dispatches it                      *)

\* SeenInv, of what a thread p has.
WatchersOf(w, l, p) == \A c \in Range(Ends[p]) : Has(w, c) \/ Watched(l, c)
QueueSeen(l, q, s, set) ==
    /\ Covered(l, q, s)
    /\ s # <<>> /\ Head(s).call = "WaitForReply" => set \/ MayWait(q, Head(s).end)

\* It is that.
LEMMA SeenIs ==
    ASSUME NEW p
    PROVE  /\ SeenInv(p) <=>
                 /\ p \notin dead => WatchersOf(watching[p], loop[p], p)
                 /\ ipc[p] = None =>
                       QueueSeen(loop[p], message_queue_[p], stack[p], dispatch_event_[p])
           /\ SeenInv(p)' <=>
                 /\ p \notin dead' => WatchersOf(watching'[p], loop'[p], p)
                 /\ ipc'[p] = None =>
                       QueueSeen(loop'[p], message_queue_'[p], stack'[p], dispatch_event_'[p])
<1>1. SeenInv(p) <=>
         /\ p \notin dead => WatchersOf(watching[p], loop[p], p)
         /\ ipc[p] = None =>
               QueueSeen(loop[p], message_queue_[p], stack[p], dispatch_event_[p])
  BY DEF SeenInv, WatchersOf, QueueSeen, Top
<1>2. SeenInv(p)' <=>
         /\ p \notin dead' => WatchersOf(watching'[p], loop'[p], p)
         /\ ipc'[p] = None =>
               QueueSeen(loop'[p], message_queue_'[p], stack'[p], dispatch_event_'[p])
  BY DEF SeenInv, WatchersOf, QueueSeen, Top, Covered, ServedFrom, Serves, Dispatches,
         Watched, Has, MayWait
<1> QED
  BY <1>1, <1>2

\* A step of one thread, by what it leaves the thread with.
LEMMA SeenStep ==
    ASSUME \A q \in Threads : SeenInv(q), NEW p \in Threads, Elsewhere(p), dead \subseteq dead',
           p \notin dead' => WatchersOf(watching'[p], loop'[p], p),
           ipc'[p] = None =>
              QueueSeen(loop'[p], message_queue_'[p], stack'[p], dispatch_event_'[p])
    PROVE  \A q \in Threads : SeenInv(q)'
<1> SUFFICES ASSUME NEW q \in Threads PROVE SeenInv(q)'
  OBVIOUS
<1>1. CASE q = p
  BY <1>1, SeenIs
<1>2. CASE q # p
  <2>1. SeenInv(q)
    OBVIOUS
  <2>2. /\ q \notin dead' => q \notin dead
        /\ watching'[q] = watching[q] /\ loop'[q] = loop[q] /\ ipc'[q] = ipc[q]
        /\ message_queue_'[q] = message_queue_[q] /\ stack'[q] = stack[q]
        /\ dispatch_event_'[q] = dispatch_event_[q]
    BY <1>2 DEF Elsewhere
  <2> QED
    BY <2>1, <2>2, SeenIs
<1> QED
  BY <1>1, <1>2

\* Who dispatches the messages of a queue, by its elements.
LEMMA CoveredElements ==
    ASSUME NEW l, NEW q, NEW s
    PROVE  /\ CoveredQueue(l, q, s) <=>
                 \A x : Has(q, x) => Watched(l, x.end) \/ ServedFrom(s, x.end, 1)
           /\ Covered(l, q, s) <=> CoveredQueue(l, q, s) /\ Covered(l, <<>>, s)
<1>1. CoveredQueue(l, q, s) <=>
         \A x : Has(q, x) => Watched(l, x.end) \/ ServedFrom(s, x.end, 1)
  BY DEF CoveredQueue, Has
<1>2. Covered(l, q, s) <=> CoveredQueue(l, q, s) /\ Covered(l, <<>>, s)
  BY DEF Covered, CoveredQueue
<1> QED
  BY <1>1, <1>2

\* A frame that has put nothing aside comes, or one that dispatches nothing goes.
LEMMA CoveredPushed ==
    ASSUME NEW s \in Seq(Frame), NEW f \in Frame, NEW l, NEW q
    PROVE  /\ (Dispatches(f) => f.delayed = <<>>) /\ Covered(l, q, s)
                 => Covered(l, q, <<f>> \o s)
           /\ ~Dispatches(f) /\ Covered(l, q, <<f>> \o s) => Covered(l, q, s)
<1> DEFINE t == <<f>> \o s
<1>1. Covered(l, q, t) <=> /\ CoveredQueue(l, q, t)
                           /\ Dispatches(f) => CoveredQueue(l, f.delayed, s)
                           /\ Covered(l, <<>>, s)
  BY CoveredOf
<1>2. \A c : ServedFrom(t, c, 1) <=> Serves(f, c) \/ ServedFrom(s, c, 1)
  BY ServedOf
<1> HIDE DEF t
<1>3. CoveredQueue(l, <<>>, s)
  BY DEF CoveredQueue
<1>4. CoveredQueue(l, q, s) => CoveredQueue(l, q, t)
  BY <1>2, CoveredElements
<1>5. ~Dispatches(f) /\ CoveredQueue(l, q, t) => CoveredQueue(l, q, s)
  BY <1>2, CoveredElements DEF Serves
<1>6. Covered(l, q, s) <=> CoveredQueue(l, q, s) /\ Covered(l, <<>>, s)
  BY CoveredElements
<1> QED
  BY <1>1, <1>3, <1>4, <1>5, <1>6 DEF t

\* One turn of DispatchMessages.
LEMMA SeenDispatchMessages ==
    ASSUME IInv, HomeInv, \A q \in Threads : SeenInv(q), NEW p \in Threads, DispatchMessages(p)
    PROVE  \A q \in Threads : SeenInv(q)'
<1> DEFINE q == message_queue_[p]
           l == loop[p]
           h == Top(p)
           r == Tail(stack[p])
<1>1. SendInv /\ QueueInv
  BY DEF IInv
<1>2. stack[p] # <<>> /\ Dispatches(h) /\ p \notin dead /\ q \in Seq(Item)
  BY <1>1 DEF DispatchMessages, InCall, QueueInv, Dispatches
<1>3. /\ stack[p] = <<h>> \o r /\ h \in Frame /\ r \in Seq(Frame)
      /\ h \in [call : {"DispatchMessages"}, end : Channels, delayed : Seq(Item)]
      /\ FrameInv(h, p) /\ (r # <<>> => CallsFrom(h, Head(r)))
  BY <1>1, <1>2, TopOf
<1>4. Elsewhere(p)
  BY StepsElsewhere DEF Steps
<1>5. UNCHANGED <<dead, watching, loop, ipc, dispatch_event_>>
  BY DEF DispatchMessages
<1>6. SeenInv(p)
  OBVIOUS
<1>7. p \notin dead' => WatchersOf(watching'[p], loop'[p], p)
  BY <1>2, <1>5, <1>6, SeenIs
<1> SUFFICES ASSUME ipc[p] = None
             PROVE  QueueSeen(l, message_queue_'[p], stack'[p], dispatch_event_[p])
  BY <1>4, <1>5, <1>7, SeenStep
<1>8. Covered(l, q, stack[p])
  BY <1>6, SeenIs DEF QueueSeen
<1>9. /\ CoveredQueue(l, q, stack[p]) /\ CoveredQueue(l, h.delayed, r) /\ Covered(l, <<>>, r)
      /\ Covered(l, <<>>, stack[p])
  <2> DEFINE t == <<h>> \o r
  <2>1. Covered(l, q, t) <=> /\ CoveredQueue(l, q, t)
                             /\ Dispatches(h) => CoveredQueue(l, h.delayed, r)
                             /\ Covered(l, <<>>, r)
    BY <1>3, CoveredOf
  <2>2. stack[p] = t
    BY <1>3
  <2> HIDE DEF h, r, q, l, t
  <2>3. Covered(l, q, stack[p]) <=> CoveredQueue(l, q, stack[p]) /\ Covered(l, <<>>, stack[p])
    BY CoveredElements
  <2> QED
    BY <1>2, <1>8, <2>1, <2>2, <2>3
<1>10. \A c : ServedFrom(stack[p], c, 1) <=> Serves(h, c) \/ ServedFrom(r, c, 1)
  <2> HIDE DEF h, r
  <2> QED
    BY <1>3, ServedOf
<1>11. CASE q = <<>>
  <2>1. message_queue_'[p] = h.delayed /\ stack'[p] = r
    BY <1>1, <1>11 DEF DispatchMessages, QueueInv, SendInv
  <2> HIDE DEF h, r, l
  <2>2. Covered(l, h.delayed, r)
    BY <1>9, CoveredElements
  <2>3. r # <<>> /\ Head(r).call = "WaitForReply" => MayWait(h.delayed, Head(r).end)
    BY <1>2, <1>3 DEF CallsFrom, FrameInv, MayWait
  <2> QED
    BY <2>1, <2>2, <2>3 DEF QueueSeen
<1>12. ASSUME q # <<>>
       PROVE  /\ q[1] \in Item /\ Has(q, q[1]) /\ message_queue_'[p] = Tail(q)
              /\ \A x : Has(Tail(q), x) => Has(q, x)
  <2>1. message_queue_'[p] = Tail(q) /\ Head(q) = q[1]
    BY <1>1, <1>2, <1>12 DEF DispatchMessages, QueueInv
  <2> HIDE DEF q
  <2> QED
    BY <1>2, <1>12, <2>1, HasInTail
<1>13. CASE q # <<>> /\ q[1].end \in Restricted /\ q[1].end # h.end
  <2> DEFINE f == [h EXCEPT !.delayed = Append(@, q[1])]
             d == h.delayed
             t == <<f>> \o r
  <2>1. stack'[p] = t
    BY <1>1, <1>13 DEF DispatchMessages, SendInv
  <2> HIDE DEF q, h, r, l
  <2>2. /\ d \in Seq(Item) /\ Append(d, q[1]) \in Seq(Item)
        /\ \A x : Has(Append(d, q[1]), x) => Has(d, x) \/ x = q[1]
    <3>1. d \in Seq(Item) /\ q[1] \in Item
      BY <1>3, <1>12, <1>13
    <3> HIDE DEF d
    <3> QED
      BY <3>1, HasAppended
  <2>3. /\ f \in Frame /\ f.delayed = Append(d, q[1]) /\ Dispatches(f)
        /\ \A c : Serves(f, c) <=> Serves(h, c)
    BY <1>3, <2>2 DEF Frame, Dispatches, Serves
  <2> HIDE DEF f
  <2>4. \A c : ServedFrom(t, c, 1) <=> ServedFrom(stack[p], c, 1)
    <3>1. \A c : ServedFrom(t, c, 1) <=> Serves(f, c) \/ ServedFrom(r, c, 1)
      BY <1>3, <2>3, ServedOf
    <3> QED
      BY <1>10, <2>3, <3>1
  <2>5. CoveredQueue(l, f.delayed, r)
    <3>1. Watched(l, q[1].end) \/ ServedFrom(stack[p], q[1].end, 1)
      BY <1>9, <1>12, <1>13, CoveredElements
    <3>2. ~Serves(h, q[1].end)
      BY <1>13 DEF Serves
    <3>3. Watched(l, q[1].end) \/ ServedFrom(r, q[1].end, 1)
      BY <1>10, <3>1, <3>2
    <3>4. \A x : Has(d, x) => Watched(l, x.end) \/ ServedFrom(r, x.end, 1)
      BY <1>9, CoveredElements
    <3>5. \A x : Has(f.delayed, x) => Has(d, x) \/ x = q[1]
      BY <2>2, <2>3
    <3> QED
      BY <3>3, <3>4, <3>5, CoveredElements
  <2>6. CoveredQueue(l, Tail(q), t)
    BY <1>9, <1>12, <1>13, <2>4, CoveredElements
  <2>7. Covered(l, Tail(q), t)
    BY <1>3, <1>9, <2>3, <2>5, <2>6, CoveredOf
  <2>8. t # <<>> /\ Head(t) = f
    BY <1>3, <2>3
  <2>9. f.call # "WaitForReply"
    BY <2>3 DEF Dispatches
  <2> HIDE DEF t
  <2> QED
    BY <1>12, <1>13, <2>1, <2>7, <2>8, <2>9 DEF QueueSeen
<1>14. CASE q # <<>> /\ ~(q[1].end \in Restricted /\ q[1].end # h.end)
  <2> DEFINE f == Handler(q[1].end, q[1].id)
             t == <<f>> \o stack[p]
  <2>1. stack'[p] = t
    BY <1>1, <1>14 DEF DispatchMessages, SendInv
  <2>2. f \in Frame /\ ~Dispatches(f) /\ f.call # "WaitForReply"
    <3>1. q[1].end \in Channels /\ q[1].id \in Nat
      BY <1>12, <1>14 DEF Item
    <3> QED
      BY <3>1, Frames DEF Handler, Dispatches
  <2> HIDE DEF f, q, l
  <2>3. Covered(l, Tail(q), stack[p])
    BY <1>9, <1>12, <1>14, CoveredElements
  <2>4. stack[p] \in Seq(Frame)
    BY <1>1 DEF SendInv
  <2>5. Covered(l, Tail(q), t)
    BY <2>2, <2>3, <2>4, CoveredPushed
  <2>6. t # <<>> /\ Head(t) = f
    BY <2>2, <2>4
  <2> HIDE DEF t
  <2> QED
    BY <1>12, <1>14, <2>1, <2>2, <2>5, <2>6 DEF QueueSeen
<1> QED
  BY <1>11, <1>13, <1>14

\* The steps that push a frame to dispatch messages: a Send's, and that of a wait.
LEMMA SeenPush ==
    ASSUME IInv, HomeInv, \A q \in Threads : SeenInv(q), NEW p \in Threads,
           WaitDispatches(p) \/ \E c \in Channels : Owner[c] = p /\ Send(c)
    PROVE  \A q \in Threads : SeenInv(q)'
<1> DEFINE q == message_queue_[p]
           l == loop[p]
           s == stack[p]
<1>1. SendInv /\ QueueInv /\ ReplyInv /\ s \in Seq(Frame)
  BY DEF IInv, SendInv
<1>2. Elsewhere(p)
  BY StepsElsewhere DEF Steps
<1>3. /\ UNCHANGED <<dead, watching, loop, ipc, message_queue_>>
      /\ SeenInv(p)
  BY DEF WaitDispatches, Send, queueVars
<1>4. p \notin dead' => WatchersOf(watching'[p], loop'[p], p)
  BY <1>3, SeenIs
<1> SUFFICES ASSUME ipc[p] = None
             PROVE  QueueSeen(l, q, stack'[p], dispatch_event_'[p])
  BY <1>2, <1>3, <1>4, SeenStep
<1>5. Covered(l, q, s)
  BY <1>3, SeenIs DEF QueueSeen
<1>6. ASSUME NEW e \in Channels, NEW t \in Seq(Frame), Covered(l, q, t),
             stack'[p] = <<Dispatch(e)>> \o t
      PROVE  QueueSeen(l, q, stack'[p], dispatch_event_'[p])
  <2> DEFINE f == Dispatch(e)
  <2>1. f \in Frame /\ f.delayed = <<>> /\ f.call # "WaitForReply"
    BY Frames DEF Dispatch
  <2> HIDE DEF f, q, l
  <2>2. Covered(l, q, <<f>> \o t)
    BY <1>6, <2>1, CoveredPushed
  <2>3. Head(<<f>> \o t) = f
    BY <1>6, <2>1
  <2> QED
    BY <1>6, <2>1, <2>2, <2>3 DEF QueueSeen, f
<1>7. CASE WaitDispatches(p)
  <2>1. s # <<>> /\ stack'[p] = <<Dispatch(Top(p).end)>> \o s
    BY <1>1, <1>7 DEF WaitDispatches, InCall, SendInv
  <2>2. Top(p).end \in Channels
    BY <1>1, <2>1, TopOf
  <2> QED
    BY <1>1, <1>5, <1>6, <2>1, <2>2
<1>8. ASSUME NEW c \in Channels, Owner[c] = p, Send(c)
      PROVE  QueueSeen(l, q, stack'[p], dispatch_event_'[p])
  <2> DEFINE w == Wait(c, budget[c])
             f == Dispatch(c)
             t == <<w>> \o s
  <2>1. w \in Frame /\ ~Dispatches(w) /\ f \in Frame
    <3>1. budget[c] \in Nat
      BY <1>1 DEF ReplyInv
    <3> QED
      BY <3>1, Frames DEF Wait, Dispatches
  <2>2. stack'[p] = <<f, w>> \o s
    BY <1>1, <1>8 DEF Send, SendInv
  <2> HIDE DEF f, w, s
  <2>3. t \in Seq(Frame) /\ <<f, w>> \o s = <<f>> \o t
    BY <1>1, <2>1
  <2>4. Covered(l, q, t)
    <3> HIDE DEF l, q
    <3> QED
      BY <1>1, <1>5, <2>1, CoveredPushed
  <2> QED
    BY <1>6, <2>2, <2>3, <2>4 DEF f
<1> QED
  BY <1>7, <1>8

\* The steps that pop a frame which dispatches nothing.
LEMMA SeenPop ==
    ASSUME IInv, HomeInv, \A q \in Threads : SeenInv(q), NEW p \in Threads,
           Pop(p) \/ AnswerRequest(p) \/ DelayAnswer(p)
    PROVE  \A q \in Threads : SeenInv(q)'
<1> DEFINE q == message_queue_[p]
           l == loop[p]
           h == Top(p)
           r == Tail(stack[p])
<1>1. SendInv /\ QueueInv
  BY DEF IInv
<1>2. /\ UNCHANGED <<dead, watching, loop, ipc, message_queue_, dispatch_event_>>
      /\ SeenInv(p) /\ Elsewhere(p) /\ stack[p] # <<>> /\ ~Dispatches(h)
      /\ h.call = "WaitForReply" \/ h.call = "OnDispatchMessage"
  BY StepsElsewhere
     DEF Pop, AnswerRequest, DelayAnswer, InCall, Dispatches, queueVars, Steps
<1>3. stack'[p] = r
  BY <1>1 DEF Pop, AnswerRequest, DelayAnswer, SendInv
<1>4. /\ stack[p] = <<h>> \o r /\ h \in Frame /\ r \in Seq(Frame)
      /\ r # <<>> => CallsFrom(h, Head(r))
  BY <1>1, <1>2, TopOf
<1>5. p \notin dead' => WatchersOf(watching'[p], loop'[p], p)
  BY <1>2, SeenIs
<1> SUFFICES ASSUME ipc[p] = None
             PROVE  QueueSeen(l, q, r, dispatch_event_[p])
  BY <1>2, <1>3, <1>5, SeenStep
<1>6. Covered(l, q, stack[p])
  BY <1>2, SeenIs DEF QueueSeen
<1>7. Covered(l, q, r)
  <2> DEFINE t == <<h>> \o r
  <2>1. stack[p] = t
    BY <1>4
  <2>2. Covered(l, q, t)
    BY <1>6, <2>1
  <2> HIDE DEF h, r, l, q
  <2> QED
    BY <1>2, <1>4, <2>2, CoveredPushed
<1>8. ~(r # <<>> /\ Head(r).call = "WaitForReply")
  BY <1>2, <1>4 DEF CallsFrom
<1> QED
  BY <1>7, <1>8 DEF QueueSeen

\* A task of the message loop.
LEMMA SeenRunTask ==
    ASSUME IInv, HomeInv, \A q \in Threads : SeenInv(q), NEW p \in Threads, RunTask(p)
    PROVE  \A q \in Threads : SeenInv(q)'
<1> DEFINE q == message_queue_[p]
           l == loop[p]
           k == Head(l)
           e == k.end
           f == Dispatch(e)
<1>1. SendInv /\ QueueInv /\ Elsewhere(p) /\ SeenInv(p)
  BY StepsElsewhere DEF IInv, Steps
<1>2. /\ stack[p] = <<>> /\ l # <<>> /\ l \in Seq(Task(p)) /\ p \notin dead
      /\ UNCHANGED <<dead, ipc, message_queue_>>
      /\ loop'[p] = Tail(l) /\ stack'[p] = <<f>>
      /\ watching'[p] = IF k.watcher THEN Append(watching[p], e) ELSE watching[p]
  <2>1. /\ stack[p] = <<>> /\ l # <<>> /\ l \in Seq(Task(p)) /\ p \notin dead
        /\ UNCHANGED <<dead, ipc, message_queue_>>
    BY <1>1 DEF RunTask, QueueInv
  <2>2. loop' = [loop EXCEPT ![p] = Tail(l)] /\ loop = [o \in Threads |-> loop[o]]
    BY <1>1 DEF RunTask, QueueInv
  <2>3. loop'[p] = Tail(l)
    BY <2>2, Updated
  <2>4. stack'[p] = <<f>>
    BY <1>1 DEF RunTask, SendInv
  <2>5. watching = [o \in Threads |-> watching[o]]
    BY <1>1 DEF QueueInv
  <2>6. CASE k.watcher
    <3>1. watching' = [watching EXCEPT ![p] = Append(watching[p], e)]
      BY <2>6 DEF RunTask
    <3> HIDE DEF k, e
    <3> QED
      BY <2>1, <2>3, <2>4, <2>5, <2>6, <3>1, Updated
  <2>7. CASE ~k.watcher
    <3>1. watching' = watching
      BY <2>7 DEF RunTask
    <3> QED
      BY <2>1, <2>3, <2>4, <2>7, <3>1
  <2> QED
    BY <2>6, <2>7
<1>3. /\ k \in Task(p) /\ e \in Channels /\ e \in Range(Ends[p])
      /\ \A x : Has(l, x) /\ x # k => Has(Tail(l), x)
  <2>1. /\ k \in Task(p) /\ \A x : Has(l, x) /\ x # k => Has(Tail(l), x)
    <3> HIDE DEF l
    <3> QED
      BY <1>2, HasInTail
  <2> QED
    BY <2>1, Owners DEF Task
<1>4. f \in Frame /\ Dispatches(f) /\ f.end = e /\ f.delayed = <<>> /\ f.call # "WaitForReply"
  BY <1>3, Frames DEF Dispatch, Dispatches
<1> HIDE DEF f, l, k
<1>5. \A c : Watched(l, c) => Watched(Tail(l), c) \/ (k.watcher /\ c = e)
  <2> SUFFICES ASSUME NEW c, Watched(l, c), ~Watched(Tail(l), c) PROVE k.watcher /\ c = e
    OBVIOUS
  <2>1. k = [watcher |-> TRUE, end |-> c]
    BY <1>3 DEF Watched
  <2> QED
    BY <2>1
<1>6. WatchersOf(watching'[p], Tail(l), p)
  <2> SUFFICES ASSUME NEW c \in Range(Ends[p])
               PROVE  Has(watching'[p], c) \/ Watched(Tail(l), c)
    BY DEF WatchersOf
  <2>1. Has(watching[p], c) \/ Watched(l, c)
    BY <1>1, <1>2, SeenIs DEF WatchersOf, l
  <2>2. watching[p] \in Seq(Range(Ends[p]))
    BY <1>1 DEF QueueInv
  <2>3. Has(watching[p], c) => Has(watching'[p], c)
    BY <1>2, <1>3, <2>2, HasAppended
  <2>4. k.watcher /\ c = e => Has(watching'[p], c)
    BY <1>2, <1>3, <2>2, HasAppended
  <2> QED
    BY <1>5, <2>1, <2>3, <2>4
<1>7. ASSUME ipc[p] = None
      PROVE  QueueSeen(Tail(l), q, <<f>>, dispatch_event_'[p])
  <2>1. Covered(l, q, <<>>)
    BY <1>1, <1>2, <1>7, SeenIs DEF QueueSeen, l
  <2> HIDE DEF q
  <2>2. \A x : Has(q, x) => Watched(l, x.end) \/ ServedFrom(<<>>, x.end, 1)
    BY <2>1, CoveredElements
  <2>3. \A c : ~ServedFrom(<<>>, c, 1)
    BY DEF ServedFrom
  <2> DEFINE s == <<>>
  <2>4. s \in Seq(Frame) /\ <<f>> = <<f>> \o s
    BY <1>4
  <2>5. \A c : ServedFrom(<<f>>, c, 1) <=> Serves(f, c) \/ ServedFrom(s, c, 1)
    <3> HIDE DEF s
    <3>1. \A c : ServedFrom(<<f>> \o s, c, 1) <=> Serves(f, c) \/ ServedFrom(s, c, 1)
      BY <1>4, <2>4, ServedOf
    <3> QED
      BY <2>4, <3>1
  <2>6. Serves(f, e)
    BY <1>4 DEF Serves
  <2>7. CoveredQueue(Tail(l), q, <<f>>)
    <3> SUFFICES ASSUME NEW x, Has(q, x)
                 PROVE  Watched(Tail(l), x.end) \/ ServedFrom(<<f>>, x.end, 1)
      BY CoveredElements
    <3>1. Watched(l, x.end)
      BY <2>2, <2>3
    <3>2. CASE Watched(Tail(l), x.end)
      BY <3>2
    <3>3. CASE k.watcher /\ x.end = e
      BY <2>5, <2>6, <3>3
    <3> QED
      BY <1>5, <3>1, <3>2, <3>3
  <2>8. Covered(Tail(l), <<>>, s) /\ CoveredQueue(Tail(l), f.delayed, s)
    BY <1>4 DEF Covered, CoveredQueue
  <2>9. Covered(Tail(l), q, <<f>>)
    <3> DEFINE t == <<f>> \o s
               m == Tail(l)
    <3> HIDE DEF s, m
    <3>1. Covered(m, q, t)
      <4>1. Covered(m, q, t) <=> /\ CoveredQueue(m, q, t)
                                 /\ Dispatches(f) => CoveredQueue(m, f.delayed, s)
                                 /\ Covered(m, <<>>, s)
        BY <1>4, <2>4, CoveredOf
      <4>2. CoveredQueue(m, q, t)
        BY <2>4, <2>7 DEF m
      <4> HIDE DEF t
      <4> QED
        BY <2>8, <4>1, <4>2 DEF m
    <3> QED
      BY <2>4, <3>1 DEF m
  <2>10. Head(<<f>>) = f
    BY <1>4
  <2> QED
    BY <1>4, <2>9, <2>10 DEF QueueSeen
<1> QED
  BY <1>1, <1>2, <1>6, <1>7, SeenStep

\* Every end of the thread is watched once the event is set.
LEMMA SeenSignal ==
    ASSUME IInv, HomeInv, DeadInv, \A q \in Threads : SeenInv(q), NEW p \in Threads,
           SignalDispatchEvent(p)
    PROVE  \A q \in Threads : SeenInv(q)'
<1> DEFINE w == watching[p]
           called == [i \in 1..Len(w) |-> [watcher |-> TRUE, end |-> w[i]]]
           posted == IF ipc[p].post THEN <<[watcher |-> FALSE, end |-> ipc[p].end]>> ELSE <<>>
           l == loop[p] \o called \o posted
<1>1. SendInv /\ QueueInv /\ Elsewhere(p) /\ SeenInv(p)
  BY StepsElsewhere DEF IInv, Steps
<1>2. /\ w \in Seq(Range(Ends[p])) /\ loop[p] \in Seq(Task(p))
      /\ p \notin dead /\ ipc[p] \in Queueing(p)
      /\ UNCHANGED <<dead, stack, message_queue_>> /\ dispatch_event_'[p] = TRUE
  BY <1>1 DEF SignalDispatchEvent, QueueInv, DeadInv
<1>3. loop'[p] = l
  <2>1. DOMAIN w = 1..Len(w) /\ loop = [o \in Threads |-> loop[o]]
    BY <1>1, <1>2 DEF QueueInv
  <2>2. loop' = [loop EXCEPT ![p] = l]
    BY <2>1 DEF SignalDispatchEvent
  <2> HIDE DEF l
  <2> QED
    BY <2>1, <2>2, Updated
<1>4. called \in Seq(Task(p)) /\ Len(called) = Len(w)
      /\ \A i \in 1..Len(w) : called[i] = [watcher |-> TRUE, end |-> w[i]]
  <2>1. \A i \in 1..Len(w) : [watcher |-> TRUE, end |-> w[i]] \in Task(p)
    BY <1>2 DEF Task
  <2>2. Len(w) \in Nat
    BY <1>2
  <2> HIDE DEF w
  <2> QED
    BY <2>1, <2>2
<1>5. posted \in Seq(Task(p))
  <2>1. [watcher |-> FALSE, end |-> ipc[p].end] \in Task(p)
    BY <1>2 DEF Queueing, Task
  <2>2. CASE ipc[p].post
    BY <2>1, <2>2
  <2>3. CASE ~ipc[p].post
    BY <2>3
  <2> QED
    BY <2>2, <2>3
<1> HIDE DEF called, posted
<1>6. \A x : Has(loop[p], x) \/ Has(called, x) => Has(l, x)
  <2>1. loop[p] \o called \in Seq(Task(p))
    BY <1>2, <1>4
  <2>2. \A x : Has(loop[p] \o called, x) <=> Has(loop[p], x) \/ Has(called, x)
    BY <1>2, <1>4, HasConcat
  <2> DEFINE m == loop[p] \o called
  <2> HIDE DEF m
  <2>3. \A x : Has(m \o posted, x) <=> Has(m, x) \/ Has(posted, x)
    BY <1>5, <2>1, HasConcat DEF m
  <2> QED
    BY <2>2, <2>3 DEF m
<1> HIDE DEF l
<1>7. ASSUME NEW c \in Channels, Owner[c] = p PROVE Watched(l, c)
  <2>1. c \in Range(Ends[p])
    BY <1>7, Owners
  <2>2. Has(w, c) \/ Watched(loop[p], c)
    BY <1>1, <1>2, <2>1, SeenIs DEF WatchersOf
  <2>3. Has(w, c) => Has(called, [watcher |-> TRUE, end |-> c])
    BY <1>4 DEF Has
  <2> QED
    BY <1>6, <2>2, <2>3 DEF Watched
<1>8. WatchersOf(watching'[p], loop'[p], p)
  BY <1>3, <1>7, Owners DEF WatchersOf
<1>9. QueueSeen(l, message_queue_[p], stack[p], TRUE)
  <2> DEFINE q == message_queue_[p]
             s == stack[p]
  <2>1. /\ q \in Seq(Item) /\ AreOf(q, p) /\ s \in Seq(Frame)
        /\ \A k \in 1..Len(s) : FrameInv(s[k], p)
    BY <1>1 DEF QueueInv, SendInv, HomeInv, ShapeInv
  <2> HIDE DEF q, s
  <2>2. ASSUME NEW d \in Seq(Item), AreOf(d, p), NEW i \in 1..Len(d)
        PROVE  Watched(l, d[i].end)
    <3>1. d[i] \in Item /\ Owner[d[i].end] = p
      BY <2>2 DEF AreOf
    <3> QED
      BY <1>7, <3>1 DEF Item
  <2>3. ASSUME NEW k \in 1..Len(s), Dispatches(s[k])
        PROVE  s[k].delayed \in Seq(Item) /\ AreOf(s[k].delayed, p)
    <3>1. s[k] \in Frame
      BY <2>1
    <3> QED
      BY <2>1, <2>3, <3>1, Frames DEF FrameInv, Dispatches
  <2>4. Covered(l, q, s)
    BY <2>1, <2>2, <2>3 DEF Covered
  <2> QED
    BY <2>4 DEF QueueSeen, q, s
<1> QED
  BY <1>1, <1>2, <1>3, <1>8, <1>9, SeenStep

\* The other steps: a message that comes is about to be signalled, and the dead wait for
\* nothing.
LEMMA SeenRest ==
    ASSUME IInv, HomeInv, \A q \in Threads : SeenInv(q),
           \/ \E p \in Threads : AnswerLater(p) \/ DispatchReplies(p) \/ Crash(p)
           \/ \E c \in Channels : OnMessageReceived(c) \/ OnSendTimeout(c) \/ CancelPendingSends(c)
           \/ UNCHANGED vars
    PROVE  \A q \in Threads : SeenInv(q)'
<1>1. QueueInv /\ SendInv
  BY DEF IInv
<1>2. ASSUME UNCHANGED <<dead, watching, loop, ipc, message_queue_, stack, dispatch_event_>>,
             NEW q \in Threads
      PROVE  SeenInv(q)'
  BY <1>2, SeenIs
<1>3. ASSUME NEW p \in Threads, AnswerLater(p) \/ DispatchReplies(p), NEW q \in Threads
      PROVE  SeenInv(q)'
  BY <1>2, <1>3 DEF AnswerLater, DispatchReplies, queueVars
<1>4. ASSUME NEW c \in Channels, OnSendTimeout(c) \/ CancelPendingSends(c), NEW q \in Threads
      PROVE  SeenInv(q)'
  BY <1>2, <1>4 DEF OnSendTimeout, CancelPendingSends, queueVars
<1>5. ASSUME NEW c \in Channels, OnMessageReceived(c), NEW q \in Threads
      PROVE  SeenInv(q)'
  <2> DEFINE p == Owner[c]
             i == [end |-> c, post |-> ~task_pending_[p]]
  <2>1. p \in Threads
    BY EndsOf
  <2>2. CASE UNCHANGED <<message_queue_, ipc>>
    BY <1>2, <1>5, <2>2 DEF OnMessageReceived
  <2>3. CASE ipc' = [ipc EXCEPT ![p] = i]
    <3>1. ipc'[p] # None
      <4>1. i \in [end : Channels, post : BOOLEAN]
        OBVIOUS
      <4>2. ipc'[p] = i
        BY <1>1, <2>1, <2>3 DEF QueueInv
      <4> QED
        BY <4>1, <4>2, NoneAssumption
    <3>2. UNCHANGED <<dead, watching, loop>>
      BY <1>5 DEF OnMessageReceived
    <3>3. p \notin dead' => WatchersOf(watching'[p], loop'[p], p)
      BY <2>1, <3>2, SeenIs
    <3>4. Elsewhere(p)
      BY <1>5, <2>1, StepsElsewhere DEF Steps
    <3> QED
      BY <2>1, <3>1, <3>2, <3>3, <3>4, SeenStep
  <2> QED
    BY <1>5, <2>2, <2>3 DEF OnMessageReceived
<1>6. ASSUME NEW p \in Threads, Crash(p), NEW q \in Threads
      PROVE  SeenInv(q)'
  <2>1. Elsewhere(p) /\ dead' = dead \cup {p}
    BY <1>6, StepsElsewhere DEF Crash, Steps
  <2>2. message_queue_'[p] = <<>> /\ stack'[p] = <<>>
    BY <1>1, <1>6 DEF Crash, QueueInv, SendInv
  <2>3. QueueSeen(loop'[p], <<>>, <<>>, dispatch_event_'[p])
    BY DEF QueueSeen, Covered
  <2> QED
    BY <2>1, <2>2, <2>3, SeenStep
<1>7. CASE UNCHANGED vars
  BY <1>2, <1>7 DEF vars
<1> QED
  BY <1>3, <1>4, <1>5, <1>6, <1>7

-----------------------------------------------------------------------------
(* The theorems about what is queued                                       *)

\* At first nothing is queued and every end watches the event.
LEMMA InitQueues == Init => JInv
<1> SUFFICES ASSUME Init PROVE JInv
  OBVIOUS
<1>1. /\ \A p \in Threads : /\ message_queue_[p] = <<>> /\ received_replies_[p] = <<>>
                            /\ stack[p] = <<>> /\ loop[p] = <<>> /\ owed[p] = {}
                            /\ watching[p] = Ends[p] /\ dispatchReplies[p] = 0
      /\ \A c \in Channels : wire[c] = <<>>
      /\ dead = {}
  BY DEF Init
<1>2. HomeInv /\ DeadInv
  BY <1>1 DEF HomeInv, DeadInv, AreOf, ShapeInv
<1>3. ASSUME NEW c \in Channels, NEW id \in Nat
      PROVE  TokenInv(c, id)
  <2>1. \A k \in Places : ~At(c, id, k)
    BY <1>1, EndsOf DEF Places, At, Has, HasAside
  <2>2. \A k \in Places : OnceAt(c, id, k)
    BY <2>1, AbsentOnce
  <2> QED
    BY <2>1, <2>2 DEF TokenInv
<1>4. QueuedReplyIsFound
  <2> SUFFICES ASSUME NEW p \in Threads PROVE Cardinality(Ready(p)) <= dispatchReplies[p]
    BY DEF QueuedReplyIsFound
  <2>1. Ready(p) = {}
    BY <1>1 DEF Ready
  <2>2. Cardinality({}) = 0
    BY FS_EmptySet
  <2> QED
    BY <1>1, <2>1, <2>2
<1>5. ASSUME NEW p \in Threads PROVE SeenInv(p)
  <2>1. WatchersOf(Ends[p], <<>>, p)
    <3>1. Ends[p] \in Seq(Channels)
      BY Owners
    <3>2. \A c \in Range(Ends[p]) : Has(Ends[p], c)
      BY <3>1 DEF Range, Has
    <3> QED
      BY <3>2 DEF WatchersOf
  <2>2. QueueSeen(<<>>, <<>>, <<>>, dispatch_event_[p])
    BY DEF QueueSeen, Covered
  <2> QED
    BY <1>1, <2>1, <2>2, SeenIs
<1> QED
  BY <1>2, <1>3, <1>4, <1>5 DEF JInv

\* Every step keeps it.
LEMMA QueuesKept ==
    ASSUME IInv, IInv', JInv, [Next]_vars PROVE JInv'
<1>1. HomeInv /\ DeadInv /\ Tokens /\ QueuedReplyIsFound /\ \A q \in Threads : SeenInv(q)
  BY DEF JInv, Tokens
<1> DEFINE Kept == /\ HomeInv' /\ DeadInv' /\ Tokens' /\ QueuedReplyIsFound'
                   /\ \A q \in Threads : SeenInv(q)'
<1>2. ASSUME NEW p \in Threads, DispatchMessages(p) PROVE Kept
  BY <1>1, <1>2, HomeDispatchMessages, TokensDispatchMessages, FoundQuiet,
     SeenDispatchMessages
<1>3. ASSUME NEW p \in Threads, WaitDispatches(p) PROVE Kept
  BY <1>1, <1>3, HomeDispatch, QuietListener, FoundQuiet, SeenPush
<1>4. ASSUME NEW p \in Threads, Pop(p) PROVE Kept
  BY <1>1, <1>4, HomePop, QuietListener, FoundPop, SeenPop
<1>5. ASSUME NEW p \in Threads, AnswerRequest(p) \/ DelayAnswer(p) PROVE Kept
  BY <1>1, <1>5, HomePop, TokensAnswer, FoundQuiet, SeenPop
<1>6. ASSUME NEW p \in Threads, AnswerLater(p) PROVE Kept
  BY <1>1, <1>6, HomeAnswerLater, TokensAnswerLater, FoundQuiet, SeenRest
<1>7. ASSUME NEW p \in Threads, RunTask(p) PROVE Kept
  BY <1>1, <1>7, HomeDispatch, QuietListener, FoundQuiet, SeenRunTask
<1>8. ASSUME NEW p \in Threads, SignalDispatchEvent(p) PROVE Kept
  BY <1>1, <1>8, HomeRest, QuietIpc, FoundQuiet, SeenSignal
<1>9. ASSUME NEW p \in Threads, DispatchReplies(p) PROVE Kept
  BY <1>1, <1>9, HomeRest, TokensDispatchReplies, FoundDispatchReplies, SeenRest
<1>10. ASSUME NEW p \in Threads, Crash(p) PROVE Kept
  BY <1>1, <1>10, HomeRest, TokensCrash, FoundCrash, SeenRest
<1>11. ASSUME NEW c \in Channels, Send(c) PROVE Kept
  BY <1>1, <1>11, EndsOf, HomeSend, TokensSend, FoundSend, SeenPush
<1>12. ASSUME NEW c \in Channels, OnMessageReceived(c) PROVE Kept
  BY <1>1, <1>12, HomeReceived, TokensOnMessageReceived, FoundReceived, SeenRest
<1>13. ASSUME NEW c \in Channels, OnSendTimeout(c) \/ CancelPendingSends(c) PROVE Kept
  BY <1>1, <1>13, HomeRest, QuietIpc, FoundQuiet, SeenRest
<1>14. ASSUME UNCHANGED vars PROVE Kept
  BY <1>1, <1>14, HomeRest, QuietIpc, FoundQuiet, SeenRest
<1> HIDE DEF Kept
<1>15. Kept
  <2>1. \A p \in Threads : Listener(p) => Kept
    BY <1>2, <1>3, <1>4, <1>5, <1>6, <1>7 DEF Listener
  <2>2. \A p \in Threads : IpcThread(p) => Kept
    BY <1>8, <1>9, <1>12, <1>13, Owners DEF IpcThread
  <2> QED
    BY <1>5, <1>10, <1>11, <1>13, <1>14, <2>1, <2>2 DEF Next
<1> QED
  BY <1>15 DEF Kept, JInv, Tokens

\* The invariants together are inductive.
THEOREM QueueInvariance == Spec => [](IInv /\ JInv)
<1>1. Init => JInv
  BY InitQueues
<1>2. IInv /\ IInv' /\ JInv /\ [Next]_vars => JInv'
  BY QueuesKept
<1> QED
  BY <1>1, <1>2, Invariance, PTL DEF Spec

\* Every message queued for a thread is dispatched by what runs or waits there: the event
\* is set, or about to be, while the thread blocks in Send, and its message loop has a task
\* when it does not; every reply kept for a Send has a task once its Send is innermost.
THEOREM NothingIsOverlooked == Spec => []NothingOverlooked
<1>1. IInv /\ JInv => NothingOverlooked
  <2> SUFFICES ASSUME IInv, JInv PROVE NothingOverlooked
    OBVIOUS
  <2>1. QueueInv /\ DeadInv /\ QueuedReplyIsFound /\ \A q \in Threads : SeenInv(q)
    BY DEF IInv, JInv
  <2>2. ASSUME NEW p \in Threads, message_queue_[p] # <<>>, ipc[p] = None
        PROVE  /\ InCall(p, "WaitForReply") =>
                     \/ dispatch_event_[p]
                     \/ \A i \in DOMAIN message_queue_[p] :
                            message_queue_[p][i].end \in Restricted \ {Top(p).end}
               /\ stack[p] = <<>> => loop[p] # <<>>
    <3> DEFINE q == message_queue_[p]
    <3>1. QueueSeen(loop[p], q, stack[p], dispatch_event_[p])
      BY <2>1, <2>2, SeenIs
    <3>2. q \in Seq(Item) /\ DOMAIN q = 1..Len(q) /\ 1 \in 1..Len(q)
      BY <2>1, <2>2 DEF QueueInv
    <3>3. InCall(p, "WaitForReply") => dispatch_event_[p] \/ MayWait(q, Top(p).end)
      BY <3>1 DEF QueueSeen, InCall, Top
    <3>4. ASSUME stack[p] = <<>> PROVE loop[p] # <<>>
      <4>1. Watched(loop[p], q[1].end) \/ ServedFrom(<<>>, q[1].end, 1)
        BY <3>1, <3>2, <3>4 DEF QueueSeen, Covered
      <4>2. ~ServedFrom(<<>>, q[1].end, 1)
        BY DEF ServedFrom
      <4>3. Watched(loop[p], q[1].end)
        BY <4>1, <4>2
      <4>4. \A c : ~Watched(<<>>, c)
        BY DEF Watched, Has
      <4> QED
        BY <4>3, <4>4
    <3> QED
      BY <3>2, <3>3, <3>4 DEF MayWait
  <2> QED
    BY <2>1, <2>2 DEF NothingOverlooked, QueuedMessageIsSeen
<1> QED
  BY <1>1, QueueInvariance, PTL

\* A request, or the reply to it, is in one place and once there, until a process dies with
\* it: no message is dispatched twice and none is answered twice, whatever was put aside,
\* left for later or kept.
THEOREM EachRequestIsOnce == Spec => [](\A c \in Channels, id \in Nat : TokenInv(c, id))
<1>1. IInv /\ JInv => \A c \in Channels, id \in Nat : TokenInv(c, id)
  BY DEF JInv
<1> QED
  BY <1>1, QueueInvariance, PTL
=============================================================================
