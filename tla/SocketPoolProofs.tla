---------------------------- MODULE SocketPoolProofs ----------------------------
(***************************************************************************)
(* For any groups, handles and limits, and whatever the network and the    *)
(* users do: what the pool keeps twice agrees, limits hold, callbacks are  *)
(* delivered, sockets from before a Flush are not handed out again, and    *)
(* whoever waits is waiting for something that will end.                   *)
(*                                                                         *)
(* Every helper takes a good state of the pool to good states.  In the     *)
(* middle of a handler one request may be busy: it is being served and in  *)
(* no queue, or in its own still.                                          *)
(***************************************************************************)
EXTENDS SocketPool, SequencesExt, SequenceTheorems, FiniteSetTheorems, WellFoundedInduction, TLAPS

-----------------------------------------------------------------------------
(* Sequences                                                               *)

\* The sequence that RemoveAt() returns: the same elements in the same order but one.
LEMMA RemovedOne ==
    ASSUME NEW S, NEW s \in Seq(S), NEW i \in DOMAIN s
    PROVE  /\ RemoveAt(s, i) \in Seq(S)
           /\ Len(RemoveAt(s, i)) = Len(s) - 1
           /\ \A j \in 1 .. Len(s) - 1 :
                 RemoveAt(s, i)[j] = IF j < i THEN s[j] ELSE s[j + 1]
<1> DEFINE front == SubSeq(s, 1, i - 1)
           back == SubSeq(s, i + 1, Len(s))
<1>1. front \in Seq(S) /\ Len(front) = i - 1 /\ \A j \in 1 .. i - 1 : front[j] = s[j]
  OBVIOUS
<1>2. /\ back \in Seq(S) /\ Len(back) = Len(s) - i
      /\ \A j \in 1 .. Len(s) - i : back[j] = s[i + j]
  OBVIOUS
<1>3. RemoveAt(s, i) = front \o back
  BY DEF RemoveAt
<1>4. /\ front \o back \in Seq(S) /\ Len(front \o back) = Len(s) - 1
      /\ \A j \in 1 .. Len(s) - 1 :
            (front \o back)[j] = IF j < i THEN front[j] ELSE back[j - (i - 1)]
  <2> HIDE DEF front, back
  <2>1. /\ front \o back \in Seq(S)
        /\ Len(front \o back) = Len(front) + Len(back)
        /\ \A j \in 1 .. Len(front) + Len(back) :
              (front \o back)[j] = IF j <= Len(front) THEN front[j] ELSE back[j - Len(front)]
    BY <1>1, <1>2, ConcatProperties
  <2> QED
    BY <1>1, <1>2, <2>1, SMTT(40)
<1>5. \A j \in 1 .. Len(s) - 1 :
         (front \o back)[j] = IF j < i THEN s[j] ELSE s[j + 1]
  <2> SUFFICES ASSUME NEW j \in 1 .. Len(s) - 1
               PROVE  (front \o back)[j] = IF j < i THEN s[j] ELSE s[j + 1]
    OBVIOUS
  <2> HIDE DEF front, back
  <2>1. CASE j < i
    BY <2>1, <1>1, <1>4
  <2>2. CASE ~(j < i)
    <3>1. j - (i - 1) \in 1 .. Len(s) - i /\ i + (j - (i - 1)) = j + 1
      BY <2>2
    <3> QED
      BY <2>2, <3>1, <1>2, <1>4
  <2> QED
    BY <2>1, <2>2
<1> QED
  BY <1>3, <1>4, <1>5

NoneTwice(s) == \A i, j \in 1..Len(s) : s[i] = s[j] => i = j

\* RemoveFirst takes x out of a sequence that does not hold it twice, and keeps the rest.
LEMMA RemovedFirst ==
    ASSUME NEW S, NEW s \in Seq(S), NoneTwice(s), NEW x
    PROVE  LET r == RemoveFirst(s, x) IN
           /\ r \in Seq(S) /\ NoneTwice(r)
           /\ \A j \in 1..Len(r) : r[j] # x /\ \E i \in 1..Len(s) : r[j] = s[i]
<1> DEFINE r == RemoveFirst(s, x)
<1>1. CASE ~\E i \in 1..Len(s) : s[i] = x
  <2>1. r = s
    BY <1>1 DEF RemoveFirst
  <2> QED
    BY <1>1, <2>1
<1>2. CASE \E i \in 1..Len(s) : s[i] = x
  <2>1. PICK k \in 1..Len(s) : s[k] = x
    BY <1>2
  <2>2. {i \in 1..Len(s) : s[i] = x} = {k}
    BY <2>1 DEF NoneTwice
  <2>3. Min({k}) = k
    BY <2>1 DEF Min
  <2>4. r = RemoveAt(s, k)
    BY <1>2, <2>2, <2>3 DEF RemoveFirst, SelectInSeq
  <2>5. /\ r \in Seq(S) /\ Len(r) = Len(s) - 1
        /\ \A j \in 1..Len(s) - 1 : r[j] = IF j < k THEN s[j] ELSE s[j + 1]
    BY <2>1, <2>4, RemovedOne, SMTT(40)
  <2> DEFINE At(j) == IF j < k THEN j ELSE j + 1
  <2>6. \A j \in 1..Len(r) : At(j) \in 1..Len(s) /\ At(j) # k /\ r[j] = s[At(j)]
    BY <2>5
  <2>7. \A i, j \in 1..Len(r) : At(i) = At(j) => i = j
    OBVIOUS
  <2> HIDE DEF At, r
  <2>8. NoneTwice(r)
    BY <2>6, <2>7 DEF NoneTwice
  <2>9. \A j \in 1..Len(r) : r[j] # x /\ \E i \in 1..Len(s) : r[j] = s[i]
    BY <2>1, <2>6 DEF NoneTwice
  <2> QED
    BY <2>5, <2>8, <2>9 DEF r
<1> QED
  BY <1>1, <1>2

\* Elements other than x stay.
LEMMA RemovedKeeps ==
    ASSUME NEW S, NEW s \in Seq(S), NoneTwice(s), NEW x, NEW i \in 1..Len(s), s[i] # x
    PROVE  \E j \in 1..Len(RemoveFirst(s, x)) : RemoveFirst(s, x)[j] = s[i]
<1> DEFINE r == RemoveFirst(s, x)
<1>1. CASE ~\E n \in 1..Len(s) : s[n] = x
  <2>1. r = s
    BY <1>1 DEF RemoveFirst
  <2> QED
    BY <2>1
<1>2. CASE \E n \in 1..Len(s) : s[n] = x
  <2>1. PICK k \in 1..Len(s) : s[k] = x
    BY <1>2
  <2>2. {n \in 1..Len(s) : s[n] = x} = {k}
    BY <2>1 DEF NoneTwice
  <2>3. Min({k}) = k
    BY <2>1 DEF Min
  <2>4. r = RemoveAt(s, k)
    BY <1>2, <2>2, <2>3 DEF RemoveFirst, SelectInSeq
  <2>5. /\ r \in Seq(S) /\ Len(r) = Len(s) - 1 /\ Len(s) \in Nat
        /\ \A j \in 1..Len(s) - 1 : r[j] = IF j < k THEN s[j] ELSE s[j + 1]
    BY <2>1, <2>4, RemovedOne, SMTT(40)
  <2> HIDE DEF r
  <2>6. CASE i < k
    <3>1. i \in 1..Len(s) - 1 /\ r[i] = s[i]
      BY <2>1, <2>5, <2>6
    <3> QED
      BY <2>5, <3>1 DEF r
  <2>7. CASE ~(i < k)
    <3>1. i # k
      BY <2>1
    <3>2. i - 1 \in 1..Len(s) - 1 /\ ~(i - 1 < k) /\ (i - 1) + 1 = i
      BY <2>1, <2>5, <2>7, <3>1
    <3>3. r[i - 1] = s[i]
      BY <2>5, <3>2
    <3> QED
      BY <2>5, <3>2, <3>3 DEF r
  <2> QED
    BY <2>6, <2>7
<1> QED
  BY <1>1, <1>2

Without(s, x) == \A i \in 1..Len(s) : s[i] # x

PlaceIn(s, n) == n \in 1..(Len(s) + 1)

HoldsAlso(r, s, x) ==
    \A y : (\E i \in 1..Len(r) : r[i] = y) <=> y = x \/ \E i \in 1..Len(s) : s[i] = y

\* InsertAt puts x between the elements of a sequence that does not hold it.
LEMMA InsertedOne ==
    ASSUME NEW S, NEW s \in Seq(S), NoneTwice(s), NEW x \in S, Without(s, x),
           NEW n, PlaceIn(s, n), NEW r, r = InsertAt(s, n, x)
    PROVE  /\ r \in Seq(S) /\ NoneTwice(r) /\ r # <<>>
           /\ HoldsAlso(r, s, x)
<1> DEFINE front == SubSeq(s, 1, n - 1)
           back == SubSeq(s, n, Len(s))
           first == front \o <<x>>
<1>0. n \in 1..(Len(s) + 1) /\ \A i \in 1..Len(s) : s[i] # x
  BY DEF PlaceIn, Without
<1>1. /\ front \in Seq(S) /\ Len(front) = n - 1 /\ \A j \in 1..(n - 1) : front[j] = s[j]
  BY <1>0
<1>2. /\ back \in Seq(S) /\ Len(back) = Len(s) - n + 1
      /\ \A j \in 1..(Len(s) - n + 1) : back[j] = s[n + j - 1]
  BY <1>0
<1>3. r = first \o back
  BY DEF InsertAt
<1>4. <<x>> \in Seq(S) /\ Len(<<x>>) = 1 /\ <<x>>[1] = x
  OBVIOUS
<1> HIDE DEF front, back
<1>5. /\ first \in Seq(S) /\ Len(first) = n
      /\ \A j \in 1..n : first[j] = IF j < n THEN s[j] ELSE x
  <2>1. /\ first \in Seq(S) /\ Len(first) = Len(front) + Len(<<x>>)
        /\ \A j \in 1 .. Len(front) + Len(<<x>>) :
              first[j] = IF j <= Len(front) THEN front[j] ELSE <<x>>[j - Len(front)]
    BY <1>0, <1>1, <1>4, ConcatProperties
  <2>2. \A j \in 1..n : ~(j <= n - 1) => j = n /\ j - (n - 1) = 1
    BY <1>0
  <2>3. \A j \in 1..n : first[j] = IF j <= n - 1 THEN s[j] ELSE x
    BY <1>0, <1>1, <1>4, <2>1, <2>2
  <2> QED
    BY <1>0, <1>1, <1>4, <2>1, <2>3
<1> HIDE DEF first
<1>6. Len(s) \in Nat
  OBVIOUS
<1>7. /\ r \in Seq(S) /\ Len(r) = Len(s) + 1
      /\ \A j \in 1..(Len(s) + 1) : r[j] = IF j <= n THEN first[j] ELSE back[j - n]
  <2>1. /\ first \o back \in Seq(S) /\ Len(first \o back) = Len(first) + Len(back)
        /\ \A j \in 1 .. Len(first) + Len(back) :
              (first \o back)[j] = IF j <= Len(first) THEN first[j] ELSE back[j - Len(first)]
    BY <1>2, <1>5, ConcatProperties
  <2> QED
    BY <1>0, <1>2, <1>3, <1>5, <1>6, <2>1
<1>8. \A j \in 1..(Len(s) + 1) :
         r[j] = IF j < n THEN s[j] ELSE IF j = n THEN x ELSE s[j - 1]
  <2> SUFFICES ASSUME NEW j \in 1..(Len(s) + 1)
               PROVE  r[j] = IF j < n THEN s[j] ELSE IF j = n THEN x ELSE s[j - 1]
    OBVIOUS
  <2>1. CASE j <= n
    BY <1>0, <1>5, <1>7, <2>1
  <2>2. CASE ~(j <= n)
    <3>1. j - n \in 1..(Len(s) - n + 1) /\ n + (j - n) - 1 = j - 1
      BY <1>0, <1>6, <2>2
    <3>2. r[j] = s[j - 1]
      BY <1>0, <1>2, <1>7, <2>2, <3>1
    <3> QED
      BY <1>0, <2>2, <3>2
  <2> QED
    BY <1>0, <2>1, <2>2
<1> DEFINE Of(j) == IF j < n THEN j ELSE j - 1
<1>9. \A j \in 1..(Len(s) + 1) : j # n => Of(j) \in 1..Len(s) /\ r[j] = s[Of(j)]
  BY <1>0, <1>6, <1>8
<1>10. r[n] = x
  BY <1>0, <1>8
<1>11. \A i, j \in 1..(Len(s) + 1) : i # n /\ j # n /\ Of(i) = Of(j) => i = j
  BY <1>0, <1>6
<1>12. \A i \in 1..Len(s) : \E j \in 1..(Len(s) + 1) : r[j] = s[i]
  <2> TAKE i \in 1..Len(s)
  <2>1. CASE i < n
    BY <1>0, <1>6, <1>8, <2>1
  <2>2. CASE ~(i < n)
    <3>1. i + 1 \in 1..(Len(s) + 1) /\ ~(i + 1 < n) /\ i + 1 # n /\ (i + 1) - 1 = i
      BY <1>0, <1>6, <2>2
    <3> QED
      BY <1>0, <1>8, <3>1
  <2> QED
    BY <1>0, <2>1, <2>2
<1> HIDE DEF Of
<1>13. NoneTwice(r)
  <2> SUFFICES ASSUME NEW i \in 1..(Len(s) + 1), NEW j \in 1..(Len(s) + 1), r[i] = r[j]
               PROVE  i = j
    BY <1>0, <1>7 DEF NoneTwice
  <2> QED
    BY <1>0, <1>9, <1>10, <1>11, SMTT(30) DEF NoneTwice
<1>14. \A y : (\E i \in 1..Len(r) : r[i] = y) <=> y = x \/ \E i \in 1..Len(s) : s[i] = y
  BY <1>0, <1>7, <1>9, <1>10, <1>12, SMTT(40)
<1>15. r # <<>>
  BY <1>0, <1>6, <1>7
<1> QED
  BY <1>0, <1>7, <1>13, <1>14, <1>15 DEF HoldsAlso

\* RemoveFirst takes one element away, if it is there.
LEMMA RemovedFirstLength ==
    ASSUME NEW S, NEW s \in Seq(S), NoneTwice(s), NEW k \in 1..Len(s), NEW x, s[k] = x
    PROVE  Len(RemoveFirst(s, x)) = Len(s) - 1
<1>1. {i \in 1..Len(s) : s[i] = x} = {k}
  BY DEF NoneTwice
<1>2. Min({k}) = k
  BY DEF Min
<1>3. RemoveFirst(s, x) = RemoveAt(s, k)
  BY <1>1, <1>2 DEF RemoveFirst, SelectInSeq
<1> QED
  BY <1>3, RemovedOne

\* InsertAt adds one.
LEMMA InsertedLength ==
    ASSUME NEW S, NEW s \in Seq(S), NEW x \in S, NEW n \in 1..(Len(s) + 1)
    PROVE  Len(InsertAt(s, n, x)) = Len(s) + 1
<1> DEFINE front == SubSeq(s, 1, n - 1)
           back == SubSeq(s, n, Len(s))
           first == front \o <<x>>
<1>1. front \in Seq(S) /\ Len(front) = n - 1 /\ back \in Seq(S) /\ Len(back) = Len(s) - n + 1
  OBVIOUS
<1>2. <<x>> \in Seq(S) /\ Len(<<x>>) = 1 /\ Len(s) \in Nat /\ n \in Int
  OBVIOUS
<1>3. InsertAt(s, n, x) = first \o back
  BY DEF InsertAt
<1> HIDE DEF front, back
<1>4. first \in Seq(S) /\ Len(first) = (n - 1) + 1
  BY <1>1, <1>2, ConcatProperties
<1> HIDE DEF first
<1>5. Len(first \o back) = Len(first) + Len(back)
  BY <1>1, <1>4, ConcatProperties
<1> QED
  BY <1>1, <1>2, <1>3, <1>4, <1>5

-----------------------------------------------------------------------------
(* Sums over the groups                                                    *)

Places(n) == UNION {{g} \X (1..n[g]) : g \in Groups}

\* There are finitely many places, n[g] of them for g.
LEMMA PlacesFinite ==
    ASSUME NEW n \in [Groups -> Nat]
    PROVE  IsFiniteSet(Places(n)) /\ SumOver(n) = Cardinality(Places(n)) /\ SumOver(n) \in Nat
<1> DEFINE of(g) == {g} \X (1..n[g])
           All == {of(g) : g \in Groups}
           f == [g \in Groups |-> of(g)]
<1>1. IsFiniteSet(All)
  <2>1. f \in Surjection(Groups, All)
    BY DEF Surjection
  <2> QED
    BY <2>1, UserAssumption, FS_Surjection
<1>2. \A T \in All : IsFiniteSet(T)
  <2> SUFFICES ASSUME NEW g \in Groups PROVE IsFiniteSet(of(g))
    OBVIOUS
  <2>1. IsFiniteSet({g})
    BY FS_Singleton
  <2>2. IsFiniteSet(1..n[g])
    <3>1. n[g] \in Int /\ 1 \in Int
      OBVIOUS
    <3> QED
      BY <3>1, FS_Interval
  <2> QED
    BY <2>1, <2>2, FS_Product
<1>3. Places(n) = UNION All
  BY DEF Places
<1> HIDE DEF All
<1>4. IsFiniteSet(Places(n))
  BY <1>1, <1>2, <1>3, FS_UNION
<1>5. SumOver(n) = Cardinality(Places(n))
  BY DEF SumOver, Places
<1> QED
  BY <1>4, <1>5, FS_CardinalityType

\* k pairs with the first component g.
LEMMA PlacesOfOne ==
    ASSUME NEW g, NEW k \in Nat
    PROVE  IsFiniteSet({g} \X (1..k)) /\ Cardinality({g} \X (1..k)) = k
<1>1. IsFiniteSet({g}) /\ Cardinality({g}) = 1
  BY FS_Singleton
<1>2. IsFiniteSet(1..k) /\ Cardinality(1..k) = k
  BY FS_Interval
<1>3. /\ IsFiniteSet({g} \X (1..k))
      /\ Cardinality({g} \X (1..k)) = Cardinality({g}) * Cardinality(1..k)
  BY <1>1, <1>2, FS_Product
<1> QED
  BY <1>1, <1>2, <1>3

\* When the number of one group changes the sum changes by as much.
LEMMA SumExcept ==
    ASSUME NEW n \in [Groups -> Nat], NEW m \in [Groups -> Nat], NEW g \in Groups,
           \A x \in Groups : x # g => m[x] = n[x]
    PROVE  SumOver(m) = SumOver(n) - n[g] + m[g]
<1> DEFINE Rest == UNION {{x} \X (1..n[x]) : x \in Groups \ {g}}
           N == {g} \X (1..n[g])
           M == {g} \X (1..m[g])
<1>1. Places(n) = Rest \cup N
  BY DEF Places
<1>2. Places(m) = Rest \cup M
  BY DEF Places
<1>3. Rest \cap N = {} /\ Rest \cap M = {}
  OBVIOUS
<1>4. Rest \in SUBSET Places(n)
  BY <1>1
<1>5. /\ IsFiniteSet(N) /\ Cardinality(N) = n[g] /\ n[g] \in Nat
      /\ IsFiniteSet(M) /\ Cardinality(M) = m[g] /\ m[g] \in Nat
  BY PlacesOfOne
<1>6. IsFiniteSet(Rest)
  BY <1>4, PlacesFinite, FS_Subset
<1> HIDE DEF Rest, N, M
<1>7. Cardinality(Rest) \in Nat
  BY <1>6, FS_CardinalityType
<1>8. /\ Cardinality(Rest \cup N) = Cardinality(Rest) + n[g] - Cardinality({})
      /\ Cardinality(Rest \cup M) = Cardinality(Rest) + m[g] - Cardinality({})
  BY <1>3, <1>5, <1>6, FS_Union
<1>9. Cardinality({}) = 0
  BY FS_EmptySet
<1>10. SumOver(n) = Cardinality(Places(n)) /\ SumOver(m) = Cardinality(Places(m))
  BY PlacesFinite
<1> QED
  BY <1>1, <1>2, <1>5, <1>7, <1>8, <1>9, <1>10

\* A sum is zero when all its numbers are, and only then.
LEMMA SumZero ==
    ASSUME NEW n \in [Groups -> Nat]
    PROVE  SumOver(n) = 0 <=> \A g \in Groups : n[g] = 0
<1>1. SumOver(n) = 0 <=> Places(n) = {}
  BY PlacesFinite, FS_EmptySet
<1>2. Places(n) = {} <=> \A g \in Groups : n[g] = 0
  <2>1. ASSUME \A g \in Groups : n[g] = 0
        PROVE  Places(n) = {}
    BY <2>1 DEF Places
  <2>2. ASSUME NEW g \in Groups, n[g] # 0
        PROVE  Places(n) # {}
    <3>1. 1 \in 1..n[g]
      BY <2>2
    <3>2. <<g, 1>> \in {g} \X (1..n[g])
      BY <3>1
    <3> QED
      BY <3>2 DEF Places
  <2> QED
    BY <2>1, <2>2
<1> QED
  BY <1>1, <1>2

\* Sums are added place by place.
LEMMA SumAdd ==
    ASSUME NEW n \in [Groups -> Nat], NEW m \in [Groups -> Nat]
    PROVE  SumOver([g \in Groups |-> n[g] + m[g]]) = SumOver(n) + SumOver(m)
<1> DEFINE s == [g \in Groups |-> n[g] + m[g]]
           Above == UNION {{g} \X (n[g] + 1..n[g] + m[g]) : g \in Groups}
           shift == [x \in Places(m) |-> <<x[1], n[x[1]] + x[2]>>]
<1>1. s \in [Groups -> Nat]
  OBVIOUS
<1>2. Places(s) = Places(n) \cup Above
  <2>1. \A g \in Groups : 1..s[g] = (1..n[g]) \cup (n[g] + 1..n[g] + m[g])
    OBVIOUS
  <2>2. \A g \in Groups :
           {g} \X (1..s[g]) = ({g} \X (1..n[g])) \cup ({g} \X (n[g] + 1..n[g] + m[g]))
    BY <2>1
  <2> HIDE DEF s
  <2> QED
    BY <2>2 DEF Places
<1>3. Places(n) \cap Above = {}
  BY DEF Places
<1>4. shift \in Bijection(Places(m), Above)
  <2>1. \A x \in Places(m) : /\ x[1] \in Groups /\ x[2] \in 1..m[x[1]]
                             /\ x = <<x[1], x[2]>>
    BY DEF Places
  <2>2. \A g \in Groups, i \in Int : <<g, i>> \in Above <=> i \in n[g] + 1..n[g] + m[g]
    OBVIOUS
  <2>3. \A g \in Groups, i \in Int : <<g, i>> \in Places(m) <=> i \in 1..m[g]
    BY DEF Places
  <2>4. \A y \in Above : /\ y[1] \in Groups /\ y[2] \in n[y[1]] + 1..n[y[1]] + m[y[1]]
                         /\ y = <<y[1], y[2]>>
    OBVIOUS
  <2> HIDE DEF Above
  <2>5. shift \in [Places(m) -> Above]
    BY <2>1, <2>2
  <2>6. ASSUME NEW x \in Places(m), NEW y \in Places(m), shift[x] = shift[y]
        PROVE  x = y
    <3>1. x[1] = y[1] /\ n[x[1]] + x[2] = n[y[1]] + y[2]
      BY <2>6
    <3>2. x[2] = y[2]
      BY <2>1, <3>1
    <3> QED
      BY <2>1, <3>1, <3>2
  <2>7. ASSUME NEW y \in Above
        PROVE  \E x \in Places(m) : shift[x] = y
    <3> DEFINE x == <<y[1], y[2] - n[y[1]]>>
    <3>1. y[2] - n[y[1]] \in 1..m[y[1]] /\ n[y[1]] + (y[2] - n[y[1]]) = y[2]
      BY <2>4
    <3>2. x \in Places(m)
      BY <2>3, <2>4, <3>1
    <3> QED
      BY <2>4, <3>1, <3>2
  <2>8. IsInjective(shift)
    BY <2>6 DEF IsInjective
  <2> HIDE DEF shift
  <2> QED
    BY <2>5, <2>7, <2>8 DEF Bijection, Injection, Surjection
<1> HIDE DEF Above, shift, s
<1>5. IsFiniteSet(Above) /\ Cardinality(Above) = SumOver(m)
  <2>1. ExistsBijection(Places(m), Above)
    BY <1>4 DEF ExistsBijection
  <2> QED
    BY <2>1, PlacesFinite, FS_Bijection
<1>6. Cardinality(Places(s)) = SumOver(n) + SumOver(m) - Cardinality({})
  BY <1>2, <1>3, <1>5, PlacesFinite, FS_Union
<1> QED
  BY <1>1, <1>6, PlacesFinite, FS_EmptySet DEF s

-----------------------------------------------------------------------------
(* The inductive invariant                                                 *)

\* No request ignores the limits.
NoneIgnores == \A k \in Kinds : ~k.ignore

\* The types of a pool whose counters have yet to be shown right.
Shape == [group : [Groups -> Group],
          idle_socket_count_ : Int, connecting_socket_count_ : Int,
          handed_out_socket_count_ : Int, generation : Nat,
          callback : [Handles -> {"ok", "error", None}],
          posted : [Handles -> Nat],
          request : [Handles -> Request],
          socket : [Handles -> Socket \cup {None}],
          initialized : [Handles -> BOOLEAN],
          wakeFailed : BOOLEAN]

\* The handles that hold a socket of the group.
Holders(p, g) == {h \in Handles : p.socket[h] # None /\ p.request[h].group = g}

\* A group G of a pool of that generation: what connects or is idle is of the generation,
\* and a backup timer has a job, and a request, or one that is due.
SoundLists(G, generation, g, due) ==
    /\ ~G.exists => G = NoGroup
    /\ NoneTwice(G.pending)
    /\ \A i \in 1..Len(G.idle) : G.idle[i] = generation
    /\ \A k \in JobKinds : \A i \in 1..Len(G.jobs[k]) : G.jobs[k][i] = generation
    /\ G.backup # "none" => NumJobs(G) > 0 /\ (G.pending # <<>> \/ g \in due)

SoundGroup(G, generation, g, due) ==
    /\ SoundLists(G, generation, g, due)
    /\ NoneIgnores => NumActiveSocketSlots(G) <= MaxPerGroup

\* The group of a request that is due is in due, and that whose timer's task runs in run.
GroupsSound(p, due, run) ==
    \A g \in Groups : /\ SoundGroup(p.group[g], p.generation, g, due)
                      /\ p.group[g].active = Cardinality(Holders(p, g))
                      /\ p.group[g].backup = "running" => g \in run

InQueue(p, g, h) == \E i \in 1..Len(p.group[g].pending) : p.group[g].pending[i] = h

\* A handle no handler is at work on: its request is queued, or its callback is posted,
\* or it has been told.
SoundHandle(p, h) ==
    /\ \A g \in Groups : InQueue(p, g, h) <=>
           p.request[h].group = g /\ p.callback[h] = None /\ ~p.initialized[h]
    /\ p.socket[h] # None => p.callback[h] # None \/ p.initialized[h]
    /\ p.initialized[h] => p.socket[h] # None /\ p.callback[h] = None
    /\ p.callback[h] = "ok" => p.socket[h] # None
    /\ p.callback[h] # None => p.posted[h] > 0
    /\ p.callback[h] # None \/ p.initialized[h] => p.request[h].group \in Groups

\* The handle of the request that is being served.
BusyHandle(p, h) ==
    /\ p.request[h].group \in Groups
    /\ p.callback[h] = None /\ ~p.initialized[h]
    /\ \A g \in Groups : InQueue(p, g, h) => p.request[h].group = g

HandlesSound(p, busy) ==
    \A h \in Handles : /\ IF h \in busy THEN BusyHandle(p, h) ELSE SoundHandle(p, h)
                       /\ p.socket[h] # None => p.socket[h].born = p.socket[h].id
                       /\ NoneIgnores => ~p.request[h].ignore

Counted(p) ==
    /\ p.idle_socket_count_ = SumOver([g \in Groups |-> Len(p.group[g].idle)])
    /\ p.connecting_socket_count_ = SumOver([g \in Groups |-> NumJobs(p.group[g])])
    /\ p.handed_out_socket_count_ = SumOver([g \in Groups |-> p.group[g].active])

Limited(p) == NoneIgnores => TotalSockets(p) <= MaxSockets

Good(p, busy, due, run) ==
    /\ p \in Shape
    /\ p.generation <= MaxFlushes
    /\ GroupsSound(p, due, run)
    /\ HandlesSound(p, busy)
    /\ Counted(p)
    /\ Limited(p)

IInv == Good(pool, {}, {}, {})

\* The group may have one more socket.
Room(p, g) ==
    NoneIgnores => /\ NumActiveSocketSlots(p.group[g]) < MaxPerGroup
                   /\ TotalSockets(p) < MaxSockets

\* The sockets that a job or a user has.
InUse(p) == p.handed_out_socket_count_ + p.connecting_socket_count_

\* What a helper that serves a request leaves alone.
Same(p, q) ==
    /\ q.generation = p.generation /\ q.request = p.request /\ q.callback = p.callback
    /\ q.initialized = p.initialized /\ q.posted = p.posted
    /\ \A g \in Groups : q.group[g].pending = p.group[g].pending

-----------------------------------------------------------------------------
(* Steps of one group                                                      *)

\* Provers are told once that numbers add up to a number.
LEMMA NatAdd ==
    ASSUME NEW a \in Nat, NEW b \in Nat
    PROVE  a + b \in Nat
OBVIOUS

\* The numbers of a group.
LEMMA GroupNumbers ==
    ASSUME NEW G \in Group
    PROVE  /\ Len(G.idle) \in Nat /\ NumJobs(G) \in Nat /\ G.active \in Nat
           /\ Len(G.pending) \in Nat /\ NumActiveSocketSlots(G) \in Nat
           /\ NumActiveSocketSlots(G) = G.active + NumJobs(G) + Len(G.idle)
<1>1. /\ G.idle \in Seq(Nat) /\ G.pending \in Seq(Handles) /\ G.active \in Nat
      /\ G.jobs["unused"] \in Seq(Nat) /\ G.jobs["used"] \in Seq(Nat)
  BY DEF Group, JobKinds
<1>2. Len(G.idle) \in Nat /\ Len(G.pending) \in Nat
  BY <1>1
<1>3. Len(G.jobs["unused"]) \in Nat /\ Len(G.jobs["used"]) \in Nat
  BY <1>1
<1>4. NumJobs(G) \in Nat
  BY <1>3, NatAdd DEF NumJobs
<1> QED
  BY <1>1, <1>2, <1>4 DEF NumActiveSocketSlots

\* The counters follow what changes in one group.
LEMMA CountedStep ==
    ASSUME NEW p \in Shape, NEW q \in Shape, Counted(p), NEW g \in Groups, NEW G \in Group,
           q.group = [p.group EXCEPT ![g] = G],
           q.idle_socket_count_ = p.idle_socket_count_ - Len(p.group[g].idle) + Len(G.idle),
           q.connecting_socket_count_ =
               p.connecting_socket_count_ - NumJobs(p.group[g]) + NumJobs(G),
           q.handed_out_socket_count_ =
               p.handed_out_socket_count_ - p.group[g].active + G.active
    PROVE  Counted(q)
<1> DEFINE idle(x) == [k \in Groups |-> Len(x.group[k].idle)]
           jobs(x) == [k \in Groups |-> NumJobs(x.group[k])]
           active(x) == [k \in Groups |-> x.group[k].active]
<1>1. /\ p.group \in [Groups -> Group] /\ q.group \in [Groups -> Group]
      /\ q.group[g] = G /\ \A x \in Groups : x # g => q.group[x] = p.group[x]
  BY DEF Shape
<1>2. /\ \A k \in Groups : p.group[k] \in Group /\ q.group[k] \in Group
      /\ \A k \in Groups : k # g => q.group[k] = p.group[k]
  BY <1>1
<1>3. /\ idle(p) \in [Groups -> Nat] /\ idle(q) \in [Groups -> Nat]
      /\ jobs(p) \in [Groups -> Nat] /\ jobs(q) \in [Groups -> Nat]
      /\ active(p) \in [Groups -> Nat] /\ active(q) \in [Groups -> Nat]
  BY <1>2, GroupNumbers
<1>4. /\ \A k \in Groups : k # g => idle(q)[k] = idle(p)[k]
      /\ \A k \in Groups : k # g => jobs(q)[k] = jobs(p)[k]
      /\ \A k \in Groups : k # g => active(q)[k] = active(p)[k]
  BY <1>2
<1>5. /\ idle(p)[g] = Len(p.group[g].idle) /\ idle(q)[g] = Len(G.idle)
      /\ jobs(p)[g] = NumJobs(p.group[g]) /\ jobs(q)[g] = NumJobs(G)
      /\ active(p)[g] = p.group[g].active /\ active(q)[g] = G.active
  BY <1>1
<1>6. /\ p.idle_socket_count_ = SumOver(idle(p))
      /\ p.connecting_socket_count_ = SumOver(jobs(p))
      /\ p.handed_out_socket_count_ = SumOver(active(p))
  BY DEF Counted
<1> HIDE DEF idle, jobs, active
<1>7. SumOver(idle(q)) = SumOver(idle(p)) - idle(p)[g] + idle(q)[g]
  BY <1>3, <1>4, SumExcept, ZenonT(60)
<1>8. SumOver(jobs(q)) = SumOver(jobs(p)) - jobs(p)[g] + jobs(q)[g]
  BY <1>3, <1>4, SumExcept, ZenonT(60)
<1>9. SumOver(active(q)) = SumOver(active(p)) - active(p)[g] + active(q)[g]
  BY <1>3, <1>4, SumExcept, ZenonT(60)
<1>10. /\ q.idle_socket_count_ = SumOver(idle(q))
       /\ q.connecting_socket_count_ = SumOver(jobs(q))
       /\ q.handed_out_socket_count_ = SumOver(active(q))
  BY <1>5, <1>6, <1>7, <1>8, <1>9
<1> QED
  BY <1>10 DEF Counted, idle, jobs, active

-----------------------------------------------------------------------------
(* Helpers that change one group                                           *)

\* What a good pool is made of.
LEMMA GoodTypes ==
    ASSUME NEW p, NEW busy, NEW due, NEW run, Good(p, busy, due, run), NEW g \in Groups
    PROVE  /\ p \in Shape /\ p.group \in [Groups -> Group] /\ p.group[g] \in Group
           /\ p.generation \in Nat
           /\ p.idle_socket_count_ \in Nat /\ p.connecting_socket_count_ \in Nat
           /\ p.handed_out_socket_count_ \in Nat
           /\ SoundGroup(p.group[g], p.generation, g, due)
           /\ Limited(p)
<1>1. /\ p \in Shape /\ GroupsSound(p, due, run) /\ Counted(p) /\ Limited(p)
  BY DEF Good
<1>2. p.group \in [Groups -> Group] /\ p.generation \in Nat
  BY <1>1 DEF Shape
<1>3. \A x \in Groups : p.group[x] \in Group
  BY <1>2
<1>4. /\ [x \in Groups |-> Len(p.group[x].idle)] \in [Groups -> Nat]
      /\ [x \in Groups |-> NumJobs(p.group[x])] \in [Groups -> Nat]
      /\ [x \in Groups |-> p.group[x].active] \in [Groups -> Nat]
  BY <1>3, GroupNumbers
<1>5. /\ p.idle_socket_count_ \in Nat /\ p.connecting_socket_count_ \in Nat
      /\ p.handed_out_socket_count_ \in Nat
  BY <1>1, <1>4, PlacesFinite DEF Counted
<1> QED
  BY <1>1, <1>2, <1>3, <1>5 DEF GroupsSound

\* The fields of a group, and groups that differ in one.
LEMMA GroupFields ==
    ASSUME NEW G \in Group
    PROVE  /\ G.exists \in BOOLEAN /\ G.pending \in Seq(Handles) /\ G.idle \in Seq(Nat)
           /\ G.jobs \in [JobKinds -> Seq(Nat)] /\ G.active \in Nat
           /\ \A k \in JobKinds : G.jobs[k] \in Seq(Nat)
BY DEF Group

\* The pool with another group and other counters.
Put(p, g, G, idle, connecting, handed) ==
    [p EXCEPT !.group = [p.group EXCEPT ![g] = G], !.idle_socket_count_ = idle,
              !.connecting_socket_count_ = connecting, !.handed_out_socket_count_ = handed]

\* What the others of its fields are.
LEMMA PutFields ==
    ASSUME NEW p \in Shape, NEW g \in Groups, NEW G \in Group,
           NEW a \in Int, NEW b \in Int, NEW c \in Int
    PROVE  LET q == Put(p, g, G, a, b, c) IN
           /\ q \in Shape /\ q.group = [p.group EXCEPT ![g] = G] /\ q.group[g] = G
           /\ q.generation = p.generation /\ q.callback = p.callback /\ q.posted = p.posted
           /\ q.request = p.request /\ q.socket = p.socket /\ q.initialized = p.initialized
           /\ q.idle_socket_count_ = a /\ q.connecting_socket_count_ = b
           /\ q.handed_out_socket_count_ = c
<1> DEFINE X == [p.group EXCEPT ![g] = G]
<1>1. X \in [Groups -> Group] /\ X[g] = G
  BY DEF Shape
<1> HIDE DEF X
<1> QED
  BY <1>1 DEF Put, X, Shape

\* A group becomes G, with so many more idle sockets and jobs, and q is the pool then.
Becomes(p, g, G, q, di, dj) ==
    /\ q = Put(p, g, G, p.idle_socket_count_ + di, p.connecting_socket_count_ + dj,
               p.handed_out_socket_count_)
    /\ G.pending = p.group[g].pending /\ G.active = p.group[g].active
    /\ Len(G.idle) = Len(p.group[g].idle) + di /\ NumJobs(G) = NumJobs(p.group[g]) + dj

\* There is room for so many more.
RoomFor(p, g, n) == n <= 0 \/ (n = 1 /\ Room(p, g))

\* What is due, and what runs, may be more after the change of g than before.
More(g, due, run, after, runs) ==
    \A x \in Groups \ {g} : (x \in due => x \in after) /\ (x \in run => x \in runs)

\* The group is G, and there are so many more sockets.
Became(p, g, G, q, di, dj) ==
    /\ q.group[g] = G /\ q.socket = p.socket
    /\ \A x \in Groups \ {g} : q.group[x] = p.group[x]
    /\ TotalSockets(q) = TotalSockets(p) + di + dj
    /\ NumActiveSocketSlots(G) = NumActiveSocketSlots(p.group[g]) + di + dj
    /\ q.idle_socket_count_ = p.idle_socket_count_ + di

\* A group changes its idle sockets and its jobs, by at most one more, for which there is
\* room.
LEMMA PutGood ==
    ASSUME NEW p, NEW busy, NEW due, NEW run, Good(p, busy, due, run), NEW after, NEW runs,
           NEW g \in Groups, NEW G \in Group, NEW q, NEW di \in Int, NEW dj \in Int,
           Becomes(p, g, G, q, di, dj), RoomFor(p, g, di + dj),
           SoundLists(G, p.generation, g, after), G.backup = "running" => g \in runs,
           More(g, due, run, after, runs)
    PROVE  Good(q, busy, after, runs) /\ Same(p, q) /\ Became(p, g, G, q, di, dj)
<1>0. /\ G.pending = p.group[g].pending /\ G.active = p.group[g].active
      /\ Len(G.idle) = Len(p.group[g].idle) + di /\ NumJobs(G) = NumJobs(p.group[g]) + dj
      /\ di + dj <= 0 \/ (di + dj = 1 /\ Room(p, g))
      /\ \A x \in Groups \ {g} : (x \in due => x \in after) /\ (x \in run => x \in runs)
  BY DEF Becomes, RoomFor, More
<1> DEFINE i == Len(p.group[g].idle)
           j == NumJobs(p.group[g])
           s == NumActiveSocketSlots(p.group[g])
           a == p.idle_socket_count_
           b == p.connecting_socket_count_
           c == p.handed_out_socket_count_
           m == p.group[g].active
<1>1. /\ p \in Shape /\ p.group \in [Groups -> Group] /\ p.group[g] \in Group
      /\ a \in Nat /\ b \in Nat /\ c \in Nat
      /\ SoundGroup(p.group[g], p.generation, g, due) /\ Limited(p)
  BY GoodTypes
<1>2. /\ i \in Nat /\ j \in Nat /\ s \in Nat /\ m \in Nat /\ s = m + j + i
  BY <1>1, GroupNumbers
<1>3. /\ NumActiveSocketSlots(G) = G.active + NumJobs(G) + Len(G.idle)
      /\ G.active = m /\ NumJobs(G) = j + dj /\ Len(G.idle) = i + di
  BY <1>0, GroupNumbers
<1>4. TotalSockets(p) = c + b + a
  BY DEF TotalSockets
<1>5. q = Put(p, g, G, a + di, b + dj, c)
  BY DEF Becomes
<1> HIDE DEF i, j, s, a, b, c, m
<1>6. /\ a + di \in Int /\ b + dj \in Int /\ c \in Int
  BY <1>1
<1>7. /\ q \in Shape /\ q.group = [p.group EXCEPT ![g] = G] /\ q.group[g] = G
      /\ q.generation = p.generation /\ q.callback = p.callback /\ q.posted = p.posted
      /\ q.request = p.request /\ q.socket = p.socket /\ q.initialized = p.initialized
      /\ q.idle_socket_count_ = a + di /\ q.connecting_socket_count_ = b + dj
      /\ q.handed_out_socket_count_ = c
  BY <1>1, <1>5, <1>6, PutFields
<1>8. NumActiveSocketSlots(G) = s + di + dj
  BY <1>2, <1>3
<1>9. TotalSockets(q) = c + b + a + di + dj
  BY <1>1, <1>7 DEF TotalSockets
<1>10. SoundGroup(G, p.generation, g, after)
  <2>1. NoneIgnores => s <= MaxPerGroup /\ (di + dj <= 0 \/ (di + dj = 1 /\ s < MaxPerGroup))
    BY <1>0, <1>1 DEF SoundGroup, Room, s
  <2>2. MaxPerGroup \in Nat
    BY LimitAssumption
  <2>3. NoneIgnores => s + di + dj <= MaxPerGroup
    BY <1>2, <2>1, <2>2
  <2> QED
    BY <1>8, <2>3 DEF SoundGroup
<1>11. Limited(q)
  <2>1. NoneIgnores => /\ c + b + a <= MaxSockets
                       /\ di + dj <= 0 \/ (di + dj = 1 /\ c + b + a < MaxSockets)
    BY <1>0, <1>1, <1>4 DEF Limited, Room
  <2>2. MaxSockets \in Nat
    BY LimitAssumption
  <2>3. NoneIgnores => c + b + a + di + dj <= MaxSockets
    BY <1>1, <2>1, <2>2
  <2> QED
    BY <1>9, <2>3 DEF Limited
<1>12. /\ a + di = a - i + Len(G.idle) /\ b + dj = b - j + NumJobs(G)
  <2> DEFINE l == Len(G.idle)
             n == NumJobs(G)
  <2>1. l = i + di /\ n = j + dj
    BY <1>3
  <2> HIDE DEF l, n
  <2>2. a + di = a - i + l /\ b + dj = b - j + n
    BY <1>1, <1>2, <2>1
  <2> QED
    BY <2>2 DEF l, n
<1>13. /\ q.idle_socket_count_ = p.idle_socket_count_ - Len(p.group[g].idle) + Len(G.idle)
       /\ q.connecting_socket_count_ =
               p.connecting_socket_count_ - NumJobs(p.group[g]) + NumJobs(G)
       /\ q.handed_out_socket_count_ = p.handed_out_socket_count_
  BY <1>7, <1>12 DEF i, j, a, b, c
<1>14. /\ p.group \in [Groups -> Group] /\ q.group[g] = G
       /\ \A x \in Groups : x # g => q.group[x] = p.group[x]
  BY <1>1, <1>7
<1>15. GroupsSound(p, due, run) /\ HandlesSound(p, busy) /\ Counted(p)
       /\ p.generation <= MaxFlushes
  BY DEF Good
<1>16. Counted(q)
  <2>1. q.handed_out_socket_count_ = p.handed_out_socket_count_ - p.group[g].active + G.active
    <3>1. c = c - m + m
      BY <1>1, <1>2
    <3> QED
      BY <1>3, <1>7, <3>1 DEF c, m
  <2> QED
    BY <1>1, <1>7, <1>13, <1>15, <2>1, CountedStep
<1>17. \A x \in Groups : q.group[x].pending = p.group[x].pending
  BY <1>0, <1>14
<1>18. GroupsSound(q, after, runs)
  <2> SUFFICES ASSUME NEW x \in Groups
               PROVE  /\ SoundGroup(q.group[x], q.generation, x, after)
                      /\ q.group[x].active = Cardinality(Holders(q, x))
                      /\ q.group[x].backup = "running" => x \in runs
    BY DEF GroupsSound
  <2>1. Holders(q, x) = Holders(p, x)
    BY <1>7 DEF Holders
  <2>2. /\ SoundGroup(p.group[x], p.generation, x, due)
        /\ p.group[x].active = Cardinality(Holders(p, x))
        /\ p.group[x].backup = "running" => x \in run
    BY <1>15 DEF GroupsSound
  <2>3. CASE x = g
    BY <1>0, <1>7, <1>10, <2>1, <2>2, <2>3
  <2>4. CASE x # g
    BY <1>0, <1>7, <1>14, <2>1, <2>2, <2>4 DEF SoundGroup, SoundLists
  <2> QED
    BY <2>3, <2>4
<1>19. HandlesSound(q, busy)
  <2>1. \A x \in Groups, h \in Handles : InQueue(q, x, h) <=> InQueue(p, x, h)
    BY <1>17 DEF InQueue
  <2> QED
    BY <1>7, <1>15, <2>1 DEF HandlesSound, SoundHandle, BusyHandle
<1>20. Good(q, busy, after, runs)
  BY <1>7, <1>11, <1>15, <1>16, <1>18, <1>19 DEF Good
<1>21. Same(p, q)
  BY <1>7, <1>17 DEF Same
<1>22. \A x \in Groups \ {g} : q.group[x] = p.group[x]
  BY <1>1, <1>7
<1> QED
  BY <1>4, <1>7, <1>8, <1>9, <1>20, <1>21, <1>22 DEF Became, s, a

\* A socket in the pool when there is room for it.
LEMMA AddIdleGood ==
    ASSUME NEW p, NEW busy, NEW due, NEW run, Good(p, busy, due, run), NEW g \in Groups,
           p.group[g].exists, Room(p, g)
    PROVE  LET q == AddIdleSocket(p, g, p.generation) IN
           /\ Good(q, busy, due, run) /\ Same(p, q)
           /\ q.socket = p.socket /\ q.group[g].exists
<1> DEFINE i == p.group[g].idle
           G == [p.group[g] EXCEPT !.idle = Append(i, p.generation)]
           q == AddIdleSocket(p, g, p.generation)
<1>1. /\ p \in Shape /\ p.group \in [Groups -> Group] /\ p.group[g] \in Group
      /\ p.generation \in Nat
      /\ p.idle_socket_count_ \in Nat /\ p.connecting_socket_count_ \in Nat
      /\ p.handed_out_socket_count_ \in Nat
      /\ SoundGroup(p.group[g], p.generation, g, due)
  BY GoodTypes
<1>2. /\ i \in Seq(Nat) /\ Append(i, p.generation) \in Seq(Nat)
      /\ Len(Append(i, p.generation)) = Len(i) + 1
      /\ \A n \in 1..Len(i) + 1 :
            Append(i, p.generation)[n] = IF n = Len(i) + 1 THEN p.generation ELSE i[n]
  <2>1. i \in Seq(Nat)
    BY <1>1, GroupFields
  <2> HIDE DEF i
  <2> QED
    BY <1>1, <2>1
<1>3. /\ G \in Group /\ G.pending = p.group[g].pending /\ G.active = p.group[g].active
      /\ G.jobs = p.group[g].jobs /\ G.backup = p.group[g].backup
      /\ G.exists = p.group[g].exists /\ G.idle = Append(i, p.generation)
  BY <1>1, <1>2 DEF Group
<1>4. /\ q \in Shape /\ q.group = [p.group EXCEPT ![g] = G]
      /\ q.generation = p.generation /\ q.callback = p.callback /\ q.posted = p.posted
      /\ q.request = p.request /\ q.socket = p.socket /\ q.initialized = p.initialized
      /\ q.idle_socket_count_ = p.idle_socket_count_ + 1
      /\ q.connecting_socket_count_ = p.connecting_socket_count_
      /\ q.handed_out_socket_count_ = p.handed_out_socket_count_
  <2>1. q = Put(p, g, G, p.idle_socket_count_ + 1, p.connecting_socket_count_,
                p.handed_out_socket_count_)
    BY <1>1 DEF Shape, Put, AddIdleSocket
  <2> HIDE DEF G, q
  <2> QED
    BY <1>1, <1>3, <2>1, PutFields
<1>5. SoundLists(G, p.generation, g, due)
  <2>1. SoundLists(p.group[g], p.generation, g, due)
    BY <1>1 DEF SoundGroup
  <2>2. \A n \in 1..Len(G.idle) : G.idle[n] = p.generation
    <3>1. \A n \in 1..Len(i) : i[n] = p.generation
      BY <2>1 DEF SoundLists
    <3> HIDE DEF i
    <3> QED
      BY <1>2, <1>3, <3>1
  <2> HIDE DEF G
  <2>3. NumJobs(G) = NumJobs(p.group[g]) /\ G.exists
    BY <1>3 DEF NumJobs
  <2> QED
    BY <1>3, <2>1, <2>2, <2>3 DEF SoundLists
<1>6. NumJobs(G) = NumJobs(p.group[g])
  BY <1>3 DEF NumJobs
<1>7. /\ Len(G.idle) = Len(p.group[g].idle) + 1 /\ G.idle = Append(i, p.generation)
  BY <1>2, <1>3
<1>8. q = Put(p, g, G, p.idle_socket_count_ + 1, p.connecting_socket_count_ + 0,
              p.handed_out_socket_count_)
  <2>1. p.connecting_socket_count_ + 0 = p.connecting_socket_count_
    BY <1>1
  <2> QED
    BY <1>1, <2>1 DEF Put, AddIdleSocket, Shape
<1>9. G.backup = "running" => g \in run
  BY <1>3 DEF Good, GroupsSound
<1> HIDE DEF i, G, q
<1>10. NumJobs(G) = NumJobs(p.group[g]) + 0
  BY <1>1, <1>6, GroupNumbers
<1>11. Becomes(p, g, G, q, 1, 0)
  BY <1>3, <1>7, <1>8, <1>10 DEF Becomes
<1>12. RoomFor(p, g, 1 + 0) /\ More(g, due, run, due, run)
  BY DEF RoomFor, More
<1>13. Good(q, busy, due, run) /\ Same(p, q) /\ Became(p, g, G, q, 1, 0)
  BY <1>3, <1>5, <1>9, <1>11, <1>12, PutGood
<1>14. q.socket = p.socket /\ q.group[g] = G
  BY <1>13 DEF Became
<1> QED
  BY <1>3, <1>13, <1>14 DEF q

\* An empty group has nothing of anything.
LEMMA NothingInIt ==
    /\ NewGroup \in Group /\ NoGroup \in Group
    /\ \A G \in {NewGroup, NoGroup} :
          /\ G.pending = <<>> /\ G.idle = <<>> /\ G.active = 0 /\ G.backup = "none"
          /\ Len(G.idle) = 0 /\ NumJobs(G) = 0 /\ \A k \in JobKinds : Len(G.jobs[k]) = 0
    /\ NewGroup.exists /\ ~NoGroup.exists
<1>1. /\ <<>> \in Seq(Handles) /\ <<>> \in Seq(Nat) /\ Len(<<>>) = 0
  OBVIOUS
<1>2. /\ NoJobs \in [JobKinds -> Seq(Nat)] /\ \A k \in JobKinds : NoJobs[k] = <<>>
  BY <1>1 DEF NoJobs
<1>3. /\ NewGroup \in Group /\ NewGroup.jobs = NoJobs /\ NewGroup.pending = <<>>
      /\ NewGroup.idle = <<>> /\ NewGroup.active = 0 /\ NewGroup.backup = "none"
      /\ NewGroup.exists
  BY <1>1, <1>2 DEF NewGroup, Group
<1>4. /\ NoGroup \in Group /\ NoGroup.jobs = NoJobs /\ NoGroup.pending = <<>>
      /\ NoGroup.idle = <<>> /\ NoGroup.active = 0 /\ NoGroup.backup = "none"
      /\ ~NoGroup.exists
  BY <1>1, <1>2, <1>3 DEF NewGroup, NoGroup, Group
<1>5. NumJobs(NewGroup) = 0 /\ NumJobs(NoGroup) = 0
  <2>1. NoJobs["unused"] = <<>> /\ NoJobs["used"] = <<>>
    BY <1>2 DEF JobKinds
  <2>2. Len(<<>>) + Len(<<>>) = 0
    BY <1>1
  <2> QED
    BY <1>3, <1>4, <2>1, <2>2 DEF NumJobs
<1> QED
  BY <1>1, <1>2, <1>3, <1>4, <1>5

\* So it is sound.
LEMMA NothingSound ==
    ASSUME NEW generation, NEW g, NEW due, NEW G \in {NewGroup, NoGroup}
    PROVE  SoundLists(G, generation, g, due)
<1>1. /\ G.pending = <<>> /\ G.idle = <<>> /\ G.backup = "none"
      /\ Len(G.idle) = 0 /\ \A k \in JobKinds : Len(G.jobs[k]) = 0
      /\ ~G.exists => G = NoGroup
  BY NothingInIt
<1>2. NoneTwice(<<>>)
  BY DEF NoneTwice
<1>3. \A k \in JobKinds : \A i \in 1..Len(G.jobs[k]) : G.jobs[k][i] = generation
  BY <1>1
<1> QED
  BY <1>1, <1>2, <1>3 DEF SoundLists

\* The group of a request there is.
LEMMA OpenedGood ==
    ASSUME NEW p, NEW busy, NEW due, NEW run, Good(p, busy, due, run), NEW g \in Groups
    PROVE  LET q == GetOrCreateGroup(p, g) IN
           /\ Good(q, busy, due, run) /\ Same(p, q) /\ q.socket = p.socket
           /\ q.group[g].exists /\ TotalSockets(q) = TotalSockets(p)
<1> DEFINE q == GetOrCreateGroup(p, g)
<1>1. CASE p.group[g].exists
  <2>1. q = p
    BY <1>1 DEF GetOrCreateGroup
  <2> QED
    BY <1>1, <2>1 DEF Same
<1>2. CASE ~p.group[g].exists
  <2>1. /\ p \in Shape /\ p.group \in [Groups -> Group]
        /\ p.idle_socket_count_ \in Nat /\ p.connecting_socket_count_ \in Nat
        /\ p.handed_out_socket_count_ \in Nat
        /\ SoundGroup(p.group[g], p.generation, g, due)
    BY GoodTypes
  <2>2. p.group[g] = NoGroup
    BY <1>2, <2>1 DEF SoundGroup, SoundLists
  <2>3. /\ NewGroup \in Group /\ NewGroup.pending = p.group[g].pending
        /\ NewGroup.active = p.group[g].active /\ NewGroup.backup = "none" /\ NewGroup.exists
        /\ Len(NewGroup.idle) = 0 /\ Len(p.group[g].idle) = 0
        /\ NumJobs(NewGroup) = 0 /\ NumJobs(p.group[g]) = 0
    BY <2>2, NothingInIt
  <2>4. q = Put(p, g, NewGroup, p.idle_socket_count_ + 0, p.connecting_socket_count_ + 0,
                p.handed_out_socket_count_)
    <3>1. /\ p.idle_socket_count_ + 0 = p.idle_socket_count_
          /\ p.connecting_socket_count_ + 0 = p.connecting_socket_count_
      BY <2>1
    <3>2. q = [p EXCEPT !.group[g] = NewGroup]
      BY <1>2 DEF GetOrCreateGroup
    <3> HIDE DEF q
    <3> QED
      BY <2>1, <3>1, <3>2 DEF Put, Shape
  <2> HIDE DEF q
  <2>5. Becomes(p, g, NewGroup, q, 0, 0)
    BY <2>3, <2>4 DEF Becomes
  <2>6. RoomFor(p, g, 0 + 0) /\ More(g, due, run, due, run)
    BY DEF RoomFor, More
  <2>7. SoundLists(NewGroup, p.generation, g, due)
    BY NothingSound
  <2>8. Good(q, busy, due, run) /\ Same(p, q) /\ Became(p, g, NewGroup, q, 0, 0)
    BY <2>3, <2>5, <2>6, <2>7, PutGood
  <2>9. TotalSockets(q) = TotalSockets(p) + 0 + 0 /\ TotalSockets(p) \in Nat
    BY <2>1, <2>8 DEF Became, TotalSockets
  <2>10. TotalSockets(q) = TotalSockets(p)
    BY <2>9
  <2>11. q.socket = p.socket /\ q.group[g].exists
    BY <2>3, <2>8 DEF Became
  <2> QED
    BY <2>8, <2>10, <2>11 DEF q
<1> QED
  BY <1>1, <1>2

\* A group with nothing in it goes.
LEMMA RemovedGood ==
    ASSUME NEW p, NEW busy, NEW due, NEW run, Good(p, busy, due, run), NEW g \in Groups,
           IsEmpty(p.group[g])
    PROVE  LET q == RemoveGroup(p, g) IN
           /\ Good(q, busy, due, run) /\ Same(p, q) /\ q.socket = p.socket
           /\ TotalSockets(q) = TotalSockets(p)
           /\ \A x \in Groups \ {g} : q.group[x] = p.group[x]
<1> DEFINE q == RemoveGroup(p, g)
<1>1. /\ p \in Shape /\ p.group \in [Groups -> Group] /\ p.group[g] \in Group
      /\ p.idle_socket_count_ \in Nat /\ p.connecting_socket_count_ \in Nat
      /\ p.handed_out_socket_count_ \in Nat
  BY GoodTypes
<1>2. /\ p.group[g].active = 0 /\ Len(p.group[g].idle) = 0 /\ NumJobs(p.group[g]) = 0
      /\ p.group[g].pending = <<>>
  <2>1. Len(<<>>) = 0
    OBVIOUS
  <2> QED
    BY <2>1 DEF IsEmpty
<1>3. /\ NoGroup \in Group /\ NoGroup.pending = p.group[g].pending
      /\ NoGroup.active = p.group[g].active /\ NoGroup.backup = "none"
      /\ Len(NoGroup.idle) = Len(p.group[g].idle) + 0
      /\ NumJobs(NoGroup) = NumJobs(p.group[g]) + 0
  <2>1. /\ NoGroup \in Group /\ NoGroup.pending = <<>> /\ NoGroup.active = 0
        /\ NoGroup.backup = "none" /\ Len(NoGroup.idle) = 0 /\ NumJobs(NoGroup) = 0
    BY NothingInIt
  <2>2. 0 = 0 + 0
    OBVIOUS
  <2> QED
    BY <1>2, <2>1, <2>2
<1>4. q = Put(p, g, NoGroup, p.idle_socket_count_ + 0, p.connecting_socket_count_ + 0,
              p.handed_out_socket_count_)
  <2>1. /\ p.idle_socket_count_ + 0 = p.idle_socket_count_
        /\ p.connecting_socket_count_ + 0 = p.connecting_socket_count_
    BY <1>1
  <2>2. q = [p EXCEPT !.group[g] = NoGroup]
    BY DEF RemoveGroup
  <2> HIDE DEF q
  <2> QED
    BY <1>1, <2>1, <2>2 DEF Put, Shape
<1> HIDE DEF q
<1>5. Becomes(p, g, NoGroup, q, 0, 0)
  BY <1>3, <1>4 DEF Becomes
<1>6. RoomFor(p, g, 0 + 0) /\ More(g, due, run, due, run)
  BY DEF RoomFor, More
<1>7. SoundLists(NoGroup, p.generation, g, due)
  BY NothingSound
<1>8. Good(q, busy, due, run) /\ Same(p, q) /\ Became(p, g, NoGroup, q, 0, 0)
  BY <1>3, <1>5, <1>6, <1>7, PutGood
<1>9. TotalSockets(q) = TotalSockets(p)
  <2>1. TotalSockets(q) = TotalSockets(p) + 0 + 0 /\ TotalSockets(p) \in Nat
    BY <1>1, <1>8 DEF Became, TotalSockets
  <2> QED
    BY <2>1
<1>10. q.socket = p.socket /\ \A x \in Groups \ {g} : q.group[x] = p.group[x]
  BY <1>8 DEF Became
<1> QED
  BY <1>8, <1>9, <1>10 DEF q

\* Whether or not it is empty.
LEMMA TidyGood ==
    ASSUME NEW p, NEW busy, NEW due, NEW run, Good(p, busy, due, run), NEW g \in Groups
    PROVE  LET q == RemoveIfEmpty(p, g) IN
           /\ Good(q, busy, due, run) /\ Same(p, q) /\ q.socket = p.socket
           /\ TotalSockets(q) = TotalSockets(p)
           /\ \A x \in Groups \ {g} : q.group[x] = p.group[x]
<1>1. CASE IsEmpty(p.group[g])
  BY <1>1, RemovedGood DEF RemoveIfEmpty
<1>2. CASE ~IsEmpty(p.group[g])
  BY <1>2 DEF RemoveIfEmpty, Same
<1> QED
  BY <1>1, <1>2

\* The elements of s at the places in keep.
Kept(s, keep) ==
    [i \in 1..Cardinality(keep) |-> s[CHOOSE k \in keep : Cardinality({j \in keep : j <= k}) = i]]

\* The places in keep are numbered by their ranks.
LEMMA Ranks ==
    ASSUME NEW n \in Nat, NEW keep \in SUBSET (1..n)
    PROVE  /\ IsFiniteSet(keep) /\ Cardinality(keep) \in 0..n
           /\ \A i \in 1..Cardinality(keep) :
                 \E k \in keep : Cardinality({j \in keep : j <= k}) = i
<1> DEFINE below(k) == {j \in keep : j <= k}
           m == Cardinality(keep)
           rank == [k \in keep |-> Cardinality(below(k))]
<1>1. IsFiniteSet(keep) /\ m \in Nat /\ m <= n
  <2>1. IsFiniteSet(1..n) /\ Cardinality(1..n) = n
    BY FS_Interval
  <2> QED
    BY <2>1, FS_Subset, FS_CardinalityType
<1>2. ASSUME NEW k \in keep
      PROVE  /\ IsFiniteSet(below(k)) /\ Cardinality(below(k)) \in 1..m
  <2>1. below(k) \in SUBSET keep /\ k \in below(k)
    OBVIOUS
  <2> HIDE DEF below
  <2>2. /\ IsFiniteSet(below(k)) /\ Cardinality(below(k)) <= m
        /\ Cardinality(below(k)) \in Nat /\ Cardinality(below(k)) # 0
    BY <1>1, <2>1, FS_Subset, FS_CardinalityType, FS_EmptySet
  <2> QED
    BY <1>1, <2>2
<1>3. ASSUME NEW a \in keep, NEW b \in keep, a < b
      PROVE  Cardinality(below(a)) # Cardinality(below(b))
  <2>1. below(a) \in SUBSET below(b) /\ b \in below(b) /\ b \notin below(a)
    <3>1. \A x \in keep : x \in Int
      OBVIOUS
    <3>2. ~(b <= a) /\ b <= b /\ \A j \in keep : j <= a => j <= b
      BY <1>3, <3>1
    <3> QED
      BY <3>2
  <2> HIDE DEF below
  <2>2. below(a) # below(b)
    BY <2>1
  <2> QED
    BY <1>2, <2>1, <2>2, FS_Subset
<1>4. rank \in Injection(keep, 1..m)
  <2>1. rank \in [keep -> 1..m]
    BY <1>2
  <2>2. \A a, b \in keep : rank[a] = rank[b] => a = b
    <3>1. \A a, b \in keep : a < b \/ b < a \/ a = b
      OBVIOUS
    <3> QED
      BY <1>3, <3>1
  <2> HIDE DEF rank
  <2> QED
    BY <2>1, <2>2 DEF Injection, IsInjective
<1>5. IsFiniteSet(1..m) /\ Cardinality(1..m) = m
  BY <1>1, FS_Interval
<1> HIDE DEF rank
<1>6. rank \in Surjection(keep, 1..m)
  BY <1>4, <1>5, FS_Injection
<1>7. \A i \in 1..m : \E k \in keep : rank[k] = i
  BY <1>6 DEF Surjection
<1> QED
  BY <1>1, <1>7 DEF rank

\* They make a sequence as long as there are places.
LEMMA KeptIdle ==
    ASSUME NEW s \in Seq(Nat), NEW keep \in SUBSET (1..Len(s))
    PROVE  /\ Kept(s, keep) \in Seq(Nat) /\ Len(Kept(s, keep)) = Cardinality(keep)
           /\ Cardinality(keep) \in 0..Len(s)
           /\ \A i \in 1..Cardinality(keep) : \E k \in 1..Len(s) : Kept(s, keep)[i] = s[k]
<1> DEFINE m == Cardinality(keep)
           nth(i) == CHOOSE k \in keep : Cardinality({j \in keep : j <= k}) = i
<1>1. Len(s) \in Nat /\ m \in 0..Len(s)
  BY Ranks
<1>2. ASSUME NEW i \in 1..m
      PROVE  nth(i) \in keep
  <2>1. \E k \in keep : Cardinality({j \in keep : j <= k}) = i
    BY <1>1, Ranks
  <2> QED
    BY <2>1
<1>3. ASSUME NEW i \in 1..m
      PROVE  nth(i) \in 1..Len(s) /\ s[nth(i)] \in Nat
  <2>1. nth(i) \in keep
    BY <1>2
  <2> HIDE DEF nth
  <2>2. nth(i) \in 1..Len(s)
    BY <2>1
  <2> QED
    BY <2>2
<1>4. Kept(s, keep) = [i \in 1..m |-> s[nth(i)]]
  BY DEF Kept
<1> HIDE DEF m, nth
<1>5. /\ [i \in 1..m |-> s[nth(i)]] \in Seq(Nat) /\ Len([i \in 1..m |-> s[nth(i)]]) = m
  BY <1>1, <1>3
<1> QED
  BY <1>1, <1>3, <1>4, <1>5 DEF m

\* Some of the idle sockets are closed.
LEMMA KeepIdleGood ==
    ASSUME NEW p, NEW busy, NEW due, NEW run, Good(p, busy, due, run), NEW g \in Groups,
           NEW keep \in SUBSET (1..Len(p.group[g].idle))
    PROVE  LET q == KeepIdle(p, g, keep) IN
           /\ Good(q, busy, due, run) /\ Same(p, q) /\ q.socket = p.socket
           /\ q.group[g].exists = p.group[g].exists
           /\ Len(q.group[g].idle) = Cardinality(keep)
           /\ Cardinality(keep) \in 0..Len(p.group[g].idle)
           /\ Became(p, g, q.group[g], q, Cardinality(keep) - Len(p.group[g].idle), 0)
<1> DEFINE i == p.group[g].idle
           t == Kept(i, keep)
           m == Cardinality(keep)
           n == Len(i)
           G == [p.group[g] EXCEPT !.idle = t]
           q == KeepIdle(p, g, keep)
<1>1. /\ p \in Shape /\ p.group \in [Groups -> Group] /\ p.group[g] \in Group
      /\ p.idle_socket_count_ \in Nat /\ p.connecting_socket_count_ \in Nat
      /\ p.handed_out_socket_count_ \in Nat
      /\ SoundGroup(p.group[g], p.generation, g, due)
  BY GoodTypes
<1>2. i \in Seq(Nat) /\ n \in Nat
  BY <1>1, GroupFields
<1>3. /\ t \in Seq(Nat) /\ Len(t) = m /\ m \in 0..n
      /\ \A k \in 1..m : \E l \in 1..n : t[k] = i[l]
  BY <1>2, KeptIdle
<1>4. q = [p EXCEPT !.group[g].idle = t, !.idle_socket_count_ = @ - (n - m)]
  BY DEF KeepIdle, Kept
<1> HIDE DEF t, m, q
<1>5. /\ G \in Group /\ G.pending = p.group[g].pending /\ G.active = p.group[g].active
      /\ G.jobs = p.group[g].jobs /\ G.backup = p.group[g].backup
      /\ G.exists = p.group[g].exists /\ G.idle = t
  BY <1>1, <1>3 DEF Group
<1>6. /\ p.idle_socket_count_ - (n - m) = p.idle_socket_count_ + (m - n)
      /\ p.connecting_socket_count_ + 0 = p.connecting_socket_count_
      /\ m = n + (m - n) /\ m - n \in Int /\ m - n <= 0 /\ m - n + 0 = m - n
  <2> DEFINE a == p.idle_socket_count_
             b == p.connecting_socket_count_
  <2>1. a \in Nat /\ b \in Nat
    BY <1>1
  <2> HIDE DEF a, b, n
  <2>2. a - (n - m) = a + (m - n) /\ b + 0 = b
    BY <1>2, <1>3, <2>1
  <2>3. m = n + (m - n) /\ m - n \in Int /\ m - n <= 0 /\ m - n + 0 = m - n
    BY <1>2, <1>3
  <2> QED
    BY <2>2, <2>3 DEF a, b
<1>7. q = Put(p, g, G, p.idle_socket_count_ + (m - n), p.connecting_socket_count_ + 0,
              p.handed_out_socket_count_)
  <2> HIDE DEF n
  <2>1. q = [p EXCEPT !.group = [p.group EXCEPT ![g] = G],
                      !.idle_socket_count_ = p.idle_socket_count_ - (n - m)]
    BY <1>1, <1>4 DEF Shape
  <2> HIDE DEF G
  <2> QED
    BY <1>1, <1>6, <2>1 DEF Put, Shape
<1>8. NumJobs(G) = NumJobs(p.group[g]) + 0
  <2>1. NumJobs(G) = NumJobs(p.group[g])
    BY <1>5 DEF NumJobs
  <2> QED
    BY <1>1, <2>1, GroupNumbers
<1>9. SoundLists(G, p.generation, g, due)
  <2>1. SoundLists(p.group[g], p.generation, g, due)
    BY <1>1 DEF SoundGroup
  <2>2. \A k \in 1..n : i[k] = p.generation
    BY <2>1 DEF SoundLists
  <2>3. \A k \in 1..Len(G.idle) : G.idle[k] = p.generation
    BY <1>3, <1>5, <2>2
  <2>4. ~G.exists => G = NoGroup
    <3> SUFFICES ASSUME ~p.group[g].exists PROVE G = NoGroup
      BY <1>5
    <3>1. p.group[g] = NoGroup
      BY <2>1 DEF SoundLists
    <3>2. NoGroup.idle = <<>> /\ Len(NoGroup.idle) = 0 /\ NoGroup \in Group
      BY NothingInIt
    <3>3. m = 0
      BY <1>3, <3>1, <3>2
    <3>4. t = <<>>
      BY <1>3, <3>3
    <3>5. NoGroup = [NoGroup EXCEPT !.idle = <<>>]
      BY <3>2 DEF Group
    <3> QED
      BY <3>1, <3>4, <3>5
  <2>5. NumJobs(G) = NumJobs(p.group[g])
    BY <1>5 DEF NumJobs
  <2> HIDE DEF G
  <2> QED
    BY <1>5, <2>1, <2>3, <2>4, <2>5 DEF SoundLists
<1>10. G.backup = "running" => g \in run
  BY <1>5 DEF Good, GroupsSound
<1>11. /\ G \in Group /\ G.pending = p.group[g].pending /\ G.active = p.group[g].active
       /\ Len(G.idle) = n + (m - n)
  BY <1>3, <1>5, <1>6
<1> HIDE DEF G
<1> DEFINE d == m - n
<1>12. Becomes(p, g, G, q, d, 0)
  BY <1>7, <1>8, <1>11 DEF Becomes
<1>13. RoomFor(p, g, d + 0) /\ More(g, due, run, due, run) /\ d \in Int
  BY <1>6 DEF RoomFor, More
<1> HIDE DEF d
<1>14. Good(q, busy, due, run) /\ Same(p, q) /\ Became(p, g, G, q, d, 0)
  BY <1>9, <1>10, <1>11, <1>12, <1>13, PutGood
<1>15. q.socket = p.socket /\ q.group[g] = G
  BY <1>14 DEF Became
<1>16. Len(q.group[g].idle) = m /\ q.group[g].exists = p.group[g].exists
  BY <1>3, <1>5, <1>15
<1> QED
  BY <1>3, <1>14, <1>15, <1>16 DEF q, d, m, n

\* s is longer by d than t.
Longer(s, t, d) == Len(s) = Len(t) + d

JobsIn(J) == Len(J["unused"]) + Len(J["used"])
MoreJobs(K, J, d) == JobsIn(K) = JobsIn(J) + d

\* The jobs of one kind change, and with them their number.
LEMMA JobsChange ==
    ASSUME NEW J \in [JobKinds -> Seq(Nat)], NEW k \in JobKinds, NEW s \in Seq(Nat),
           NEW d \in Int, Longer(s, J[k], d),
           NEW K \in [JobKinds -> Seq(Nat)], K[k] = s, \A x \in JobKinds \ {k} : K[x] = J[x]
    PROVE  MoreJobs(K, J, d)
<1> DEFINE a == Len(J["unused"])
           b == Len(J["used"])
           x == Len(K["unused"])
           y == Len(K["used"])
<1>2. a \in Nat /\ b \in Nat
  <2>1. J["unused"] \in Seq(Nat) /\ J["used"] \in Seq(Nat)
    BY DEF JobKinds
  <2> QED
    BY <2>1
<1>3. \/ k = "unused" /\ x = a + d /\ y = b
      \/ k = "used" /\ x = a /\ y = b + d
  BY DEF JobKinds, Longer
<1> HIDE DEF a, b, x, y
<1>4. x + y = a + b + d
  BY <1>2, <1>3
<1> QED
  BY <1>4 DEF MoreJobs, JobsIn, a, b, x, y

\* A group with other jobs of a kind, and its backup timer perhaps.
WithJobs(G, k, s, backup) == [G EXCEPT !.jobs = [G.jobs EXCEPT ![k] = s], !.backup = backup]

\* Its fields.
LEMMA WithJobsFields ==
    ASSUME NEW G \in Group, NEW k \in JobKinds, NEW s \in Seq(Nat), NEW d \in Int,
           Longer(s, G.jobs[k], d), NEW backup \in {"none", "posted", "running"}
    PROVE  LET H == WithJobs(G, k, s, backup) IN
           /\ H \in Group /\ H.pending = G.pending /\ H.active = G.active /\ H.idle = G.idle
           /\ H.exists = G.exists /\ H.backup = backup /\ H.jobs[k] = s
           /\ \A x \in JobKinds \ {k} : H.jobs[x] = G.jobs[x]
           /\ NumJobs(H) = NumJobs(G) + d /\ Len(H.idle) = Len(G.idle) + 0
<1> DEFINE J == G.jobs
           K == [J EXCEPT ![k] = s]
           H == WithJobs(G, k, s, backup)
<1>1. J \in [JobKinds -> Seq(Nat)]
  BY GroupFields
<1>2. Longer(s, J[k], d)
  OBVIOUS
<1>3. H = [G EXCEPT !.jobs = K, !.backup = backup]
  BY DEF WithJobs
<1>4. NumJobs(G) = JobsIn(J)
  BY DEF NumJobs, JobsIn
<1>5. /\ K \in [JobKinds -> Seq(Nat)] /\ K[k] = s
      /\ \A x \in JobKinds \ {k} : K[x] = J[x]
  BY <1>1
<1> HIDE DEF J, K, H
<1>9. MoreJobs(K, J, d)
  BY <1>1, <1>2, <1>5, JobsChange
<1>6. /\ H \in Group /\ H.pending = G.pending /\ H.active = G.active /\ H.idle = G.idle
      /\ H.exists = G.exists /\ H.backup = backup /\ H.jobs = K
  BY <1>3, <1>5 DEF Group
<1>7. NumJobs(H) = NumJobs(G) + d
  <2>1. NumJobs(H) = JobsIn(K)
    BY <1>6 DEF NumJobs, JobsIn
  <2> QED
    BY <1>4, <1>9, <2>1 DEF MoreJobs
<1>8. Len(H.idle) = Len(G.idle) + 0
  BY <1>6, GroupNumbers
<1> QED
  BY <1>5, <1>6, <1>7, <1>8 DEF H, J

\* The pool then.
ChangesJobs(p, g, k, s, d, backup, q) ==
    q = Put(p, g, WithJobs(p.group[g], k, s, backup), p.idle_socket_count_,
            p.connecting_socket_count_ + d, p.handed_out_socket_count_)

\* It has d more jobs of the kind.
JobsGrow(p, g, k, d, q) ==
    \E s \in Seq(Nat), backup \in {"none", "posted", "running"} :
       Longer(s, p.group[g].jobs[k], d) /\ ChangesJobs(p, g, k, s, d, backup, q)

\* All of that generation.
Fresh(s, generation) == \A i \in 1..Len(s) : s[i] = generation

\* The timer has a job and a request.
Justified(p, g, d, backup, due) ==
    backup # "none" => NumJobs(p.group[g]) + d > 0 /\ (p.group[g].pending # <<>> \/ g \in due)

\* One kind of jobs changes by at most one, for which there is room.
LEMMA JobsGood ==
    ASSUME NEW p, NEW busy, NEW due, NEW run, Good(p, busy, due, run), NEW after,
           NEW g \in Groups, NEW k \in JobKinds, NEW s \in Seq(Nat), NEW d \in Int,
           Longer(s, p.group[g].jobs[k], d),
           NEW backup \in {"none", "posted", "running"}, NEW q,
           ChangesJobs(p, g, k, s, d, backup, q), Justified(p, g, d, backup, after),
           Fresh(s, p.generation), p.group[g].exists, RoomFor(p, g, d), More(g, due, run, after, run),
           backup = "running" => g \in run
    PROVE  /\ Good(q, busy, after, run) /\ Same(p, q) /\ q.socket = p.socket
           /\ q.group[g].exists /\ q.group[g].jobs[k] = s
           /\ Became(p, g, q.group[g], q, 0, d)
<1> DEFINE G == p.group[g]
           H == WithJobs(G, k, s, backup)
<1>1. /\ p \in Shape /\ G \in Group /\ SoundGroup(G, p.generation, g, due)
      /\ p.idle_socket_count_ \in Nat
  BY GoodTypes
<1>2. Longer(s, G.jobs[k], d)
  OBVIOUS
<1>3. /\ G.exists /\ G.pending = p.group[g].pending
      /\ backup # "none" => NumJobs(G) + d > 0 /\ (G.pending # <<>> \/ g \in after)
  BY DEF Justified
<1>4. /\ q = Put(p, g, H, p.idle_socket_count_ + 0, p.connecting_socket_count_ + d,
                 p.handed_out_socket_count_)
  <2>1. p.idle_socket_count_ + 0 = p.idle_socket_count_
    BY <1>1
  <2> QED
    BY <2>1 DEF ChangesJobs
<1> HIDE DEF G, H
<1>5. /\ H \in Group /\ H.pending = G.pending /\ H.active = G.active /\ H.idle = G.idle
      /\ H.exists = G.exists /\ H.backup = backup /\ H.jobs[k] = s
      /\ \A x \in JobKinds \ {k} : H.jobs[x] = G.jobs[x]
      /\ NumJobs(H) = NumJobs(G) + d /\ Len(H.idle) = Len(G.idle) + 0
  BY <1>1, <1>2, WithJobsFields DEF H
<1>6. Becomes(p, g, H, q, 0, d)
  BY <1>4, <1>5 DEF Becomes, G
<1>7. RoomFor(p, g, 0 + d)
  <2>1. 0 + d = d
    OBVIOUS
  <2> QED
    BY <2>1
<1>9. SoundLists(H, p.generation, g, after)
  <2>1. SoundLists(G, p.generation, g, due)
    BY <1>1 DEF SoundGroup
  <2>2. \A x \in JobKinds : \A i \in 1..Len(H.jobs[x]) : H.jobs[x][i] = p.generation
    <3> TAKE x \in JobKinds
    <3>1. CASE x = k
      BY <1>5, <3>1 DEF Fresh
    <3>2. CASE x # k
      BY <1>5, <2>1, <3>2 DEF SoundLists
    <3> QED
      BY <3>1, <3>2
  <2>3. H.backup # "none" => NumJobs(H) > 0 /\ (H.pending # <<>> \/ g \in after)
    BY <1>3, <1>5
  <2> QED
    BY <1>3, <1>5, <2>1, <2>2, <2>3 DEF SoundLists
<1>10. Good(q, busy, after, run) /\ Same(p, q) /\ Became(p, g, H, q, 0, d)
  BY <1>5, <1>6, <1>7, <1>9, PutGood
<1>11. q.socket = p.socket /\ q.group[g] = H
  BY <1>10 DEF Became
<1> QED
  BY <1>3, <1>5, <1>10, <1>11

\* The backup timer of a group is started.
StartTimer(p, g) == [p EXCEPT !.group[g] = StartBackupSocketTimer(p.group[g])]

\* AddJob, before which the backup timer may have been started for the request.
LEMMA AddJobGood ==
    ASSUME NEW p, NEW busy, NEW due, NEW run, Good(p, busy, due, run), NEW after,
           NEW g \in Groups, p.group[g].exists, Room(p, g), NEW k \in JobKinds,
           NEW t, t = p \/ (t = StartTimer(p, g) /\ (p.group[g].pending # <<>> \/ g \in after)),
           More(g, due, run, after, run), g \in due => g \in after
    PROVE  LET q == AddJob(t, g, k) IN
           /\ Good(q, busy, after, run) /\ Same(p, q) /\ q.socket = p.socket
           /\ q.group[g].exists /\ Len(q.group[g].jobs[k]) \in DOMAIN q.group[g].jobs[k]
           /\ JobsGrow(p, g, k, 1, q)
<1> DEFINE G == p.group[g]
           s == Append(G.jobs[k], p.generation)
           timed == t = StartTimer(p, g) /\ (G.pending # <<>> \/ g \in after)
           backup == IF timed /\ G.backup = "none" THEN "posted" ELSE G.backup
           q == AddJob(t, g, k)
<1>1. /\ p \in Shape /\ p.group \in [Groups -> Group] /\ G \in Group /\ p.generation \in Nat
      /\ p.idle_socket_count_ \in Nat /\ p.connecting_socket_count_ \in Nat
      /\ p.handed_out_socket_count_ \in Nat
      /\ SoundGroup(G, p.generation, g, due)
  BY GoodTypes
<1>2. /\ s \in Seq(Nat) /\ Longer(s, G.jobs[k], 1) /\ Len(s) \in DOMAIN s
      /\ Fresh(s, p.generation)
  <2> DEFINE old == G.jobs[k]
  <2>1. old \in Seq(Nat) /\ \A i \in 1..Len(old) : old[i] = p.generation
    BY <1>1, GroupFields DEF SoundGroup, SoundLists
  <2>2. s = Append(old, p.generation)
    OBVIOUS
  <2> HIDE DEF old, s
  <2>3. /\ s \in Seq(Nat) /\ Len(s) = Len(old) + 1
        /\ \A i \in 1..Len(old) + 1 : s[i] = IF i = Len(old) + 1 THEN p.generation ELSE old[i]
    BY <1>1, <2>1, <2>2
  <2>4. Len(old) \in Nat /\ DOMAIN s = 1..Len(s) /\ Len(s) \in 1..Len(s)
    BY <2>1, <2>3
  <2>5. Fresh(s, p.generation)
    BY <2>1, <2>3, <2>4, SMTT(30) DEF Fresh
  <2>6. Longer(s, old, 1)
    BY <2>3 DEF Longer
  <2> QED
    BY <2>3, <2>4, <2>5, <2>6 DEF old
<1>3. backup \in {"none", "posted", "running"}
  BY <1>1 DEF Group
<1>4. ChangesJobs(p, g, k, s, 1, backup, q)
  <2> SUFFICES q = Put(p, g, WithJobs(G, k, s, backup), p.idle_socket_count_,
                       p.connecting_socket_count_ + 1, p.handed_out_socket_count_)
    BY DEF ChangesJobs
  <2> DEFINE J == [G.jobs EXCEPT ![k] = s]
  <2>1. CASE timed /\ G.backup = "none"
    <3>1. t = [p EXCEPT !.group[g] = [G EXCEPT !.backup = "posted"]]
      BY <2>1 DEF StartTimer, StartBackupSocketTimer
    <3>2. q = [p EXCEPT !.group = [p.group EXCEPT ![g] = [G EXCEPT !.backup = "posted", !.jobs = J]],
                        !.connecting_socket_count_ = @ + 1]
      <4> DEFINE H == [G EXCEPT !.backup = "posted"]
      <4>1. t = [p EXCEPT !.group = [p.group EXCEPT ![g] = H]]
        BY <3>1
      <4>2. /\ t.group[g] = H /\ H.jobs = G.jobs /\ t.generation = p.generation
            /\ t.connecting_socket_count_ = p.connecting_socket_count_
        BY <1>1, <4>1 DEF Shape, Group
      <4>3. q = [t EXCEPT !.connecting_socket_count_ = @ + 1,
                          !.group = [t.group EXCEPT ![g] = [t.group[g] EXCEPT !.jobs =
                               [t.group[g].jobs EXCEPT ![k] = Append(@, t.generation)]]]]
        BY DEF AddJob
      <4>4. q = [t EXCEPT !.connecting_socket_count_ = @ + 1,
                          !.group = [t.group EXCEPT ![g] = [H EXCEPT !.jobs = J]]]
        BY <4>2, <4>3
      <4>5. [H EXCEPT !.jobs = J] = [G EXCEPT !.backup = "posted", !.jobs = J]
        BY <1>1 DEF Group
      <4>6. [t.group EXCEPT ![g] = [H EXCEPT !.jobs = J]] =
            [p.group EXCEPT ![g] = [G EXCEPT !.backup = "posted", !.jobs = J]]
        BY <1>1, <4>1, <4>5 DEF Shape
      <4> QED
        BY <1>1, <4>1, <4>4, <4>6 DEF Shape
    <3>3. WithJobs(G, k, s, backup) = [G EXCEPT !.backup = "posted", !.jobs = J]
      BY <1>1, <2>1 DEF WithJobs, Group
    <3> HIDE DEF q
    <3> QED
      BY <1>1, <3>2, <3>3 DEF Put, Shape
  <2>2. CASE ~(timed /\ G.backup = "none")
    <3>1. t = p
      <4>1. p = [p EXCEPT !.group[g] = G]
        BY <1>1 DEF Shape
      <4> QED
        BY <2>2, <4>1 DEF StartTimer, StartBackupSocketTimer
    <3>2. q = [p EXCEPT !.group = [p.group EXCEPT ![g] = [G EXCEPT !.jobs = J]],
                        !.connecting_socket_count_ = @ + 1]
      BY <1>1, <3>1 DEF AddJob, Shape, Group
    <3>3. WithJobs(G, k, s, backup) = [G EXCEPT !.jobs = J]
      BY <1>1, <2>2 DEF WithJobs, Group
    <3> HIDE DEF q
    <3> QED
      BY <1>1, <3>2, <3>3 DEF Put, Shape
  <2> QED
    BY <2>1, <2>2
<1>5. NumJobs(G) + 1 > 0
  <2>1. NumJobs(G) \in Nat
    BY <1>1, GroupNumbers
  <2> QED
    BY <2>1
<1>6. (backup = "running" => g \in run) /\ Justified(p, g, 1, backup, after)
  BY <1>1, <1>5 DEF Good, GroupsSound, SoundGroup, SoundLists, Justified
<1>7. RoomFor(p, g, 1)
  BY DEF RoomFor
<1> HIDE DEF s, backup, q
<1>8. /\ Good(q, busy, after, run) /\ Same(p, q) /\ q.socket = p.socket
      /\ q.group[g].exists /\ q.group[g].jobs[k] = s
  <2>1. /\ s \in Seq(Nat) /\ 1 \in Int /\ Longer(s, p.group[g].jobs[k], 1)
        /\ ChangesJobs(p, g, k, s, 1, backup, q) /\ Justified(p, g, 1, backup, after)
        /\ Fresh(s, p.generation) /\ RoomFor(p, g, 1)
        /\ backup = "running" => g \in run
    BY <1>2, <1>3, <1>4, <1>6, <1>7
  <2> QED
    BY <1>3, <2>1, JobsGood
<1>9. JobsGrow(p, g, k, 1, q)
  BY <1>2, <1>3, <1>4 DEF JobsGrow
<1> QED
  BY <1>2, <1>8, <1>9 DEF q

\* A group with one socket less has room for another.
LEMMA RoomAfter ==
    ASSUME NEW p, NEW busy, NEW due, NEW run, Good(p, busy, due, run), NEW g \in Groups,
           NEW q, NEW G, NEW di \in Int, NEW dj \in Int, di + dj < 0, Became(p, g, G, q, di, dj)
    PROVE  Room(q, g)
<1> DEFINE s == NumActiveSocketSlots(p.group[g])
           n == TotalSockets(p)
<1>1. /\ p.group[g] \in Group /\ SoundGroup(p.group[g], p.generation, g, due) /\ Limited(p)
      /\ p.idle_socket_count_ \in Nat /\ p.connecting_socket_count_ \in Nat
      /\ p.handed_out_socket_count_ \in Nat
  BY GoodTypes
<1>2. s \in Nat /\ n \in Nat
  <2>1. s \in Nat
    BY <1>1, GroupNumbers
  <2>2. n \in Nat
    BY <1>1 DEF TotalSockets
  <2> QED
    BY <2>1, <2>2
<1>3. NoneIgnores => s <= MaxPerGroup /\ n <= MaxSockets
  BY <1>1 DEF SoundGroup, Limited
<1>4. /\ q.group[g] = G /\ TotalSockets(q) = n + di + dj
      /\ NumActiveSocketSlots(G) = s + di + dj
  BY DEF Became
<1>5. MaxPerGroup \in Nat /\ MaxSockets \in Nat
  BY LimitAssumption
<1> HIDE DEF s, n
<1>6. NoneIgnores => s + di + dj < MaxPerGroup /\ n + di + dj < MaxSockets
  BY <1>2, <1>3, <1>5
<1> QED
  BY <1>4, <1>6 DEF Room

\* A job ends: the group has room for a socket instead.
LEMMA RemoveJobGood ==
    ASSUME NEW p, NEW busy, NEW due, NEW run, Good(p, busy, due, run),
           NEW g \in Groups, NEW k \in JobKinds, NEW i \in DOMAIN p.group[g].jobs[k]
    PROVE  LET q == RemoveConnectJob(p, g, k, i) IN
           /\ Good(q, busy, due, run) /\ Same(p, q) /\ q.socket = p.socket
           /\ q.group[g].exists /\ Room(q, g) /\ p.group[g].jobs[k][i] = p.generation
           /\ JobsGrow(p, g, k, -1, q)
<1> DEFINE G == p.group[g]
           t == G.jobs[k]
           s == RemoveAt(t, i)
           H == [G EXCEPT !.jobs = [G.jobs EXCEPT ![k] = s]]
           backup == IF NumJobs(H) = 0 THEN "none" ELSE G.backup
           q == RemoveConnectJob(p, g, k, i)
<1>1. /\ p \in Shape /\ p.group \in [Groups -> Group] /\ G \in Group /\ p.generation \in Nat
      /\ p.idle_socket_count_ \in Nat /\ p.connecting_socket_count_ \in Nat
      /\ p.handed_out_socket_count_ \in Nat
      /\ SoundGroup(G, p.generation, g, due)
  BY GoodTypes
<1>2. t \in Seq(Nat) /\ i \in DOMAIN t /\ \A j \in 1..Len(t) : t[j] = p.generation
  BY <1>1, GroupFields DEF SoundGroup, SoundLists
<1>3. /\ s \in Seq(Nat) /\ Longer(s, t, -1) /\ Fresh(s, p.generation) /\ t[i] = p.generation
  <2> HIDE DEF t
  <2>1. /\ s \in Seq(Nat) /\ Len(s) = Len(t) - 1
        /\ \A j \in 1..Len(t) - 1 : s[j] = IF j < i THEN t[j] ELSE t[j + 1]
    BY <1>2, RemovedOne
  <2> HIDE DEF s
  <2>2. \A j \in 1..Len(t) - 1 : j \in 1..Len(t) /\ j + 1 \in 1..Len(t)
    BY <1>2
  <2>3. Fresh(s, p.generation)
    BY <1>2, <2>1, <2>2 DEF Fresh
  <2>4. Longer(s, t, -1)
    BY <1>2, <2>1 DEF Longer
  <2>5. i \in 1..Len(t)
    BY <1>2
  <2> QED
    BY <1>2, <2>1, <2>3, <2>4, <2>5
<1>4. G.exists
  <2>1. \A x \in JobKinds : Len(NoGroup.jobs[x]) = 0
    BY NothingInIt
  <2>2. Len(t) # 0
    BY <1>2
  <2> QED
    BY <1>1, <2>1, <2>2 DEF SoundGroup, SoundLists
<1> HIDE DEF t, s
<1>5. -1 \in Int /\ Longer(s, p.group[g].jobs[k], -1)
  BY <1>3 DEF t
<1>6. NumJobs(H) = NumJobs(G) + -1 /\ NumJobs(G) \in Nat
  <2>1. G.backup \in {"none", "posted", "running"}
    BY <1>1 DEF Group
  <2>2. H = WithJobs(G, k, s, G.backup)
    BY <1>1 DEF WithJobs, Group
  <2>3. ASSUME NEW d \in Int, d = -1
        PROVE  NumJobs(WithJobs(G, k, s, G.backup)) = NumJobs(G) + d
    <3>1. Longer(s, G.jobs[k], d)
      BY <1>5, <2>3
    <3> HIDE DEF G
    <3> QED
      BY <1>1, <1>3, <2>1, <3>1, WithJobsFields
  <2> QED
    BY <1>1, <1>5, <2>2, <2>3, GroupNumbers
<1>7. backup \in {"none", "posted", "running"}
  BY <1>1 DEF Group
<1>8. q = [p EXCEPT !.connecting_socket_count_ = @ - 1,
                    !.group[g] = IF NumJobs(H) = 0 THEN [H EXCEPT !.backup = "none"] ELSE H]
  <2>1. [p.group[g] EXCEPT !.jobs[k] = RemoveAt(@, i)] = H
    BY DEF s, t
  <2> QED
    BY <2>1 DEF RemoveConnectJob, CleanupBackupJob
<1>9. WithJobs(G, k, s, backup) = IF NumJobs(H) = 0 THEN [H EXCEPT !.backup = "none"] ELSE H
  BY <1>1 DEF WithJobs, Group
<1>10. ChangesJobs(p, g, k, s, -1, backup, q)
  <2> DEFINE c == p.connecting_socket_count_
  <2>1. p.connecting_socket_count_ - 1 = p.connecting_socket_count_ + -1
    <3>1. c \in Nat
      BY <1>1
    <3> HIDE DEF c
    <3>2. c - 1 = c + -1
      BY <3>1
    <3> QED
      BY <3>2 DEF c
  <2> DEFINE W == WithJobs(G, k, s, backup)
  <2>2. q = [p EXCEPT !.connecting_socket_count_ = p.connecting_socket_count_ + -1, !.group[g] = W]
    BY <1>8, <1>9, <2>1
  <2>3. ChangesJobs(p, g, k, s, -1, backup, q) <=>
          q = Put(p, g, W, p.idle_socket_count_, p.connecting_socket_count_ + -1,
                  p.handed_out_socket_count_)
    BY DEF ChangesJobs
  <2> HIDE DEF W, q
  <2> QED
    BY <1>1, <2>2, <2>3 DEF Put, Shape
<1>11. (backup = "running" => g \in run) /\ Justified(p, g, -1, backup, due)
  <2>1. backup = "running" => g \in run
    BY DEF Good, GroupsSound
  <2>2. backup # "none" => NumJobs(G) + -1 > 0
    <3> DEFINE n == NumJobs(G)
    <3>1. n \in Nat /\ (backup # "none" => n + -1 # 0)
      BY <1>6
    <3> HIDE DEF n
    <3>2. n + -1 # 0 /\ n # 0 => n + -1 > 0
      BY <3>1
    <3>3. backup # "none" => n > 0
      BY <1>1 DEF SoundGroup, SoundLists, n
    <3> QED
      BY <3>1, <3>2, <3>3 DEF n
  <2> QED
    BY <1>1, <2>1, <2>2 DEF SoundGroup, SoundLists, Justified
<1>12. RoomFor(p, g, -1) /\ More(g, due, run, due, run)
  BY DEF RoomFor, More
<1> HIDE DEF backup, q
<1>13. /\ Good(q, busy, due, run) /\ Same(p, q) /\ q.socket = p.socket
       /\ q.group[g].exists /\ Became(p, g, q.group[g], q, 0, -1)
  BY <1>3, <1>4, <1>5, <1>7, <1>10, <1>11, <1>12, JobsGood
<1>14. Room(q, g)
  <2>1. 0 \in Int /\ 0 + -1 < 0
    OBVIOUS
  <2> QED
    BY <1>5, <1>13, <2>1, RoomAfter
<1>15. JobsGrow(p, g, k, -1, q)
  BY <1>3, <1>5, <1>7, <1>10 DEF JobsGrow
<1> QED
  BY <1>3, <1>13, <1>14, <1>15 DEF q, t

\* A preconnect is taken by a request.
LEMMA UseJobGood ==
    ASSUME NEW p, NEW busy, NEW due, NEW run, Good(p, busy, due, run),
           NEW g \in Groups, p.group[g].jobs["unused"] # <<>>
    PROVE  LET q == UsePreconnect(p, g) IN
           Good(q, busy, due, run) /\ Same(p, q) /\ q.socket = p.socket /\ q.group[g].exists
<1> DEFINE G == p.group[g]
           u == G.jobs["unused"]
           v == G.jobs["used"]
           J == [k \in JobKinds |-> IF k = "unused" THEN Tail(u) ELSE Append(v, Head(u))]
           H == [G EXCEPT !.jobs = J]
           q == UsePreconnect(p, g)
<1>1. /\ p \in Shape /\ p.group \in [Groups -> Group] /\ G \in Group /\ p.generation \in Nat
      /\ p.idle_socket_count_ \in Nat /\ p.connecting_socket_count_ \in Nat
      /\ p.handed_out_socket_count_ \in Nat
      /\ SoundGroup(G, p.generation, g, due)
  BY GoodTypes
<1>2. /\ u \in Seq(Nat) /\ v \in Seq(Nat) /\ u # <<>>
      /\ Fresh(u, p.generation) /\ Fresh(v, p.generation)
  BY <1>1, GroupFields DEF SoundGroup, SoundLists, Fresh, JobKinds
<1>3. NumJobs(G) = Len(u) + Len(v)
  BY DEF NumJobs
<1>4. G.exists
  <2>1. \A x \in JobKinds : Len(NoGroup.jobs[x]) = 0
    BY NothingInIt
  <2>2. Len(u) # 0
    BY <1>2
  <2> QED
    BY <1>1, <2>1, <2>2 DEF SoundGroup, SoundLists, JobKinds
<1>5. q = [p EXCEPT !.group[g].jobs = J]
  BY DEF UsePreconnect
<1> HIDE DEF u, v, q
<1>6. /\ Tail(u) \in Seq(Nat) /\ Append(v, Head(u)) \in Seq(Nat)
      /\ Fresh(Tail(u), p.generation) /\ Fresh(Append(v, Head(u)), p.generation)
      /\ Len(Tail(u)) + Len(Append(v, Head(u))) = Len(u) + Len(v)
  <2>1. /\ Len(u) \in Nat /\ Len(u) >= 1 /\ Len(v) \in Nat
        /\ Head(u) = u[1] /\ u[1] \in Nat /\ u[1] = p.generation
    BY <1>2 DEF Fresh
  <2>2. /\ Tail(u) \in Seq(Nat) /\ Len(Tail(u)) = Len(u) - 1
        /\ \A i \in 1..Len(u) - 1 : Tail(u)[i] = u[i + 1]
    BY <1>2, <2>1
  <2>3. /\ Append(v, Head(u)) \in Seq(Nat) /\ Len(Append(v, Head(u))) = Len(v) + 1
        /\ \A i \in 1..Len(v) + 1 :
              Append(v, Head(u))[i] = IF i = Len(v) + 1 THEN Head(u) ELSE v[i]
    <3>1. ASSUME NEW x \in Nat
          PROVE  /\ Append(v, x) \in Seq(Nat) /\ Len(Append(v, x)) = Len(v) + 1
                 /\ \A i \in 1..Len(v) + 1 :
                       Append(v, x)[i] = IF i = Len(v) + 1 THEN x ELSE v[i]
      BY <1>2
    <3>2. Head(u) \in Nat
      BY <2>1
    <3> QED
      BY <3>1, <3>2
  <2>4. Fresh(Tail(u), p.generation)
    BY <1>2, <2>1, <2>2 DEF Fresh
  <2>5. Fresh(Append(v, Head(u)), p.generation)
    BY <1>2, <2>1, <2>3, SMTT(40) DEF Fresh
  <2> QED
    BY <2>1, <2>2, <2>3, <2>4, <2>5
<1>7. /\ J \in [JobKinds -> Seq(Nat)] /\ J["unused"] = Tail(u)
      /\ J["used"] = Append(v, Head(u)) /\ \A k \in JobKinds : Fresh(J[k], p.generation)
  BY <1>6 DEF JobKinds
<1> HIDE DEF J
<1>8. /\ H \in Group /\ H.pending = G.pending /\ H.active = G.active /\ H.idle = G.idle
      /\ H.exists = G.exists /\ H.backup = G.backup /\ H.jobs = J
  BY <1>1, <1>7 DEF Group
<1>9. NumJobs(H) = NumJobs(G)
  BY <1>3, <1>6, <1>7, <1>8 DEF NumJobs
<1>10. q = Put(p, g, H, p.idle_socket_count_ + 0, p.connecting_socket_count_ + 0,
               p.handed_out_socket_count_)
  <2>1. /\ p.idle_socket_count_ + 0 = p.idle_socket_count_
        /\ p.connecting_socket_count_ + 0 = p.connecting_socket_count_
    BY <1>1
  <2>2. q = [p EXCEPT !.group[g] = H]
    BY <1>5
  <2> HIDE DEF H
  <2> QED
    BY <1>1, <2>1, <2>2 DEF Put, Shape
<1>11. SoundLists(H, p.generation, g, due)
  <2>1. \A k \in JobKinds : \A i \in 1..Len(H.jobs[k]) : H.jobs[k][i] = p.generation
    BY <1>7, <1>8 DEF Fresh
  <2> HIDE DEF H
  <2> QED
    BY <1>1, <1>4, <1>8, <1>9, <2>1 DEF SoundGroup, SoundLists
<1>12. Len(H.idle) = Len(G.idle) + 0 /\ NumJobs(H) = NumJobs(G) + 0
  BY <1>1, <1>8, <1>9, GroupNumbers
<1>13. H.backup = "running" => g \in run
  BY <1>8 DEF Good, GroupsSound
<1> HIDE DEF H
<1>14. Becomes(p, g, H, q, 0, 0)
  BY <1>8, <1>10, <1>12 DEF Becomes
<1>15. RoomFor(p, g, 0 + 0) /\ More(g, due, run, due, run)
  BY DEF RoomFor, More
<1>16. Good(q, busy, due, run) /\ Same(p, q) /\ Became(p, g, H, q, 0, 0)
  BY <1>8, <1>11, <1>13, <1>14, <1>15, PutGood
<1> QED
  BY <1>4, <1>8, <1>16 DEF Became, q

\* Only how many sockets of a group are handed out changes, by d.
ChangesActive(p, g, d, q) ==
    /\ q \in Shape
    /\ q.group = [p.group EXCEPT ![g] = [p.group[g] EXCEPT !.active = p.group[g].active + d]]
    /\ q.idle_socket_count_ = p.idle_socket_count_
    /\ q.connecting_socket_count_ = p.connecting_socket_count_
    /\ q.handed_out_socket_count_ = p.handed_out_socket_count_ + d
    /\ q.generation = p.generation

\* One more holds one, or one less.
HoldersFollow(p, g, d, q) ==
    /\ IsFiniteSet(Holders(q, g)) /\ Cardinality(Holders(q, g)) = p.group[g].active + d
    /\ \A x \in Groups \ {g} : Holders(q, x) = Holders(p, x)

\* The group is there, and there are so many more sockets.
BecameActive(p, g, d, q) ==
    /\ TotalSockets(q) = TotalSockets(p) + d
    /\ NumActiveSocketSlots(q.group[g]) = NumActiveSocketSlots(p.group[g]) + d

\* It is still the number of those that hold one.
LEMMA ActiveGood ==
    ASSUME NEW p, NEW busy, NEW due, NEW run, Good(p, busy, due, run),
           NEW g \in Groups, p.group[g].exists, NEW d \in Int, NEW q, ChangesActive(p, g, d, q),
           RoomFor(p, g, d), HoldersFollow(p, g, d, q)
    PROVE  /\ GroupsSound(q, due, run) /\ Counted(q) /\ Limited(q)
           /\ \A x \in Groups : q.group[x].pending = p.group[x].pending
           /\ BecameActive(p, g, d, q)
           /\ q.group[g].exists
<1> DEFINE G == p.group[g]
           m == G.active
           n == m + d
           s == NumActiveSocketSlots(G)
           i == Len(G.idle)
           j == NumJobs(G)
           H == [G EXCEPT !.active = n]
           a == p.idle_socket_count_
           b == p.connecting_socket_count_
           c == p.handed_out_socket_count_
<1>1. /\ p \in Shape /\ p.group \in [Groups -> Group] /\ G \in Group /\ p.generation \in Nat
      /\ a \in Nat /\ b \in Nat /\ c \in Nat
      /\ SoundGroup(G, p.generation, g, due) /\ Limited(p)
  BY GoodTypes
<1>2. i \in Nat /\ j \in Nat /\ m \in Nat /\ s = m + j + i /\ s \in Nat
  BY <1>1, GroupNumbers
<1>3. n = Cardinality(Holders(q, g)) /\ n \in Nat
  BY FS_CardinalityType DEF HoldersFollow
<1>4. /\ q \in Shape /\ q.group = [p.group EXCEPT ![g] = H] /\ q.generation = p.generation
      /\ q.idle_socket_count_ = a /\ q.connecting_socket_count_ = b
      /\ q.handed_out_socket_count_ = c + d
  BY DEF ChangesActive
<1>5. TotalSockets(p) = c + b + a /\ TotalSockets(q) = c + d + b + a
  BY <1>4 DEF TotalSockets
<1>6. n = m + d
  OBVIOUS
<1> HIDE DEF n
<1>7. /\ H \in Group /\ H.active = n /\ H.pending = G.pending /\ H.idle = G.idle
      /\ H.jobs = G.jobs /\ H.exists = G.exists /\ H.backup = G.backup
  BY <1>1, <1>3 DEF Group
<1>8. NumJobs(H) = j /\ Len(H.idle) = i
  BY <1>7 DEF NumJobs
<1> HIDE DEF i, j, s, m, H, a, b, c
<1>9. NumActiveSocketSlots(H) = n + j + i
  BY <1>7, <1>8, GroupNumbers
<1>10. NumActiveSocketSlots(H) = s + d /\ TotalSockets(q) = TotalSockets(p) + d
  BY <1>1, <1>2, <1>3, <1>5, <1>6, <1>9
<1>11. d <= 0 \/ (d = 1 /\ Room(p, g))
  BY DEF RoomFor
<1>12. SoundGroup(H, p.generation, g, due)
  <2>1. SoundLists(H, p.generation, g, due)
    BY <1>1, <1>7, <1>8 DEF SoundGroup, SoundLists, j
  <2>2. NoneIgnores => s <= MaxPerGroup /\ (d <= 0 \/ (d = 1 /\ s < MaxPerGroup))
    BY <1>1, <1>11 DEF SoundGroup, Room, s
  <2>3. MaxPerGroup \in Nat
    BY LimitAssumption
  <2>4. NoneIgnores => s + d <= MaxPerGroup
    BY <1>2, <2>2, <2>3
  <2> QED
    BY <1>10, <2>1, <2>4 DEF SoundGroup
<1>13. Limited(q)
  <2> DEFINE t == TotalSockets(p)
  <2>1. NoneIgnores => t <= MaxSockets /\ (d <= 0 \/ (d = 1 /\ t < MaxSockets))
    BY <1>1, <1>11 DEF Limited, Room
  <2>2. MaxSockets \in Nat /\ t \in Nat
    BY <1>1, <1>5, LimitAssumption
  <2> HIDE DEF t
  <2>3. NoneIgnores => t + d <= MaxSockets
    BY <2>1, <2>2
  <2> QED
    BY <1>10, <2>3 DEF Limited, t
<1>14. q.group[g] = H /\ \A x \in Groups : x # g => q.group[x] = p.group[x]
  BY <1>1, <1>4
<1>15. GroupsSound(p, due, run) /\ Counted(p)
  BY DEF Good
<1>16. Counted(q)
  <2>1. /\ q.idle_socket_count_ = a - i + i /\ q.connecting_socket_count_ = b - j + j
        /\ q.handed_out_socket_count_ = c - m + n
    BY <1>1, <1>2, <1>3, <1>4, <1>6
  <2>2. /\ q.idle_socket_count_ = p.idle_socket_count_ - Len(p.group[g].idle) + Len(H.idle)
        /\ q.connecting_socket_count_ =
               p.connecting_socket_count_ - NumJobs(p.group[g]) + NumJobs(H)
        /\ q.handed_out_socket_count_ =
               p.handed_out_socket_count_ - p.group[g].active + H.active
    BY <2>1, <1>7, <1>8 DEF a, b, c, i, j, m
  <2> QED
    BY <1>1, <1>4, <1>7, <1>15, <2>2, CountedStep
<1>17. GroupsSound(q, due, run)
  <2> SUFFICES ASSUME NEW x \in Groups
               PROVE  /\ SoundGroup(q.group[x], q.generation, x, due)
                      /\ q.group[x].active = Cardinality(Holders(q, x))
                      /\ q.group[x].backup = "running" => x \in run
    BY DEF GroupsSound
  <2>1. /\ SoundGroup(p.group[x], p.generation, x, due)
        /\ p.group[x].active = Cardinality(Holders(p, x))
        /\ p.group[x].backup = "running" => x \in run
    BY <1>15 DEF GroupsSound
  <2>2. CASE x = g
    BY <1>3, <1>4, <1>7, <1>12, <1>14, <2>1, <2>2
  <2>3. CASE x # g
    BY <1>4, <1>14, <2>1, <2>3 DEF HoldersFollow
  <2> QED
    BY <2>2, <2>3
<1>18. \A x \in Groups : q.group[x].pending = p.group[x].pending
  BY <1>7, <1>14
<1> QED
  BY <1>7, <1>10, <1>13, <1>14, <1>16, <1>17, <1>18 DEF BecameActive, s

\* What the handles other than h hold.
OthersKeep(p, h, q) == \A x \in Handles \ {h} : q.socket[x] = p.socket[x]

\* A handle that asks for a socket, or a preconnect.
Asking(p, g, h, busy) ==
    h = None \/ (h \in Handles /\ h \in busy /\ p.request[h].group = g /\ p.socket[h] = None)

\* Whoever holds a socket of the group of h counts in it.
LEMMA HoldersFinite ==
    ASSUME NEW p, NEW g
    PROVE  IsFiniteSet(Holders(p, g)) /\ Cardinality(Holders(p, g)) \in Nat
<1>1. Holders(p, g) \in SUBSET Handles
  BY DEF Holders
<1> QED
  BY <1>1, UserAssumption, FS_Subset, FS_CardinalityType

\* A socket is handed out to a handle that asks for it.
LEMMA HandOutGood ==
    ASSUME NEW p, NEW busy, NEW due, NEW run, Good(p, busy, due, run), NEW g \in Groups,
           p.group[g].exists, Room(p, g), NEW h, h # None, Asking(p, g, h, busy)
    PROVE  LET q == HandOutSocket(p, g, h, p.generation) IN
           /\ Good(q, busy, due, run) /\ Same(p, q) /\ q.socket[h] # None
           /\ OthersKeep(p, h, q) /\ q.group[g].exists
<1> DEFINE G == p.group[g]
           m == G.active
           H == [G EXCEPT !.active = m + 1]
           X == [p.group EXCEPT ![g] = H]
           k == [born |-> p.generation, id |-> p.generation]
           S == [p.socket EXCEPT ![h] = k]
           c == p.handed_out_socket_count_ + 1
           q == HandOutSocket(p, g, h, p.generation)
<1>1. /\ p \in Shape /\ p.group \in [Groups -> Group] /\ G \in Group /\ p.generation \in Nat
      /\ p.handed_out_socket_count_ \in Nat
  BY GoodTypes
<1>2. h \in Handles /\ h \in busy /\ p.request[h].group = g /\ p.socket[h] = None
  BY DEF Asking
<1>3. m \in Nat /\ m + 1 \in Nat
  <2>1. m \in Nat
    BY <1>1, GroupNumbers
  <2> HIDE DEF m
  <2> QED
    BY <2>1
<1>4. H \in Group
  BY <1>1, <1>3 DEF Group
<1>5. k \in Socket /\ k # None /\ k.born = k.id
  BY <1>1, SocketAssumption DEF Socket
<1>6. q = [p EXCEPT !.socket = S, !.handed_out_socket_count_ = c, !.group = X]
  BY DEF HandOutSocket
<1>21. c \in Nat
  BY <1>1, NatAdd
<1> HIDE DEF H, k, q, c
<1>7. X \in [Groups -> Group] /\ X[g] = H /\ \A x \in Groups : x # g => X[x] = p.group[x]
  BY <1>1, <1>4
<1>8. /\ S \in [Handles -> Socket \cup {None}] /\ S[h] = k
      /\ \A x \in Handles : x # h => S[x] = p.socket[x]
  BY <1>1, <1>2, <1>5 DEF Shape
<1> HIDE DEF X, S
<1>9. /\ q \in Shape /\ q.group = X /\ q.socket = S
      /\ q.idle_socket_count_ = p.idle_socket_count_
      /\ q.connecting_socket_count_ = p.connecting_socket_count_
      /\ q.handed_out_socket_count_ = c
      /\ q.generation = p.generation /\ q.request = p.request /\ q.callback = p.callback
      /\ q.posted = p.posted /\ q.initialized = p.initialized
  <2>1. p = [p EXCEPT !.generation = p.generation] /\ p \in Shape
    BY <1>1 DEF Shape
  <2>2. /\ q.group = X /\ q.socket = S /\ q.handed_out_socket_count_ = c
        /\ q.idle_socket_count_ = p.idle_socket_count_
        /\ q.connecting_socket_count_ = p.connecting_socket_count_
        /\ q.generation = p.generation /\ q.request = p.request /\ q.callback = p.callback
        /\ q.posted = p.posted /\ q.initialized = p.initialized
    BY <1>1, <1>6 DEF Shape
  <2>3. q \in Shape
    <3>1. q = [group |-> X, idle_socket_count_ |-> p.idle_socket_count_,
               connecting_socket_count_ |-> p.connecting_socket_count_,
               handed_out_socket_count_ |-> c, generation |-> p.generation,
               callback |-> p.callback, posted |-> p.posted, request |-> p.request,
               socket |-> S, initialized |-> p.initialized, wakeFailed |-> p.wakeFailed]
      BY <1>1, <1>6 DEF Shape
    <3>2. /\ p.idle_socket_count_ \in Int /\ p.connecting_socket_count_ \in Int
          /\ p.generation \in Nat /\ p.callback \in [Handles -> {"ok", "error", None}]
          /\ p.posted \in [Handles -> Nat] /\ p.request \in [Handles -> Request]
          /\ p.initialized \in [Handles -> BOOLEAN] /\ p.wakeFailed \in BOOLEAN
      BY <1>1 DEF Shape
    <3> QED
      BY <1>7, <1>8, <1>21, <3>1, <3>2 DEF Shape
  <2> QED
    BY <2>2, <2>3
<1>10. ChangesActive(p, g, 1, q)
  BY <1>9 DEF ChangesActive, X, H, m, G, c
<1>11. Holders(q, g) = Holders(p, g) \cup {h} /\ h \notin Holders(p, g)
  BY <1>2, <1>5, <1>8, <1>9 DEF Holders
<1>12. \A x \in Groups \ {g} : Holders(q, x) = Holders(p, x)
  BY <1>2, <1>5, <1>8, <1>9 DEF Holders
<1>13. G.active = Cardinality(Holders(p, g))
  BY DEF Good, GroupsSound
<1>14. HoldersFollow(p, g, 1, q)
  BY <1>11, <1>12, <1>13, HoldersFinite, FS_AddElement DEF HoldersFollow
<1>15. RoomFor(p, g, 1) /\ 1 \in Int
  BY DEF RoomFor
<1>16. /\ GroupsSound(q, due, run) /\ Counted(q) /\ Limited(q) /\ q.group[g].exists
       /\ \A x \in Groups : q.group[x].pending = p.group[x].pending
  BY <1>10, <1>14, <1>15, ActiveGood
<1>17. HandlesSound(q, busy)
  <2> SUFFICES ASSUME NEW x \in Handles
               PROVE  /\ IF x \in busy THEN BusyHandle(q, x) ELSE SoundHandle(q, x)
                      /\ q.socket[x] # None => q.socket[x].born = q.socket[x].id
                      /\ NoneIgnores => ~q.request[x].ignore
    BY DEF HandlesSound
  <2>1. /\ IF x \in busy THEN BusyHandle(p, x) ELSE SoundHandle(p, x)
        /\ p.socket[x] # None => p.socket[x].born = p.socket[x].id
        /\ NoneIgnores => ~p.request[x].ignore
    BY DEF Good, HandlesSound
  <2>2. \A y \in Groups : InQueue(q, y, x) <=> InQueue(p, y, x)
    BY <1>16 DEF InQueue
  <2>3. CASE x = h
    BY <1>2, <1>5, <1>8, <1>9, <2>1, <2>2, <2>3 DEF BusyHandle
  <2>4. CASE x # h
    BY <1>8, <1>9, <2>1, <2>2, <2>4 DEF BusyHandle, SoundHandle
  <2> QED
    BY <2>3, <2>4
<1>18. q.generation <= MaxFlushes
  BY <1>9 DEF Good
<1>19. Good(q, busy, due, run)
  BY <1>9, <1>16, <1>17, <1>18 DEF Good
<1>20. Same(p, q) /\ OthersKeep(p, h, q) /\ q.socket[h] # None
  BY <1>5, <1>8, <1>9, <1>16 DEF Same, OthersKeep
<1> QED
  BY <1>16, <1>19, <1>20 DEF q

\* An idle socket of another group is closed.
LEMMA CloseOneGood ==
    ASSUME NEW p, NEW busy, NEW due, NEW run, Good(p, busy, due, run),
           NEW exception, NEW q \in CloseOneIdleSocket(p, exception)
    PROVE  /\ Good(q, busy, due, run) /\ Same(p, q) /\ q.socket = p.socket
           /\ NoneIgnores => TotalSockets(q) < MaxSockets
           /\ \A x \in Groups : x \in exception => q.group[x] = p.group[x]
<1>1. PICK g \in Groups :
         /\ g \notin exception /\ p.group[g].idle # <<>>
         /\ q = RemoveIfEmpty(KeepIdle(p, g, 2..Len(p.group[g].idle)), g)
  BY DEF CloseOneIdleSocket
<1> DEFINE n == Len(p.group[g].idle)
           r == KeepIdle(p, g, 2..n)
<1>2. p.group[g].idle \in Seq(Nat) /\ p.group[g] \in Group
  BY GoodTypes, GroupFields
<1>3. n \in Nat /\ n >= 1
  <2> DEFINE i == p.group[g].idle
  <2>1. i \in Seq(Nat) /\ i # <<>>
    BY <1>1, <1>2
  <2> HIDE DEF i
  <2>2. Len(i) \in Nat /\ Len(i) >= 1
    BY <2>1
  <2> QED
    BY <2>2 DEF i
<1>4. Cardinality(2..n) = n - 1 /\ 2..n \in SUBSET (1..n)
  <2> HIDE DEF n
  <2>1. 2 \in Int /\ n \in Int
    BY <1>3
  <2>2. Cardinality(2..n) = IF 2 > n THEN 0 ELSE n - 2 + 1
    BY <2>1, FS_Interval
  <2> QED
    BY <1>3, <2>2
<1>5. /\ Good(r, busy, due, run) /\ Same(p, r) /\ r.socket = p.socket
      /\ Became(p, g, r.group[g], r, Cardinality(2..n) - n, 0)
  BY <1>4, KeepIdleGood, SMTT(40)
<1>6. q = RemoveIfEmpty(r, g)
  BY <1>1
<1> HIDE DEF r
<1>7. /\ Good(q, busy, due, run) /\ Same(r, q) /\ q.socket = r.socket
      /\ TotalSockets(q) = TotalSockets(r)
      /\ \A x \in Groups \ {g} : q.group[x] = r.group[x]
  BY <1>5, <1>6, TidyGood
<1>8. Cardinality(2..n) - n = -1
  BY <1>3, <1>4
<1>9. Room(r, g)
  <2>1. -1 \in Int /\ 0 \in Int /\ -1 + 0 < 0
    OBVIOUS
  <2>2. Became(p, g, r.group[g], r, -1, 0)
    BY <1>5, <1>8
  <2> QED
    BY <2>1, <2>2, RoomAfter
<1>10. \A x \in Groups \ {g} : q.group[x] = p.group[x]
  BY <1>5, <1>7 DEF Became
<1>11. Same(p, q)
  BY <1>5, <1>7 DEF Same
<1> QED
  BY <1>1, <1>5, <1>7, <1>9, <1>10, <1>11 DEF Room

-----------------------------------------------------------------------------
(* Serving a request                                                       *)

\* What may come of a request of h for a socket of g, or of a preconnect: an answer with
\* or without a socket, or none yet, and then the group is there to queue in.
Answered(p, g, h, busy, run, end) ==
    /\ end.rv \in {"ok", "pending", "error"}
    /\ Good(end.pool, busy, IF end.rv = "pending" /\ h # None THEN {g} ELSE {}, run)
    /\ Same(p, end.pool)
    /\ OthersKeep(p, h, end.pool)
    /\ end.rv = "pending" => end.pool.socket = p.socket /\ end.pool.group[g].exists
    /\ end.rv = "ok" /\ h # None => end.pool.socket[h] # None

\* One helper after another.
LEMMA SameTwice ==
    ASSUME NEW p, NEW q, NEW r, Same(p, q), Same(q, r)
    PROVE  Same(p, r)
BY DEF Same

\* A step before that serves nobody makes no difference to an answer.
LEMMA AnsweredAfter ==
    ASSUME NEW p, NEW q, Same(p, q), q.socket = p.socket,
           NEW g, NEW h, NEW busy, NEW run, NEW end, Answered(q, g, h, busy, run, end)
    PROVE  Answered(p, g, h, busy, run, end)
BY DEF Answered, Same, OthersKeep

\* Nor to who asks.
LEMMA AskingAfter ==
    ASSUME NEW p, NEW q, Same(p, q), q.socket = p.socket,
           NEW g, NEW h, NEW busy, Asking(p, g, h, busy)
    PROVE  Asking(q, g, h, busy)
BY DEF Asking, Same

\* Nothing is due: something may be.
LEMMA Weaken ==
    ASSUME NEW p, NEW busy, NEW due, NEW run, Good(p, busy, {}, run)
    PROVE  Good(p, busy, due, run)
BY DEF Good, GroupsSound, SoundGroup, SoundLists

\* An idle socket, if one of the group is alive.
LEMMA AssignIdleGood ==
    ASSUME NEW p, NEW busy, NEW run, Good(p, busy, {}, run), NEW g \in Groups,
           p.group[g].exists, NEW h, h # None, Asking(p, g, h, busy),
           NEW found \in AssignIdleSocketToGroup(p, g, h)
    PROVE  \/ found.rv = "ok" /\ Answered(p, g, h, busy, run, found)
           \/ /\ found.rv = "none" /\ Good(found.pool, busy, {}, run) /\ Same(p, found.pool)
              /\ found.pool.socket = p.socket /\ found.pool.group[g].exists
              /\ found.pool.group[g].idle = <<>>
<1> DEFINE i == p.group[g].idle
<1>1. PICK alive \in SUBSET DOMAIN i :
         found \in IF alive = {}
             THEN {[pool |-> KeepIdle(p, g, {}), rv |-> "none"]}
             ELSE {[pool |-> HandOutSocket(KeepIdle(p, g, alive \ {j}), g, h, i[j]),
                    rv |-> "ok"] : j \in alive}
  BY DEF AssignIdleSocketToGroup
<1>2. /\ i \in Seq(Nat) /\ DOMAIN i = 1..Len(i) /\ Len(i) \in Nat
      /\ \A j \in 1..Len(i) : i[j] = p.generation
  <2>1. i \in Seq(Nat) /\ SoundLists(p.group[g], p.generation, g, {})
    BY GoodTypes, GroupFields DEF SoundGroup
  <2> QED
    BY <2>1 DEF SoundLists
<1>3. CASE alive = {}
  <2> DEFINE q == KeepIdle(p, g, {})
  <2>1. found = [pool |-> q, rv |-> "none"]
    BY <1>1, <1>3
  <2>2. /\ Good(q, busy, {}, run) /\ Same(p, q) /\ q.socket = p.socket
        /\ q.group[g].exists = p.group[g].exists /\ Len(q.group[g].idle) = Cardinality({})
    <3>1. {} \in SUBSET (1..Len(p.group[g].idle))
      OBVIOUS
    <3> QED
      BY <3>1, KeepIdleGood, ZenonT(60)
  <2> HIDE DEF q
  <2>3. q.group[g].idle \in Seq(Nat)
    BY <2>2, GoodTypes, GroupFields
  <2>4. q.group[g].idle = <<>>
    <3> DEFINE k == q.group[g].idle
    <3>1. k \in Seq(Nat) /\ Len(k) = 0
      BY <2>2, <2>3, FS_EmptySet
    <3> HIDE DEF k
    <3>2. k = <<>>
      BY <3>1
    <3> QED
      BY <3>2 DEF k
  <2> QED
    BY <2>1, <2>2, <2>4
<1>4. CASE alive # {}
  <2>1. PICK j \in alive :
           found = [pool |-> HandOutSocket(KeepIdle(p, g, alive \ {j}), g, h, i[j]), rv |-> "ok"]
    BY <1>1, <1>4
  <2> DEFINE keep == alive \ {j}
             q == KeepIdle(p, g, keep)
             r == HandOutSocket(q, g, h, q.generation)
             n == Len(i)
             d == Cardinality(keep) - n
  <2>2. keep \in SUBSET (1..Len(p.group[g].idle)) /\ keep \in SUBSET ((1..n) \ {j}) /\ j \in 1..n
    BY <1>2
  <2>3. /\ Good(q, busy, {}, run) /\ Same(p, q) /\ q.socket = p.socket
        /\ q.group[g].exists = p.group[g].exists
        /\ Became(p, g, q.group[g], q, d, 0)
    BY <2>2, KeepIdleGood, ZenonT(60)
  <2>4. d \in Int /\ d + 0 < 0
    <3> HIDE DEF n, keep
    <3>1. n \in Nat
      BY <1>2 DEF n
    <3>2. IsFiniteSet(1..n) /\ Cardinality(1..n) = n
      BY <3>1, FS_Interval
    <3>3. IsFiniteSet((1..n) \ {j}) /\ Cardinality((1..n) \ {j}) = n - 1
      BY <2>2, <3>2, FS_RemoveElement
    <3> DEFINE T == (1..n) \ {j}
    <3>4. keep \in SUBSET T /\ IsFiniteSet(T)
      BY <2>2, <3>3
    <3>5. Cardinality(T) = n - 1
      BY <3>3
    <3> HIDE DEF T
    <3>6. Cardinality(keep) \in Nat /\ Cardinality(keep) <= Cardinality(T)
      BY <3>4, FS_Subset, FS_CardinalityType
    <3> QED
      BY <3>1, <3>5, <3>6
  <2>5. q.generation = p.generation /\ i[j] = p.generation
    BY <1>2, <2>2, <2>3 DEF Same
  <2>6. found = [pool |-> r, rv |-> "ok"]
    BY <2>1, <2>5
  <2> HIDE DEF q, d
  <2>7. Room(q, g)
    <3>1. 0 \in Int
      OBVIOUS
    <3> QED
      BY <2>3, <2>4, <3>1, RoomAfter
  <2>8. Asking(q, g, h, busy)
    BY <2>3, AskingAfter
  <2>9. /\ Good(r, busy, {}, run) /\ Same(q, r) /\ r.socket[h] # None
        /\ OthersKeep(q, h, r)
    BY <2>3, <2>7, <2>8, HandOutGood, ZenonT(60)
  <2> HIDE DEF r
  <2>10. found.pool = r /\ found.rv = "ok"
    BY <2>6
  <2>11. Answered(q, g, h, busy, run, found)
    BY <2>9, <2>10 DEF Answered
  <2> QED
    BY <2>3, <2>10, <2>11, AnsweredAfter
<1> QED
  BY <1>3, <1>4

\* A new connect job, when there is room for one.
LEMMA ConnectGood ==
    ASSUME NEW p, NEW busy, NEW run, Good(p, busy, {}, run), NEW g \in Groups,
           p.group[g].exists, Room(p, g), NEW h, Asking(p, g, h, busy),
           NEW end \in Connect(p, g, h)
    PROVE  Answered(p, g, h, busy, run, end)
<1> DEFINE t == IF BackupJobs /\ IsEmpty(p.group[g]) /\ h # None THEN StartTimer(p, g) ELSE p
           given == IF h = None THEN AddIdleSocket(p, g, p.generation)
                                ELSE HandOutSocket(p, g, h, p.generation)
           added == AddJob(t, g, IF h = None THEN "unused" ELSE "used")
           tidy == RemoveIfEmpty(p, g)
<1>1. \/ end = [pool |-> given, rv |-> "ok"]
      \/ end = [pool |-> added, rv |-> "pending"]
      \/ end = [pool |-> given, rv |-> "error"] /\ h # None
      \/ end = [pool |-> tidy, rv |-> "error"]
  <2>1. t = IF BackupJobs /\ IsEmpty(p.group[g]) /\ h # None
                   THEN [p EXCEPT !.group[g] = StartBackupSocketTimer(p.group[g])] ELSE p
    BY DEF StartTimer
  <2>2. PICK result \in ConnectResults :
          end = CASE result = "ok" -> [pool |-> given, rv |-> "ok"]
                  [] result = "pending" -> [pool |-> added, rv |-> "pending"]
                  [] result = "errorWithSocket" /\ h # None -> [pool |-> given, rv |-> "error"]
                  [] OTHER -> [pool |-> tidy, rv |-> "error"]
    BY <2>1 DEF Connect
  <2> HIDE DEF given, added, tidy
  <2>3. result = "ok" \/ result = "pending" \/ (result = "errorWithSocket" /\ h # None)
          \/ (result # "ok" /\ result # "pending" /\ ~(result = "errorWithSocket" /\ h # None))
    OBVIOUS
  <2> QED
    BY <2>2, <2>3
<1>2. /\ Good(given, busy, {}, run) /\ Same(p, given) /\ OthersKeep(p, h, given)
      /\ h # None => given.socket[h] # None
  <2>1. CASE h = None
    <3>1. Good(given, busy, {}, run) /\ Same(p, given) /\ given.socket = p.socket
      BY <2>1, AddIdleGood
    <3> QED
      BY <2>1, <3>1 DEF OthersKeep
  <2>2. CASE h # None
    BY <2>2, HandOutGood
  <2> QED
    BY <2>1, <2>2
<1> DEFINE due == IF h # None THEN {g} ELSE {}
           k == IF h = None THEN "unused" ELSE "used"
<1>3. /\ Good(added, busy, due, run) /\ Same(p, added) /\ added.socket = p.socket
      /\ added.group[g].exists
  <2>1. k \in JobKinds
    BY DEF JobKinds
  <2>2. More(g, {}, run, due, run) /\ ~(g \in {})
    BY DEF More
  <2>3. t = p \/ (t = StartTimer(p, g) /\ (p.group[g].pending # <<>> \/ g \in due))
    OBVIOUS
  <2>4. added = AddJob(t, g, k)
    OBVIOUS
  <2> HIDE DEF t, due, k, added
  <2> QED
    BY <2>1, <2>2, <2>3, <2>4, AddJobGood
<1>4. Good(tidy, busy, {}, run) /\ Same(p, tidy) /\ tidy.socket = p.socket
  BY TidyGood
<1> HIDE DEF given, added, tidy
<1>5. CASE end = [pool |-> given, rv |-> "ok"]
  <2>1. end.pool = given /\ end.rv = "ok"
    BY <1>5
  <2> QED
    BY <1>2, <2>1 DEF Answered
<1>6. CASE end = [pool |-> added, rv |-> "pending"]
  <2>1. end.pool = added /\ end.rv = "pending"
    BY <1>6
  <2> QED
    BY <1>3, <2>1 DEF Answered, OthersKeep
<1>7. CASE end = [pool |-> given, rv |-> "error"]
  <2>1. end.pool = given /\ end.rv = "error"
    BY <1>7
  <2> QED
    BY <1>2, <2>1 DEF Answered
<1>8. CASE end = [pool |-> tidy, rv |-> "error"]
  <2>1. end.pool = tidy /\ end.rv = "error"
    BY <1>8
  <2> QED
    BY <1>4, <2>1 DEF Answered, OthersKeep
<1> QED
  BY <1>1, <1>5, <1>6, <1>7, <1>8

\* Room in the group, and in the pool.
LEMMA RoomFromLimits ==
    ASSUME NEW p, NEW g \in Groups, NEW ignore, NoneIgnores => ~ignore,
           HasAvailableSocketSlot(p.group[g]) \/ ignore,
           NoneIgnores => TotalSockets(p) < MaxSockets
    PROVE  Room(p, g)
BY DEF Room, HasAvailableSocketSlot

\* An idle socket is in some group.
LEMMA IdleSomewhere ==
    ASSUME NEW p, NEW busy, NEW due, NEW run, Good(p, busy, due, run),
           p.idle_socket_count_ # 0
    PROVE  \E x \in Groups : p.group[x].idle # <<>>
<1> DEFINE n == [x \in Groups |-> Len(p.group[x].idle)]
<1>1. p.group \in [Groups -> Group] /\ p.idle_socket_count_ = SumOver(n)
  BY DEF Good, Shape, Counted
<1>2. \A x \in Groups : Len(p.group[x].idle) \in Nat
  BY <1>1, GroupNumbers
<1>3. n \in [Groups -> Nat]
  BY <1>2
<1>4. PICK x \in Groups : n[x] # 0
  BY <1>1, <1>3, SumZero
<1>5. Len(p.group[x].idle) # 0
  BY <1>4
<1>6. Len(<<>>) = 0
  OBVIOUS
<1> QED
  BY <1>5, <1>6

\* No idle socket of the group can serve the request.
LEMMA RequestNewSocketGood ==
    ASSUME NEW p, NEW busy, NEW run, Good(p, busy, {}, run), NEW g \in Groups,
           p.group[g].exists, NEW h, Asking(p, g, h, busy),
           NEW ignore \in BOOLEAN, NoneIgnores => ~ignore,
           h # None => p.group[g].idle = <<>>,
           NEW end \in RequestNewSocket(p, g, h, ignore)
    PROVE  Answered(p, g, h, busy, run, end)
<1> DEFINE G == p.group[g]
           elsewhere == CloseOneIdleSocket(p, {g})
           full == ~HasAvailableSocketSlot(G) /\ ~ignore
<1>1. ASSUME end = [pool |-> p, rv |-> "pending"]
      PROVE  Answered(p, g, h, busy, run, end)
  <2>1. end.pool = p /\ end.rv = "pending"
    BY <1>1
  <2>2. Good(p, busy, IF h # None THEN {g} ELSE {}, run)
    BY Weaken
  <2> QED
    BY <2>1, <2>2 DEF Answered, Same, OthersKeep
<1>2. CASE h # None /\ G.jobs["unused"] # <<>>
  <2> DEFINE q == UsePreconnect(p, g)
  <2>1. end = [pool |-> q, rv |-> "pending"]
    BY <1>2 DEF RequestNewSocket
  <2>2. Good(q, busy, {}, run) /\ Same(p, q) /\ q.socket = p.socket /\ q.group[g].exists
    BY <1>2, UseJobGood
  <2> HIDE DEF q
  <2>3. end.pool = q /\ end.rv = "pending"
    BY <2>1
  <2>4. Good(q, busy, IF h # None THEN {g} ELSE {}, run)
    BY <2>2, Weaken
  <2> QED
    BY <2>2, <2>3, <2>4 DEF Answered, OthersKeep
<1>3. CASE ~(h # None /\ G.jobs["unused"] # <<>>) /\ full
  <2>1. end = [pool |-> p, rv |-> "pending"]
    BY <1>3 DEF RequestNewSocket
  <2> QED
    BY <1>1, <2>1
<1>4. ASSUME ~full
      PROVE  HasAvailableSocketSlot(G) \/ ignore
  BY <1>4
<1>5. CASE /\ ~(h # None /\ G.jobs["unused"] # <<>>) /\ ~full
           /\ ~ReachedMaxSocketsLimit(p) \/ ignore
  <2>1. end \in Connect(p, g, h)
    BY <1>5 DEF RequestNewSocket
  <2>2. NoneIgnores => TotalSockets(p) < MaxSockets
    <3> DEFINE n == TotalSockets(p)
    <3>1. n \in Nat /\ MaxSockets \in Nat
      BY GoodTypes, LimitAssumption DEF TotalSockets
    <3>2. NoneIgnores => ~(n >= MaxSockets)
      BY <1>5 DEF ReachedMaxSocketsLimit
    <3> HIDE DEF n
    <3>3. NoneIgnores => n < MaxSockets
      BY <3>1, <3>2
    <3> QED
      BY <3>3 DEF n
  <2>3. Room(p, g)
    BY <1>4, <1>5, <2>2, RoomFromLimits
  <2> QED
    BY <2>1, <2>3, ConnectGood
<1>6. CASE /\ ~(h # None /\ G.jobs["unused"] # <<>>) /\ ~full
           /\ ~(~ReachedMaxSocketsLimit(p) \/ ignore)
  <2>1. CASE p.idle_socket_count_ = 0
    <3>1. end = [pool |-> p, rv |-> "pending"]
      BY <1>6, <2>1 DEF RequestNewSocket
    <3> QED
      BY <1>1, <3>1
  <2>2. CASE p.idle_socket_count_ # 0 /\ elsewhere # {}
    <3>1. PICK q \in elsewhere : end \in Connect(q, g, h)
      BY <1>6, <2>2 DEF RequestNewSocket
    <3>2. /\ Good(q, busy, {}, run) /\ Same(p, q) /\ q.socket = p.socket
          /\ NoneIgnores => TotalSockets(q) < MaxSockets
          /\ q.group[g] = p.group[g]
      BY <3>1, CloseOneGood
    <3>3. Room(q, g)
      <4>1. HasAvailableSocketSlot(q.group[g]) \/ ignore
        BY <1>4, <1>6, <3>2
      <4> QED
        BY <3>2, <4>1, RoomFromLimits
    <3>4. Asking(q, g, h, busy)
      BY <3>2, AskingAfter
    <3>5. Answered(q, g, h, busy, run, end)
      BY <3>1, <3>2, <3>3, <3>4, ConnectGood
    <3> QED
      BY <3>2, <3>5, AnsweredAfter
  <2>3. CASE p.idle_socket_count_ # 0 /\ elsewhere = {}
    <3>1. h = None
      <4> SUFFICES ASSUME h # None PROVE FALSE
        OBVIOUS
      <4>1. PICK x \in Groups : p.group[x].idle # <<>>
        BY <2>3, IdleSomewhere
      <4>2. x # g
        BY <4>1
      <4>3. RemoveIfEmpty(KeepIdle(p, x, 2..Len(p.group[x].idle)), x) \in elsewhere
        BY <4>1, <4>2 DEF CloseOneIdleSocket
      <4> QED
        BY <2>3, <4>3
    <3>2. end = [pool |-> p, rv |-> "error"]
      BY <1>6, <2>3, <3>1 DEF RequestNewSocket
    <3>3. end.pool = p /\ end.rv = "error"
      BY <3>2
    <3> QED
      BY <3>1, <3>3 DEF Answered, Same, OthersKeep
  <2> QED
    BY <2>1, <2>2, <2>3
<1> QED
  BY <1>2, <1>3, <1>5, <1>6

\* RequestSocketInternal.
LEMMA RequestSocketInternalGood ==
    ASSUME NEW p, NEW busy, NEW run, Good(p, busy, {}, run), NEW g \in Groups,
           NEW h, Asking(p, g, h, busy), NEW ignore \in BOOLEAN, NoneIgnores => ~ignore,
           NEW end \in RequestSocketInternal(p, g, h, ignore)
    PROVE  Answered(p, g, h, busy, run, end)
<1> DEFINE q == GetOrCreateGroup(p, g)
<1>1. Good(q, busy, {}, run) /\ Same(p, q) /\ q.socket = p.socket /\ q.group[g].exists
  BY OpenedGood
<1>2. CASE h = None
  <2>1. end \in RequestNewSocket(q, g, h, ignore)
    BY <1>2 DEF RequestSocketInternal
  <2> HIDE DEF q
  <2>2. Asking(q, g, h, busy)
    BY <1>1, AskingAfter
  <2>3. Answered(q, g, h, busy, run, end)
    BY <1>1, <1>2, <2>1, <2>2, RequestNewSocketGood
  <2> QED
    BY <1>1, <2>3, AnsweredAfter
<1>3. CASE h # None
  <2>1. PICK found \in AssignIdleSocketToGroup(q, g, h) :
          end \in IF found.rv = "ok" THEN {found}
                  ELSE RequestNewSocket(found.pool, g, h, ignore)
    BY <1>3 DEF RequestSocketInternal
  <2> HIDE DEF q
  <2>2. Asking(q, g, h, busy)
    BY <1>1, AskingAfter
  <2>3. \/ found.rv = "ok" /\ Answered(q, g, h, busy, run, found)
        \/ /\ found.rv = "none" /\ Good(found.pool, busy, {}, run) /\ Same(q, found.pool)
           /\ found.pool.socket = q.socket /\ found.pool.group[g].exists
           /\ found.pool.group[g].idle = <<>>
    BY <1>1, <1>3, <2>2, AssignIdleGood
  <2>4. CASE found.rv = "ok"
    <3>1. end = found
      BY <2>1, <2>4
    <3> QED
      BY <1>1, <2>3, <2>4, <3>1, AnsweredAfter
  <2>5. CASE found.rv # "ok"
    <3> DEFINE r == found.pool
    <3>1. end \in RequestNewSocket(r, g, h, ignore)
      BY <2>1, <2>5
    <3>2. /\ Good(r, busy, {}, run) /\ Same(q, r) /\ r.socket = q.socket
          /\ r.group[g].exists /\ r.group[g].idle = <<>>
      BY <2>3, <2>5
    <3> HIDE DEF r
    <3>3. Asking(r, g, h, busy)
      BY <2>2, <3>2, AskingAfter
    <3>4. Answered(r, g, h, busy, run, end)
      BY <3>1, <3>2, <3>3, RequestNewSocketGood
    <3>5. Answered(q, g, h, busy, run, end)
      BY <3>2, <3>4, AnsweredAfter
    <3> QED
      BY <1>1, <3>5, AnsweredAfter
  <2> QED
    BY <2>4, <2>5
<1> QED
  BY <1>2, <1>3

-----------------------------------------------------------------------------
(* Queues and callbacks                                                    *)

\* The pool has as many sockets of every kind as before.
SameCounts(p, q) ==
    /\ q.generation = p.generation
    /\ q.idle_socket_count_ = p.idle_socket_count_
    /\ q.connecting_socket_count_ = p.connecting_socket_count_
    /\ q.handed_out_socket_count_ = p.handed_out_socket_count_
    /\ \A x \in Groups : /\ Len(q.group[x].idle) = Len(p.group[x].idle)
                         /\ NumJobs(q.group[x]) = NumJobs(p.group[x])
                         /\ q.group[x].active = p.group[x].active
                         /\ Holders(q, x) = Holders(p, x)

ListsSound(q, due, run) ==
    \A x \in Groups : /\ SoundLists(q.group[x], q.generation, x, due)
                      /\ q.group[x].backup = "running" => x \in run

\* Then it is good when its lists and its handles are sound.
LEMMA RegroupedGood ==
    ASSUME NEW p, NEW busy, NEW due, NEW run, Good(p, busy, due, run),
           NEW q \in Shape, SameCounts(p, q),
           NEW after, NEW runs, ListsSound(q, after, runs),
           NEW still, HandlesSound(q, still)
    PROVE  Good(q, still, after, runs)
<1>1. /\ p \in Shape /\ p.generation <= MaxFlushes /\ GroupsSound(p, due, run)
      /\ Counted(p) /\ Limited(p)
  BY DEF Good
<1>2. \A x \in Groups : p.group[x] \in Group /\ q.group[x] \in Group
  BY <1>1 DEF Shape
<1>3. \A x \in Groups : NumActiveSocketSlots(q.group[x]) = NumActiveSocketSlots(p.group[x])
  BY DEF SameCounts, NumActiveSocketSlots
<1>4. GroupsSound(q, after, runs)
  <2> SUFFICES ASSUME NEW x \in Groups
               PROVE  /\ SoundGroup(q.group[x], q.generation, x, after)
                      /\ q.group[x].active = Cardinality(Holders(q, x))
                      /\ q.group[x].backup = "running" => x \in runs
    BY DEF GroupsSound
  <2>1. /\ SoundGroup(p.group[x], p.generation, x, due)
        /\ p.group[x].active = Cardinality(Holders(p, x))
    BY <1>1 DEF GroupsSound
  <2> QED
    BY <1>3, <2>1 DEF SoundGroup, ListsSound, SameCounts
<1>5. Counted(q)
  <2>1. /\ [g \in Groups |-> Len(q.group[g].idle)] = [g \in Groups |-> Len(p.group[g].idle)]
        /\ [g \in Groups |-> NumJobs(q.group[g])] = [g \in Groups |-> NumJobs(p.group[g])]
        /\ [g \in Groups |-> q.group[g].active] = [g \in Groups |-> p.group[g].active]
    BY DEF SameCounts
  <2> QED
    BY <1>1, <2>1 DEF Counted, SameCounts
<1>6. Limited(q)
  BY <1>1 DEF Limited, TotalSockets, SameCounts
<1>7. q.generation <= MaxFlushes
  BY <1>1 DEF SameCounts
<1> QED
  BY <1>4, <1>5, <1>6, <1>7 DEF Good

\* A queued request has no socket, and its handle is not done with.
LEMMA QueuedAsks ==
    ASSUME NEW p, NEW due, NEW run, Good(p, {}, due, run), NEW g \in Groups, NEW h \in Handles,
           InQueue(p, g, h)
    PROVE  Good(p, {h}, due, run) /\ Asking(p, g, h, {h}) /\ h # None /\ p.group[g].exists
<1>1. HandlesSound(p, {}) /\ GroupsSound(p, due, run)
  BY DEF Good
<1>2. SoundHandle(p, h)
  BY <1>1 DEF HandlesSound
<1>3. /\ p.request[h].group = g /\ p.callback[h] = None /\ ~p.initialized[h]
      /\ p.socket[h] = None
  BY <1>2 DEF SoundHandle
<1>4. BusyHandle(p, h)
  BY <1>2, <1>3 DEF BusyHandle, SoundHandle
<1>5. HandlesSound(p, {h})
  BY <1>1, <1>4 DEF HandlesSound
<1>6. h # None
  BY UserAssumption
<1>7. p.group[g].exists
  <2>1. SoundLists(p.group[g], p.generation, g, due)
    BY <1>1 DEF GroupsSound, SoundGroup
  <2>2. NoGroup.pending = <<>> /\ Len(<<>>) = 0
    BY NothingInIt
  <2>3. p.group[g].pending # <<>>
    BY <2>2 DEF InQueue
  <2> QED
    BY <2>1, <2>2, <2>3 DEF SoundLists
<1> QED
  BY <1>3, <1>5, <1>6, <1>7 DEF Good, Asking

NotQueued(p, h) == \A x \in Groups : ~InQueue(p, x, h)

\* Nothing but the queue of the group, and its timer, is different.
Requeued(p, g, q) ==
    /\ q.generation = p.generation /\ q.request = p.request /\ q.callback = p.callback
    /\ q.initialized = p.initialized /\ q.posted = p.posted /\ q.socket = p.socket
    /\ \A x \in Groups \ {g} : q.group[x] = p.group[x]
    /\ q.group[g].idle = p.group[g].idle /\ q.group[g].jobs = p.group[g].jobs
    /\ q.group[g].active = p.group[g].active /\ q.group[g].exists = p.group[g].exists

\* A request leaves its queue.
LEMMA RemoveRequestGood ==
    ASSUME NEW p, NEW due, NEW run, NEW h \in Handles, Good(p, {h}, due, run), NEW g \in Groups,
           Asking(p, g, h, {h}) \/ p.request[h].group = g
    PROVE  LET q == RemoveRequestFromQueue(p, g, h) IN
           Good(q, {h}, due, run) /\ Requeued(p, g, q) /\ NotQueued(q, h)
<1> DEFINE G == p.group[g]
           s == RemoveFirst(G.pending, h)
           backup == IF s = <<>> THEN "none" ELSE G.backup
           H == [G EXCEPT !.pending = s, !.backup = backup]
           q == RemoveRequestFromQueue(p, g, h)
<1>1. /\ p \in Shape /\ p.group \in [Groups -> Group] /\ G \in Group
      /\ SoundGroup(G, p.generation, g, due) /\ p.request[h].group = g
  <2>1. h # None
    BY UserAssumption
  <2> QED
    BY <2>1, GoodTypes DEF Asking
<1>2. /\ s \in Seq(Handles) /\ NoneTwice(s)
      /\ \A j \in 1..Len(s) : s[j] # h /\ \E i \in 1..Len(G.pending) : s[j] = G.pending[i]
      /\ \A i \in 1..Len(G.pending) : G.pending[i] # h => \E j \in 1..Len(s) : s[j] = G.pending[i]
  <2> DEFINE old == G.pending
  <2>1. old \in Seq(Handles) /\ NoneTwice(old)
    BY <1>1, GroupFields DEF SoundGroup, SoundLists
  <2>2. s = RemoveFirst(old, h)
    OBVIOUS
  <2> HIDE DEF old, s
  <2>3. /\ s \in Seq(Handles) /\ NoneTwice(s)
        /\ \A j \in 1..Len(s) : s[j] # h /\ \E i \in 1..Len(old) : s[j] = old[i]
    BY <2>1, <2>2, RemovedFirst
  <2>4. \A i \in 1..Len(old) : old[i] # h => \E j \in 1..Len(s) : s[j] = old[i]
    BY <2>1, <2>2, RemovedKeeps
  <2> QED
    BY <2>3, <2>4 DEF old
<1>3. q = [p EXCEPT !.group = [p.group EXCEPT ![g] = H]]
  <2> DEFINE K == [G EXCEPT !.pending = s]
  <2>1. K.pending = s /\ H = IF s = <<>> THEN [K EXCEPT !.backup = "none"] ELSE K
    BY <1>1 DEF Group
  <2>2. q = [p EXCEPT !.group[g] = IF K.pending = <<>> THEN CleanupBackupJob(K) ELSE K]
    BY DEF RemoveRequestFromQueue
  <2> HIDE DEF K, H, q
  <2>3. H = IF K.pending = <<>> THEN CleanupBackupJob(K) ELSE K
    BY <2>1 DEF CleanupBackupJob
  <2> QED
    BY <2>2, <2>3
<1> HIDE DEF s
<1>4. /\ H \in Group /\ H.pending = s /\ H.idle = G.idle /\ H.jobs = G.jobs
      /\ H.active = G.active /\ H.exists = G.exists /\ H.backup = backup
  <2>1. backup \in {"none", "posted", "running"}
    BY <1>1 DEF Group
  <2> HIDE DEF backup
  <2> QED
    BY <1>1, <1>2, <2>1 DEF Group
<1> HIDE DEF H, q
<1>5. /\ q \in Shape /\ q.group[g] = H /\ \A x \in Groups : x # g => q.group[x] = p.group[x]
      /\ q.generation = p.generation /\ q.request = p.request /\ q.callback = p.callback
      /\ q.initialized = p.initialized /\ q.posted = p.posted /\ q.socket = p.socket
      /\ q.idle_socket_count_ = p.idle_socket_count_
      /\ q.connecting_socket_count_ = p.connecting_socket_count_
      /\ q.handed_out_socket_count_ = p.handed_out_socket_count_
  <2> DEFINE X == [p.group EXCEPT ![g] = H]
  <2>1. X \in [Groups -> Group] /\ X[g] = H /\ \A x \in Groups : x # g => X[x] = p.group[x]
    BY <1>1, <1>4
  <2> HIDE DEF X
  <2>2. q = [p EXCEPT !.group = X]
    BY <1>3 DEF X
  <2> QED
    BY <1>1, <2>1, <2>2 DEF Shape
<1>6. Requeued(p, g, q)
  BY <1>4, <1>5 DEF Requeued
<1>7. SameCounts(p, q)
  <2>1. NumJobs(H) = NumJobs(G)
    BY <1>4 DEF NumJobs
  <2>2. \A x \in Groups : Holders(q, x) = Holders(p, x)
    BY <1>5 DEF Holders
  <2> QED
    BY <1>4, <1>5, <2>1, <2>2 DEF SameCounts
<1>8. GroupsSound(p, due, run) /\ HandlesSound(p, {h})
  BY DEF Good
<1>9. ListsSound(q, due, run)
  <2> SUFFICES ASSUME NEW x \in Groups
               PROVE  /\ SoundLists(q.group[x], q.generation, x, due)
                      /\ q.group[x].backup = "running" => x \in run
    BY DEF ListsSound
  <2>1. CASE x # g
    BY <1>5, <1>8, <2>1 DEF GroupsSound, SoundGroup
  <2>2. CASE x = g
    <3>1. SoundLists(G, p.generation, g, due) /\ (G.backup = "running" => g \in run)
      BY <1>8 DEF GroupsSound, SoundGroup
    <3>2. NumJobs(H) = NumJobs(G)
      BY <1>4 DEF NumJobs
    <3>3. ~H.exists => H = NoGroup
      <4> SUFFICES ASSUME ~G.exists PROVE H = NoGroup
        BY <1>4
      <4>1. G = NoGroup
        BY <3>1 DEF SoundLists
      <4>2. NoGroup.pending = <<>> /\ NoGroup.backup = "none" /\ NoGroup \in Group /\ Len(<<>>) = 0
        BY NothingInIt
      <4>3. s = <<>>
        <5>1. \A j \in 1..Len(s) : FALSE
          BY <1>2, <4>1, <4>2
        <5> QED
          BY <1>2, <5>1
      <4>4. backup = "none"
        BY <4>3
      <4>5. NoGroup = [NoGroup EXCEPT !.pending = <<>>, !.backup = "none"]
        BY <4>2 DEF Group
      <4> QED
        BY <4>1, <4>3, <4>4, <4>5 DEF H
    <3>4. H.backup # "none" => NumJobs(H) > 0 /\ H.pending # <<>>
      BY <1>4, <3>1, <3>2 DEF SoundLists
    <3>5. H.backup = "running" => g \in run
      BY <1>4, <3>1
    <3> HIDE DEF backup
    <3>6. SoundLists(H, p.generation, g, due)
      <4>1. H.pending = s /\ H.idle = G.idle /\ H.jobs = G.jobs /\ NoneTwice(s)
        BY <1>2, <1>4
      <4> HIDE DEF G
      <4> QED
        BY <3>1, <3>3, <3>4, <4>1 DEF SoundLists
    <3> QED
      BY <1>5, <2>2, <3>5, <3>6
  <2> QED
    BY <2>1, <2>2
<1>10. NotQueued(q, h)
  <2> SUFFICES ASSUME NEW x \in Groups, InQueue(q, x, h) PROVE FALSE
    BY DEF NotQueued
  <2>1. CASE x = g
    BY <1>2, <1>4, <1>5, <2>1 DEF InQueue
  <2>2. CASE x # g
    <3>1. InQueue(p, x, h)
      BY <1>5, <2>2 DEF InQueue
    <3> QED
      BY <1>1, <1>8, <2>2, <3>1 DEF HandlesSound, BusyHandle
  <2> QED
    BY <2>1, <2>2
<1>11. HandlesSound(q, {h})
  <2>1. \A y \in Handles : y # h => \A x \in Groups : InQueue(q, x, y) <=> InQueue(p, x, y)
    <3> SUFFICES ASSUME NEW y \in Handles, y # h, NEW x \in Groups
                 PROVE  InQueue(q, x, y) <=> InQueue(p, x, y)
      OBVIOUS
    <3>1. CASE x # g
      BY <1>5, <3>1 DEF InQueue
    <3>2. CASE x = g
      <4>1. (\E i \in 1..Len(G.pending) : G.pending[i] = y) <=> \E j \in 1..Len(s) : s[j] = y
        <5> HIDE DEF G
        <5> QED
          BY <1>2
      <4> QED
        BY <1>4, <1>5, <3>2, <4>1 DEF InQueue
    <3> QED
      BY <3>1, <3>2
  <2>2. BusyHandle(q, h)
    BY <1>5, <1>8, <1>10 DEF HandlesSound, BusyHandle, NotQueued
  <2>3. \A y \in Handles : y # h => SoundHandle(q, y)
    <3> TAKE y \in Handles
    <3> HAVE y # h
    <3>1. SoundHandle(p, y)
      BY <1>8 DEF HandlesSound
    <3> QED
      BY <1>5, <2>1, <3>1 DEF SoundHandle
  <2> QED
    BY <1>5, <1>8, <2>2, <2>3 DEF HandlesSound
<1>12. Good(q, {h}, due, run)
  BY <1>5, <1>7, <1>9, <1>11, RegroupedGood
<1> QED
  BY <1>6, <1>10, <1>12 DEF q

\* The pool when a handle has that request and callback, and is initialized or not.
PutHandle(p, h, r, c, n, i) ==
    [p EXCEPT !.request = [p.request EXCEPT ![h] = r],
              !.callback = [p.callback EXCEPT ![h] = c],
              !.posted = [p.posted EXCEPT ![h] = n],
              !.initialized = [p.initialized EXCEPT ![h] = i]]

BusyWith(p, h, r, c, i) ==
    /\ r.group \in Groups /\ c = None /\ ~i
    /\ \A g \in Groups : InQueue(p, g, h) => r.group = g

SoundWith(p, h, r, c, n, i) ==
    /\ \A g \in Groups : InQueue(p, g, h) <=> r.group = g /\ c = None /\ ~i
    /\ p.socket[h] # None => c # None \/ i
    /\ i => p.socket[h] # None /\ c = None
    /\ c = "ok" => p.socket[h] # None
    /\ c # None => n > 0
    /\ c # None \/ i => r.group \in Groups

OnlyOf(busy, h) == busy \subseteq {h}
IsFlag(i) == i \in BOOLEAN
IsAnswer(c) == c \in {"ok", "error", None}

\* Which is as it should be, whether h is served, in still, or not.
HandleWith(p, h, r, c, n, i, still) ==
    /\ p.socket[h] # None => r.group = p.request[h].group
    /\ NoneIgnores => ~r.ignore
    /\ h \in still => BusyWith(p, h, r, c, i)
    /\ h \notin still => SoundWith(p, h, r, c, n, i)

\* The fields of a handle change.
LEMMA PutHandleGood ==
    ASSUME NEW p, NEW h \in Handles, NEW busy, OnlyOf(busy, h), NEW due, NEW run,
           Good(p, busy, due, run), NEW still, OnlyOf(still, h), NEW r \in Request,
           NEW c, IsAnswer(c), NEW n, n \in Nat, NEW i, IsFlag(i),
           HandleWith(p, h, r, c, n, i, still), NEW q, q = PutHandle(p, h, r, c, n, i)
    PROVE  /\ Good(q, still, due, run) /\ q.group = p.group /\ q.socket = p.socket
           /\ q.generation = p.generation /\ q.request[h] = r /\ q.callback[h] = c
           /\ \A x \in Groups : InQueue(q, x, h) <=> InQueue(p, x, h)
<1> DEFINE R == [p.request EXCEPT ![h] = r]
           C == [p.callback EXCEPT ![h] = c]
           N == [p.posted EXCEPT ![h] = n]
           I == [p.initialized EXCEPT ![h] = i]
<1>1. p \in Shape /\ GroupsSound(p, due, run) /\ HandlesSound(p, busy)
  BY DEF Good
<1>2. /\ R \in [Handles -> Request] /\ R[h] = r
      /\ \A x \in Handles : x # h => R[x] = p.request[x]
      /\ C \in [Handles -> {"ok", "error", None}] /\ C[h] = c
      /\ \A x \in Handles : x # h => C[x] = p.callback[x]
      /\ N \in [Handles -> Nat] /\ N[h] = n
      /\ \A x \in Handles : x # h => N[x] = p.posted[x]
      /\ I \in [Handles -> BOOLEAN] /\ I[h] = i
      /\ \A x \in Handles : x # h => I[x] = p.initialized[x]
  BY <1>1 DEF Shape, IsFlag, IsAnswer
<1>3. q = [p EXCEPT !.request = R, !.callback = C, !.posted = N, !.initialized = I]
  BY DEF PutHandle
<1> HIDE DEF R, C, N, I
<1>4. /\ q.request = R /\ q.callback = C /\ q.posted = N /\ q.initialized = I
      /\ q.group = p.group /\ q.socket = p.socket /\ q.generation = p.generation
      /\ q.idle_socket_count_ = p.idle_socket_count_
      /\ q.connecting_socket_count_ = p.connecting_socket_count_
      /\ q.handed_out_socket_count_ = p.handed_out_socket_count_
  BY <1>1, <1>3 DEF Shape
<1>5. q \in Shape
  BY <1>1, <1>2, <1>3 DEF Shape
<1>6. \A x \in Groups : Holders(q, x) = Holders(p, x)
  <2> SUFFICES ASSUME NEW x \in Groups, NEW y \in Handles
               PROVE  q.socket[y] # None /\ q.request[y].group = x <=>
                      p.socket[y] # None /\ p.request[y].group = x
    BY DEF Holders
  <2>1. CASE y = h
    BY <1>2, <1>4, <2>1 DEF HandleWith
  <2>2. CASE y # h
    BY <1>2, <1>4, <2>2
  <2> QED
    BY <2>1, <2>2
<1>7. SameCounts(p, q)
  BY <1>4, <1>6 DEF SameCounts
<1>8. ListsSound(q, due, run)
  BY <1>1, <1>4 DEF ListsSound, GroupsSound, SoundGroup
<1>9. \A x \in Groups, y \in Handles : InQueue(q, x, y) <=> InQueue(p, x, y)
  BY <1>4 DEF InQueue
<1>10. HandlesSound(q, still)
  <2> SUFFICES ASSUME NEW y \in Handles
               PROVE  /\ IF y \in still THEN BusyHandle(q, y) ELSE SoundHandle(q, y)
                      /\ q.socket[y] # None => q.socket[y].born = q.socket[y].id
                      /\ NoneIgnores => ~q.request[y].ignore
    BY DEF HandlesSound
  <2>1. /\ IF y \in busy THEN BusyHandle(p, y) ELSE SoundHandle(p, y)
        /\ p.socket[y] # None => p.socket[y].born = p.socket[y].id
        /\ NoneIgnores => ~p.request[y].ignore
    BY <1>1 DEF HandlesSound
  <2>2. CASE y = h /\ h \in still
    BY <1>2, <1>4, <1>9, <2>1, <2>2 DEF HandleWith, BusyWith, BusyHandle
  <2>3. CASE y = h /\ h \notin still
    BY <1>2, <1>4, <1>9, <2>1, <2>3 DEF HandleWith, SoundWith, SoundHandle
  <2>4. CASE y # h
    <3>1. y \notin still /\ y \notin busy
      BY <2>4 DEF OnlyOf
    <3> QED
      BY <1>2, <1>4, <1>9, <2>1, <2>4, <3>1 DEF SoundHandle
  <2> QED
    BY <2>2, <2>3, <2>4
<1>11. Good(q, still, due, run)
  BY <1>5, <1>7, <1>8, <1>10, RegroupedGood
<1> QED
  BY <1>2, <1>4, <1>9, <1>11

\* What the fields of a handle are.
LEMMA HandleFields ==
    ASSUME NEW p, NEW busy, NEW due, NEW run, Good(p, busy, due, run), NEW h \in Handles
    PROVE  /\ p.request[h] \in Request /\ p.callback[h] \in {"ok", "error", None}
           /\ p.posted[h] \in Nat /\ p.initialized[h] \in BOOLEAN
           /\ IsFlag(p.initialized[h]) /\ IsAnswer(p.callback[h]) /\ p.posted[h] + 1 \in Nat /\ p.posted[h] + 1 > 0
           /\ p = PutHandle(p, h, p.request[h], p.callback[h], p.posted[h], p.initialized[h])
           /\ IF h \in busy THEN BusyHandle(p, h) ELSE SoundHandle(p, h)
           /\ NoneIgnores => ~p.request[h].ignore
<1>1. p \in Shape /\ HandlesSound(p, busy)
  BY DEF Good
<1>2. /\ p.request \in [Handles -> Request] /\ p.callback \in [Handles -> {"ok", "error", None}]
      /\ p.posted \in [Handles -> Nat] /\ p.initialized \in [Handles -> BOOLEAN]
  BY <1>1 DEF Shape
<1>3. /\ p.request[h] \in Request /\ p.callback[h] \in {"ok", "error", None}
      /\ p.posted[h] \in Nat /\ p.initialized[h] \in BOOLEAN
  BY <1>2
<1>4. p.posted[h] + 1 \in Nat /\ p.posted[h] + 1 > 0
  <2> DEFINE n == p.posted[h]
  <2>1. n \in Nat
    BY <1>3
  <2> HIDE DEF n
  <2>2. n + 1 \in Nat /\ n + 1 > 0
    BY <2>1
  <2> QED
    BY <2>2 DEF n
<1>5. p = PutHandle(p, h, p.request[h], p.callback[h], p.posted[h], p.initialized[h])
  <2>1. /\ [p.request EXCEPT ![h] = p.request[h]] = p.request
        /\ [p.callback EXCEPT ![h] = p.callback[h]] = p.callback
        /\ [p.posted EXCEPT ![h] = p.posted[h]] = p.posted
        /\ [p.initialized EXCEPT ![h] = p.initialized[h]] = p.initialized
    BY <1>2
  <2> QED
    BY <1>1, <2>1 DEF PutHandle, Shape
<1> QED
  BY <1>1, <1>3, <1>4, <1>5 DEF HandlesSound, IsFlag, IsAnswer

\* An answer is noted, and the task that tells it posted.
LEMMA InvokeLaterGood ==
    ASSUME NEW p, NEW h \in Handles, NEW due, NEW run, Good(p, {h}, due, run), NotQueued(p, h),
           NEW rv \in {"ok", "error"}, rv = "ok" => p.socket[h] # None
    PROVE  Good(InvokeUserCallbackLater(p, h, rv), {}, due, run)
<1> DEFINE q == InvokeUserCallbackLater(p, h, rv)
           r == p.request[h]
           n == p.posted[h] + 1
           i == p.initialized[h]
<1>1. /\ p \in Shape /\ r \in Request /\ IsFlag(i) /\ n \in Nat /\ n > 0
      /\ BusyHandle(p, h) /\ (NoneIgnores => ~r.ignore)
      /\ [p.request EXCEPT ![h] = r] = p.request
      /\ [p.initialized EXCEPT ![h] = i] = p.initialized
  <2>1. p \in Shape
    BY DEF Good
  <2>2. /\ [p.request EXCEPT ![h] = r] = p.request
        /\ [p.initialized EXCEPT ![h] = i] = p.initialized
    BY <2>1 DEF Shape
  <2>3. h \in {h}
    OBVIOUS
  <2> HIDE DEF r, i
  <2> QED
    BY <2>1, <2>2, <2>3, HandleFields DEF r, i
<1>2. q = PutHandle(p, h, r, rv, n, i)
  BY <1>1 DEF InvokeUserCallbackLater, PutHandle, Shape
<1> HIDE DEF q, n
<1>3. HandleWith(p, h, r, rv, n, i, {})
  <2>1. rv # None
    BY UserAssumption
  <2>2. SoundWith(p, h, r, rv, n, i)
    BY <1>1, <2>1 DEF SoundWith, BusyHandle, NotQueued
  <2> QED
    BY <1>1, <2>2 DEF HandleWith
<1>4. OnlyOf({h}, h) /\ OnlyOf({}, h) /\ IsAnswer(rv)
  BY DEF IsAnswer, OnlyOf
<1> HIDE DEF r, i
<1>5. Good(q, {}, due, run)
  BY <1>1, <1>2, <1>3, <1>4, PutHandleGood
<1> QED
  BY <1>5 DEF q

\* A handle without a request asks for a socket.
LEMMA AskedGood ==
    ASSUME NEW p, NEW h \in Handles, NEW due, NEW run, Good(p, {}, due, run),
           p.request[h] = NoRequest, NEW r \in Request, r.group \in Groups,
           NoneIgnores => ~r.ignore
    PROVE  LET q == [p EXCEPT !.request[h] = r] IN
           Good(q, {h}, due, run) /\ NotQueued(q, h) /\ Asking(q, r.group, h, {h})
           /\ q.request[h] = r
<1> DEFINE q == [p EXCEPT !.request[h] = r]
           c == p.callback[h]
           n == p.posted[h]
           i == p.initialized[h]
<1>1. /\ p \in Shape /\ IsAnswer(c) /\ n \in Nat /\ IsFlag(i)
      /\ SoundHandle(p, h)
      /\ [p.callback EXCEPT ![h] = c] = p.callback
      /\ [p.posted EXCEPT ![h] = n] = p.posted
      /\ [p.initialized EXCEPT ![h] = i] = p.initialized
  <2>1. p \in Shape
    BY DEF Good
  <2>2. /\ [p.callback EXCEPT ![h] = c] = p.callback
        /\ [p.posted EXCEPT ![h] = n] = p.posted
        /\ [p.initialized EXCEPT ![h] = i] = p.initialized
    BY <2>1 DEF Shape
  <2> HIDE DEF c, n, i
  <2> QED
    BY <2>1, <2>2, HandleFields DEF c, n, i
<1>2. q = PutHandle(p, h, r, c, n, i)
  BY <1>1 DEF PutHandle, Shape
<1>3. p.request[h].group = None /\ None \notin Groups
  BY UserAssumption DEF NoRequest
<1>4. /\ c = None /\ ~i /\ p.socket[h] = None /\ NotQueued(p, h)
  BY <1>1, <1>3 DEF SoundHandle, NotQueued
<1> HIDE DEF q, c, n, i
<1>5. HandleWith(p, h, r, c, n, i, {h})
  BY <1>4 DEF HandleWith, BusyWith, NotQueued
<1>6. OnlyOf({h}, h) /\ OnlyOf({}, h)
  BY DEF OnlyOf
<1>7. /\ Good(q, {h}, due, run) /\ q.socket = p.socket /\ q.request[h] = r
      /\ \A x \in Groups : InQueue(q, x, h) <=> InQueue(p, x, h)
  BY <1>1, <1>2, <1>5, <1>6, PutHandleGood
<1> QED
  BY <1>4, <1>7 DEF q, NotQueued, Asking

\* The answer is told: the handle keeps its socket or has no request any more.
LEMMA HandleInitGood ==
    ASSUME NEW p, NEW h \in Handles, NEW due, NEW run, Good(p, {h}, due, run), NotQueued(p, h)
    PROVE  Good(HandleInitCompletion(p, h), {}, due, run)
<1> DEFINE q == HandleInitCompletion(p, h)
           r == IF p.socket[h] = None THEN NoRequest ELSE p.request[h]
           c == p.callback[h]
           n == p.posted[h]
           i == IF p.socket[h] = None THEN p.initialized[h] ELSE TRUE
<1>1. /\ p \in Shape /\ BusyHandle(p, h) /\ c = None
      /\ p.request[h] \in Request /\ IsAnswer(p.callback[h])
      /\ n \in Nat /\ p.initialized[h] \in BOOLEAN /\ (NoneIgnores => ~p.request[h].ignore)
  <2>1. h \in {h} /\ p \in Shape
    BY DEF Good
  <2> QED
    BY <2>1, HandleFields DEF BusyHandle
<1>2. NoRequest \in Request /\ NoRequest.group = None /\ ~NoRequest.ignore /\ None \notin Groups
  BY UserAssumption DEF NoRequest, Request
<1>3. q = PutHandle(p, h, r, c, n, i)
  <2>1. /\ [p.callback EXCEPT ![h] = c] = p.callback
        /\ [p.posted EXCEPT ![h] = n] = p.posted
        /\ [p.request EXCEPT ![h] = p.request[h]] = p.request
        /\ [p.initialized EXCEPT ![h] = p.initialized[h]] = p.initialized
    BY <1>1 DEF Shape
  <2>2. CASE p.socket[h] = None
    <3>1. q = [p EXCEPT !.request = [p.request EXCEPT ![h] = r]]
      BY <2>2 DEF HandleInitCompletion
    <3>2. i = p.initialized[h]
      BY <2>2
    <3> HIDE DEF q, r, i
    <3> QED
      BY <1>1, <2>1, <3>1, <3>2 DEF PutHandle, Shape
  <2>3. CASE p.socket[h] # None
    <3>1. q = [p EXCEPT !.initialized = [p.initialized EXCEPT ![h] = i]]
      BY <2>3 DEF HandleInitCompletion
    <3>2. r = p.request[h]
      BY <2>3
    <3> HIDE DEF q, r, i
    <3> QED
      BY <1>1, <2>1, <3>1, <3>2 DEF PutHandle, Shape
  <2> QED
    BY <2>2, <2>3
<1>4. r \in Request /\ IsFlag(i) /\ IsAnswer(c)
  BY <1>1, <1>2 DEF IsFlag
<1>5. HandleWith(p, h, r, c, n, i, {})
  <2>1. CASE p.socket[h] = None
    BY <1>1, <1>2, <2>1, UserAssumption DEF HandleWith, SoundWith, BusyHandle, NotQueued
  <2>2. CASE p.socket[h] # None
    BY <1>1, <2>2, UserAssumption DEF HandleWith, SoundWith, BusyHandle, NotQueued
  <2> QED
    BY <2>1, <2>2
<1>6. OnlyOf({h}, h) /\ OnlyOf({}, h)
  BY DEF OnlyOf
<1> HIDE DEF q, r, c, n, i
<1>7. n \in Nat
  BY <1>1
<1>8. Good(q, {}, due, run)
  BY <1>3, <1>4, <1>5, <1>6, <1>7, PutHandleGood
<1> QED
  BY <1>8 DEF q

\* A task runs, and finds an answer or none.
LEMMA TaskTakenGood ==
    ASSUME NEW p, NEW h \in Handles, NEW due, NEW run, Good(p, {}, due, run), p.posted[h] > 0
    PROVE  LET q == [p EXCEPT !.posted[h] = @ - 1]
               t == [q EXCEPT !.callback[h] = None]
           IN  IF p.callback[h] = None THEN Good(q, {}, due, run)
               ELSE Good(t, {h}, due, run) /\ NotQueued(t, h)
<1> DEFINE q == [p EXCEPT !.posted[h] = @ - 1]
           t == [q EXCEPT !.callback[h] = None]
           r == p.request[h]
           c == p.callback[h]
           n == p.posted[h] - 1
           i == p.initialized[h]
<1>1. /\ p \in Shape /\ SoundHandle(p, h) /\ p.posted[h] \in Nat
      /\ r \in Request /\ IsAnswer(c) /\ IsFlag(i)
      /\ NoneIgnores => ~r.ignore
  <2>1. p \in Shape
    BY DEF Good
  <2> QED
    BY <2>1, HandleFields
<1>2. n \in Nat
  <2> DEFINE m == p.posted[h]
  <2>1. m \in Nat /\ m > 0
    BY <1>1
  <2> HIDE DEF m
  <2>2. m - 1 \in Nat
    BY <2>1
  <2> QED
    BY <2>2 DEF m
<1>3. /\ [p.request EXCEPT ![h] = r] = p.request
      /\ [p.callback EXCEPT ![h] = c] = p.callback
      /\ [p.initialized EXCEPT ![h] = i] = p.initialized
  BY <1>1 DEF Shape
<1>4. q = PutHandle(p, h, r, c, n, i)
  BY <1>1, <1>3 DEF PutHandle, Shape
<1>5. t = PutHandle(p, h, r, None, n, i)
  <2>1. q = [p EXCEPT !.posted = [p.posted EXCEPT ![h] = n]]
    OBVIOUS
  <2>2. q.callback = p.callback
    BY <1>1, <2>1 DEF Shape
  <2>3. t = [q EXCEPT !.callback = [p.callback EXCEPT ![h] = None]]
    BY <2>2
  <2> HIDE DEF q, t, n
  <2> QED
    BY <1>1, <1>3, <2>1, <2>3 DEF PutHandle, Shape
<1>6. OnlyOf({h}, h) /\ OnlyOf({}, h) /\ IsAnswer(None)
  BY DEF IsAnswer, OnlyOf
<1> HIDE DEF q, t, n
<1>7. CASE c = None
  <2>1. HandleWith(p, h, r, c, n, i, {})
    BY <1>1, <1>7 DEF HandleWith, SoundWith, SoundHandle
  <2> HIDE DEF r, c, i
  <2>2. Good(q, {}, due, run)
    BY <1>1, <1>2, <1>4, <1>6, <2>1, PutHandleGood, SMTT(30)
  <2> QED
    BY <1>7, <2>2 DEF q, c
<1>8. CASE c # None
  <2>1. NotQueued(p, h)
    BY <1>1, <1>8 DEF SoundHandle, NotQueued
  <2>2. HandleWith(p, h, r, None, n, i, {h})
    BY <1>1, <1>8, <2>1 DEF HandleWith, BusyWith, SoundHandle, NotQueued
  <2> HIDE DEF r, c, i
  <2>3. Good(t, {h}, due, run) /\ \A x \in Groups : InQueue(t, x, h) <=> InQueue(p, x, h)
    BY <1>1, <1>2, <1>5, <1>6, <2>2, PutHandleGood
  <2>4. NotQueued(t, h)
    BY <2>1, <2>3 DEF NotQueued
  <2> QED
    BY <1>8, <2>3, <2>4 DEF q, t, c
<1> QED
  BY <1>7, <1>8

\* A request is queued: no longer is anything due.
LEMMA InsertGood ==
    ASSUME NEW p, NEW h \in Handles, NEW g \in Groups, NEW run, Good(p, {h}, {g}, run),
           NotQueued(p, h), Asking(p, g, h, {h}), p.group[g].exists
    PROVE  Good(InsertRequestIntoQueue(p, g, h), {}, {}, run)
<1> DEFINE G == p.group[g]
           before == {i \in DOMAIN G.pending :
                        \A j \in 1..i : p.request[h].priority >= p.request[G.pending[j]].priority}
           n == Cardinality(before) + 1
           s == InsertAt(G.pending, n, h)
           H == [G EXCEPT !.pending = s]
           q == InsertRequestIntoQueue(p, g, h)
<1>1. /\ p \in Shape /\ p.group \in [Groups -> Group] /\ G \in Group
      /\ SoundGroup(G, p.generation, g, {g}) /\ p.request[h].group = g
      /\ p.socket[h] = None
  <2>1. h # None
    BY UserAssumption
  <2> QED
    BY <2>1, GoodTypes DEF Asking
<1>2. G.pending \in Seq(Handles) /\ NoneTwice(G.pending) /\ \A i \in 1..Len(G.pending) : G.pending[i] # h
  BY <1>1, GroupFields DEF SoundGroup, SoundLists, NotQueued, InQueue
<1>3. n \in 1..(Len(G.pending) + 1)
  <2> DEFINE m == Len(G.pending)
  <2>1. before \in SUBSET (1..m) /\ m \in Nat
    BY <1>2
  <2> HIDE DEF before, m
  <2>2. Cardinality(before) \in 0..m
    BY <2>1, Ranks
  <2>3. n \in 1..(m + 1)
    BY <2>1, <2>2
  <2> QED
    BY <2>3 DEF m
<1>4. q = [p EXCEPT !.group = [p.group EXCEPT ![g] = H]]
  BY DEF InsertRequestIntoQueue
<1> HIDE DEF n, q
<1>5. /\ s \in Seq(Handles) /\ NoneTwice(s) /\ s # <<>>
      /\ \A y : (\E i \in 1..Len(s) : s[i] = y) <=> y = h \/ \E i \in 1..Len(G.pending) : G.pending[i] = y
  <2> DEFINE old == G.pending
  <2>1. old \in Seq(Handles) /\ NoneTwice(old) /\ Without(old, h) /\ PlaceIn(old, n)
    BY <1>2, <1>3 DEF Without, PlaceIn
  <2>2. s = InsertAt(old, n, h)
    OBVIOUS
  <2> HIDE DEF old, s
  <2>3. s \in Seq(Handles) /\ NoneTwice(s) /\ s # <<>> /\ HoldsAlso(s, old, h)
    BY <2>1, <2>2, InsertedOne
  <2> QED
    BY <2>3 DEF old, HoldsAlso
<1> HIDE DEF s
<1>6. /\ H \in Group /\ H.pending = s /\ H.idle = G.idle /\ H.jobs = G.jobs
      /\ H.active = G.active /\ H.exists = G.exists /\ H.backup = G.backup
  BY <1>1, <1>5 DEF Group
<1> HIDE DEF H
<1>7. /\ q \in Shape /\ q.group[g] = H /\ \A x \in Groups : x # g => q.group[x] = p.group[x]
      /\ q.generation = p.generation /\ q.request = p.request /\ q.callback = p.callback
      /\ q.initialized = p.initialized /\ q.posted = p.posted /\ q.socket = p.socket
      /\ q.idle_socket_count_ = p.idle_socket_count_
      /\ q.connecting_socket_count_ = p.connecting_socket_count_
      /\ q.handed_out_socket_count_ = p.handed_out_socket_count_
  <2> DEFINE X == [p.group EXCEPT ![g] = H]
  <2>1. X \in [Groups -> Group] /\ X[g] = H /\ \A x \in Groups : x # g => X[x] = p.group[x]
    BY <1>1, <1>6
  <2> HIDE DEF X
  <2>2. q = [p EXCEPT !.group = X]
    BY <1>4 DEF X
  <2> QED
    BY <1>1, <2>1, <2>2 DEF Shape
<1>8. SameCounts(p, q)
  <2>1. NumJobs(H) = NumJobs(G)
    BY <1>6 DEF NumJobs
  <2>2. \A x \in Groups : Holders(q, x) = Holders(p, x)
    BY <1>7 DEF Holders
  <2> QED
    BY <1>6, <1>7, <2>1, <2>2 DEF SameCounts
<1>9. GroupsSound(p, {g}, run) /\ HandlesSound(p, {h})
  BY DEF Good
<1>10. ListsSound(q, {}, run)
  <2> SUFFICES ASSUME NEW x \in Groups
               PROVE  /\ SoundLists(q.group[x], q.generation, x, {})
                      /\ q.group[x].backup = "running" => x \in run
    BY DEF ListsSound
  <2>1. /\ SoundLists(p.group[x], p.generation, x, {g})
        /\ p.group[x].backup = "running" => x \in run
    BY <1>9 DEF GroupsSound, SoundGroup
  <2>2. CASE x # g
    BY <1>7, <2>1, <2>2 DEF SoundLists
  <2>3. CASE x = g
    <3>1. NumJobs(H) = NumJobs(G)
      BY <1>6 DEF NumJobs
    <3>2. SoundLists(G, p.generation, g, {g}) /\ (G.backup = "running" => g \in run)
      BY <2>1, <2>3
    <3>3. G.exists
      OBVIOUS
    <3> HIDE DEF G
    <3>4. SoundLists(H, p.generation, g, {})
      BY <1>5, <1>6, <3>1, <3>2, <3>3 DEF SoundLists
    <3> QED
      BY <1>6, <1>7, <2>3, <3>2, <3>4
  <2> QED
    BY <2>2, <2>3
<1>11. \A x \in Groups, y \in Handles : InQueue(q, x, y) <=> InQueue(p, x, y) \/ (x = g /\ y = h)
  <2> SUFFICES ASSUME NEW x \in Groups, NEW y \in Handles
               PROVE  InQueue(q, x, y) <=> InQueue(p, x, y) \/ (x = g /\ y = h)
    OBVIOUS
  <2>1. CASE x # g
    BY <1>7, <2>1 DEF InQueue
  <2>2. CASE x = g
    <3>1. (\E i \in 1..Len(s) : s[i] = y) <=> y = h \/ InQueue(p, g, y)
      BY <1>5 DEF InQueue
    <3>2. InQueue(q, g, y) <=> \E i \in 1..Len(s) : s[i] = y
      BY <1>6, <1>7 DEF InQueue
    <3> QED
      BY <2>2, <3>1, <3>2
  <2> QED
    BY <2>1, <2>2
<1>12. HandlesSound(q, {})
  <2> SUFFICES ASSUME NEW y \in Handles
               PROVE  /\ SoundHandle(q, y)
                      /\ q.socket[y] # None => q.socket[y].born = q.socket[y].id
                      /\ NoneIgnores => ~q.request[y].ignore
    BY DEF HandlesSound
  <2>1. /\ IF y \in {h} THEN BusyHandle(p, y) ELSE SoundHandle(p, y)
        /\ p.socket[y] # None => p.socket[y].born = p.socket[y].id
        /\ NoneIgnores => ~p.request[y].ignore
    BY <1>9 DEF HandlesSound
  <2>2. CASE y # h
    BY <1>7, <1>11, <2>1, <2>2 DEF SoundHandle
  <2>3. CASE y = h
    <3>1. BusyHandle(p, h)
      BY <2>1, <2>3
    <3>2. SoundHandle(q, h)
      BY <1>1, <1>7, <1>11, <3>1, UserAssumption DEF SoundHandle, BusyHandle, NotQueued
    <3> QED
      BY <1>7, <2>1, <2>3, <3>2
  <2> QED
    BY <2>2, <2>3
<1>13. Good(q, {}, {}, run)
  BY <1>7, <1>8, <1>10, <1>12, RegroupedGood
<1> QED
  BY <1>13 DEF q

\* The request stays in the queue it was in.
LEMMA StillQueuedGood ==
    ASSUME NEW p, NEW run, NEW g \in Groups, NEW h \in Handles, Good(p, {}, {}, run),
           InQueue(p, g, h), NEW q, Good(q, {h}, {g}, run), Same(p, q), q.socket = p.socket
    PROVE  Good(q, {}, {}, run)
<1>1. q \in Shape /\ GroupsSound(q, {g}, run) /\ HandlesSound(q, {h}) /\ HandlesSound(p, {})
  BY DEF Good
<1>2. SameCounts(q, q)
  BY DEF SameCounts
<1>3. ListsSound(q, {}, run)
  <2> SUFFICES ASSUME NEW x \in Groups
               PROVE  /\ SoundLists(q.group[x], q.generation, x, {})
                      /\ q.group[x].backup = "running" => x \in run
    BY DEF ListsSound
  <2>1. /\ SoundLists(q.group[x], q.generation, x, {g})
        /\ q.group[x].backup = "running" => x \in run
    BY <1>1 DEF GroupsSound, SoundGroup
  <2>2. x = g => q.group[x].pending # <<>>
    <3>1. Len(<<>>) = 0
      OBVIOUS
    <3>2. p.group[g].pending # <<>>
      BY <3>1 DEF InQueue
    <3> QED
      BY <3>2 DEF Same
  <2> QED
    BY <2>1, <2>2 DEF SoundLists
<1>4. SoundHandle(q, h)
  <2>1. SoundHandle(p, h)
    BY <1>1 DEF HandlesSound
  <2>2. \A x \in Groups : InQueue(q, x, h) <=> InQueue(p, x, h)
    BY DEF InQueue, Same
  <2> QED
    BY <2>1, <2>2 DEF SoundHandle, Same
<1>5. HandlesSound(q, {})
  BY <1>1, <1>4 DEF HandlesSound
<1> QED
  BY <1>1, <1>2, <1>3, <1>5, RegroupedGood

\* A handle gives up the socket that it holds of the group, and its request.
GivesUp(p, h, g, d, q) ==
    /\ ChangesActive(p, g, d, q)
    /\ q.request = [p.request EXCEPT ![h] = NoRequest]
    /\ q.socket = [p.socket EXCEPT ![h] = None]
    /\ q.callback = [p.callback EXCEPT ![h] = None]
    /\ q.initialized = [p.initialized EXCEPT ![h] = FALSE]
    /\ q.posted = p.posted

\* The group counts it.
LEMMA HolderCounts ==
    ASSUME NEW p, NEW run, Good(p, {}, {}, run), NEW h \in Handles, p.socket[h] # None
    PROVE  LET g == p.request[h].group IN
           /\ g \in Groups /\ p.group[g].exists /\ p.group[g].active - 1 \in Nat
           /\ ~(p.group[g].active = 0) /\ p.socket[h].born = p.socket[h].id /\ NotQueued(p, h)
           /\ h \in Holders(p, g)
<1> DEFINE g == p.request[h].group
<1>1. /\ GroupsSound(p, {}, run) /\ HandlesSound(p, {})
  BY DEF Good
<1>2. SoundHandle(p, h) /\ p.socket[h].born = p.socket[h].id
  BY <1>1 DEF HandlesSound
<1>3. g \in Groups /\ NotQueued(p, h)
  BY <1>2 DEF SoundHandle, NotQueued
<1>4. h \in Holders(p, g)
  BY DEF Holders
<1>5. IsFiniteSet(Holders(p, g)) /\ Cardinality(Holders(p, g)) \in Nat
  BY HoldersFinite
<1>6. p.group[g].active = Cardinality(Holders(p, g)) /\ SoundLists(p.group[g], p.generation, g, {})
  BY <1>1, <1>3 DEF GroupsSound, SoundGroup
<1>7. Cardinality(Holders(p, g)) # 0
  BY <1>4, <1>5, FS_EmptySet
<1>8. p.group[g].active - 1 \in Nat /\ ~(p.group[g].active = 0)
  <2> DEFINE n == Cardinality(Holders(p, g))
  <2>1. n \in Nat /\ n # 0 /\ p.group[g].active = n
    BY <1>5, <1>6, <1>7
  <2> HIDE DEF n
  <2>2. n - 1 \in Nat
    BY <2>1
  <2> QED
    BY <2>1, <2>2
<1>9. p.group[g].exists
  BY <1>6, <1>8, NothingInIt DEF SoundLists
<1> QED
  BY <1>2, <1>3, <1>4, <1>8, <1>9

\* The group has room for another one then.
LEMMA GivesUpGood ==
    ASSUME NEW p, NEW run, Good(p, {}, {}, run), NEW h \in Handles, p.socket[h] # None,
           NEW g, g = p.request[h].group, NEW d \in Int, d = -1, NEW q, GivesUp(p, h, g, d, q)
    PROVE  Good(q, {}, {}, run) /\ Room(q, g) /\ q.group[g].exists
<1>1. /\ g \in Groups /\ p.group[g].exists /\ NotQueued(p, h) /\ h \in Holders(p, g)
  BY HolderCounts
<1>2. /\ p \in Shape /\ p.group[g] \in Group /\ p.generation \in Nat
      /\ p.idle_socket_count_ \in Nat /\ p.connecting_socket_count_ \in Nat
      /\ p.handed_out_socket_count_ \in Nat
      /\ SoundGroup(p.group[g], p.generation, g, {}) /\ Limited(p)
  BY <1>1, GoodTypes
<1>3. /\ GroupsSound(p, {}, run) /\ HandlesSound(p, {}) /\ p.generation <= MaxFlushes
  BY DEF Good
<1>4. ChangesActive(p, g, d, q) /\ q \in Shape /\ q.generation = p.generation
  BY DEF GivesUp, ChangesActive
<1>5. /\ q.request[h] = NoRequest /\ q.socket[h] = None /\ q.callback[h] = None
      /\ ~q.initialized[h] /\ q.posted = p.posted
      /\ \A x \in Handles : x # h =>
            /\ q.request[x] = p.request[x] /\ q.socket[x] = p.socket[x]
            /\ q.callback[x] = p.callback[x] /\ q.initialized[x] = p.initialized[x]
  BY <1>2 DEF GivesUp, Shape
<1>6. Holders(q, g) = Holders(p, g) \ {h} /\ \A x \in Groups \ {g} : Holders(q, x) = Holders(p, x)
  BY <1>5 DEF Holders
<1>7. HoldersFollow(p, g, d, q)
  <2> DEFINE n == Cardinality(Holders(p, g))
  <2>1. IsFiniteSet(Holders(p, g)) /\ n \in Nat
    BY HoldersFinite
  <2>2. IsFiniteSet(Holders(q, g)) /\ Cardinality(Holders(q, g)) = n - 1
    BY <1>1, <1>6, <2>1, FS_RemoveElement
  <2>3. p.group[g].active = n
    BY <1>1, <1>3 DEF GroupsSound
  <2> HIDE DEF n
  <2>4. n - 1 = n + d
    BY <2>1
  <2> QED
    BY <1>6, <2>2, <2>3, <2>4 DEF HoldersFollow
<1>8. RoomFor(p, g, d)
  BY DEF RoomFor
<1>9. /\ GroupsSound(q, {}, run) /\ Counted(q) /\ Limited(q)
      /\ \A x \in Groups : q.group[x].pending = p.group[x].pending
      /\ BecameActive(p, g, d, q) /\ q.group[g].exists
  BY <1>1, <1>4, <1>7, <1>8, ActiveGood
<1>10. HandlesSound(q, {})
  <2> SUFFICES ASSUME NEW x \in Handles
               PROVE  /\ SoundHandle(q, x)
                      /\ q.socket[x] # None => q.socket[x].born = q.socket[x].id
                      /\ NoneIgnores => ~q.request[x].ignore
    BY DEF HandlesSound
  <2>1. /\ SoundHandle(p, x)
        /\ p.socket[x] # None => p.socket[x].born = p.socket[x].id
        /\ NoneIgnores => ~p.request[x].ignore
    BY <1>3 DEF HandlesSound
  <2>2. \A y \in Groups : InQueue(q, y, x) <=> InQueue(p, y, x)
    BY <1>9 DEF InQueue
  <2>3. CASE x # h
    BY <1>5, <2>1, <2>2, <2>3 DEF SoundHandle
  <2>4. CASE x = h
    <3>1. NoRequest.group \notin Groups /\ ~NoRequest.ignore /\ None \notin {"ok", "error"}
      BY UserAssumption DEF NoRequest
    <3>2. SoundHandle(q, h)
      BY <1>1, <1>5, <2>2, <2>4, <3>1 DEF SoundHandle, NotQueued
    <3> QED
      BY <1>5, <2>4, <3>1, <3>2
  <2> QED
    BY <2>3, <2>4
<1>11. Good(q, {}, {}, run)
  BY <1>3, <1>4, <1>9, <1>10 DEF Good
<1>12. Room(q, g)
  <2> DEFINE s == NumActiveSocketSlots(p.group[g])
             n == TotalSockets(p)
  <2>1. s \in Nat /\ n \in Nat
    <3>1. s \in Nat
      BY <1>2, GroupNumbers
    <3>2. n \in Nat
      BY <1>2 DEF TotalSockets
    <3> QED
      BY <3>1, <3>2
  <2>2. NoneIgnores => s <= MaxPerGroup /\ n <= MaxSockets
    BY <1>2 DEF SoundGroup, Limited
  <2>3. TotalSockets(q) = n + d /\ NumActiveSocketSlots(q.group[g]) = s + d
    BY <1>9 DEF BecameActive
  <2>4. MaxPerGroup \in Nat /\ MaxSockets \in Nat
    BY LimitAssumption
  <2> HIDE DEF s, n
  <2>5. NoneIgnores => s + d < MaxPerGroup /\ n + d < MaxSockets
    BY <2>1, <2>2, <2>4
  <2> QED
    BY <2>3, <2>5 DEF Room
<1> QED
  BY <1>9, <1>11, <1>12

\* A backup timer of the group: posted, running or none.
SetTimer(p, g, backup) == [p EXCEPT !.group = [p.group EXCEPT ![g].backup = backup]]

TimerMay(p, g, backup, run, runs) ==
    /\ backup \in {"none", "posted", "running"}
    /\ backup # "none" => p.group[g].backup # "none"
    /\ backup = "running" => g \in runs
    /\ \A x \in Groups \ {g} : x \in run => x \in runs

\* It changes nothing else.
LEMMA SetTimerGood ==
    ASSUME NEW p, NEW run, Good(p, {}, {}, run), NEW g \in Groups, NEW backup, NEW runs,
           TimerMay(p, g, backup, run, runs), NEW q, q = SetTimer(p, g, backup)
    PROVE  /\ Good(q, {}, {}, runs) /\ Requeued(p, g, q) /\ TotalSockets(q) = TotalSockets(p)
           /\ q.group[g].pending = p.group[g].pending /\ q.group[g].backup = backup
<1> DEFINE G == p.group[g]
           H == [G EXCEPT !.backup = backup]
           X == [p.group EXCEPT ![g] = H]
<1>1. /\ p \in Shape /\ p.group \in [Groups -> Group] /\ G \in Group
      /\ SoundGroup(G, p.generation, g, {})
  BY GoodTypes
<1>2. /\ backup \in {"none", "posted", "running"} /\ (backup # "none" => G.backup # "none")
      /\ (backup = "running" => g \in runs) /\ \A x \in Groups \ {g} : x \in run => x \in runs
  BY DEF TimerMay
<1>3. /\ H \in Group /\ H.pending = G.pending /\ H.idle = G.idle /\ H.jobs = G.jobs
      /\ H.active = G.active /\ H.exists = G.exists /\ H.backup = backup
  BY <1>1, <1>2 DEF Group
<1>4. q = [p EXCEPT !.group = X]
  BY DEF SetTimer
<1> HIDE DEF H
<1>5. X \in [Groups -> Group] /\ X[g] = H /\ \A x \in Groups : x # g => X[x] = p.group[x]
  BY <1>1, <1>3
<1> HIDE DEF X
<1>6. /\ q \in Shape /\ q.group[g] = H /\ \A x \in Groups : x # g => q.group[x] = p.group[x]
      /\ q.generation = p.generation /\ q.request = p.request /\ q.callback = p.callback
      /\ q.initialized = p.initialized /\ q.posted = p.posted /\ q.socket = p.socket
      /\ q.idle_socket_count_ = p.idle_socket_count_
      /\ q.connecting_socket_count_ = p.connecting_socket_count_
      /\ q.handed_out_socket_count_ = p.handed_out_socket_count_
  BY <1>1, <1>4, <1>5 DEF Shape
<1>7. NumJobs(H) = NumJobs(G)
  BY <1>3 DEF NumJobs
<1>8. SameCounts(p, q)
  <2>1. \A x \in Groups : Holders(q, x) = Holders(p, x)
    BY <1>6 DEF Holders
  <2> QED
    BY <1>3, <1>6, <1>7, <2>1 DEF SameCounts
<1>9. GroupsSound(p, {}, run) /\ HandlesSound(p, {})
  BY DEF Good
<1>10. ListsSound(q, {}, runs)
  <2> SUFFICES ASSUME NEW x \in Groups
               PROVE  /\ SoundLists(q.group[x], q.generation, x, {})
                      /\ q.group[x].backup = "running" => x \in runs
    BY DEF ListsSound
  <2>1. /\ SoundLists(p.group[x], p.generation, x, {})
        /\ p.group[x].backup = "running" => x \in run
    BY <1>9 DEF GroupsSound, SoundGroup
  <2>2. CASE x # g
    BY <1>2, <1>6, <2>1, <2>2
  <2>3. CASE x = g
    <3>1. SoundLists(G, p.generation, g, {})
      BY <2>1, <2>3
    <3>2. ~H.exists => H = NoGroup
      <4> SUFFICES ASSUME ~G.exists PROVE H = NoGroup
        BY <1>3
      <4>1. G = NoGroup
        BY <3>1 DEF SoundLists
      <4>2. NoGroup.backup = "none" /\ NoGroup \in Group
        BY NothingInIt
      <4>3. backup = "none"
        BY <1>2, <4>1, <4>2
      <4>4. NoGroup = [NoGroup EXCEPT !.backup = "none"]
        BY <4>2 DEF Group
      <4> QED
        BY <4>1, <4>3, <4>4 DEF H
    <3> HIDE DEF G
    <3>3. SoundLists(H, p.generation, g, {})
      BY <1>2, <1>3, <1>7, <3>1, <3>2 DEF SoundLists
    <3> QED
      BY <1>2, <1>3, <1>6, <2>3, <3>3
  <2> QED
    BY <2>2, <2>3
<1>11. HandlesSound(q, {})
  <2>1. \A x \in Groups, y \in Handles : InQueue(q, x, y) <=> InQueue(p, x, y)
    <3>1. \A x \in Groups : q.group[x].pending = p.group[x].pending
      BY <1>3, <1>6
    <3> QED
      BY <3>1 DEF InQueue
  <2> QED
    BY <1>6, <1>9, <2>1 DEF HandlesSound, SoundHandle
<1>12. Good(q, {}, {}, runs)
  BY <1>6, <1>8, <1>10, <1>11, RegroupedGood
<1>13. Requeued(p, g, q) /\ TotalSockets(q) = TotalSockets(p)
  BY <1>3, <1>6 DEF Requeued, TotalSockets
<1> QED
  BY <1>3, <1>6, <1>12, <1>13

-----------------------------------------------------------------------------
(* A socket slot becomes available                                         *)

\* The first request of a queue that is not empty.
LEMMA FirstQueued ==
    ASSUME NEW p, NEW busy, NEW due, NEW run, Good(p, busy, due, run), NEW g \in Groups,
           p.group[g].pending # <<>>
    PROVE  Head(p.group[g].pending) \in Handles /\ InQueue(p, g, Head(p.group[g].pending))
<1> DEFINE s == p.group[g].pending
<1>1. s \in Seq(Handles) /\ s # <<>>
  BY GoodTypes, GroupFields
<1> HIDE DEF s
<1>2. Head(s) = s[1] /\ 1 \in 1..Len(s) /\ s[1] \in Handles
  BY <1>1
<1> QED
  BY <1>2 DEF InQueue, s

\* A request that has left the queue stays out of it while only sockets move.
LEMMA NotQueuedAfter ==
    ASSUME NEW p, NEW q, Same(p, q), NEW h, NotQueued(p, h)
    PROVE  NotQueued(q, h)
BY DEF Same, NotQueued, InQueue

\* p with another history.
Marked(p, b) == [p EXCEPT !.wakeFailed = b]

\* The history is of no importance to anything else.
LEMMA MarkedGood ==
    ASSUME NEW p, NEW busy, NEW due, NEW run, Good(p, busy, due, run), NEW b \in BOOLEAN
    PROVE  LET q == Marked(p, b) IN
           /\ Good(q, busy, due, run) /\ Same(p, q) /\ q.socket = p.socket
           /\ q.group = p.group /\ InUse(q) = InUse(p) /\ q.wakeFailed = b
<1> DEFINE q == Marked(p, b)
<1>1. p \in Shape /\ GroupsSound(p, due, run) /\ HandlesSound(p, busy) /\ Counted(p) /\ Limited(p)
  BY DEF Good
<1>2. /\ q \in Shape /\ q.group = p.group /\ q.generation = p.generation
      /\ q.request = p.request /\ q.socket = p.socket /\ q.callback = p.callback
      /\ q.posted = p.posted /\ q.initialized = p.initialized
      /\ q.idle_socket_count_ = p.idle_socket_count_
      /\ q.connecting_socket_count_ = p.connecting_socket_count_
      /\ q.handed_out_socket_count_ = p.handed_out_socket_count_ /\ q.wakeFailed = b
  BY <1>1 DEF Marked, Shape
<1> HIDE DEF q
<1>3. GroupsSound(q, due, run)
  <2>1. \A x \in Groups : Holders(q, x) = Holders(p, x)
    BY <1>2 DEF Holders
  <2> QED
    BY <1>1, <1>2, <2>1 DEF GroupsSound
<1>4. HandlesSound(q, busy)
  <2>1. \A x \in Groups, h \in Handles : InQueue(q, x, h) <=> InQueue(p, x, h)
    BY <1>2 DEF InQueue
  <2>2. \A h \in Handles : /\ SoundHandle(p, h) => SoundHandle(q, h)
                           /\ BusyHandle(p, h) => BusyHandle(q, h)
    BY <1>2, <2>1 DEF SoundHandle, BusyHandle
  <2> QED
    BY <1>1, <1>2, <2>2 DEF HandlesSound
<1>5. Counted(q) /\ Limited(q)
  BY <1>1, <1>2 DEF Counted, Limited, TotalSockets
<1>6. Same(p, q) /\ InUse(q) = InUse(p)
  BY <1>2 DEF Same, InUse
<1>7. Good(q, busy, due, run)
  BY <1>2, <1>3, <1>4, <1>5 DEF Good
<1> QED
  BY <1>2, <1>6, <1>7 DEF q

\* Whether h was woken, and failed, while somebody is queued.
Failing(p, h) == /\ p.callback[h] = "error" /\ p.socket[h] = None
                 /\ \E g \in Groups : p.group[g].pending # <<>>

LEMMA NotedMarks ==
    ASSUME NEW p \in Shape, NEW h \in Handles
    PROVE  \E b \in BOOLEAN : Noted(p, h) = Marked(p, b) /\ (b <=> p.wakeFailed \/ Failing(p, h))
<1> DEFINE b == p.wakeFailed \/ Failing(p, h)
<1>1. p.wakeFailed \in BOOLEAN
  BY DEF Shape
<1>2. b \in BOOLEAN
  OBVIOUS
<1>3. Noted(p, h) = Marked(p, b)
  BY DEF Noted, Marked, Failing
<1> QED
  BY <1>2, <1>3

\* The first request of the group is tried again.
LEMMA ProcessPendingGood ==
    ASSUME NEW p, NEW run, Good(p, {}, {}, run), NEW g \in Groups, p.group[g].pending # <<>>,
           NEW q \in ProcessPendingRequest(p, g)
    PROVE  Good(q, {}, {}, run)
<1> DEFINE h == Head(p.group[g].pending)
           ignore == p.request[h].ignore
<1>1. h \in Handles /\ InQueue(p, g, h)
  BY FirstQueued
<1>2. PICK end \in RequestSocketInternal(p, g, h, ignore) :
         q = IF end.rv = "pending" THEN end.pool
             ELSE Noted(InvokeUserCallbackLater(
                     RemoveIfEmpty(RemoveRequestFromQueue(end.pool, g, h), g), h, end.rv), h)
  BY DEF ProcessPendingRequest
<1> HIDE DEF h
<1>3. Good(p, {h}, {}, run) /\ Asking(p, g, h, {h}) /\ h # None
  BY <1>1, QueuedAsks
<1>4. ignore \in BOOLEAN /\ (NoneIgnores => ~ignore)
  BY <1>1, HandleFields DEF Request
<1> HIDE DEF ignore
<1>5. Answered(p, g, h, {h}, run, end)
  BY <1>2, <1>3, <1>4, RequestSocketInternalGood
<1> DEFINE t == end.pool
<1>6. CASE end.rv = "pending"
  <2>1. q = t
    BY <1>2, <1>6
  <2>2. Good(t, {h}, {g}, run) /\ Same(p, t) /\ t.socket = p.socket
    BY <1>3, <1>5, <1>6 DEF Answered
  <2> HIDE DEF t
  <2> QED
    BY <1>1, <2>1, <2>2, StillQueuedGood
<1>7. CASE end.rv # "pending"
  <2> DEFINE r == RemoveRequestFromQueue(t, g, h)
             u == RemoveIfEmpty(r, g)
             w == InvokeUserCallbackLater(u, h, end.rv)
  <2>1. q = Noted(w, h)
    BY <1>2, <1>7
  <2>2. /\ Good(t, {h}, {}, run) /\ Same(p, t) /\ end.rv \in {"ok", "error"}
        /\ end.rv = "ok" => t.socket[h] # None
    BY <1>3, <1>5, <1>7 DEF Answered
  <2>3. t.request[h].group = g
    BY <1>3, <2>2 DEF Asking, Same
  <2> HIDE DEF t
  <2>4. Good(r, {h}, {}, run) /\ Requeued(t, g, r) /\ NotQueued(r, h)
    BY <1>1, <2>2, <2>3, RemoveRequestGood
  <2> HIDE DEF r
  <2>5. Good(u, {h}, {}, run) /\ Same(r, u) /\ u.socket = r.socket
    BY <2>4, TidyGood
  <2> HIDE DEF u
  <2>6. NotQueued(u, h)
    BY <2>4, <2>5, NotQueuedAfter
  <2>7. end.rv = "ok" => u.socket[h] # None
    BY <2>2, <2>4, <2>5 DEF Requeued
  <2>8. Good(w, {}, {}, run)
    BY <1>1, <2>2, <2>5, <2>6, <2>7, InvokeLaterGood
  <2> HIDE DEF w
  <2>9. \E b \in BOOLEAN : q = Marked(w, b)
    BY <1>1, <2>1, <2>8, NotedMarks DEF Good
  <2> QED
    BY <2>8, <2>9, MarkedGood
<1> QED
  BY <1>6, <1>7

\* OnAvailableSocketSlot.
LEMMA OnAvailableGood ==
    ASSUME NEW p, NEW run, Good(p, {}, {}, run), NEW g \in Groups,
           NEW q \in OnAvailableSocketSlot(p, g)
    PROVE  Good(q, {}, {}, run)
<1>1. CASE IsEmpty(p.group[g])
  <2>1. q = RemoveGroup(p, g)
    BY <1>1 DEF OnAvailableSocketSlot
  <2> QED
    BY <1>1, <2>1, RemovedGood
<1>2. CASE ~IsEmpty(p.group[g]) /\ p.group[g].pending # <<>>
  <2>1. q \in ProcessPendingRequest(p, g)
    BY <1>2 DEF OnAvailableSocketSlot
  <2> QED
    BY <1>2, <2>1, ProcessPendingGood
<1>3. CASE ~IsEmpty(p.group[g]) /\ ~(p.group[g].pending # <<>>)
  BY <1>3 DEF OnAvailableSocketSlot
<1> QED
  BY <1>1, <1>2, <1>3

\* CheckForStalledSocketGroups.
LEMMA CheckStalledGood ==
    ASSUME NEW p, NEW run, Good(p, {}, {}, run), NEW q \in CheckForStalledSocketGroups(p)
    PROVE  Good(q, {}, {}, run)
<1>1. CASE TopStalledGroups(p) = {}
  BY <1>1 DEF CheckForStalledSocketGroups
<1>2. CASE TopStalledGroups(p) # {}
  <2>1. PICK g \in TopStalledGroups(p) :
           \/ q \in OnAvailableSocketSlot(p, g)
           \/ \E r \in CloseOneIdleSocket(p, {}) : q \in OnAvailableSocketSlot(r, g)
           \/ q = p
    BY <1>2 DEF CheckForStalledSocketGroups, Then
  <2>2. g \in Groups
    BY <2>1 DEF TopStalledGroups
  <2>3. CASE q \in OnAvailableSocketSlot(p, g)
    BY <2>2, <2>3, OnAvailableGood
  <2>4. CASE \E r \in CloseOneIdleSocket(p, {}) : q \in OnAvailableSocketSlot(r, g)
    <3>1. PICK r \in CloseOneIdleSocket(p, {}) : q \in OnAvailableSocketSlot(r, g)
      BY <2>4
    <3>2. Good(r, {}, {}, run)
      BY <3>1, CloseOneGood
    <3> QED
      BY <2>2, <3>1, <3>2, OnAvailableGood
  <2> QED
    BY <2>1, <2>3, <2>4
<1> QED
  BY <1>1, <1>2

\* A slot of the group, and then a stalled one.
LEMMA SlotGood ==
    ASSUME NEW p, NEW run, Good(p, {}, {}, run), NEW g \in Groups,
           NEW q \in Then(OnAvailableSocketSlot(p, g), CheckForStalledSocketGroups)
    PROVE  Good(q, {}, {}, run)
<1>1. PICK r \in OnAvailableSocketSlot(p, g) : q \in CheckForStalledSocketGroups(r)
  BY DEF Then
<1>2. Good(r, {}, {}, run)
  BY <1>1, OnAvailableGood
<1> QED
  BY <1>1, <1>2, CheckStalledGood

\* ReleaseToPool, when the handle has given up its socket.
LEMMA ReleaseToPoolGood ==
    ASSUME NEW p, NEW run, Good(p, {}, {}, run), NEW h \in Handles, p.socket[h] # None,
           NEW g, g = p.request[h].group, NEW r,
           NEW d \in Int, d = -1,
           GivesUp(p, h, g, d, [r EXCEPT !.handed_out_socket_count_ = @ - 1,
                                         !.group[g].active = @ - 1]),
           NEW connectedAndIdle \in BOOLEAN,
           r.generation = p.generation,
           NEW q \in ReleaseToPool(r, g, p.socket[h], connectedAndIdle)
    PROVE  Good(q, {}, {}, run)
<1> DEFINE released == [r EXCEPT !.handed_out_socket_count_ = @ - 1,
                                 !.group[g].active = @ - 1]
           idled == AddIdleSocket(released, g, p.socket[h].born)
<1>1. Good(released, {}, {}, run) /\ Room(released, g) /\ released.group[g].exists
  <2> HIDE DEF released
  <2>1. GivesUp(p, h, g, d, released)
    BY DEF released
  <2> QED
    BY <2>1, GivesUpGood
<1>2. g \in Groups /\ p.socket[h].born = p.socket[h].id
  BY HolderCounts
<1>3. released.generation = r.generation
  <2>1. released.generation = p.generation
    BY DEF GivesUp, ChangesActive
  <2> QED
    BY <2>1
<1>4. \/ /\ p.socket[h].id = p.generation
         /\ q \in Then(OnAvailableSocketSlot(idled, g), CheckForStalledSocketGroups)
      \/ q \in CheckForStalledSocketGroups(released)
  BY DEF ReleaseToPool
<1> HIDE DEF released
<1>5. CASE q \in CheckForStalledSocketGroups(released)
  BY <1>1, <1>5, CheckStalledGood
<1>6. CASE /\ p.socket[h].id = p.generation
           /\ q \in Then(OnAvailableSocketSlot(idled, g), CheckForStalledSocketGroups)
  <2>1. idled = AddIdleSocket(released, g, released.generation)
    BY <1>2, <1>3, <1>6
  <2>2. Good(idled, {}, {}, run)
    BY <1>1, <1>2, <2>1, AddIdleGood
  <2> HIDE DEF idled
  <2> QED
    BY <1>2, <1>6, <2>2, SlotGood
<1> QED
  BY <1>4, <1>5, <1>6

IsFirst(p, g, h) == p.group[g].pending # <<>> /\ h = Head(p.group[g].pending)

\* A job has ended and the first request of the queue gets what came of it.
LEMMA ServedGood ==
    ASSUME NEW p, NEW run, Good(p, {}, {}, run), NEW g \in Groups,
           NEW k \in JobKinds, NEW i \in DOMAIN p.group[g].jobs[k], NEW h, IsFirst(p, g, h)
    PROVE  LET q == RemoveConnectJob(RemoveRequestFromQueue(p, g, h), g, k, i) IN
           /\ h \in Handles /\ h # None /\ Good(q, {h}, {}, run) /\ NotQueued(q, h)
           /\ Asking(q, g, h, {h}) /\ Room(q, g) /\ q.group[g].exists
           /\ p.group[g].jobs[k][i] = q.generation
<1> DEFINE t == RemoveRequestFromQueue(p, g, h)
           q == RemoveConnectJob(t, g, k, i)
<1>1. h \in Handles /\ InQueue(p, g, h)
  BY FirstQueued DEF IsFirst
<1>2. Good(p, {h}, {}, run) /\ Asking(p, g, h, {h}) /\ h # None
  BY <1>1, QueuedAsks
<1>3. Good(t, {h}, {}, run) /\ Requeued(p, g, t) /\ NotQueued(t, h)
  BY <1>1, <1>2, RemoveRequestGood
<1> HIDE DEF t
<1>4. t.group[g].jobs = p.group[g].jobs /\ t.socket = p.socket /\ t.request = p.request
  BY <1>3 DEF Requeued
<1>5. i \in DOMAIN t.group[g].jobs[k]
  BY <1>4
<1>6. /\ Good(q, {h}, {}, run) /\ Same(t, q) /\ q.socket = t.socket
      /\ q.group[g].exists /\ Room(q, g) /\ t.group[g].jobs[k][i] = t.generation
  BY <1>3, <1>5, RemoveJobGood
<1> HIDE DEF q
<1>7. NotQueued(q, h)
  BY <1>3, <1>6, NotQueuedAfter
<1>8. Asking(q, g, h, {h})
  BY <1>2, <1>4, <1>6 DEF Asking, Same
<1>9. p.group[g].jobs[k][i] = q.generation
  BY <1>4, <1>6 DEF Same
<1> QED
  BY <1>1, <1>2, <1>6, <1>7, <1>8, <1>9 DEF q, t

\* ConnectJobComplete.
LEMMA ConnectJobCompleteGood ==
    ASSUME NEW p, NEW run, Good(p, {}, {}, run), NEW g \in Groups, NEW k \in JobKinds,
           NEW i \in DOMAIN p.group[g].jobs[k],
           NEW result \in {"ok", "error", "errorWithSocket"},
           NEW q \in ConnectJobComplete(p, g, k, i, result)
    PROVE  Good(q, {}, {}, run)
<1> DEFINE born == p.group[g].jobs[k][i]
           queue == p.group[g].pending
           h == Head(queue)
           gone == RemoveConnectJob(p, g, k, i)
           idled == AddIdleSocket(gone, g, born)
           served == RemoveConnectJob(RemoveRequestFromQueue(p, g, h), g, k, i)
           given == HandOutSocket(served, g, h, born)
           slot(x) == Then(OnAvailableSocketSlot(x, g), CheckForStalledSocketGroups)
<1>1. \/ q \in slot(idled)
      \/ queue # <<>> /\ q = InvokeUserCallbackLater(given, h, "ok")
      \/ queue # <<>> /\ q = InvokeUserCallbackLater(given, h, "error")
      \/ queue # <<>> /\ q \in slot(InvokeUserCallbackLater(served, h, "error"))
      \/ q \in slot(gone)
  <2>1. q \in CASE result = "ok" /\ queue = <<>> -> slot(idled)
                [] result = "ok" /\ queue # <<>> -> {InvokeUserCallbackLater(given, h, "ok")}
                [] result = "errorWithSocket" /\ queue # <<>> ->
                     {InvokeUserCallbackLater(given, h, "error")}
                [] result = "error" /\ queue # <<>> ->
                     slot(InvokeUserCallbackLater(served, h, "error"))
                [] OTHER -> slot(gone)
    BY DEF ConnectJobComplete
  <2> HIDE DEF idled, queue, given, gone, served, slot, h
  <2> QED
    BY <2>1
<1>2. /\ Good(gone, {}, {}, run) /\ Same(p, gone)
      /\ gone.group[g].exists /\ Room(gone, g) /\ born = p.generation
  BY RemoveJobGood
<1>3. CASE q \in slot(gone)
  <2> HIDE DEF gone
  <2> QED
    BY <1>2, <1>3, SlotGood
<1>4. CASE q \in slot(idled)
  <2>1. idled = AddIdleSocket(gone, g, gone.generation)
    BY <1>2 DEF Same
  <2> HIDE DEF gone
  <2>2. Good(idled, {}, {}, run)
    BY <1>2, <2>1, AddIdleGood
  <2> HIDE DEF idled
  <2> QED
    BY <1>4, <2>2, SlotGood
<1>5. CASE /\ queue # <<>>
           /\ \/ q = InvokeUserCallbackLater(given, h, "ok")
              \/ q = InvokeUserCallbackLater(given, h, "error")
              \/ q \in slot(InvokeUserCallbackLater(served, h, "error"))
  <2>1. /\ h \in Handles /\ h # None /\ Good(served, {h}, {}, run) /\ NotQueued(served, h)
        /\ Asking(served, g, h, {h}) /\ Room(served, g) /\ served.group[g].exists
        /\ born = served.generation
    <3>1. IsFirst(p, g, h)
      BY <1>5 DEF IsFirst
    <3> HIDE DEF h
    <3> QED
      BY <3>1, ServedGood
  <2>2. given = HandOutSocket(served, g, h, served.generation)
    BY <2>1
  <2> HIDE DEF served, h
  <2>3. Good(given, {h}, {}, run) /\ Same(served, given) /\ given.socket[h] # None
    BY <2>1, <2>2, HandOutGood
  <2> HIDE DEF given
  <2>4. NotQueued(given, h)
    BY <2>1, <2>3, NotQueuedAfter
  <2>5. ASSUME NEW rv \in {"ok", "error"}
        PROVE  Good(InvokeUserCallbackLater(given, h, rv), {}, {}, run)
    BY <2>1, <2>3, <2>4, InvokeLaterGood
  <2>6. Good(InvokeUserCallbackLater(served, h, "error"), {}, {}, run)
    <3>1. ASSUME NEW rv \in {"ok", "error"}, rv # "ok"
          PROVE  Good(InvokeUserCallbackLater(served, h, rv), {}, {}, run)
      BY <2>1, <3>1, InvokeLaterGood
    <3> QED
      BY <3>1
  <2>7. CASE q \in slot(InvokeUserCallbackLater(served, h, "error"))
    <3> DEFINE r == InvokeUserCallbackLater(served, h, "error")
    <3>1. Good(r, {}, {}, run) /\ q \in slot(r)
      BY <2>6, <2>7
    <3> HIDE DEF r
    <3> QED
      BY <3>1, SlotGood
  <2> QED
    BY <1>5, <2>5, <2>7
<1> QED
  BY <1>1, <1>3, <1>4, <1>5

-----------------------------------------------------------------------------
(* The actions                                                             *)

\* RequestSocket.
LEMMA RequestSocketKeeps ==
    ASSUME IInv, NEW h \in Handles, NEW g \in Groups, NEW k \in Kinds, RequestSocket(h, g, k)
    PROVE  IInv'
<1> DEFINE r == [group |-> g, priority |-> k.priority, ignore |-> k.ignore]
           requesting == [pool EXCEPT !.request[h] = r]
           asked == Marked(requesting, pool.wakeFailed /\ ~NoneQueued)
<1>1. Good(pool, {}, {}, {})
  BY DEF IInv
<1>2. /\ r \in Request /\ r.group = g /\ k.ignore \in BOOLEAN /\ (NoneIgnores => ~k.ignore)
      /\ (NoneIgnores => ~r.ignore)
  BY UserAssumption DEF Request, NoneIgnores
<1>3. pool.request[h] = NoRequest
  BY DEF RequestSocket
<1>4. PICK end \in RequestSocketInternal(asked, g, h, k.ignore) :
         pool' = IF end.rv = "pending" THEN InsertRequestIntoQueue(end.pool, g, h)
                 ELSE HandleInitCompletion(end.pool, h)
  <2>1. asked = [pool EXCEPT !.request[h] = r, !.wakeFailed = @ /\ ~NoneQueued]
    BY <1>1 DEF Good, Shape, Marked
  <2> QED
    BY <2>1 DEF RequestSocket
<1> HIDE DEF r
<1>5. Good(asked, {h}, {}, {}) /\ NotQueued(asked, h) /\ Asking(asked, g, h, {h})
  <2>1. /\ Good(requesting, {h}, {}, {}) /\ NotQueued(requesting, h)
        /\ Asking(requesting, g, h, {h})
    BY <1>1, <1>2, <1>3, AskedGood
  <2> HIDE DEF requesting
  <2>2. /\ Good(asked, {h}, {}, {}) /\ Same(requesting, asked)
        /\ asked.socket = requesting.socket
    BY <2>1, MarkedGood
  <2> HIDE DEF asked
  <2> QED
    BY <2>1, <2>2, NotQueuedAfter, AskingAfter
<1> HIDE DEF asked
<1>6. Answered(asked, g, h, {h}, {}, end)
  BY <1>2, <1>4, <1>5, RequestSocketInternalGood
<1> DEFINE t == end.pool
<1>7. /\ Good(t, {h}, IF end.rv = "pending" /\ h # None THEN {g} ELSE {}, {})
      /\ Same(asked, t) /\ h # None
      /\ end.rv = "pending" => t.socket = asked.socket /\ t.group[g].exists
  BY <1>6, UserAssumption DEF Answered
<1> HIDE DEF t
<1>8. NotQueued(t, h)
  BY <1>5, <1>7, NotQueuedAfter
<1>9. CASE end.rv = "pending"
  <2>1. Good(t, {h}, {g}, {}) /\ t.group[g].exists /\ t.socket = asked.socket
    BY <1>7, <1>9
  <2>2. Asking(t, g, h, {h})
    BY <1>5, <1>7, <2>1, AskingAfter
  <2>3. Good(InsertRequestIntoQueue(t, g, h), {}, {}, {})
    BY <1>8, <2>1, <2>2, InsertGood
  <2> QED
    BY <1>4, <1>9, <2>3 DEF IInv, t
<1>10. CASE end.rv # "pending"
  <2>1. Good(t, {h}, {}, {})
    BY <1>7, <1>10
  <2>2. Good(HandleInitCompletion(t, h), {}, {}, {})
    BY <1>8, <2>1, HandleInitGood
  <2> QED
    BY <1>4, <1>10, <2>2 DEF IInv, t
<1> QED
  BY <1>9, <1>10

\* InvokeUserCallback.
LEMMA InvokeUserCallbackKeeps ==
    ASSUME IInv, NEW h \in Handles, InvokeUserCallback(h)
    PROVE  IInv'
<1> DEFINE q == [pool EXCEPT !.posted[h] = @ - 1]
           t == [q EXCEPT !.callback[h] = None]
<1>1. /\ Good(pool, {}, {}, {}) /\ pool.posted[h] > 0
      /\ pool' = IF pool.callback[h] = None THEN q ELSE HandleInitCompletion(t, h)
  BY DEF IInv, InvokeUserCallback
<1>2. IF pool.callback[h] = None THEN Good(q, {}, {}, {})
      ELSE Good(t, {h}, {}, {}) /\ NotQueued(t, h)
  BY <1>1, TaskTakenGood
<1> HIDE DEF q, t
<1> QED
  BY <1>1, <1>2, HandleInitGood DEF IInv

\* OnConnectJobComplete.
LEMMA OnConnectJobCompleteKeeps ==
    ASSUME IInv, NEW g \in Groups, OnConnectJobComplete(g)
    PROVE  IInv'
<1>1. PICK k \in JobKinds, result \in {"ok", "error", "errorWithSocket"} :
         \E i \in DOMAIN pool.group[g].jobs[k] :
            pool' \in ConnectJobComplete(pool, g, k, i, result)
  BY DEF OnConnectJobComplete
<1>2. PICK i \in DOMAIN pool.group[g].jobs[k] :
         pool' \in ConnectJobComplete(pool, g, k, i, result)
  BY <1>1
<1> QED
  BY <1>2, ConnectJobCompleteGood DEF IInv

\* A handle that is reset.
Reset(p, h) == [p EXCEPT !.request = [p.request EXCEPT ![h] = NoRequest],
                         !.socket = [p.socket EXCEPT ![h] = None],
                         !.callback = [p.callback EXCEPT ![h] = None],
                         !.initialized = [p.initialized EXCEPT ![h] = FALSE]]

\* Reset gives up its socket.
LEMMA ResetGivesUp ==
    ASSUME NEW p, NEW run, Good(p, {}, {}, run), NEW h \in Handles, p.socket[h] # None,
           NEW r, r = Reset(p, h), NEW d \in Int, d = -1
    PROVE  LET g == p.request[h].group IN
           /\ GivesUp(p, h, g, d, [r EXCEPT !.handed_out_socket_count_ = @ - 1,
                                            !.group[g].active = @ - 1])
           /\ r.generation = p.generation
<1> DEFINE g == p.request[h].group
           G == p.group[g]
           H == [G EXCEPT !.active = G.active - 1]
           X == [p.group EXCEPT ![g] = H]
           R == [p.request EXCEPT ![h] = NoRequest]
           S == [p.socket EXCEPT ![h] = None]
           C == [p.callback EXCEPT ![h] = None]
           I == [p.initialized EXCEPT ![h] = FALSE]
           c == p.handed_out_socket_count_ - 1
           u == [r EXCEPT !.handed_out_socket_count_ = @ - 1, !.group[g].active = @ - 1]
<1>1. g \in Groups /\ G.active - 1 \in Nat
  BY HolderCounts
<1>2. /\ p \in Shape /\ p.group \in [Groups -> Group] /\ G \in Group
      /\ p.handed_out_socket_count_ \in Nat /\ G.active \in Nat
  BY <1>1, GoodTypes, GroupNumbers
<1>3. H \in Group /\ c \in Int
  <2> DEFINE m == G.active - 1
  <2>1. m \in Nat /\ H = [G EXCEPT !.active = m]
    BY <1>1
  <2> HIDE DEF m, H, c, G
  <2>2. H \in Group
    BY <1>2, <2>1 DEF Group
  <2>3. c \in Int
    BY <1>2 DEF c
  <2> QED
    BY <2>2, <2>3
<1>4. /\ R \in [Handles -> Request] /\ S \in [Handles -> Socket \cup {None}]
      /\ C \in [Handles -> {"ok", "error", None}] /\ I \in [Handles -> BOOLEAN]
  <2>1. NoRequest \in Request
    BY DEF NoRequest, Request
  <2> QED
    BY <1>2, <2>1 DEF Shape
<1>5. X \in [Groups -> Group]
  BY <1>2, <1>3
<1>6. r = [p EXCEPT !.request = R, !.socket = S, !.callback = C, !.initialized = I]
  BY DEF Reset
<1> HIDE DEF R, S, C, I
<1>7. r.group = p.group /\ r.handed_out_socket_count_ = p.handed_out_socket_count_
      /\ r.generation = p.generation
  BY <1>2, <1>6 DEF Shape
<1>8. u = [r EXCEPT !.handed_out_socket_count_ = c, !.group = X]
  BY <1>7
<1> HIDE DEF X, H, c, u
<1>9. u = [group |-> X, idle_socket_count_ |-> p.idle_socket_count_,
           connecting_socket_count_ |-> p.connecting_socket_count_,
           handed_out_socket_count_ |-> c, generation |-> p.generation,
           callback |-> C, posted |-> p.posted, request |-> R,
           socket |-> S, initialized |-> I, wakeFailed |-> p.wakeFailed]
  BY <1>2, <1>6, <1>8 DEF Shape
<1>10. /\ p.wakeFailed \in BOOLEAN
       /\ p.idle_socket_count_ \in Int /\ p.connecting_socket_count_ \in Int
       /\ p.generation \in Nat /\ p.posted \in [Handles -> Nat]
  BY <1>2 DEF Shape
<1>11. u \in Shape
  BY <1>3, <1>4, <1>5, <1>9, <1>10 DEF Shape
<1>12. /\ u.group = X /\ u.idle_socket_count_ = p.idle_socket_count_
       /\ u.connecting_socket_count_ = p.connecting_socket_count_
       /\ u.handed_out_socket_count_ = c /\ u.generation = p.generation
       /\ u.callback = C /\ u.posted = p.posted /\ u.request = R /\ u.socket = S
       /\ u.initialized = I
  BY <1>9
<1>13. G.active - 1 = G.active + d
  <2> DEFINE m == G.active
  <2>1. m \in Nat
    BY <1>2
  <2> HIDE DEF m
  <2>2. m - 1 = m + d
    BY <2>1
  <2> QED
    BY <2>2 DEF m
<1>14. c = p.handed_out_socket_count_ + d
  <2> DEFINE m == p.handed_out_socket_count_
  <2>1. m \in Nat /\ c = m - 1
    BY <1>2 DEF c
  <2> HIDE DEF m
  <2>2. c = m + d
    BY <2>1
  <2> QED
    BY <2>2 DEF m
<1>15. X = [p.group EXCEPT ![g] = [p.group[g] EXCEPT !.active = p.group[g].active + d]]
  BY <1>13 DEF X, H
<1>16. ChangesActive(p, g, d, u)
  BY <1>11, <1>12, <1>14, <1>15 DEF ChangesActive
<1>17. GivesUp(p, h, g, d, u)
  BY <1>12, <1>16 DEF GivesUp, R, S, C, I
<1> QED
  BY <1>7, <1>17 DEF u

\* Which goes back to the pool.
LEMMA ResetGood ==
    ASSUME NEW p, NEW run, Good(p, {}, {}, run), NEW h \in Handles, p.socket[h] # None,
           NEW r, r = Reset(p, h), NEW connectedAndIdle \in BOOLEAN,
           NEW q \in ReleaseToPool(r, p.request[h].group, p.socket[h], connectedAndIdle)
    PROVE  Good(q, {}, {}, run)
<1> DEFINE g == p.request[h].group
<1>1. ASSUME NEW d \in Int, d = -1
      PROVE  Good(q, {}, {}, run)
  <2>1. /\ GivesUp(p, h, g, d, [r EXCEPT !.handed_out_socket_count_ = @ - 1,
                                         !.group[g].active = @ - 1])
        /\ r.generation = p.generation
    BY <1>1, ResetGivesUp
  <2>2. q \in ReleaseToPool(r, g, p.socket[h], connectedAndIdle) /\ g = p.request[h].group
    OBVIOUS
  <2> HIDE DEF g
  <2> QED
    BY <1>1, <2>1, <2>2, ReleaseToPoolGood
<1>2. -1 \in Int
  OBVIOUS
<1> QED
  BY <1>1, <1>2

\* ReleaseSocket.
LEMMA ReleaseSocketKeeps ==
    ASSUME IInv, NEW h \in Handles, ReleaseSocket(h)
    PROVE  IInv'
<1> DEFINE r == [pool EXCEPT !.initialized[h] = FALSE, !.socket[h] = None,
                             !.request[h] = NoRequest]
<1>1. Good(pool, {}, {}, {}) /\ pool \in Shape /\ SoundHandle(pool, h) /\ pool.initialized[h]
  BY DEF IInv, Good, HandlesSound, ReleaseSocket
<1>2. pool.socket[h] # None /\ pool.callback[h] = None
  BY <1>1 DEF SoundHandle
<1>3. PICK connectedAndIdle \in BOOLEAN :
         pool' \in ReleaseToPool(r, pool.request[h].group, pool.socket[h], connectedAndIdle)
  BY DEF ReleaseSocket
<1>4. r = Reset(pool, h)
  <2>1. [pool.callback EXCEPT ![h] = None] = pool.callback
    BY <1>1, <1>2 DEF Shape
  <2> QED
    BY <1>1, <2>1 DEF Reset, Shape
<1> HIDE DEF r
<1>5. Good(pool', {}, {}, {})
  BY <1>1, <1>2, <1>3, <1>4, ResetGood
<1> QED
  BY <1>5 DEF IInv

\* CancelCallback.
LEMMA CancelCallbackKeeps ==
    ASSUME IInv, NEW h \in Handles, CancelCallback(h)
    PROVE  IInv'
<1> DEFINE r == [pool EXCEPT !.callback[h] = None, !.socket[h] = None,
                             !.request[h] = NoRequest]
<1>1. Good(pool, {}, {}, {}) /\ pool \in Shape /\ SoundHandle(pool, h) /\ pool.callback[h] # None
  BY DEF IInv, Good, HandlesSound, CancelCallback
<1>2. ~pool.initialized[h] /\ NotQueued(pool, h)
  BY <1>1 DEF SoundHandle, NotQueued
<1>3. CASE pool.socket[h] # None
  <2>1. PICK connectedAndIdle \in {pool.callback[h] = "ok", FALSE} :
           pool' \in ReleaseToPool(r, pool.request[h].group, pool.socket[h], connectedAndIdle)
    BY <1>3 DEF CancelCallback
  <2>2. connectedAndIdle \in BOOLEAN
    BY <2>1
  <2>3. r = Reset(pool, h)
    <3>1. [pool.initialized EXCEPT ![h] = FALSE] = pool.initialized
      BY <1>1, <1>2 DEF Shape
    <3> QED
      BY <1>1, <3>1 DEF Reset, Shape
  <2> HIDE DEF r
  <2>4. Good(pool', {}, {}, {})
    BY <1>1, <1>3, <2>1, <2>2, <2>3, ResetGood
  <2> QED
    BY <2>4 DEF IInv
<1>4. CASE pool.socket[h] = None
  <2>1. pool' = r
    BY <1>4 DEF CancelCallback
  <2> DEFINE n == pool.posted[h]
             i == pool.initialized[h]
  <2>2. n \in Nat /\ IsFlag(i) /\ IsAnswer(None) /\ OnlyOf({}, h)
    BY <1>1 DEF Shape, IsFlag, IsAnswer, OnlyOf
  <2>3. r = PutHandle(pool, h, NoRequest, None, n, i)
    <3>1. /\ [pool.socket EXCEPT ![h] = None] = pool.socket
          /\ [pool.posted EXCEPT ![h] = n] = pool.posted
          /\ [pool.initialized EXCEPT ![h] = i] = pool.initialized
      BY <1>1, <1>4 DEF Shape
    <3> HIDE DEF n, i
    <3> QED
      BY <1>1, <3>1 DEF PutHandle, Shape
  <2>4. NoRequest \in Request /\ NoRequest.group \notin Groups /\ ~NoRequest.ignore
    BY UserAssumption DEF NoRequest, Request
  <2>5. HandleWith(pool, h, NoRequest, None, n, i, {})
    BY <1>2, <1>4, <2>4, UserAssumption DEF HandleWith, SoundWith, NotQueued
  <2> HIDE DEF n, i, r
  <2>6. Good(r, {}, {}, {})
    BY <1>1, <2>2, <2>3, <2>4, <2>5, PutHandleGood
  <2> QED
    BY <2>1, <2>6 DEF IInv
<1> QED
  BY <1>3, <1>4

\* A queued request is cancelled: it is as if it had left the queue first.
LEMMA CancelledGood ==
    ASSUME NEW p, NEW run, Good(p, {}, {}, run), NEW g \in Groups, NEW h \in Handles,
           InQueue(p, g, h), NEW q,
           q = RemoveRequestFromQueue([p EXCEPT !.request[h] = NoRequest], g, h)
    PROVE  Good(q, {}, {}, run)
<1> DEFINE r == [p EXCEPT !.request[h] = NoRequest]
           t == RemoveRequestFromQueue(p, g, h)
<1>1. Good(p, {h}, {}, run) /\ Asking(p, g, h, {h}) /\ h # None
  BY QueuedAsks
<1>2. Good(t, {h}, {}, run) /\ Requeued(p, g, t) /\ NotQueued(t, h)
  BY <1>1, RemoveRequestGood
<1>3. t.socket[h] = None
  BY <1>1, <1>2 DEF Requeued, Asking
<1>4. Good(HandleInitCompletion(t, h), {}, {}, run)
  <2> HIDE DEF t
  <2> QED
    BY <1>2, HandleInitGood
<1>5. q = HandleInitCompletion(t, h)
  <2> DEFINE G == [p.group[g] EXCEPT !.pending = RemoveFirst(@, h)]
             H == IF G.pending = <<>> THEN CleanupBackupJob(G) ELSE G
             X == [p.group EXCEPT ![g] = H]
             R == [p.request EXCEPT ![h] = NoRequest]
  <2>1. p \in Shape
    BY DEF Good
  <2>2. r.group = p.group /\ r = [p EXCEPT !.request = R]
    BY <2>1 DEF Shape
  <2>3. t = [p EXCEPT !.group = X]
    BY DEF RemoveRequestFromQueue
  <2>4. q = [r EXCEPT !.group = X]
    BY <2>2 DEF RemoveRequestFromQueue
  <2>5. t.request = p.request
    BY <1>2 DEF Requeued
  <2>6. HandleInitCompletion(t, h) = [t EXCEPT !.request = R]
    BY <1>3, <2>5 DEF HandleInitCompletion
  <2> HIDE DEF t, r, X, R
  <2> QED
    BY <2>1, <2>2, <2>3, <2>4, <2>6 DEF Shape
<1> QED
  BY <1>4, <1>5

\* CancelRequest.
LEMMA CancelRequestKeeps ==
    ASSUME IInv, NEW h \in Handles, CancelRequest(h)
    PROVE  IInv'
<1> DEFINE p(g) == RemoveRequestFromQueue([pool EXCEPT !.request[h] = NoRequest], g, h)
<1>1. PICK g \in Groups :
        /\ Contains(pool.group[g].pending, h)
        /\ \/ pool' = p(g)
           \/ pool' \in Then({RemoveConnectJob(p(g), g, k, 1) :
                                k \in {kind \in JobKinds : p(g).group[g].jobs[kind] # <<>>}},
                             CheckForStalledSocketGroups)
  BY DEF CancelRequest
<1>2. Good(pool, {}, {}, {})
  BY DEF IInv
<1>3. InQueue(pool, g, h)
  BY <1>1 DEF InQueue, Contains
<1> DEFINE q == p(g)
<1>4. Good(q, {}, {}, {})
  BY <1>2, <1>3, CancelledGood
<1>5. CASE pool' = q
  BY <1>4, <1>5 DEF IInv
<1>6. CASE pool' \in Then({RemoveConnectJob(q, g, k, 1) :
                             k \in {kind \in JobKinds : q.group[g].jobs[kind] # <<>>}},
                          CheckForStalledSocketGroups)
  <2> HIDE DEF q
  <2>1. PICK k \in JobKinds :
           /\ q.group[g].jobs[k] # <<>>
           /\ pool' \in CheckForStalledSocketGroups(RemoveConnectJob(q, g, k, 1))
    BY <1>6 DEF Then
  <2>2. 1 \in DOMAIN q.group[g].jobs[k]
    <3>1. q.group[g].jobs[k] \in Seq(Nat)
      BY <1>4, GoodTypes, GroupFields
    <3> QED
      BY <2>1, <3>1
  <2> DEFINE r == RemoveConnectJob(q, g, k, 1)
  <2>3. Good(r, {}, {}, {})
    BY <1>4, <2>2, RemoveJobGood
  <2> HIDE DEF r
  <2>4. Good(pool', {}, {}, {})
    <3>1. pool' \in CheckForStalledSocketGroups(r)
      BY <2>1 DEF r
    <3> QED
      BY <2>3, <3>1, CheckStalledGood
  <2> QED
    BY <2>4 DEF IInv
<1> QED
  BY <1>1, <1>5, <1>6

Done(p, g) == IF p.group[g].backup = "running" THEN [p EXCEPT !.group[g].backup = "none"] ELSE p

\* The task of the backup timer is deleted.
LEMMA DoneGood ==
    ASSUME NEW p, NEW g \in Groups, Good(p, {}, {}, {g})
    PROVE  Good(Done(p, g), {}, {}, {})
<1>1. CASE p.group[g].backup = "running"
  <2>1. TimerMay(p, g, "none", {g}, {})
    BY DEF TimerMay
  <2>2. Done(p, g) = SetTimer(p, g, "none")
    BY <1>1 DEF Done, SetTimer
  <2> QED
    BY <2>1, <2>2, SetTimerGood
<1>2. CASE p.group[g].backup # "running"
  <2>1. GroupsSound(p, {}, {})
    BY <1>2 DEF Good, GroupsSound
  <2> QED
    BY <1>2, <2>1 DEF Good, Done
<1> QED
  BY <1>1, <1>2

\* OnBackupSocketTimerFired.
LEMMA OnBackupSocketTimerFiredKeeps ==
    ASSUME IInv, NEW g \in Groups, OnBackupSocketTimerFired(g)
    PROVE  IInv'
<1> DEFINE p == [pool EXCEPT !.group[g].backup = "running"]
           G == p.group[g]
           added == AddJob(p, g, "used")
           again == [p EXCEPT !.group[g] = StartBackupSocketTimer(G)]
           last == Len(added.group[g].jobs["used"])
<1>1. Good(pool, {}, {}, {}) /\ pool.group[g].backup = "posted"
  BY DEF IInv, OnBackupSocketTimerFired
<1>2. /\ Good(p, {}, {}, {g}) /\ Requeued(pool, g, p) /\ G.backup = "running"
  <2>1. TimerMay(pool, g, "running", {}, {g})
    BY <1>1 DEF TimerMay
  <2>2. p = SetTimer(pool, g, "running")
    BY DEF SetTimer
  <2> HIDE DEF p
  <2> QED
    BY <1>1, <2>1, <2>2, SetTimerGood
<1>3. \/ pool' = Done(p, g)
      \/ pool' = Done(again, g)
      \/ /\ ~(ReachedMaxSocketsLimit(p) \/ ~HasAvailableSocketSlot(G))
         /\ \/ pool' = Done(added, g)
            \/ \E result \in {"ok", "error", "errorWithSocket"} :
                  pool' \in {Done(q, g) : q \in ConnectJobComplete(added, g, "used", last, result)}
  <2> USE DEF Done
  <2> HIDE DEF p, last, added
  <2> QED
    BY ConnectAssumption DEF OnBackupSocketTimerFired, p, added, last
<1> HIDE DEF p
<1>4. again = p
  <2>1. p \in Shape
    BY <1>2 DEF Good
  <2> QED
    BY <1>2, <2>1 DEF Shape, StartBackupSocketTimer
<1>5. CASE pool' = Done(p, g) \/ pool' = Done(again, g)
  BY <1>2, <1>4, <1>5, DoneGood DEF IInv
<1>6. CASE /\ ~(ReachedMaxSocketsLimit(p) \/ ~HasAvailableSocketSlot(G))
           /\ \/ pool' = Done(added, g)
              \/ \E result \in {"ok", "error", "errorWithSocket"} :
                    pool' \in {Done(q, g) :
                                 q \in ConnectJobComplete(added, g, "used", last, result)}
  <2>1. Room(p, g)
    <3>1. HasAvailableSocketSlot(p.group[g])
      BY <1>6
    <3>2. TotalSockets(p) < MaxSockets
      <4>1. TotalSockets(p) \in Int
        BY <1>2, GoodTypes DEF TotalSockets
      <4> QED
        BY <1>6, <4>1, LimitAssumption DEF ReachedMaxSocketsLimit
    <3> QED
      BY <3>1, <3>2, RoomFromLimits
  <2>2. p.group[g].exists
    <3>1. SoundLists(G, p.generation, g, {})
      BY <1>2 DEF Good, GroupsSound, SoundGroup
    <3> QED
      BY <1>2, <3>1, NothingInIt DEF SoundLists
  <2>3. More(g, {}, {g}, {}, {g})
    BY DEF More
  <2>4. Good(added, {}, {}, {g}) /\ last \in DOMAIN added.group[g].jobs["used"]
    <3>1. "used" \in JobKinds
      BY DEF JobKinds
    <3> QED
      BY <1>2, <2>1, <2>2, <2>3, <3>1, AddJobGood
  <2> HIDE DEF added, last
  <2>5. CASE pool' = Done(added, g)
    BY <2>4, <2>5, DoneGood DEF IInv
  <2>6. CASE \E result \in {"ok", "error", "errorWithSocket"} :
                pool' \in {Done(q, g) :
                             q \in ConnectJobComplete(added, g, "used", last, result)}
    <3>1. PICK result \in {"ok", "error", "errorWithSocket"} :
             pool' \in {Done(q, g) : q \in ConnectJobComplete(added, g, "used", last, result)}
      BY <2>6
    <3>2. PICK q \in ConnectJobComplete(added, g, "used", last, result) : pool' = Done(q, g)
      BY <3>1
    <3>3. "used" \in JobKinds
      BY DEF JobKinds
    <3>4. Good(q, {}, {}, {g})
      BY <2>4, <3>1, <3>2, <3>3, ConnectJobCompleteGood
    <3> QED
      BY <3>2, <3>4, DoneGood DEF IInv
  <2> QED
    BY <1>6, <2>5, <2>6
<1> QED
  BY <1>3, <1>5, <1>6

\* What holds of zero and of every successor holds of all numbers.
LEMMA AllNumbers ==
    ASSUME NEW T, 0 \in T, \A n \in Nat : n \in T => n + 1 \in T
    PROVE  Nat \subseteq T
<1> DEFINE Less == {x \in Nat \X Nat : x[1] < x[2]}
           Out == {n \in Nat : n \notin T}
<1>1. IsWellFoundedOn(Less, Nat)
  <2>1. Less = OpToRel(<, Nat)
    BY DEF OpToRel
  <2> HIDE DEF Less
  <2> QED
    BY <2>1, NatLessThanWellFounded
<1>2. ASSUME Out # {} PROVE FALSE
  <2>1. PICK x \in Out : \A y \in Out : ~(<<y, x>> \in Less)
    <3> HIDE DEF Less
    <3>1. Out \subseteq Nat
      OBVIOUS
    <3> HIDE DEF Out
    <3> QED
      BY <1>1, <1>2, <3>1, WFMin
  <2>2. x \in Nat /\ x # 0 /\ x \notin T
    OBVIOUS
  <2>3. x - 1 \in Nat /\ <<x - 1, x>> \in Less /\ x - 1 + 1 = x
    BY <2>2
  <2>4. x - 1 \in T
    BY <2>1, <2>3
  <2> QED
    BY <2>2, <2>3, <2>4
<1> QED
  BY <1>2

Round(e, g, n) ==
    IF e.rv = "error" \/ NumActiveSocketSlots(e.pool.group[g]) >= n THEN {e}
    ELSE RequestSocketInternal(e.pool, g, None, FALSE)

NextRound(E, g, n) == UNION {Round(e, g, n) : e \in E}

\* f has the ends of the rounds up to the k-th, from those in E.
Rounds(f, k, E, g, n) ==
    f = [i \in 0..k |-> IF i = 0 THEN E ELSE NextRound(f[i - 1], g, n)]

\* So many rounds can be made.
LEMMA RoundsDefined ==
    ASSUME NEW E, NEW g, NEW n, NEW k \in Nat
    PROVE  \E f : Rounds(f, k, E, g, n)
<1> DEFINE T == {m \in Nat : \E f : Rounds(f, m, E, g, n)}
<1>1. 0 \in T
  <2> DEFINE f == [i \in 0..0 |-> E]
  <2>1. \A i \in 0..0 : i = 0
    OBVIOUS
  <2>2. f = [i \in 0..0 |-> IF i = 0 THEN E ELSE NextRound(f[i - 1], g, n)]
    BY <2>1
  <2>3. Rounds(f, 0, E, g, n)
    BY <2>2 DEF Rounds
  <2> QED
    BY <2>3
<1>2. ASSUME NEW m \in Nat, m \in T
      PROVE  m + 1 \in T
  <2>1. PICK f : Rounds(f, m, E, g, n)
    BY <1>2
  <2> DEFINE h == [i \in 0..m + 1 |-> IF i = m + 1 THEN NextRound(f[m], g, n) ELSE f[i]]
  <2>2. ASSUME NEW i \in 0..m + 1
        PROVE  h[i] = IF i = 0 THEN E ELSE NextRound(h[i - 1], g, n)
    <3>1. CASE i = m + 1
      <4>1. i # 0 /\ i - 1 = m /\ m \in 0..m + 1 /\ m # m + 1
        BY <3>1
      <4>2. h[i - 1] = f[m] /\ h[i] = NextRound(f[m], g, n)
        BY <3>1, <4>1
      <4> QED
        BY <4>1, <4>2
    <3>2. CASE i # m + 1
      <4>1. i \in 0..m /\ h[i] = f[i]
        BY <3>2
      <4>2. f[i] = IF i = 0 THEN E ELSE NextRound(f[i - 1], g, n)
        BY <2>1, <4>1 DEF Rounds
      <4>3. CASE i = 0
        BY <4>1, <4>2, <4>3
      <4>4. CASE i # 0
        <5>1. i - 1 \in 0..m + 1 /\ i - 1 # m + 1
          BY <4>1, <4>4
        <5>2. h[i - 1] = f[i - 1]
          BY <5>1
        <5> QED
          BY <4>1, <4>2, <4>4, <5>2
      <4> QED
        BY <4>3, <4>4
    <3> QED
      BY <3>1, <3>2
  <2>3. h = [i \in 0..m + 1 |-> h[i]]
    OBVIOUS
  <2> HIDE DEF h
  <2>4. h = [i \in 0..m + 1 |-> IF i = 0 THEN E ELSE NextRound(h[i - 1], g, n)]
    BY <2>2, <2>3
  <2>5. Rounds(h, m + 1, E, g, n)
    BY <2>4 DEF Rounds
  <2> QED
    BY <2>5
<1> HIDE DEF T
<1>3. Nat \subseteq T
  BY <1>1, <1>2, AllNumbers
<1> QED
  BY <1>3 DEF T

\* A round of a preconnect.
LEMMA RoundGood ==
    ASSUME NEW e, Good(e.pool, {}, {}, {}), NEW g \in Groups, NEW n, NEW end \in Round(e, g, n)
    PROVE  Good(end.pool, {}, {}, {})
<1>1. CASE end = e
  BY <1>1
<1>2. CASE end \in RequestSocketInternal(e.pool, g, None, FALSE)
  <2>1. Asking(e.pool, g, None, {})
    BY DEF Asking
  <2>2. ASSUME NEW h, h = None
        PROVE  Good(end.pool, {}, {}, {})
    <3>1. Answered(e.pool, g, h, {}, {}, end)
      BY <1>2, <2>1, <2>2, RequestSocketInternalGood
    <3> QED
      BY <2>2, <3>1 DEF Answered
  <2> QED
    BY <2>2
<1> QED
  BY <1>1, <1>2 DEF Round

\* All their ends are good.
LEMMA RoundsGood ==
    ASSUME NEW g \in Groups, NEW n, NEW k \in Nat, NEW E, NEW f, Rounds(f, k, E, g, n),
           \A e \in E : Good(e.pool, {}, {}, {}), NEW end \in f[k]
    PROVE  Good(end.pool, {}, {}, {})
<1> DEFINE T == {m \in Nat : m \in 0..k => \A e \in f[m] : Good(e.pool, {}, {}, {})}
<1>1. 0 \in T
  BY DEF Rounds
<1>2. ASSUME NEW m \in Nat, m \in T
      PROVE  m + 1 \in T
  <2>1. SUFFICES ASSUME m + 1 \in 0..k, NEW e \in f[m + 1]
                 PROVE  Good(e.pool, {}, {}, {})
    OBVIOUS
  <2>2. m \in 0..k /\ m + 1 # 0 /\ m + 1 - 1 = m
    BY <2>1
  <2>3. f[m + 1] = NextRound(f[m], g, n)
    <3> DEFINE i == m + 1
    <3>1. i \in 0..k /\ i # 0 /\ i - 1 = m
      BY <2>1, <2>2
    <3> HIDE DEF i
    <3>2. f[i] = NextRound(f[i - 1], g, n)
      BY <3>1 DEF Rounds
    <3> QED
      BY <3>1, <3>2 DEF i
  <2>4. PICK d \in f[m] : e \in Round(d, g, n)
    BY <2>1, <2>3 DEF NextRound
  <2>5. Good(d.pool, {}, {}, {})
    BY <1>2, <2>2, <2>4
  <2> QED
    BY <2>4, <2>5, RoundGood
<1> HIDE DEF T
<1>3. k \in T
  BY <1>1, <1>2, AllNumbers
<1> QED
  BY <1>3 DEF T

\* RequestSockets.
LEMMA RequestSocketsKeeps ==
    ASSUME IInv, NEW g \in Groups, NEW n \in Nat, RequestSockets(g, n)
    PROVE  IInv'
<1> DEFINE E == {[pool |-> GetOrCreateGroup(pool, g), rv |-> "ok"]}
           ends == CHOOSE f : Rounds(f, n, E, g, n)
<1>1. Rounds(ends, n, E, g, n)
  BY RoundsDefined
<1>2. pool' \in {RemoveIfEmpty(e.pool, g) : e \in ends[n]}
  BY DEF RequestSockets, Rounds, NextRound, Round
<1>3. Good(GetOrCreateGroup(pool, g), {}, {}, {})
  BY OpenedGood DEF IInv
<1>4. \A e \in E : Good(e.pool, {}, {}, {})
  BY <1>3
<1> HIDE DEF ends, E
<1>5. PICK e \in ends[n] : pool' = RemoveIfEmpty(e.pool, g)
  BY <1>2
<1>6. Good(e.pool, {}, {}, {})
  BY <1>1, <1>4, <1>5, RoundsGood
<1>7. Good(pool', {}, {}, {})
  BY <1>5, <1>6, TidyGood
<1> QED
  BY <1>7 DEF IInv

-----------------------------------------------------------------------------
(* What is done to all the groups                                          *)

\* A sum is at most one whose numbers are at least as large.
LEMMA SumAtMost ==
    ASSUME NEW n \in [Groups -> Nat], NEW m \in [Groups -> Nat],
           \A g \in Groups : n[g] <= m[g]
    PROVE  SumOver(n) <= SumOver(m)
<1>1. ASSUME NEW g \in Groups
      PROVE  {g} \X (1..n[g]) \subseteq {g} \X (1..m[g])
  <2>1. n[g] \in Nat /\ m[g] \in Nat /\ n[g] <= m[g]
    OBVIOUS
  <2>2. 1..n[g] \subseteq 1..m[g]
    BY <2>1
  <2> QED
    BY <2>2
<1>2. Places(n) \in SUBSET Places(m)
  BY <1>1 DEF Places
<1> QED
  BY <1>2, PlacesFinite, FS_Subset

\* No group has more sockets than before.
Shrunk(p, q) ==
    /\ q.generation = p.generation
    /\ \A x \in Groups : /\ Len(q.group[x].idle) <= Len(p.group[x].idle)
                         /\ NumJobs(q.group[x]) <= NumJobs(p.group[x])
                         /\ q.group[x].active = p.group[x].active
                         /\ Holders(q, x) = Holders(p, x)

\* Then limits still hold.
LEMMA ShrunkGood ==
    ASSUME NEW p, NEW busy, NEW due, NEW run, Good(p, busy, due, run),
           NEW q \in Shape, Shrunk(p, q), Counted(q),
           NEW after, NEW runs, ListsSound(q, after, runs),
           NEW still, HandlesSound(q, still)
    PROVE  Good(q, still, after, runs)
<1> DEFINE idle(x) == [k \in Groups |-> Len(x.group[k].idle)]
           jobs(x) == [k \in Groups |-> NumJobs(x.group[k])]
           active(x) == [k \in Groups |-> x.group[k].active]
<1>1. /\ p \in Shape /\ p.generation <= MaxFlushes /\ GroupsSound(p, due, run)
      /\ Counted(p) /\ Limited(p)
  BY DEF Good
<1>2. \A x \in Groups : p.group[x] \in Group /\ q.group[x] \in Group
  BY <1>1 DEF Shape
<1>3. /\ idle(p) \in [Groups -> Nat] /\ idle(q) \in [Groups -> Nat]
      /\ jobs(p) \in [Groups -> Nat] /\ jobs(q) \in [Groups -> Nat]
  BY <1>2, GroupNumbers
<1>4. /\ \A k \in Groups : idle(q)[k] <= idle(p)[k]
      /\ \A k \in Groups : jobs(q)[k] <= jobs(p)[k]
      /\ active(q) = active(p)
  BY DEF Shrunk
<1>5. /\ p.idle_socket_count_ = SumOver(idle(p)) /\ q.idle_socket_count_ = SumOver(idle(q))
      /\ p.connecting_socket_count_ = SumOver(jobs(p))
      /\ q.connecting_socket_count_ = SumOver(jobs(q))
      /\ p.handed_out_socket_count_ = SumOver(active(p))
      /\ q.handed_out_socket_count_ = SumOver(active(q))
  BY <1>1 DEF Counted
<1>6. /\ q.idle_socket_count_ <= p.idle_socket_count_
      /\ q.connecting_socket_count_ <= p.connecting_socket_count_
      /\ q.handed_out_socket_count_ = p.handed_out_socket_count_
  <2> HIDE DEF idle, jobs, active
  <2> QED
    BY <1>3, <1>4, <1>5, SumAtMost
<1>7. Limited(q)
  <2>1. /\ p.idle_socket_count_ \in Int /\ p.connecting_socket_count_ \in Int
        /\ p.handed_out_socket_count_ \in Int /\ q.idle_socket_count_ \in Int
        /\ q.connecting_socket_count_ \in Int
    BY <1>1 DEF Shape
  <2>2. TotalSockets(q) <= TotalSockets(p)
    BY <1>6, <2>1 DEF TotalSockets
  <2>3. TotalSockets(q) \in Int /\ TotalSockets(p) \in Int
    BY <1>6, <2>1 DEF TotalSockets
  <2> QED
    BY <1>1, <2>2, <2>3, LimitAssumption DEF Limited
<1>8. GroupsSound(q, after, runs)
  <2> SUFFICES ASSUME NEW x \in Groups
               PROVE  /\ SoundGroup(q.group[x], q.generation, x, after)
                      /\ q.group[x].active = Cardinality(Holders(q, x))
                      /\ q.group[x].backup = "running" => x \in runs
    BY DEF GroupsSound
  <2>1. /\ SoundGroup(p.group[x], p.generation, x, due)
        /\ p.group[x].active = Cardinality(Holders(p, x))
    BY <1>1 DEF GroupsSound
  <2>2. NumActiveSocketSlots(q.group[x]) <= NumActiveSocketSlots(p.group[x])
    <3> DEFINE A == Len(p.group[x].idle)
               B == NumJobs(p.group[x])
               C == Len(q.group[x].idle)
               D == NumJobs(q.group[x])
               K == p.group[x].active
    <3>1. A \in Nat /\ B \in Nat /\ C \in Nat /\ D \in Nat /\ K \in Nat
      BY <1>2, GroupNumbers
    <3>2. C <= A /\ D <= B /\ q.group[x].active = K
      BY DEF Shrunk
    <3>3. /\ NumActiveSocketSlots(p.group[x]) = K + B + A
          /\ NumActiveSocketSlots(q.group[x]) = K + D + C
      BY <3>2 DEF NumActiveSocketSlots
    <3> HIDE DEF A, B, C, D, K
    <3> QED
      BY <3>1, <3>2, <3>3
  <2>3. /\ NumActiveSocketSlots(q.group[x]) \in Nat /\ NumActiveSocketSlots(p.group[x]) \in Nat
        /\ MaxPerGroup \in Int
    BY <1>2, GroupNumbers, LimitAssumption
  <2>4. NoneIgnores => NumActiveSocketSlots(q.group[x]) <= MaxPerGroup
    BY <2>1, <2>2, <2>3 DEF SoundGroup
  <2> QED
    BY <2>1, <2>4 DEF SoundGroup, ListsSound, Shrunk
<1>9. q.generation <= MaxFlushes
  BY <1>1 DEF Shrunk
<1> QED
  BY <1>7, <1>8, <1>9 DEF Good

\* The same groups, those that are empty gone.
LEMMA TidyFields ==
    ASSUME NEW p \in Shape
    PROVE  /\ Tidy(p) \in Shape
           /\ Tidy(p) = [p EXCEPT !.group =
                           [g \in Groups |-> IF IsEmpty(p.group[g]) THEN NoGroup ELSE p.group[g]]]
<1> DEFINE X == [g \in Groups |-> IF IsEmpty(p.group[g]) THEN NoGroup ELSE p.group[g]]
<1>1. \A g \in Groups : RemoveIfEmpty(p, g).group[g] = X[g]
  BY DEF RemoveIfEmpty, RemoveGroup, Shape
<1>2. Tidy(p) = [p EXCEPT !.group = X]
  <2>1. [g \in Groups |-> RemoveIfEmpty(p, g).group[g]] = X
    BY <1>1
  <2> QED
    BY <2>1 DEF Tidy
<1>3. X \in [Groups -> Group]
  <2>1. NoGroup \in Group /\ p.group \in [Groups -> Group]
    BY NothingInIt DEF Shape
  <2> QED
    BY <2>1
<1> HIDE DEF X
<1>4. Tidy(p) \in Shape
  BY <1>2, <1>3 DEF Shape
<1> QED
  BY <1>2, <1>4 DEF X

\* Tidy.
LEMMA TidyAllGood ==
    ASSUME NEW p, NEW run, Good(p, {}, {}, run)
    PROVE  Good(Tidy(p), {}, {}, run)
<1> DEFINE q == Tidy(p)
           X == [g \in Groups |-> IF IsEmpty(p.group[g]) THEN NoGroup ELSE p.group[g]]
<1>1. /\ p \in Shape /\ GroupsSound(p, {}, run) /\ HandlesSound(p, {})
      /\ \A x \in Groups : p.group[x] \in Group
  BY DEF Good, Shape
<1>2. q \in Shape /\ q = [p EXCEPT !.group = X]
  BY <1>1, TidyFields
<1> HIDE DEF q
<1>3. /\ q.group = X /\ q.generation = p.generation /\ q.request = p.request
      /\ q.socket = p.socket /\ q.callback = p.callback /\ q.posted = p.posted
      /\ q.initialized = p.initialized /\ q.idle_socket_count_ = p.idle_socket_count_
      /\ q.connecting_socket_count_ = p.connecting_socket_count_
      /\ q.handed_out_socket_count_ = p.handed_out_socket_count_
  BY <1>1, <1>2 DEF Shape
<1>4. ASSUME NEW x \in Groups
      PROVE  /\ Len(q.group[x].idle) = Len(p.group[x].idle)
             /\ NumJobs(q.group[x]) = NumJobs(p.group[x])
             /\ q.group[x].active = p.group[x].active
             /\ q.group[x].pending = p.group[x].pending
             /\ SoundLists(q.group[x], q.generation, x, {})
             /\ q.group[x].backup = "running" => x \in run
  <2>1. CASE IsEmpty(p.group[x])
    <3>1. q.group[x] = NoGroup
      BY <1>3, <2>1
    <3> QED
      BY <2>1, <3>1, NothingInIt, NothingSound DEF IsEmpty
  <2>2. CASE ~IsEmpty(p.group[x])
    <3>1. q.group[x] = p.group[x]
      BY <1>3, <2>2
    <3> QED
      BY <1>1, <1>3, <3>1 DEF GroupsSound, SoundGroup
  <2> QED
    BY <2>1, <2>2
<1>5. \A x \in Groups : Holders(q, x) = Holders(p, x)
  BY <1>3 DEF Holders
<1>6. SameCounts(p, q)
  BY <1>3, <1>4, <1>5 DEF SameCounts
<1>7. ListsSound(q, {}, run)
  BY <1>4 DEF ListsSound
<1>8. HandlesSound(q, {})
  <2>1. \A x \in Groups, h \in Handles : InQueue(q, x, h) <=> InQueue(p, x, h)
    BY <1>4 DEF InQueue
  <2>2. \A h \in Handles : SoundHandle(p, h) => SoundHandle(q, h)
    BY <1>3, <2>1 DEF SoundHandle
  <2> QED
    BY <1>1, <1>3, <2>2 DEF HandlesSound
<1> QED
  BY <1>2, <1>6, <1>7, <1>8, RegroupedGood DEF q

JobsGone(p) == \A x \in Groups : p.group[x].jobs = NoJobs /\ p.group[x].backup = "none"
IdleGone(p) == \A x \in Groups : p.group[x].idle = <<>>
QueuesGone(p) == \A x \in Groups : p.group[x].pending = <<>>

\* No group has more of anything after it is tidied.
LEMMA TidyKeepsGone ==
    ASSUME NEW p \in Shape
    PROVE  /\ JobsGone(p) => JobsGone(Tidy(p))
           /\ IdleGone(p) => IdleGone(Tidy(p))
           /\ QueuesGone(p) => QueuesGone(Tidy(p))
<1>1. \A x \in Groups : Tidy(p).group[x] = IF IsEmpty(p.group[x]) THEN NoGroup ELSE p.group[x]
  BY TidyFields DEF Shape
<1>2. /\ NoGroup.jobs = NoJobs /\ NoGroup.backup = "none" /\ NoGroup.idle = <<>>
      /\ NoGroup.pending = <<>>
  BY DEF NoGroup, NewGroup
<1> QED
  BY <1>1, <1>2 DEF JobsGone, IdleGone, QueuesGone

\* A group without its jobs.
Jobless(G) == [CleanupBackupJob(G) EXCEPT !.jobs = NoJobs]

\* It has everything else.
LEMMA JoblessFields ==
    ASSUME NEW G \in Group
    PROVE  /\ Jobless(G) \in Group /\ Jobless(G).jobs = NoJobs /\ Jobless(G).backup = "none"
           /\ Jobless(G).idle = G.idle /\ Jobless(G).pending = G.pending
           /\ Jobless(G).active = G.active /\ Jobless(G).exists = G.exists
           /\ NumJobs(Jobless(G)) = 0
           /\ (G = NoGroup => Jobless(G) = NoGroup)
<1>1. NoJobs \in [JobKinds -> Seq(Nat)]
  BY DEF NoJobs
<1>2. Jobless(G) = [G EXCEPT !.jobs = NoJobs, !.backup = "none"]
  BY DEF Jobless, CleanupBackupJob, Group
<1>3. /\ Jobless(G) \in Group /\ Jobless(G).jobs = NoJobs /\ Jobless(G).backup = "none"
      /\ Jobless(G).idle = G.idle /\ Jobless(G).pending = G.pending
      /\ Jobless(G).active = G.active /\ Jobless(G).exists = G.exists
  BY <1>1, <1>2 DEF Group
<1>4. NumJobs(Jobless(G)) = 0
  <2>1. NoJobs["unused"] = <<>> /\ NoJobs["used"] = <<>>
    BY DEF NoJobs, JobKinds
  <2>2. Len(<<>>) + Len(<<>>) = 0
    OBVIOUS
  <2> QED
    BY <1>3, <2>1, <2>2 DEF NumJobs
<1>5. G = NoGroup => Jobless(G) = NoGroup
  <2>1. NoGroup \in Group /\ NoGroup.jobs = NoJobs /\ NoGroup.backup = "none"
    BY NothingInIt DEF NoGroup, NewGroup
  <2>2. [NoGroup EXCEPT !.jobs = NoJobs, !.backup = "none"] = NoGroup
    BY <2>1 DEF Group
  <2> QED
    BY <1>2, <2>2
<1> QED
  BY <1>3, <1>4, <1>5

\* What CancelAllConnectJobs leaves to tidy.
Cancelled(p) ==
    [p EXCEPT
        !.connecting_socket_count_ = @ - SumOver([g \in Groups |-> NumJobs(p.group[g])]),
        !.group = [g \in Groups |-> [CleanupBackupJob(@[g]) EXCEPT !.jobs = NoJobs]]]

\* Its fields.
LEMMA CancelledFields ==
    ASSUME NEW p \in Shape
    PROVE  LET q == Cancelled(p) IN
           /\ q \in Shape /\ q.group = [g \in Groups |-> Jobless(p.group[g])]
           /\ q = [p EXCEPT !.connecting_socket_count_ = q.connecting_socket_count_,
                            !.group = q.group]
           /\ q.connecting_socket_count_ =
                  p.connecting_socket_count_ - SumOver([g \in Groups |-> NumJobs(p.group[g])])
<1> DEFINE X == [g \in Groups |-> Jobless(p.group[g])]
           n == [g \in Groups |-> NumJobs(p.group[g])]
           c == p.connecting_socket_count_ - SumOver(n)
           q == Cancelled(p)
<1>1. \A g \in Groups : p.group[g] \in Group
  BY DEF Shape
<1>2. X \in [Groups -> Group]
  BY <1>1, JoblessFields
<1>3. c \in Int
  <2>1. n \in [Groups -> Nat]
    BY <1>1, GroupNumbers
  <2>2. SumOver(n) \in Nat
    BY <2>1, PlacesFinite
  <2>3. p.connecting_socket_count_ \in Int
    BY DEF Shape
  <2> QED
    BY <2>2, <2>3
<1>4. q = [p EXCEPT !.connecting_socket_count_ = c, !.group = X]
  BY DEF Cancelled, Jobless, Shape
<1> HIDE DEF X, c, q
<1>5. q.group = X /\ q.connecting_socket_count_ = c /\ q \in Shape
  BY <1>2, <1>3, <1>4 DEF Shape
<1> QED
  BY <1>4, <1>5 DEF X, c, q

\* CancelAllConnectJobs.
LEMMA CancelAllGood ==
    ASSUME NEW p, Good(p, {}, {}, {})
    PROVE  LET q == CancelAllConnectJobs(p) IN Good(q, {}, {}, {}) /\ JobsGone(q)
<1> DEFINE n == [g \in Groups |-> NumJobs(p.group[g])]
           q == Cancelled(p)
<1>1. /\ p \in Shape /\ GroupsSound(p, {}, {}) /\ HandlesSound(p, {}) /\ Counted(p)
      /\ \A x \in Groups : p.group[x] \in Group
  BY DEF Good, Shape
<1>2. /\ q \in Shape /\ q.group = [g \in Groups |-> Jobless(p.group[g])]
      /\ q.connecting_socket_count_ = p.connecting_socket_count_ - SumOver(n)
      /\ q.generation = p.generation /\ q.request = p.request
      /\ q.socket = p.socket /\ q.callback = p.callback /\ q.posted = p.posted
      /\ q.initialized = p.initialized /\ q.idle_socket_count_ = p.idle_socket_count_
      /\ q.handed_out_socket_count_ = p.handed_out_socket_count_
  <2> HIDE DEF n
  <2>1. /\ q \in Shape /\ q.group = [g \in Groups |-> Jobless(p.group[g])]
        /\ q = [p EXCEPT !.connecting_socket_count_ = q.connecting_socket_count_,
                         !.group = q.group]
        /\ q.connecting_socket_count_ = p.connecting_socket_count_ - SumOver(n)
    BY <1>1, CancelledFields DEF n
  <2> HIDE DEF q
  <2> QED
    BY <1>1, <2>1 DEF Shape
<1> HIDE DEF q
<1>3. q.connecting_socket_count_ = 0
  <2>1. n \in [Groups -> Nat] /\ p.connecting_socket_count_ = SumOver(n)
    BY <1>1, GroupNumbers DEF Counted
  <2> HIDE DEF n
  <2>2. SumOver(n) \in Nat
    BY <2>1, PlacesFinite
  <2> QED
    BY <1>2, <2>1, <2>2
<1>4. ASSUME NEW x \in Groups
      PROVE  /\ q.group[x].jobs = NoJobs /\ q.group[x].backup = "none"
             /\ q.group[x].idle = p.group[x].idle /\ q.group[x].pending = p.group[x].pending
             /\ q.group[x].active = p.group[x].active /\ q.group[x].exists = p.group[x].exists
             /\ NumJobs(q.group[x]) = 0
             /\ (p.group[x] = NoGroup => q.group[x] = NoGroup)
  <2>1. q.group[x] = Jobless(p.group[x])
    BY <1>2
  <2> QED
    BY <1>1, <2>1, JoblessFields
<1>5. Counted(q)
  <2> DEFINE z == [g \in Groups |-> NumJobs(q.group[g])]
  <2>1. z \in [Groups -> Nat] /\ \A g \in Groups : z[g] = 0
    BY <1>4
  <2>2. q.connecting_socket_count_ = SumOver(z)
    <3> HIDE DEF z
    <3> QED
      BY <1>3, <2>1, SumZero
  <2>3. /\ [g \in Groups |-> Len(q.group[g].idle)] = [g \in Groups |-> Len(p.group[g].idle)]
        /\ [g \in Groups |-> q.group[g].active] = [g \in Groups |-> p.group[g].active]
    BY <1>4
  <2> QED
    BY <1>1, <1>2, <2>2, <2>3 DEF Counted
<1>6. Shrunk(p, q)
  <2>1. \A x \in Groups : Holders(q, x) = Holders(p, x)
    BY <1>2 DEF Holders
  <2>2. ASSUME NEW x \in Groups
        PROVE  /\ Len(q.group[x].idle) <= Len(p.group[x].idle)
               /\ NumJobs(q.group[x]) <= NumJobs(p.group[x])
    <3>1. Len(p.group[x].idle) \in Nat /\ NumJobs(p.group[x]) \in Nat
      BY <1>1, GroupNumbers
    <3> QED
      BY <1>4, <3>1
  <2> QED
    BY <1>2, <1>4, <2>1, <2>2 DEF Shrunk
<1>7. ListsSound(q, {}, {})
  <2> SUFFICES ASSUME NEW x \in Groups
               PROVE  /\ SoundLists(q.group[x], q.generation, x, {})
                      /\ q.group[x].backup # "running"
    BY DEF ListsSound
  <2>1. SoundLists(p.group[x], p.generation, x, {})
    BY <1>1 DEF GroupsSound, SoundGroup
  <2>2. \A k \in JobKinds : \A i \in 1..Len(NoJobs[k]) : NoJobs[k][i] = q.generation
    BY DEF NoJobs
  <2> QED
    BY <1>2, <1>4, <2>1, <2>2 DEF SoundLists
<1>8. HandlesSound(q, {})
  <2>1. \A x \in Groups, h \in Handles : InQueue(q, x, h) <=> InQueue(p, x, h)
    BY <1>4 DEF InQueue
  <2>2. \A h \in Handles : SoundHandle(p, h) => SoundHandle(q, h)
    BY <1>2, <2>1 DEF SoundHandle
  <2> QED
    BY <1>1, <1>2, <2>2 DEF HandlesSound
<1>9. Good(q, {}, {}, {}) /\ JobsGone(q)
  BY <1>2, <1>4, <1>5, <1>6, <1>7, <1>8, ShrunkGood DEF JobsGone
<1>10. CancelAllConnectJobs(p) = Tidy(q)
  BY DEF CancelAllConnectJobs, Cancelled, q
<1> QED
  BY <1>2, <1>9, <1>10, TidyAllGood, TidyKeepsGone

\* What CleanupIdleSockets leaves to tidy.
Cleaned(p, keep) ==
    [p EXCEPT
        !.group = [g \in Groups |-> KeepIdle(p, g, keep[g]).group[g]],
        !.idle_socket_count_ = SumOver([g \in Groups |-> Cardinality(keep[g])])]

KeepsSome(p, keep) == \A g \in Groups : keep[g] \in SUBSET (1..Len(p.group[g].idle))

\* A group that keeps some of its idle sockets.
LEMMA KeepsFields ==
    ASSUME NEW p, Good(p, {}, {}, {}), NEW x \in Groups,
           NEW keep \in SUBSET (1..Len(p.group[x].idle)), NEW G, G = KeepIdle(p, x, keep).group[x]
    PROVE  /\ G \in Group /\ G.pending = p.group[x].pending /\ G.active = p.group[x].active
           /\ NumJobs(G) = NumJobs(p.group[x]) /\ G.backup = p.group[x].backup
           /\ G.jobs = p.group[x].jobs
           /\ Len(G.idle) = Cardinality(keep) /\ Len(G.idle) \in 0..Len(p.group[x].idle)
           /\ SoundLists(G, p.generation, x, {})
           /\ (Cardinality(keep) = 0 => G.idle = <<>>)
<1> DEFINE q == KeepIdle(p, x, keep)
           s == Kept(p.group[x].idle, keep)
<1>1. /\ p \in Shape /\ p.group \in [Groups -> Group] /\ p.group[x] \in Group
  BY GoodTypes
<1>2. p.group[x].idle \in Seq(Nat)
  BY <1>1, GroupFields
<1>3. s \in Seq(Nat) /\ Len(s) = Cardinality(keep)
  BY <1>2, KeptIdle
<1>4. G = [p.group[x] EXCEPT !.idle = s]
  BY <1>1 DEF KeepIdle, Kept, Shape
<1>5. /\ Good(q, {}, {}, {}) /\ q.generation = p.generation
      /\ Cardinality(keep) \in 0..Len(p.group[x].idle)
  BY KeepIdleGood DEF Same
<1>6. SoundLists(G, p.generation, x, {})
  BY <1>5 DEF Good, GroupsSound, SoundGroup
<1> HIDE DEF s
<1>7. /\ G \in Group /\ G.pending = p.group[x].pending /\ G.active = p.group[x].active
      /\ G.backup = p.group[x].backup /\ G.jobs = p.group[x].jobs /\ G.idle = s
  BY <1>1, <1>3, <1>4 DEF Group
<1>8. NumJobs(G) = NumJobs(p.group[x])
  BY <1>7 DEF NumJobs
<1>9. Len(s) = 0 => s = <<>>
  BY <1>3
<1> QED
  BY <1>3, <1>5, <1>6, <1>7, <1>8, <1>9

\* It is good, and nothing is left idle when nothing is kept.
LEMMA CleanedGood ==
    ASSUME NEW p, Good(p, {}, {}, {}), NEW keep, KeepsSome(p, keep)
    PROVE  LET q == Cleaned(p, keep) IN
           /\ Good(q, {}, {}, {}) /\ (JobsGone(p) => JobsGone(q))
           /\ ((\A g \in Groups : keep[g] = {}) => IdleGone(q))
<1> DEFINE X == [g \in Groups |-> KeepIdle(p, g, keep[g]).group[g]]
           n == [g \in Groups |-> Cardinality(keep[g])]
           c == SumOver(n)
           q == Cleaned(p, keep)
<1>1. /\ p \in Shape /\ GroupsSound(p, {}, {}) /\ HandlesSound(p, {}) /\ Counted(p)
      /\ \A x \in Groups : p.group[x] \in Group
  BY DEF Good, Shape
<1>2. ASSUME NEW x \in Groups
      PROVE  /\ X[x] \in Group /\ X[x].pending = p.group[x].pending
             /\ X[x].active = p.group[x].active
             /\ NumJobs(X[x]) = NumJobs(p.group[x]) /\ X[x].backup = p.group[x].backup
             /\ X[x].jobs = p.group[x].jobs
             /\ Len(X[x].idle) = n[x] /\ Len(X[x].idle) \in 0..Len(p.group[x].idle)
             /\ SoundLists(X[x], p.generation, x, {})
             /\ (n[x] = 0 => X[x].idle = <<>>)
  <2>1. X[x] = KeepIdle(p, x, keep[x]).group[x] /\ n[x] = Cardinality(keep[x])
        /\ keep[x] \in SUBSET (1..Len(p.group[x].idle))
    BY DEF KeepsSome
  <2> DEFINE G == X[x]
             k == keep[x]
  <2> HIDE DEF G, k
  <2>2. G = KeepIdle(p, x, k).group[x] /\ n[x] = Cardinality(k)
        /\ k \in SUBSET (1..Len(p.group[x].idle))
    BY <2>1 DEF G, k
  <2> HIDE DEF X, n
  <2>3. /\ G \in Group /\ G.pending = p.group[x].pending /\ G.active = p.group[x].active
        /\ NumJobs(G) = NumJobs(p.group[x]) /\ G.backup = p.group[x].backup
        /\ G.jobs = p.group[x].jobs
        /\ Len(G.idle) = Cardinality(k) /\ Len(G.idle) \in 0..Len(p.group[x].idle)
        /\ SoundLists(G, p.generation, x, {})
        /\ (Cardinality(k) = 0 => G.idle = <<>>)
    BY <2>2, KeepsFields
  <2> QED
    BY <2>2, <2>3 DEF G
<1>3. X \in [Groups -> Group] /\ n \in [Groups -> Nat]
  <2>1. X = [x \in Groups |-> X[x]] /\ n = [x \in Groups |-> n[x]]
    OBVIOUS
  <2> HIDE DEF X, n
  <2>2. \A x \in Groups : n[x] \in Nat
    BY <1>1, <1>2, GroupNumbers
  <2> QED
    BY <1>2, <2>1, <2>2
<1>4. c \in Nat
  <2> HIDE DEF n
  <2> QED
    BY <1>3, PlacesFinite
<1>5. q = [p EXCEPT !.group = X, !.idle_socket_count_ = c]
  BY DEF Cleaned
<1> HIDE DEF X, c, q
<1>6. /\ q.group = X /\ q.idle_socket_count_ = c /\ q \in Shape
      /\ q.generation = p.generation /\ q.request = p.request
      /\ q.socket = p.socket /\ q.callback = p.callback /\ q.posted = p.posted
      /\ q.initialized = p.initialized
      /\ q.connecting_socket_count_ = p.connecting_socket_count_
      /\ q.handed_out_socket_count_ = p.handed_out_socket_count_
  <2>1. c \in Int
    BY <1>4
  <2>2. /\ q.group = X /\ q.idle_socket_count_ = c
        /\ q.generation = p.generation /\ q.request = p.request
        /\ q.socket = p.socket /\ q.callback = p.callback /\ q.posted = p.posted
        /\ q.initialized = p.initialized
        /\ q.connecting_socket_count_ = p.connecting_socket_count_
        /\ q.handed_out_socket_count_ = p.handed_out_socket_count_
    BY <1>1, <1>5 DEF Shape
  <2>3. q \in Shape
    BY <1>1, <1>3, <1>5, <2>1 DEF Shape
  <2> QED
    BY <2>2, <2>3
<1>7. Counted(q)
  <2>1. [g \in Groups |-> Len(q.group[g].idle)] = n
    BY <1>2, <1>3, <1>6
  <2>2. /\ [g \in Groups |-> NumJobs(q.group[g])] = [g \in Groups |-> NumJobs(p.group[g])]
        /\ [g \in Groups |-> q.group[g].active] = [g \in Groups |-> p.group[g].active]
    BY <1>2, <1>6
  <2> QED
    BY <1>1, <1>6, <2>1, <2>2 DEF Counted, c
<1> HIDE DEF n
<1>8. Shrunk(p, q)
  <2>1. \A x \in Groups : Holders(q, x) = Holders(p, x)
    BY <1>6 DEF Holders
  <2>2. ASSUME NEW x \in Groups
        PROVE  /\ Len(q.group[x].idle) <= Len(p.group[x].idle)
               /\ NumJobs(q.group[x]) <= NumJobs(p.group[x])
               /\ q.group[x].active = p.group[x].active
    <3>1. Len(p.group[x].idle) \in Nat /\ NumJobs(p.group[x]) \in Nat
      BY <1>1, GroupNumbers
    <3> QED
      BY <1>2, <1>6, <3>1
  <2> QED
    BY <1>6, <2>1, <2>2 DEF Shrunk
<1>9. ListsSound(q, {}, {})
  BY <1>1, <1>2, <1>6 DEF ListsSound, GroupsSound
<1>10. HandlesSound(q, {})
  <2>1. \A x \in Groups, h \in Handles : InQueue(q, x, h) <=> InQueue(p, x, h)
    BY <1>2, <1>6 DEF InQueue
  <2>2. \A h \in Handles : SoundHandle(p, h) => SoundHandle(q, h)
    BY <1>6, <2>1 DEF SoundHandle
  <2> QED
    BY <1>1, <1>6, <2>2 DEF HandlesSound
<1>11. Good(q, {}, {}, {})
  BY <1>6, <1>7, <1>8, <1>9, <1>10, ShrunkGood
<1>12. JobsGone(p) => JobsGone(q)
  BY <1>2, <1>6 DEF JobsGone
<1>13. (\A g \in Groups : keep[g] = {}) => IdleGone(q)
  <2>1. (\A g \in Groups : keep[g] = {}) => \A g \in Groups : n[g] = 0
    BY FS_EmptySet DEF n
  <2> QED
    BY <1>2, <1>6, <2>1 DEF IdleGone
<1> QED
  BY <1>11, <1>12, <1>13 DEF q

\* CleanupIdleSockets.
LEMMA CleanupGood ==
    ASSUME NEW p, Good(p, {}, {}, {}), NEW keep, KeepsSome(p, keep)
    PROVE  LET q == CleanupIdleSockets(p, keep) IN
           /\ Good(q, {}, {}, {}) /\ (JobsGone(p) => JobsGone(q))
           /\ ((\A g \in Groups : keep[g] = {}) => IdleGone(q))
<1>1. CASE p.idle_socket_count_ = 0
  <2>1. CleanupIdleSockets(p, keep) = p
    BY <1>1 DEF CleanupIdleSockets
  <2>2. IdleGone(p)
    <3> DEFINE n == [g \in Groups |-> Len(p.group[g].idle)]
    <3>1. \A x \in Groups : p.group[x] \in Group /\ p.group[x].idle \in Seq(Nat)
      BY GoodTypes, GroupFields
    <3>2. n \in [Groups -> Nat] /\ SumOver(n) = 0
      BY <1>1, <3>1 DEF Good, Counted
    <3> HIDE DEF n
    <3>3. \A g \in Groups : n[g] = 0
      BY <3>2, SumZero
    <3> QED
      BY <3>1, <3>3 DEF n, IdleGone
  <2> QED
    BY <2>1, <2>2
<1>2. CASE p.idle_socket_count_ # 0
  <2> DEFINE q == Cleaned(p, keep)
  <2>1. CleanupIdleSockets(p, keep) = Tidy(q)
    BY <1>2 DEF CleanupIdleSockets, Cleaned
  <2>2. /\ Good(q, {}, {}, {}) /\ (JobsGone(p) => JobsGone(q))
        /\ ((\A g \in Groups : keep[g] = {}) => IdleGone(q))
    BY CleanedGood
  <2> HIDE DEF q
  <2>3. q \in Shape
    BY <2>2 DEF Good
  <2> QED
    BY <2>1, <2>2, <2>3, TidyAllGood, TidyKeepsGone
<1> QED
  BY <1>1, <1>2

\* What AbortAllRequests leaves to tidy.
Aborting(p) == {h \in Handles : \E g \in Groups : Contains(p.group[g].pending, h)}

Aborted(p) ==
    [p EXCEPT
        !.group = [g \in Groups |-> [@[g] EXCEPT !.pending = <<>>]],
        !.callback = [h \in Handles |-> IF h \in Aborting(p) THEN "error" ELSE @[h]],
        !.posted = [h \in Handles |-> IF h \in Aborting(p) THEN @[h] + 1 ELSE @[h]]]

\* The handles of the aborted requests have their answer.
LEMMA AbortedFields ==
    ASSUME NEW p, Good(p, {}, {}, {})
    PROVE  LET q == Aborted(p) IN
           /\ q \in Shape
           /\ q.group = [g \in Groups |-> [p.group[g] EXCEPT !.pending = <<>>]]
           /\ q.callback = [h \in Handles |-> IF h \in Aborting(p) THEN "error" ELSE p.callback[h]]
           /\ q.posted = [h \in Handles |-> IF h \in Aborting(p) THEN p.posted[h] + 1
                                                                 ELSE p.posted[h]]
           /\ q = [p EXCEPT !.group = q.group, !.callback = q.callback, !.posted = q.posted]
           /\ q.generation = p.generation /\ q.request = p.request
           /\ q.socket = p.socket /\ q.initialized = p.initialized
           /\ q.idle_socket_count_ = p.idle_socket_count_
           /\ q.connecting_socket_count_ = p.connecting_socket_count_
           /\ q.handed_out_socket_count_ = p.handed_out_socket_count_
<1> DEFINE X == [g \in Groups |-> [p.group[g] EXCEPT !.pending = <<>>]]
           C == [h \in Handles |-> IF h \in Aborting(p) THEN "error" ELSE p.callback[h]]
           N == [h \in Handles |-> IF h \in Aborting(p) THEN p.posted[h] + 1 ELSE p.posted[h]]
           q == Aborted(p)
<1>1. /\ p \in Shape /\ \A g \in Groups : p.group[g] \in Group
      /\ \A h \in Handles : p.posted[h] \in Nat /\ p.callback[h] \in {"ok", "error", None}
  BY DEF Good, Shape
<1>2. X \in [Groups -> Group]
  <2>1. <<>> \in Seq(Handles)
    OBVIOUS
  <2> QED
    BY <1>1, <2>1 DEF Group
<1>3. C \in [Handles -> {"ok", "error", None}]
  BY <1>1
<1>4. N \in [Handles -> Nat]
  <2>1. \A h \in Handles : p.posted[h] + 1 \in Nat
    BY <1>1
  <2> QED
    BY <1>1, <2>1
<1>5. q = [p EXCEPT !.group = X, !.callback = C, !.posted = N]
  BY <1>1 DEF Aborted, Shape
<1> HIDE DEF X, C, N, q
<1>6. /\ q.group = X /\ q.callback = C /\ q.posted = N
      /\ q.generation = p.generation /\ q.request = p.request
      /\ q.socket = p.socket /\ q.initialized = p.initialized
      /\ q.idle_socket_count_ = p.idle_socket_count_
      /\ q.connecting_socket_count_ = p.connecting_socket_count_
      /\ q.handed_out_socket_count_ = p.handed_out_socket_count_
  BY <1>1, <1>5 DEF Shape
<1>7. q \in Shape
  BY <1>1, <1>2, <1>3, <1>4, <1>5 DEF Shape
<1> QED
  BY <1>5, <1>6, <1>7 DEF X, C, N, q

\* It is good, for every aborted request has got a task, and nobody is in a queue.
LEMMA AbortedGood ==
    ASSUME NEW p, Good(p, {}, {}, {}), JobsGone(p), IdleGone(p)
    PROVE  LET q == Aborted(p) IN
           Good(q, {}, {}, {}) /\ JobsGone(q) /\ IdleGone(q) /\ QueuesGone(q)
<1> DEFINE q == Aborted(p)
<1>1. /\ p \in Shape /\ GroupsSound(p, {}, {}) /\ HandlesSound(p, {})
      /\ \A x \in Groups : p.group[x] \in Group
      /\ \A h \in Handles : p.posted[h] \in Nat
  BY DEF Good, Shape
<1>2. /\ q \in Shape
      /\ q.group = [g \in Groups |-> [p.group[g] EXCEPT !.pending = <<>>]]
      /\ q.callback = [h \in Handles |-> IF h \in Aborting(p) THEN "error" ELSE p.callback[h]]
      /\ q.posted = [h \in Handles |-> IF h \in Aborting(p) THEN p.posted[h] + 1
                                                            ELSE p.posted[h]]
      /\ q.generation = p.generation /\ q.request = p.request
      /\ q.socket = p.socket /\ q.initialized = p.initialized
      /\ q.idle_socket_count_ = p.idle_socket_count_
      /\ q.connecting_socket_count_ = p.connecting_socket_count_
      /\ q.handed_out_socket_count_ = p.handed_out_socket_count_
  BY AbortedFields
<1> HIDE DEF q
<1>3. ASSUME NEW x \in Groups
      PROVE  /\ q.group[x].pending = <<>> /\ q.group[x].idle = p.group[x].idle
             /\ q.group[x].jobs = p.group[x].jobs /\ q.group[x].active = p.group[x].active
             /\ q.group[x].backup = p.group[x].backup /\ q.group[x].exists = p.group[x].exists
             /\ (p.group[x] = NoGroup => q.group[x] = NoGroup)
  <2>1. q.group[x] = [p.group[x] EXCEPT !.pending = <<>>]
    BY <1>2
  <2>2. /\ q.group[x].pending = <<>> /\ q.group[x].idle = p.group[x].idle
        /\ q.group[x].jobs = p.group[x].jobs /\ q.group[x].active = p.group[x].active
        /\ q.group[x].backup = p.group[x].backup /\ q.group[x].exists = p.group[x].exists
    BY <1>1, <2>1 DEF Group
  <2>3. NoGroup \in Group /\ NoGroup.pending = <<>>
    BY NothingInIt
  <2>4. [NoGroup EXCEPT !.pending = <<>>] = NoGroup
    BY <2>3 DEF Group
  <2> QED
    BY <2>1, <2>2, <2>4
<1>4. SameCounts(p, q)
  <2>1. \A x \in Groups : Holders(q, x) = Holders(p, x)
    BY <1>2 DEF Holders
  <2> QED
    BY <1>2, <1>3, <2>1 DEF SameCounts, NumJobs
<1>5. ListsSound(q, {}, {})
  <2> SUFFICES ASSUME NEW x \in Groups
               PROVE  /\ SoundLists(q.group[x], q.generation, x, {})
                      /\ q.group[x].backup # "running"
    BY DEF ListsSound
  <2>1. SoundLists(p.group[x], p.generation, x, {}) /\ p.group[x].backup = "none"
    BY <1>1 DEF GroupsSound, SoundGroup, JobsGone
  <2>2. NoneTwice(<<>>)
    BY DEF NoneTwice
  <2> QED
    BY <1>2, <1>3, <2>1, <2>2 DEF SoundLists
<1>6. HandlesSound(q, {})
  <2>1. \A x \in Groups, h \in Handles : ~InQueue(q, x, h)
    BY <1>3 DEF InQueue
  <2>2. \A h \in Handles : h \in Aborting(p) <=> \E x \in Groups : InQueue(p, x, h)
    BY DEF Aborting, InQueue, Contains
  <2>3. ASSUME NEW h \in Handles
        PROVE  SoundHandle(q, h)
    <3>1. SoundHandle(p, h)
      BY <1>1 DEF HandlesSound
    <3>2. CASE h \in Aborting(p)
      <4>1. PICK x \in Groups : InQueue(p, x, h)
        BY <2>2, <3>2
      <4>2. p.request[h].group = x /\ p.callback[h] = None /\ ~p.initialized[h]
        BY <3>1, <4>1 DEF SoundHandle
      <4>3. q.callback[h] = "error" /\ q.posted[h] > 0 /\ "error" # None
        BY <1>1, <1>2, <3>2, UserAssumption
      <4> QED
        BY <1>2, <2>1, <3>1, <4>2, <4>3 DEF SoundHandle
    <3>3. CASE h \notin Aborting(p)
      <4>1. q.callback[h] = p.callback[h] /\ q.posted[h] = p.posted[h]
        BY <1>2, <3>3
      <4>2. \A x \in Groups : ~InQueue(p, x, h)
        BY <2>2, <3>3
      <4> QED
        BY <1>2, <2>1, <3>1, <4>1, <4>2 DEF SoundHandle
    <3> QED
      BY <3>2, <3>3
  <2> QED
    BY <1>1, <1>2, <2>3 DEF HandlesSound
<1>7. Good(q, {}, {}, {})
  BY <1>2, <1>4, <1>5, <1>6, RegroupedGood
<1> QED
  BY <1>3, <1>7 DEF JobsGone, IdleGone, QueuesGone, q

\* AbortAllRequests, when nothing connects and nothing is idle.
LEMMA AbortAllGood ==
    ASSUME NEW p, Good(p, {}, {}, {}), JobsGone(p), IdleGone(p)
    PROVE  LET q == AbortAllRequests(p) IN
           Good(q, {}, {}, {}) /\ JobsGone(q) /\ IdleGone(q) /\ QueuesGone(q)
<1> DEFINE q == Aborted(p)
<1>1. AbortAllRequests(p) = Tidy(q)
  BY DEF AbortAllRequests, Aborted, Aborting
<1>2. Good(q, {}, {}, {}) /\ JobsGone(q) /\ IdleGone(q) /\ QueuesGone(q)
  BY AbortedGood
<1> HIDE DEF q
<1>3. q \in Shape
  BY <1>2 DEF Good
<1> QED
  BY <1>1, <1>2, <1>3, TidyAllGood, TidyKeepsGone

Bumped(p, n) == [p EXCEPT !.generation = n]

\* With nothing connecting and nothing idle the generation may change.
LEMMA BumpedGood ==
    ASSUME NEW p, Good(p, {}, {}, {}), JobsGone(p), IdleGone(p),
           NEW n \in Nat, n <= MaxFlushes
    PROVE  /\ Good(Bumped(p, n), {}, {}, {})
           /\ QueuesGone(p) => QueuesGone(Bumped(p, n))
<1> DEFINE q == Bumped(p, n)
<1>1. p \in Shape /\ GroupsSound(p, {}, {}) /\ HandlesSound(p, {}) /\ Counted(p) /\ Limited(p)
  BY DEF Good
<1>2. /\ q \in Shape /\ q.group = p.group /\ q.generation = n /\ q.request = p.request
      /\ q.socket = p.socket /\ q.callback = p.callback /\ q.posted = p.posted
      /\ q.initialized = p.initialized /\ q.idle_socket_count_ = p.idle_socket_count_
      /\ q.connecting_socket_count_ = p.connecting_socket_count_
      /\ q.handed_out_socket_count_ = p.handed_out_socket_count_
  BY <1>1 DEF Bumped, Shape
<1> HIDE DEF q
<1>3. GroupsSound(q, {}, {})
  <2> SUFFICES ASSUME NEW x \in Groups
               PROVE  /\ SoundGroup(q.group[x], q.generation, x, {})
                      /\ q.group[x].active = Cardinality(Holders(q, x))
                      /\ q.group[x].backup # "running"
    BY DEF GroupsSound
  <2>1. /\ SoundGroup(p.group[x], p.generation, x, {})
        /\ p.group[x].active = Cardinality(Holders(p, x))
        /\ p.group[x].idle = <<>> /\ p.group[x].jobs = NoJobs /\ p.group[x].backup = "none"
    BY <1>1 DEF GroupsSound, JobsGone, IdleGone
  <2>2. Holders(q, x) = Holders(p, x)
    BY <1>2 DEF Holders
  <2>3. SoundLists(p.group[x], n, x, {})
    <3>1. \A i \in 1..Len(<<>>) : <<>>[i] = n
      OBVIOUS
    <3>2. \A k \in JobKinds : \A i \in 1..Len(NoJobs[k]) : NoJobs[k][i] = n
      BY DEF NoJobs
    <3> QED
      BY <2>1, <3>1, <3>2 DEF SoundGroup, SoundLists
  <2> QED
    BY <1>2, <2>1, <2>2, <2>3 DEF SoundGroup
<1>4. HandlesSound(q, {})
  <2>1. \A x \in Groups, h \in Handles : InQueue(q, x, h) <=> InQueue(p, x, h)
    BY <1>2 DEF InQueue
  <2>2. \A h \in Handles : SoundHandle(p, h) => SoundHandle(q, h)
    BY <1>2, <2>1 DEF SoundHandle
  <2> QED
    BY <1>1, <1>2, <2>2 DEF HandlesSound
<1>5. Counted(q) /\ Limited(q)
  BY <1>1, <1>2 DEF Counted, Limited, TotalSockets
<1> QED
  BY <1>2, <1>3, <1>4, <1>5 DEF Good, QueuesGone, q

\* It makes no difference to a helper of Flush which generation it is.
LEMMA TidyBumped ==
    ASSUME NEW p \in Shape, NEW n \in Nat
    PROVE  Tidy(Bumped(p, n)) = Bumped(Tidy(p), n)
<1> DEFINE b == Bumped(p, n)
           X == [g \in Groups |-> IF IsEmpty(p.group[g]) THEN NoGroup ELSE p.group[g]]
<1>1. b \in Shape /\ b.group = p.group
  BY DEF Bumped, Shape
<1>2. Tidy(p) = [p EXCEPT !.group = X]
  BY TidyFields
<1>3. Tidy(b) = [b EXCEPT !.group = X]
  <2> HIDE DEF b
  <2> QED
    BY <1>1, TidyFields
<1> HIDE DEF X
<1> QED
  BY <1>2, <1>3 DEF Bumped, Shape

\* CancelAllConnectJobs.
LEMMA CancelAllBumped ==
    ASSUME NEW p \in Shape, NEW n \in Nat
    PROVE  CancelAllConnectJobs(Bumped(p, n)) = Bumped(CancelAllConnectJobs(p), n)
<1> DEFINE b == Bumped(p, n)
           X == [g \in Groups |-> [CleanupBackupJob(p.group[g]) EXCEPT !.jobs = NoJobs]]
           c == p.connecting_socket_count_ - SumOver([g \in Groups |-> NumJobs(p.group[g])])
           q == Cancelled(p)
<1>1. /\ b \in Shape /\ b.group = p.group
      /\ b.connecting_socket_count_ = p.connecting_socket_count_
  BY DEF Bumped, Shape
<1>2. q = [p EXCEPT !.connecting_socket_count_ = c, !.group = X]
  BY DEF Cancelled, Shape
<1>3. Cancelled(b) = [b EXCEPT !.connecting_socket_count_ = c, !.group = X]
  <2> HIDE DEF b
  <2> QED
    BY <1>1 DEF Cancelled, Shape
<1>4. Cancelled(b) = Bumped(q, n)
  <2> HIDE DEF X, c, q
  <2> QED
    BY <1>2, <1>3 DEF Bumped, Shape
<1>5. q \in Shape
  BY CancelledFields
<1>6. CancelAllConnectJobs(p) = Tidy(q)
  BY DEF CancelAllConnectJobs, Cancelled
<1>7. CancelAllConnectJobs(b) = Tidy(Cancelled(b))
  <2> HIDE DEF b
  <2> QED
    BY DEF CancelAllConnectJobs, Cancelled
<1> HIDE DEF q
<1> QED
  BY <1>4, <1>5, <1>6, <1>7, TidyBumped

\* CleanupIdleSockets.
LEMMA CleanupBumped ==
    ASSUME NEW p, Good(p, {}, {}, {}), NEW keep, KeepsSome(p, keep), NEW n \in Nat
    PROVE  CleanupIdleSockets(Bumped(p, n), keep) = Bumped(CleanupIdleSockets(p, keep), n)
<1> DEFINE b == Bumped(p, n)
           X == [g \in Groups |-> KeepIdle(p, g, keep[g]).group[g]]
           c == SumOver([g \in Groups |-> Cardinality(keep[g])])
           q == Cleaned(p, keep)
<1>0. p \in Shape
  BY DEF Good
<1>1. /\ b \in Shape /\ b.group = p.group /\ b.idle_socket_count_ = p.idle_socket_count_
  BY <1>0 DEF Bumped, Shape
<1>2. q = [p EXCEPT !.group = X, !.idle_socket_count_ = c]
  BY DEF Cleaned
<1>3. Cleaned(b, keep) = [b EXCEPT !.group = X, !.idle_socket_count_ = c]
  <2> HIDE DEF b
  <2>1. ASSUME NEW g \in Groups
        PROVE  KeepIdle(b, g, keep[g]).group[g] = KeepIdle(p, g, keep[g]).group[g]
    <3> DEFINE k == keep[g]
    <3> HIDE DEF k
    <3>1. KeepIdle(p, g, k).group[g] = [p.group[g] EXCEPT !.idle = Kept(p.group[g].idle, k)]
      BY <1>0 DEF KeepIdle, Kept, Shape
    <3>2. KeepIdle(b, g, k).group[g] = [b.group[g] EXCEPT !.idle = Kept(b.group[g].idle, k)]
      BY <1>1 DEF KeepIdle, Kept, Shape
    <3> QED
      BY <1>1, <3>1, <3>2 DEF k
  <2>2. [g \in Groups |-> KeepIdle(b, g, keep[g]).group[g]] = X
    BY <2>1
  <2> QED
    BY <2>2 DEF Cleaned
<1>4. Cleaned(b, keep) = Bumped(q, n)
  <2> HIDE DEF X, c, q
  <2> QED
    BY <1>0, <1>2, <1>3 DEF Bumped, Shape
<1>5. q \in Shape
  BY CleanedGood DEF Good
<1>6. CleanupIdleSockets(p, keep) = IF p.idle_socket_count_ = 0 THEN p ELSE Tidy(q)
  BY DEF CleanupIdleSockets, Cleaned
<1>7. CleanupIdleSockets(b, keep) = IF b.idle_socket_count_ = 0 THEN b ELSE Tidy(Cleaned(b, keep))
  <2> HIDE DEF b
  <2> QED
    BY DEF CleanupIdleSockets, Cleaned
<1> HIDE DEF q
<1> QED
  BY <1>1, <1>4, <1>5, <1>6, <1>7, TidyBumped

\* AbortAllRequests.
LEMMA AbortAllBumped ==
    ASSUME NEW p, Good(p, {}, {}, {}), NEW n \in Nat
    PROVE  AbortAllRequests(Bumped(p, n)) = Bumped(AbortAllRequests(p), n)
<1> DEFINE b == Bumped(p, n)
           X == [g \in Groups |-> [p.group[g] EXCEPT !.pending = <<>>]]
           C == [h \in Handles |-> IF h \in Aborting(p) THEN "error" ELSE p.callback[h]]
           N == [h \in Handles |-> IF h \in Aborting(p) THEN p.posted[h] + 1 ELSE p.posted[h]]
           q == Aborted(p)
<1>1. p \in Shape
  BY DEF Good
<1>2. /\ b \in Shape /\ b.group = p.group /\ b.callback = p.callback /\ b.posted = p.posted
  BY <1>1 DEF Bumped, Shape
<1>3. Aborting(b) = Aborting(p)
  BY <1>2 DEF Aborting
<1>4. q = [p EXCEPT !.group = X, !.callback = C, !.posted = N]
  BY <1>1 DEF Aborted, Shape
<1>5. Aborted(b) = [b EXCEPT !.group = X, !.callback = C, !.posted = N]
  <2> HIDE DEF b
  <2> QED
    BY <1>2, <1>3 DEF Aborted, Shape
<1>6. Aborted(b) = Bumped(q, n)
  <2> HIDE DEF X, C, N, q
  <2> QED
    BY <1>1, <1>4, <1>5 DEF Bumped, Shape
<1>7. q \in Shape
  BY AbortedFields
<1>8. AbortAllRequests(p) = Tidy(q)
  BY DEF AbortAllRequests, Aborted, Aborting
<1>9. AbortAllRequests(b) = Tidy(Aborted(b))
  <2> HIDE DEF b
  <2> QED
    BY DEF AbortAllRequests, Aborted, Aborting
<1> HIDE DEF q
<1> QED
  BY <1>6, <1>7, <1>8, <1>9, TidyBumped

\* Flush.
LEMMA FlushKeeps ==
    ASSUME IInv, Flush
    PROVE  IInv' /\ QueuesGone(pool')
<1> DEFINE n == pool.generation + 1
           b == [pool EXCEPT !.generation = @ + 1]
           none == [g \in Groups |-> {}]
           p1 == CancelAllConnectJobs(pool)
           p2 == CleanupIdleSockets(p1, none)
           p3 == AbortAllRequests(p2)
<1>1. Good(pool, {}, {}, {}) /\ pool \in Shape
  BY DEF IInv, Good
<1>2. n \in Nat /\ n <= MaxFlushes
  <2>1. pool.generation \in Nat /\ pool.generation < MaxFlushes /\ MaxFlushes \in Nat
    BY <1>1, LimitAssumption DEF Flush, Shape
  <2> QED
    BY <2>1
<1>3. pool' = AbortAllRequests(CleanupIdleSockets(CancelAllConnectJobs(b), none))
  BY DEF Flush
<1>4. b = Bumped(pool, n)
  BY DEF Bumped
<1> HIDE DEF n, b
<1>5. CancelAllConnectJobs(b) = Bumped(p1, n)
  BY <1>1, <1>2, <1>4, CancelAllBumped
<1>6. Good(p1, {}, {}, {}) /\ JobsGone(p1)
  BY <1>1, CancelAllGood
<1> HIDE DEF p1
<1>7. KeepsSome(p1, none) /\ \A g \in Groups : none[g] = {}
  BY DEF KeepsSome
<1> HIDE DEF none
<1>8. CleanupIdleSockets(Bumped(p1, n), none) = Bumped(p2, n)
  BY <1>2, <1>6, <1>7, CleanupBumped
<1>9. Good(p2, {}, {}, {}) /\ JobsGone(p2) /\ IdleGone(p2)
  BY <1>6, <1>7, CleanupGood
<1> HIDE DEF p2
<1>10. AbortAllRequests(Bumped(p2, n)) = Bumped(p3, n)
  BY <1>2, <1>9, AbortAllBumped
<1>11. Good(p3, {}, {}, {}) /\ JobsGone(p3) /\ IdleGone(p3) /\ QueuesGone(p3)
  BY <1>9, AbortAllGood
<1> HIDE DEF p3
<1>12. Good(pool', {}, {}, {}) /\ QueuesGone(pool')
  BY <1>2, <1>3, <1>5, <1>8, <1>10, <1>11, BumpedGood
<1> QED
  BY <1>12 DEF IInv

\* CloseIdleSockets and OnCleanupTimerFired.
LEMMA IdleCleanupKeeps ==
    ASSUME IInv, CloseIdleSockets \/ OnCleanupTimerFired
    PROVE  IInv'
<1>1. Good(pool, {}, {}, {})
  BY DEF IInv
<1>2. ASSUME NEW keep, KeepsSome(pool, keep), pool' = CleanupIdleSockets(pool, keep)
      PROVE  IInv'
  BY <1>1, <1>2, CleanupGood DEF IInv
<1>3. CASE CloseIdleSockets
  <2> DEFINE none == [g \in Groups |-> {}]
  <2>1. KeepsSome(pool, none) /\ pool' = CleanupIdleSockets(pool, none)
    BY <1>3 DEF KeepsSome, CloseIdleSockets
  <2> HIDE DEF none
  <2> QED
    BY <1>2, <2>1
<1>4. CASE OnCleanupTimerFired
  <2>1. PICK keep \in [Groups -> SUBSET (1..MaxSockets)] :
           /\ \A g \in Groups : keep[g] \subseteq DOMAIN pool.group[g].idle
           /\ pool' = CleanupIdleSockets(pool, keep)
    BY <1>4 DEF OnCleanupTimerFired
  <2>2. \A g \in Groups : DOMAIN pool.group[g].idle = 1..Len(pool.group[g].idle)
    <3>1. \A g \in Groups : pool.group[g].idle \in Seq(Nat)
      BY <1>1, GoodTypes, GroupFields
    <3> QED
      BY <3>1
  <2>3. KeepsSome(pool, keep)
    BY <2>1, <2>2 DEF KeepsSome
  <2> QED
    BY <1>2, <2>1, <2>3
<1> QED
  BY <1>3, <1>4

\* The pool is made empty.
LEMMA InitGood ==
    Init => IInv
<1> SUFFICES ASSUME Init PROVE IInv
  OBVIOUS
<1> DEFINE X == [g \in Groups |-> NoGroup]
           C == [h \in Handles |-> None]
           N == [h \in Handles |-> 0]
           R == [h \in Handles |-> NoRequest]
           F == [h \in Handles |-> FALSE]
<1>1. pool = [group |-> X, idle_socket_count_ |-> 0, connecting_socket_count_ |-> 0,
              handed_out_socket_count_ |-> 0, generation |-> 0, callback |-> C, posted |-> N,
              request |-> R, socket |-> C, initialized |-> F, wakeFailed |-> FALSE]
  BY DEF Init
<1>2. /\ X \in [Groups -> Group] /\ R \in [Handles -> Request]
      /\ C \in [Handles -> {"ok", "error", None}] /\ C \in [Handles -> Socket \cup {None}]
      /\ N \in [Handles -> Nat] /\ F \in [Handles -> BOOLEAN]
  <2>1. NoRequest \in Request
    BY DEF NoRequest, Request
  <2> QED
    BY <2>1, NothingInIt
<1>3. \A g \in Groups : X[g] = NoGroup
  OBVIOUS
<1>4. \A h \in Handles : C[h] = None /\ R[h] = NoRequest /\ ~F[h]
  OBVIOUS
<1> HIDE DEF X, C, N, R, F
<1>5. pool \in Shape
  BY <1>1, <1>2 DEF Shape
<1>6. /\ pool.group = X /\ pool.callback = C /\ pool.socket = C /\ pool.request = R
      /\ pool.initialized = F /\ pool.generation = 0 /\ pool.idle_socket_count_ = 0
      /\ pool.connecting_socket_count_ = 0 /\ pool.handed_out_socket_count_ = 0
  BY <1>1
<1>7. GroupsSound(pool, {}, {})
  <2> SUFFICES ASSUME NEW x \in Groups
               PROVE  /\ SoundGroup(NoGroup, 0, x, {})
                      /\ NoGroup.active = Cardinality(Holders(pool, x))
                      /\ NoGroup.backup # "running"
    BY <1>3, <1>6 DEF GroupsSound
  <2>1. Holders(pool, x) = {}
    BY <1>4, <1>6 DEF Holders
  <2>2. NumActiveSocketSlots(NoGroup) = 0 + 0 + 0
    BY NothingInIt DEF NumActiveSocketSlots
  <2> QED
    BY <2>1, <2>2, NothingInIt, NothingSound, FS_EmptySet, LimitAssumption DEF SoundGroup
<1>8. HandlesSound(pool, {})
  <2>1. \A x \in Groups, h \in Handles : ~InQueue(pool, x, h)
    BY <1>3, <1>6, NothingInIt DEF InQueue
  <2>2. NoRequest.group = None /\ ~NoRequest.ignore /\ None \notin Groups /\ None # "ok"
    BY UserAssumption DEF NoRequest
  <2> QED
    BY <1>4, <1>6, <2>1, <2>2 DEF HandlesSound, SoundHandle
<1>9. Counted(pool)
  <2> DEFINE z == [g \in Groups |-> 0]
  <2>1. /\ [g \in Groups |-> Len(pool.group[g].idle)] = z
        /\ [g \in Groups |-> NumJobs(pool.group[g])] = z
        /\ [g \in Groups |-> pool.group[g].active] = z
    BY <1>3, <1>6, NothingInIt
  <2>2. z \in [Groups -> Nat] /\ \A g \in Groups : z[g] = 0
    OBVIOUS
  <2> HIDE DEF z
  <2>3. SumOver(z) = 0
    BY <2>2, SumZero
  <2> QED
    BY <1>6, <2>1, <2>3 DEF Counted
<1>10. Limited(pool) /\ pool.generation <= MaxFlushes
  BY <1>6, LimitAssumption DEF Limited, TotalSockets
<1> QED
  BY <1>5, <1>7, <1>8, <1>9, <1>10 DEF IInv, Good

\* Every step keeps the pool good.
LEMMA NextKeeps ==
    ASSUME IInv, [Next]_pool
    PROVE  IInv'
<1>1. CASE UNCHANGED pool
  BY <1>1 DEF IInv
<1>2. ASSUME NEW h \in Handles,
             \/ \E g \in Groups, k \in Kinds : RequestSocket(h, g, k)
             \/ ReleaseSocket(h) \/ CancelCallback(h) \/ CancelRequest(h)
             \/ InvokeUserCallback(h)
      PROVE  IInv'
  BY <1>2, RequestSocketKeeps, ReleaseSocketKeeps, CancelCallbackKeeps,
     CancelRequestKeeps, InvokeUserCallbackKeeps
<1>3. ASSUME NEW g \in Groups,
             \/ \E n \in 1..MaxPerGroup : RequestSockets(g, n)
             \/ OnConnectJobComplete(g) \/ OnBackupSocketTimerFired(g)
      PROVE  IInv'
  <2>1. 1..MaxPerGroup \subseteq Nat
    BY LimitAssumption
  <2> QED
    BY <1>3, <2>1, RequestSocketsKeeps, OnConnectJobCompleteKeeps,
       OnBackupSocketTimerFiredKeeps
<1>4. CASE Flush
  BY <1>4, FlushKeeps
<1>5. CASE CloseIdleSockets \/ OnCleanupTimerFired
  BY <1>5, IdleCleanupKeeps
<1> QED
  BY <1>1, <1>2, <1>3, <1>4, <1>5 DEF Next

\* The inductive invariant.
THEOREM Invariance == Spec => []IInv
<1>1. ASSUME IInv, [Next]_pool
      PROVE  IInv'
  BY <1>1, NextKeeps
<1> QED
  BY <1>1, InitGood, PTL DEF Spec

-----------------------------------------------------------------------------
(* What follows                                                            *)

\* A handle in terms of the queues it is in.
LEMMA SoundPlaces ==
    ASSUME IInv, NEW h \in Handles
    PROVE  /\ {g \in Groups : Contains(pool.group[g].pending, h)}
                = IF pool.request[h].group # None /\ pool.callback[h] = None
                     /\ ~pool.initialized[h]
                    THEN {pool.request[h].group} ELSE {}
           /\ pool.initialized[h] => pool.socket[h] # None /\ pool.callback[h] = None
           /\ pool.callback[h] = "ok" => pool.socket[h] # None
           /\ pool.callback[h] # None => pool.posted[h] > 0
<1>1. SoundHandle(pool, h) /\ pool \in Shape
  BY DEF IInv, Good, HandlesSound
<1>2. \A g \in Groups : Contains(pool.group[g].pending, h) <=> InQueue(pool, g, h)
  BY DEF Contains, InQueue
<1>3. pool.request[h].group \in Groups \cup {None} /\ None \notin Groups
  BY <1>1, UserAssumption DEF Shape, Request
<1>4. \A g \in Groups : Contains(pool.group[g].pending, h) <=>
         pool.request[h].group = g /\ pool.callback[h] = None /\ ~pool.initialized[h]
  BY <1>1, <1>2 DEF SoundHandle
<1>5. {g \in Groups : Contains(pool.group[g].pending, h)}
         = IF pool.request[h].group # None /\ pool.callback[h] = None /\ ~pool.initialized[h]
             THEN {pool.request[h].group} ELSE {}
  <2>1. CASE pool.request[h].group # None /\ pool.callback[h] = None /\ ~pool.initialized[h]
    BY <1>3, <1>4, <2>1
  <2>2. CASE ~(pool.request[h].group # None /\ pool.callback[h] = None /\ ~pool.initialized[h])
    <3>1. \A g \in Groups : ~Contains(pool.group[g].pending, h)
      BY <1>3, <1>4, <2>2
    <3> QED
      BY <2>2, <3>1
  <2> QED
    BY <2>1, <2>2
<1> QED
  BY <1>1, <1>5 DEF SoundHandle

\* client_socket_pool_base.cc: what the pool keeps twice, by hand, agrees after every
\* handler: the counters that limits are checked against, the groups and the places of
\* requests, and the backup timer with the job and the request it is for.
THEOREM PoolIsConsistent == Spec => []PoolConsistent
<1>1. ASSUME IInv
      PROVE  PoolConsistent
  <2>1. /\ pool \in Shape /\ pool.generation <= MaxFlushes /\ GroupsSound(pool, {}, {})
        /\ Counted(pool) /\ \A g \in Groups : pool.group[g] \in Group
    BY <1>1 DEF IInv, Good, Shape
  <2>2. pool \in Pool
    <3>1. /\ pool.idle_socket_count_ \in Nat /\ pool.connecting_socket_count_ \in Nat
          /\ pool.handed_out_socket_count_ \in Nat
      <4> DEFINE idle == [k \in Groups |-> Len(pool.group[k].idle)]
                 jobs == [k \in Groups |-> NumJobs(pool.group[k])]
                 active == [k \in Groups |-> pool.group[k].active]
      <4>1. idle \in [Groups -> Nat] /\ jobs \in [Groups -> Nat] /\ active \in [Groups -> Nat]
        BY <2>1, GroupNumbers
      <4>2. /\ pool.idle_socket_count_ = SumOver(idle)
            /\ pool.connecting_socket_count_ = SumOver(jobs)
            /\ pool.handed_out_socket_count_ = SumOver(active)
        BY <2>1 DEF Counted
      <4> HIDE DEF idle, jobs, active
      <4> QED
        BY <4>1, <4>2, PlacesFinite
    <3> QED
      BY <2>1, <3>1 DEF Shape, Pool
  <2>3. ASSUME NEW g \in Groups
        PROVE  /\ pool.group[g].backup # "running"
               /\ ~pool.group[g].exists => pool.group[g] = NoGroup
               /\ IsInjective(pool.group[g].pending)
               /\ pool.group[g].active = Cardinality(Holders(pool, g))
               /\ pool.group[g].backup # "none" =>
                    NumJobs(pool.group[g]) > 0 /\ pool.group[g].pending # <<>>
    <3>1. /\ SoundLists(pool.group[g], pool.generation, g, {})
          /\ pool.group[g].backup # "running"
          /\ pool.group[g].active = Cardinality(Holders(pool, g))
      BY <2>1 DEF GroupsSound, SoundGroup
    <3>2. IsInjective(pool.group[g].pending)
      <4> DEFINE s == pool.group[g].pending
      <4>1. NoneTwice(s) /\ s \in Seq(Handles)
        BY <2>1, <3>1, GroupFields DEF SoundLists
      <4> HIDE DEF s
      <4>2. IsInjective(s)
        BY <4>1 DEF NoneTwice, IsInjective
      <4> QED
        BY <4>2 DEF s
    <3> QED
      BY <3>1, <3>2 DEF SoundLists
  <2>4. TypeOK
    BY <2>1, <2>2, <2>3 DEF TypeOK
  <2>5. CountsMatch
    BY <2>1 DEF Counted, CountsMatch
  <2>6. HandlesAccounted
    BY <1>1, <2>3, SoundPlaces DEF HandlesAccounted, Holders
  <2>7. BackupTimerJustified
    BY <2>3 DEF BackupTimerJustified
  <2> QED
    BY <2>4, <2>5, <2>6, <2>7 DEF PoolConsistent
<1> QED
  BY <1>1, Invariance, PTL

\* client_socket_pool_base.cc, InvokeUserCallbackLater: a completion that waits for
\* delivery has a task that will deliver it, however often its handle was reset and used
\* again before older tasks had run.
THEOREM EveryCallbackIsPosted == Spec => []CallbackIsPosted
<1>1. IInv => CallbackIsPosted
  BY SoundPlaces DEF CallbackIsPosted
<1> QED
  BY <1>1, Invariance, PTL

\* client_socket_pool_base.cc, Flush and ReleaseSocket: no idle socket was connected before
\* the last Flush, so that none is handed out again.
THEOREM NothingStaleIsIdle == Spec => []NoStaleIdle
<1>1. ASSUME IInv
      PROVE  NoStaleIdle
  <2>1. Good(pool, {}, {}, {})
    BY <1>1 DEF IInv
  <2>2. ASSUME NEW g \in Groups, NEW i \in DOMAIN pool.group[g].idle
        PROVE  pool.group[g].idle[i] = pool.generation
    <3>1. SoundLists(pool.group[g], pool.generation, g, {}) /\ pool.group[g].idle \in Seq(Nat)
      BY <2>1, GoodTypes, GroupFields DEF SoundGroup
    <3>2. i \in 1..Len(pool.group[g].idle)
      BY <3>1
    <3> QED
      BY <3>1, <3>2 DEF SoundLists
  <2> QED
    BY <2>2 DEF NoStaleIdle
<1> QED
  BY <1>1, Invariance, PTL

\* client_socket_pool_base.cc, max_sockets_ and max_sockets_per_group_: where no request
\* ignores them the limits hold, for the pool and for every group.
THEOREM LimitsAreKept ==
    ASSUME NoneIgnores
    PROVE  Spec => []LimitsHold
<1>1. ASSUME IInv
      PROVE  LimitsHold
  <2> DEFINE idle == [k \in Groups |-> Len(pool.group[k].idle)]
             jobs == [k \in Groups |-> NumJobs(pool.group[k])]
             active == [k \in Groups |-> pool.group[k].active]
             both == [k \in Groups |-> active[k] + jobs[k]]
             slots == [k \in Groups |-> NumActiveSocketSlots(pool.group[k])]
  <2>1. /\ pool \in Shape /\ GroupsSound(pool, {}, {}) /\ Counted(pool) /\ Limited(pool)
        /\ \A g \in Groups : pool.group[g] \in Group
    BY <1>1 DEF IInv, Good, Shape
  <2>2. idle \in [Groups -> Nat] /\ jobs \in [Groups -> Nat] /\ active \in [Groups -> Nat]
    BY <2>1, GroupNumbers
  <2>3. both \in [Groups -> Nat]
    BY <2>2, NatAdd
  <2>4. slots = [k \in Groups |-> both[k] + idle[k]]
    BY DEF NumActiveSocketSlots
  <2>5. /\ pool.idle_socket_count_ = SumOver(idle)
        /\ pool.connecting_socket_count_ = SumOver(jobs)
        /\ pool.handed_out_socket_count_ = SumOver(active)
    BY <2>1 DEF Counted
  <2>6. SumOver(both) = SumOver(active) + SumOver(jobs)
    <3> HIDE DEF active, jobs
    <3> QED
      BY <2>2, SumAdd
  <2>7. SumOver([k \in Groups |-> both[k] + idle[k]]) = SumOver(both) + SumOver(idle)
    <3> HIDE DEF both, idle
    <3> QED
      BY <2>2, <2>3, SumAdd
  <2> HIDE DEF idle, jobs, active, both
  <2>8. SumOver(slots) = SumOver(active) + SumOver(jobs) + SumOver(idle)
    BY <2>4, <2>6, <2>7
  <2>9. SumOver(slots) <= MaxSockets
    BY <2>1, <2>5, <2>8 DEF Limited, TotalSockets
  <2>10. \A g \in Groups : NumActiveSocketSlots(pool.group[g]) <= MaxPerGroup
    BY <2>1 DEF GroupsSound, SoundGroup
  <2> QED
    BY <2>9, <2>10 DEF LimitsHold
<1> QED
  BY <1>1, Invariance, PTL

-----------------------------------------------------------------------------
(* The history: what was noted stays noted, until a request comes to empty *)
(* queues                                                                  *)

\* A woken request failed at once while others waited.
Told(p) == "wakeFailed" \in DOMAIN p /\ p.wakeFailed = TRUE

\* No helper that works on one group takes it back.
LEMMA GroupTold ==
    ASSUME NEW p, Told(p), NEW g, NEW h, NEW a, NEW b, NEW c
    PROVE  /\ Told(GetOrCreateGroup(p, g)) /\ Told(RemoveGroup(p, g)) /\ Told(RemoveIfEmpty(p, g))
           /\ Told(HandOutSocket(p, g, h, a)) /\ Told(AddIdleSocket(p, g, a))
           /\ Told(KeepIdle(p, g, a)) /\ Told(UsePreconnect(p, g)) /\ Told(AddJob(p, g, a))
           /\ Told(RemoveConnectJob(p, g, a, b)) /\ Told(StartTimer(p, g))
<1>1. Told(GetOrCreateGroup(p, g))
  BY DEF Told, GetOrCreateGroup
<1>2. Told(RemoveGroup(p, g)) /\ Told(RemoveIfEmpty(p, g))
  BY DEF Told, RemoveGroup, RemoveIfEmpty
<1>3. Told(HandOutSocket(p, g, h, a))
  BY DEF Told, HandOutSocket
<1>4. Told(AddIdleSocket(p, g, a))
  BY DEF Told, AddIdleSocket
<1>5. Told(KeepIdle(p, g, a))
  BY DEF Told, KeepIdle
<1>6. Told(UsePreconnect(p, g)) /\ Told(AddJob(p, g, a))
  BY DEF Told, UsePreconnect, AddJob
<1>7. Told(RemoveConnectJob(p, g, a, b)) /\ Told(StartTimer(p, g))
  BY DEF Told, RemoveConnectJob, StartTimer
<1> QED
  BY <1>1, <1>2, <1>3, <1>4, <1>5, <1>6, <1>7

\* Nor one that works on a request.
LEMMA HandleTold ==
    ASSUME NEW p, Told(p), NEW g, NEW h, NEW rv
    PROVE  /\ Told(InsertRequestIntoQueue(p, g, h)) /\ Told(RemoveRequestFromQueue(p, g, h))
           /\ Told(InvokeUserCallbackLater(p, h, rv)) /\ Told(HandleInitCompletion(p, h))
           /\ Told(Noted(p, h))
<1>1. Told(InsertRequestIntoQueue(p, g, h))
  BY DEF Told, InsertRequestIntoQueue
<1>2. Told(RemoveRequestFromQueue(p, g, h))
  BY DEF Told, RemoveRequestFromQueue
<1>3. Told(InvokeUserCallbackLater(p, h, rv)) /\ Told(HandleInitCompletion(p, h))
  BY DEF Told, InvokeUserCallbackLater, HandleInitCompletion
<1>4. Told(Noted(p, h))
  <2> DEFINE b == p.wakeFailed \/ /\ p.callback[h] = "error" /\ p.socket[h] = None
                                  /\ \E x \in Groups : p.group[x].pending # <<>>
  <2>1. b = TRUE
    BY DEF Told
  <2> HIDE DEF b
  <2>2. Noted(p, h) = [p EXCEPT !.wakeFailed = b]
    BY DEF Noted, b
  <2> QED
    BY <2>1, <2>2 DEF Told
<1> QED
  BY <1>1, <1>2, <1>3, <1>4

\* RequestSocketInternal.
LEMMA RequestTold ==
    ASSUME NEW p, Told(p), NEW g, NEW h, NEW ignore,
           NEW end \in RequestSocketInternal(p, g, h, ignore)
    PROVE  Told(end.pool)
<1>1. ASSUME NEW q, Told(q), NEW e \in Connect(q, g, h)
      PROVE  Told(e.pool)
  <2> DEFINE timed == IF BackupJobs /\ IsEmpty(q.group[g]) /\ h # None THEN StartTimer(q, g) ELSE q
             given == IF h = None THEN AddIdleSocket(q, g, q.generation)
                                  ELSE HandOutSocket(q, g, h, q.generation)
             kind == IF h = None THEN "unused" ELSE "used"
             added == AddJob(timed, g, kind)
             tidy == RemoveIfEmpty(q, g)
  <2>1. Told(timed) /\ Told(given) /\ Told(tidy)
    BY <1>1, GroupTold
  <2> HIDE DEF timed, given, tidy
  <2>2. Told(added)
    BY <2>1, GroupTold
  <2> HIDE DEF kind, added
  <2>3. PICK result \in ConnectResults :
          e = CASE result = "ok" -> [pool |-> given, rv |-> "ok"]
                [] result = "pending" -> [pool |-> added, rv |-> "pending"]
                [] result = "errorWithSocket" /\ h # None -> [pool |-> given, rv |-> "error"]
                [] OTHER -> [pool |-> tidy, rv |-> "error"]
    BY <1>1 DEF Connect, StartTimer, timed, given, added, kind, tidy
  <2>4. e.pool \in {given, added, tidy}
    BY <2>3
  <2> QED
    BY <2>1, <2>2, <2>4
<1>2. ASSUME NEW q, Told(q), NEW e \in RequestNewSocket(q, g, h, ignore)
      PROVE  Told(e.pool)
  <2> DEFINE elsewhere == CloseOneIdleSocket(q, {g})
  <2>1. \/ e.pool = UsePreconnect(q, g) \/ e.pool = q
        \/ e \in Connect(q, g, h) \/ \E r \in elsewhere : e \in Connect(r, g, h)
    <3> DEFINE used == UsePreconnect(q, g)
               new == UNION {Connect(r, g, h) : r \in elsewhere}
    <3>1. \/ e \in {[pool |-> used, rv |-> "pending"]} \/ e \in {[pool |-> q, rv |-> "pending"]}
          \/ e \in {[pool |-> q, rv |-> "error"]} \/ e \in Connect(q, g, h) \/ e \in new
      BY <1>2, Zenon DEF RequestNewSocket
    <3>2. e \in new => \E r \in elsewhere : e \in Connect(r, g, h)
      OBVIOUS
    <3> HIDE DEF used, new, elsewhere
    <3>3. e.pool = used \/ e.pool = q \/ e \in Connect(q, g, h) \/ e \in new
      BY <3>1
    <3> QED
      BY <3>2, <3>3 DEF used
  <2>2. ASSUME NEW r \in elsewhere
        PROVE  Told(r)
    BY <1>2, <2>2, GroupTold DEF CloseOneIdleSocket
  <2> QED
    BY <1>1, <1>2, <2>1, <2>2, GroupTold
<1> DEFINE q == GetOrCreateGroup(p, g)
<1>3. Told(q)
  BY GroupTold
<1>4. \/ end \in RequestNewSocket(q, g, h, ignore)
      \/ \E found \in AssignIdleSocketToGroup(q, g, h) :
            end = found \/ end \in RequestNewSocket(found.pool, g, h, ignore)
  BY DEF RequestSocketInternal
<1> HIDE DEF q
<1>5. ASSUME NEW found \in AssignIdleSocketToGroup(q, g, h)
      PROVE  Told(found.pool)
  <2> DEFINE idle == q.group[g].idle
  <2>1. \/ found = [pool |-> KeepIdle(q, g, {}), rv |-> "none"]
        \/ \E alive \in SUBSET DOMAIN idle : \E i \in alive :
             found = [pool |-> HandOutSocket(KeepIdle(q, g, alive \ {i}), g, h, idle[i]),
                      rv |-> "ok"]
    BY <1>5 DEF AssignIdleSocketToGroup
  <2> HIDE DEF idle
  <2>2. CASE found = [pool |-> KeepIdle(q, g, {}), rv |-> "none"]
    BY <1>3, <2>2, GroupTold
  <2>3. ASSUME NEW keep, NEW a,
               found = [pool |-> HandOutSocket(KeepIdle(q, g, keep), g, h, a), rv |-> "ok"]
        PROVE  Told(found.pool)
    <3> DEFINE r == KeepIdle(q, g, keep)
    <3>1. Told(r)
      BY <1>3, GroupTold
    <3>2. found.pool = HandOutSocket(r, g, h, a)
      BY <2>3
    <3> HIDE DEF r
    <3> QED
      BY <3>1, <3>2, GroupTold
  <2> QED
    BY <2>1, <2>2, <2>3
<1> QED
  BY <1>2, <1>3, <1>4, <1>5

\* OnAvailableSocketSlot.
LEMMA AvailableTold ==
    ASSUME NEW p, Told(p), NEW g, NEW q \in OnAvailableSocketSlot(p, g)
    PROVE  Told(q)
<1>1. q = RemoveGroup(p, g) \/ q = p \/ q \in ProcessPendingRequest(p, g)
  BY DEF OnAvailableSocketSlot
<1>2. CASE q \in ProcessPendingRequest(p, g)
  <2> DEFINE h == Head(p.group[g].pending)
             ignore == p.request[h].ignore
  <2>1. PICK end \in RequestSocketInternal(p, g, h, ignore) :
           q = IF end.rv = "pending" THEN end.pool
               ELSE Noted(InvokeUserCallbackLater(
                       RemoveIfEmpty(RemoveRequestFromQueue(end.pool, g, h), g), h, end.rv), h)
    BY <1>2 DEF ProcessPendingRequest
  <2> HIDE DEF h, ignore
  <2> DEFINE r == RemoveRequestFromQueue(end.pool, g, h)
             u == RemoveIfEmpty(r, g)
             w == InvokeUserCallbackLater(u, h, end.rv)
  <2>2. Told(end.pool)
    BY <2>1, RequestTold
  <2>3. Told(r)
    BY <2>2, HandleTold
  <2> HIDE DEF r
  <2>4. Told(u)
    BY <2>3, GroupTold
  <2> HIDE DEF u
  <2>5. Told(w)
    BY <2>4, HandleTold
  <2> HIDE DEF w
  <2>6. Told(Noted(w, h))
    BY <2>5, HandleTold
  <2> QED
    BY <2>1, <2>2, <2>6 DEF w, u, r
<1> QED
  BY <1>1, <1>2, GroupTold

\* CheckForStalledSocketGroups.
LEMMA CheckTold ==
    ASSUME NEW p, Told(p), NEW q \in CheckForStalledSocketGroups(p)
    PROVE  Told(q)
<1>1. \/ q = p
      \/ \E g : \/ q \in OnAvailableSocketSlot(p, g)
                \/ \E r \in CloseOneIdleSocket(p, {}) : q \in OnAvailableSocketSlot(r, g)
  BY DEF CheckForStalledSocketGroups, Then
<1>2. ASSUME NEW r \in CloseOneIdleSocket(p, {})
      PROVE  Told(r)
  BY GroupTold DEF CloseOneIdleSocket
<1> QED
  BY <1>1, <1>2, AvailableTold

\* A slot of the group, and then a stalled one.
LEMMA SlotTold ==
    ASSUME NEW p, Told(p), NEW g,
           NEW q \in Then(OnAvailableSocketSlot(p, g), CheckForStalledSocketGroups)
    PROVE  Told(q)
<1>1. PICK r \in OnAvailableSocketSlot(p, g) : q \in CheckForStalledSocketGroups(r)
  BY DEF Then
<1> QED
  BY <1>1, AvailableTold, CheckTold

\* ReleaseToPool.
LEMMA ReleaseTold ==
    ASSUME NEW p, Told(p), NEW g, NEW socket, NEW connectedAndIdle,
           NEW q \in ReleaseToPool(p, g, socket, connectedAndIdle)
    PROVE  Told(q)
<1> DEFINE u == [p EXCEPT !.handed_out_socket_count_ = @ - 1, !.group[g].active = @ - 1]
           idled == AddIdleSocket(u, g, socket.born)
<1>1. \/ q \in Then(OnAvailableSocketSlot(idled, g), CheckForStalledSocketGroups)
      \/ q \in CheckForStalledSocketGroups(u)
  BY DEF ReleaseToPool
<1>2. Told(u)
  BY DEF Told
<1> HIDE DEF u
<1>3. Told(idled)
  BY <1>2, GroupTold
<1> HIDE DEF idled
<1> QED
  BY <1>1, <1>2, <1>3, SlotTold, CheckTold

\* ConnectJobComplete.
LEMMA CompleteTold ==
    ASSUME NEW p, Told(p), NEW g, NEW k, NEW i, NEW result \in {"ok", "error", "errorWithSocket"},
           NEW q \in ConnectJobComplete(p, g, k, i, result)
    PROVE  Told(q)
<1> DEFINE born == p.group[g].jobs[k][i]
           queue == p.group[g].pending
           h == Head(queue)
           gone == RemoveConnectJob(p, g, k, i)
           idled == AddIdleSocket(gone, g, born)
           left == RemoveRequestFromQueue(p, g, h)
           served == RemoveConnectJob(left, g, k, i)
           given == HandOutSocket(served, g, h, born)
           slot(x) == Then(OnAvailableSocketSlot(x, g), CheckForStalledSocketGroups)
<1>1. q \in CASE result = "ok" /\ queue = <<>> -> slot(idled)
              [] result = "ok" /\ queue # <<>> -> {InvokeUserCallbackLater(given, h, "ok")}
              [] result = "errorWithSocket" /\ queue # <<>> ->
                   {InvokeUserCallbackLater(given, h, "error")}
              [] result = "error" /\ queue # <<>> ->
                   slot(InvokeUserCallbackLater(served, h, "error"))
              [] OTHER -> slot(gone)
  BY DEF ConnectJobComplete
<1>2. Told(gone) /\ Told(left)
  BY GroupTold, HandleTold
<1> HIDE DEF gone, left
<1>3. Told(idled) /\ Told(served)
  BY <1>2, GroupTold
<1> HIDE DEF idled, served
<1>4. Told(given)
  BY <1>3, GroupTold
<1> HIDE DEF given
<1>5. \A rv : /\ Told(InvokeUserCallbackLater(given, h, rv))
              /\ Told(InvokeUserCallbackLater(served, h, rv))
  BY <1>3, <1>4, HandleTold
<1> HIDE DEF queue, h
<1>6. \/ q \in slot(idled) \/ q \in slot(gone)
      \/ q \in slot(InvokeUserCallbackLater(served, h, "error"))
      \/ \E rv : q = InvokeUserCallbackLater(given, h, rv)
  <2> HIDE DEF slot
  <2> QED
    BY <1>1
<1> QED
  BY <1>2, <1>3, <1>5, <1>6, SlotTold

\* What is done to all the groups.
LEMMA CleanTold ==
    ASSUME NEW p, Told(p), NEW keep
    PROVE  /\ Told(CancelAllConnectJobs(p)) /\ Told(CleanupIdleSockets(p, keep))
           /\ Told(AbortAllRequests(p))
<1>1. ASSUME NEW q, Told(q)
      PROVE  Told(Tidy(q))
  BY <1>1 DEF Told, Tidy
<1>2. Told(CancelAllConnectJobs(p))
  <2> DEFINE n == p.connecting_socket_count_ - SumOver([g \in Groups |-> NumJobs(p.group[g])])
             X == [g \in Groups |-> [CleanupBackupJob(p.group[g]) EXCEPT !.jobs = NoJobs]]
             q == [p EXCEPT !.connecting_socket_count_ = n, !.group = X]
  <2>1. CancelAllConnectJobs(p) = Tidy(q)
    BY DEF CancelAllConnectJobs
  <2> HIDE DEF n, X
  <2>2. Told(q)
    BY DEF Told
  <2> HIDE DEF q
  <2> QED
    BY <1>1, <2>1, <2>2
<1>3. Told(CleanupIdleSockets(p, keep))
  <2> DEFINE X == [g \in Groups |-> KeepIdle(p, g, keep[g]).group[g]]
             n == SumOver([g \in Groups |-> Cardinality(keep[g])])
             q == [p EXCEPT !.group = X, !.idle_socket_count_ = n]
  <2>1. CleanupIdleSockets(p, keep) = p \/ CleanupIdleSockets(p, keep) = Tidy(q)
    BY DEF CleanupIdleSockets
  <2> HIDE DEF n, X
  <2>2. Told(q)
    BY DEF Told
  <2> HIDE DEF q
  <2> QED
    BY <1>1, <2>1, <2>2
<1>4. Told(AbortAllRequests(p))
  <2> DEFINE aborted == {h \in Handles : \E g \in Groups : Contains(p.group[g].pending, h)}
             X == [g \in Groups |-> [p.group[g] EXCEPT !.pending = <<>>]]
             C == [h \in Handles |-> IF h \in aborted THEN "error" ELSE p.callback[h]]
             N == [h \in Handles |-> IF h \in aborted THEN p.posted[h] + 1 ELSE p.posted[h]]
             q == [p EXCEPT !.group = X, !.callback = C, !.posted = N]
  <2>1. AbortAllRequests(p) = Tidy(q)
    BY DEF AbortAllRequests
  <2> HIDE DEF X, C, N
  <2>2. Told(q)
    BY DEF Told
  <2> HIDE DEF q
  <2> QED
    BY <1>1, <2>1, <2>2
<1> QED
  BY <1>2, <1>3, <1>4

\* The rounds of a preconnect.
LEMMA RoundsTold ==
    ASSUME NEW g, NEW n, NEW k \in Nat, NEW E, NEW f, Rounds(f, k, E, g, n),
           \A e \in E : Told(e.pool), NEW end \in f[k]
    PROVE  Told(end.pool)
<1> DEFINE T == {m \in Nat : m \in 0..k => \A e \in f[m] : Told(e.pool)}
<1>1. 0 \in T
  BY DEF Rounds
<1>2. ASSUME NEW m \in Nat, m \in T
      PROVE  m + 1 \in T
  <2>1. SUFFICES ASSUME m + 1 \in 0..k, NEW e \in f[m + 1]
                 PROVE  Told(e.pool)
    OBVIOUS
  <2>2. m \in 0..k /\ m + 1 # 0 /\ m + 1 - 1 = m
    BY <2>1
  <2>3. f[m + 1] = NextRound(f[m], g, n)
    <3> DEFINE i == m + 1
    <3>1. i \in 0..k /\ i # 0 /\ i - 1 = m
      BY <2>1, <2>2
    <3> HIDE DEF i
    <3>2. f[i] = NextRound(f[i - 1], g, n)
      BY <3>1 DEF Rounds
    <3> QED
      BY <3>1, <3>2 DEF i
  <2>4. PICK d \in f[m] : e \in Round(d, g, n)
    BY <2>1, <2>3 DEF NextRound
  <2>5. Told(d.pool)
    BY <1>2, <2>2, <2>4
  <2>6. e = d \/ e \in RequestSocketInternal(d.pool, g, None, FALSE)
    BY <2>4 DEF Round
  <2> QED
    BY <2>5, <2>6, RequestTold
<1> HIDE DEF T
<1>3. k \in T
  BY <1>1, <1>2, AllNumbers
<1> QED
  BY <1>3 DEF T

\* OnBackupSocketTimerFired.
LEMMA TimerTold ==
    ASSUME Told(pool), NEW g, OnBackupSocketTimerFired(g)
    PROVE  Told(pool')
<1> DEFINE p == [pool EXCEPT !.group[g].backup = "running"]
           G == p.group[g]
           added == AddJob(p, g, "used")
           again == [p EXCEPT !.group[g] = StartBackupSocketTimer(G)]
           last == Len(added.group[g].jobs["used"])
<1>1. ASSUME NEW q, Told(q)
      PROVE  Told(Done(q, g))
  BY <1>1 DEF Told, Done
<1>2. \/ pool' = Done(p, g) \/ pool' = Done(again, g) \/ pool' = Done(added, g)
      \/ \E result \in {"ok", "error", "errorWithSocket"} :
            \E q \in ConnectJobComplete(added, g, "used", last, result) : pool' = Done(q, g)
  <2> USE DEF Done
  <2> HIDE DEF p, last, added
  <2> QED
    BY ConnectAssumption DEF OnBackupSocketTimerFired, p, added, last
<1>3. Told(p)
  BY DEF Told
<1> HIDE DEF p
<1>4. Told(again)
  BY <1>3 DEF Told
<1>5. Told(added)
  BY <1>3, GroupTold
<1> HIDE DEF again, added, last
<1> QED
  BY <1>1, <1>2, <1>3, <1>4, <1>5, CompleteTold

\* A handle is reset, or told.
LEMMA UserTold ==
    ASSUME Told(pool), NEW h \in Handles,
           ReleaseSocket(h) \/ CancelCallback(h) \/ CancelRequest(h) \/ InvokeUserCallback(h)
    PROVE  Told(pool')
<1>1. CASE ReleaseSocket(h)
  <2> DEFINE p == [pool EXCEPT !.initialized[h] = FALSE, !.socket[h] = None,
                               !.request[h] = NoRequest]
  <2>1. Told(p)
    BY DEF Told
  <2>2. PICK b \in BOOLEAN : pool' \in ReleaseToPool(p, pool.request[h].group, pool.socket[h], b)
    BY <1>1 DEF ReleaseSocket
  <2> HIDE DEF p
  <2> QED
    BY <2>1, <2>2, ReleaseTold
<1>2. CASE CancelCallback(h)
  <2> DEFINE p == [pool EXCEPT !.callback[h] = None, !.socket[h] = None,
                               !.request[h] = NoRequest]
  <2>1. Told(p)
    BY DEF Told
  <2>2. \/ pool' = p
        \/ \E b : pool' \in ReleaseToPool(p, pool.request[h].group, pool.socket[h], b)
    BY <1>2 DEF CancelCallback
  <2> HIDE DEF p
  <2> QED
    BY <2>1, <2>2, ReleaseTold
<1>3. CASE CancelRequest(h)
  <2> DEFINE x == [pool EXCEPT !.request[h] = NoRequest]
             p(g) == RemoveRequestFromQueue(x, g, h)
  <2>1. PICK g \in Groups :
          \/ pool' = p(g)
          \/ pool' \in Then({RemoveConnectJob(p(g), g, k, 1) :
                               k \in {kind \in JobKinds : p(g).group[g].jobs[kind] # <<>>}},
                            CheckForStalledSocketGroups)
    BY <1>3 DEF CancelRequest
  <2>2. Told(x)
    BY DEF Told
  <2> HIDE DEF x
  <2>3. Told(p(g))
    BY <2>2, HandleTold
  <2> DEFINE q == p(g)
  <2> HIDE DEF p
  <2>4. \/ pool' = q \/ \E k : pool' \in CheckForStalledSocketGroups(RemoveConnectJob(q, g, k, 1))
    BY <2>1 DEF Then
  <2> HIDE DEF q
  <2>5. Told(q)
    BY <2>3 DEF q
  <2> QED
    BY <2>4, <2>5, GroupTold, CheckTold
<1>4. CASE InvokeUserCallback(h)
  <2> DEFINE p == [pool EXCEPT !.posted[h] = @ - 1]
             q == [p EXCEPT !.callback[h] = None]
  <2>1. pool' = p \/ pool' = HandleInitCompletion(q, h)
    BY <1>4 DEF InvokeUserCallback
  <2>2. Told(p)
    BY DEF Told
  <2> HIDE DEF p
  <2>3. Told(q)
    BY <2>2 DEF Told
  <2> HIDE DEF q
  <2> QED
    BY <2>1, <2>2, <2>3, HandleTold
<1> QED
  BY <1>1, <1>2, <1>3, <1>4

\* A request that finds others queued.
LEMMA AskTold ==
    ASSUME Told(pool), ~NoneQueued, NEW h \in Handles, NEW g \in Groups, NEW k \in Kinds,
           RequestSocket(h, g, k)
    PROVE  Told(pool')
<1> DEFINE r == [group |-> g, priority |-> k.priority, ignore |-> k.ignore]
           p == [pool EXCEPT !.request[h] = r]
           b == pool.wakeFailed /\ ~NoneQueued
           asked == [pool EXCEPT !.request[h] = r, !.wakeFailed = b]
<1>1. PICK end \in RequestSocketInternal(asked, g, h, k.ignore) :
         pool' = IF end.rv = "pending" THEN InsertRequestIntoQueue(end.pool, g, h)
                 ELSE HandleInitCompletion(end.pool, h)
  BY DEF RequestSocket
<1>2. b = TRUE
  BY DEF Told
<1> HIDE DEF b, r
<1>3. Told(asked)
  BY <1>2 DEF Told
<1> HIDE DEF asked
<1>4. Told(end.pool)
  BY <1>1, <1>3, RequestTold
<1> QED
  BY <1>1, <1>4, HandleTold

\* What is noted stays so, unless a request comes to empty queues.
LEMMA NextTold ==
    ASSUME Told(pool), ~NoneQueued, [Next]_pool
    PROVE  Told(pool')
<1>1. CASE UNCHANGED pool
  BY <1>1
<1>2. ASSUME NEW h \in Handles, NEW g \in Groups, NEW k \in Kinds, RequestSocket(h, g, k)
      PROVE  Told(pool')
  BY <1>2, AskTold
<1>3. ASSUME NEW h \in Handles,
             ReleaseSocket(h) \/ CancelCallback(h) \/ CancelRequest(h) \/ InvokeUserCallback(h)
      PROVE  Told(pool')
  BY <1>3, UserTold
<1>4. ASSUME NEW g \in Groups, NEW n \in 1..MaxPerGroup, RequestSockets(g, n)
      PROVE  Told(pool')
  <2> DEFINE z == GetOrCreateGroup(pool, g)
             E == {[pool |-> z, rv |-> "ok"]}
             ends == CHOOSE f : Rounds(f, n, E, g, n)
  <2>1. n \in Nat
    BY LimitAssumption
  <2>2. Rounds(ends, n, E, g, n)
    BY <2>1, RoundsDefined
  <2>3. pool' \in {RemoveIfEmpty(e.pool, g) : e \in ends[n]}
    BY <1>4 DEF RequestSockets, Rounds, NextRound, Round
  <2>4. \A e \in E : Told(e.pool)
    BY GroupTold
  <2> HIDE DEF ends, E
  <2>5. PICK e \in ends[n] : pool' = RemoveIfEmpty(e.pool, g)
    BY <2>3
  <2>6. Told(e.pool)
    BY <2>1, <2>2, <2>4, <2>5, RoundsTold
  <2> QED
    BY <2>5, <2>6, GroupTold
<1>5. ASSUME NEW g \in Groups, OnConnectJobComplete(g)
      PROVE  Told(pool')
  <2>1. PICK kind \in JobKinds, result \in {"ok", "error", "errorWithSocket"} :
           \E i \in DOMAIN pool.group[g].jobs[kind] :
              pool' \in ConnectJobComplete(pool, g, kind, i, result)
    BY <1>5 DEF OnConnectJobComplete
  <2> QED
    BY <2>1, CompleteTold
<1>6. ASSUME NEW g \in Groups, OnBackupSocketTimerFired(g)
      PROVE  Told(pool')
  BY <1>6, TimerTold
<1>7. CASE Flush
  <2> DEFINE p == [pool EXCEPT !.generation = @ + 1]
             q == CancelAllConnectJobs(p)
             r == CleanupIdleSockets(q, [g \in Groups |-> {}])
  <2>1. pool' = AbortAllRequests(r)
    BY <1>7 DEF Flush
  <2>2. Told(p)
    BY DEF Told
  <2> HIDE DEF p
  <2>3. Told(q)
    BY <2>2, CleanTold
  <2> HIDE DEF q
  <2>4. Told(r)
    BY <2>3, CleanTold
  <2> HIDE DEF r
  <2> QED
    BY <2>1, <2>4, CleanTold
<1>8. CASE CloseIdleSockets \/ OnCleanupTimerFired
  BY <1>8, CleanTold DEF CloseIdleSockets, OnCleanupTimerFired
<1> QED
  BY <1>1, <1>2, <1>3, <1>4, <1>5, <1>6, <1>7, <1>8 DEF Next

-----------------------------------------------------------------------------
(* Nobody is forgotten                                                     *)
(*                                                                         *)
(* A group waits when it has more requests than jobs.  What follows shows  *)
(* that a waiting group has no idle socket, and room for a socket only     *)
(* while the pool is full of sockets in use and of jobs.  One of these     *)
(* will end, and wake it.  Only the numbers in a group matter.             *)

Asked(G) == Len(G.pending)
Spare(G) == Len(G.jobs["unused"])
Taken(G) == Len(G.jobs["used"])
Resting(G) == Len(G.idle)
Held(G) == G.active + Spare(G) + Taken(G)

Waits(G) == Asked(G) > Spare(G) + Taken(G)

\* A preconnect is left unused only while every request has a job of its own.
Covered(G) == Spare(G) > 0 => Asked(G) <= Taken(G)

\* A waiting group with n more sockets has no room, or u sockets in use fill the pool.
Blocked(G, n, u) ==
    Waits(G) => Resting(G) = 0 /\ (Held(G) + n < MaxPerGroup => u >= MaxSockets)

Awake(p) == \A x \in Groups : Covered(p.group[x]) /\ Blocked(p.group[x], 0, InUse(p))

\* The same, but for one socket that g has lost.
AwakeBut(p, g) ==
    \A x \in Groups : /\ Covered(p.group[x])
                      /\ Blocked(p.group[x], IF x = g THEN 1 ELSE 0, InUse(p) + 1)

\* The same, when g is about to be given that socket.
Ready(p, g) ==
    /\ \A x \in Groups \ {g} : Covered(p.group[x]) /\ Blocked(p.group[x], 0, InUse(p) + 1)
    /\ Covered(p.group[g])
    /\ Waits(p.group[g]) =>
          /\ Resting(p.group[g]) <= 1 /\ Held(p.group[g]) + 1 <= MaxPerGroup
          /\ InUse(p) + 1 <= MaxSockets
          /\ Held(p.group[g]) + 1 < MaxPerGroup => InUse(p) + 1 >= MaxSockets

\* H is G, with idle sockets lost perhaps.
Keeps(G, H) ==
    /\ Asked(H) = Asked(G) /\ Spare(H) = Spare(G) /\ Taken(H) = Taken(G) /\ H.active = G.active
    /\ Resting(H) \in Nat /\ Resting(H) <= Resting(G)

\* H is G with so many more requests, jobs of either kind and sockets in use.
Grew(G, H, r, s, t, a) ==
    /\ Asked(H) = Asked(G) + r /\ Spare(H) = Spare(G) + s /\ Taken(H) = Taken(G) + t
    /\ H.active = G.active + a

\* From p to q the group g grew, and the others kept what they had, but for idle sockets.
Changed(p, q, g, r, s, t, a) ==
    /\ \A x \in Groups \ {g} : Keeps(p.group[x], q.group[x])
    /\ Grew(p.group[g], q.group[g], r, s, t, a)
    /\ InUse(q) = InUse(p) + s + t + a
    /\ Resting(q.group[g]) \in Nat

Numbers(G) == /\ Asked(G) \in Nat /\ Spare(G) \in Nat /\ Taken(G) \in Nat
              /\ Resting(G) \in Nat /\ G.active \in Nat

\* All that is counted is a number.
AllNumbered(p) == InUse(p) \in Int /\ \A x \in Groups : Numbers(p.group[x])

\* The numbers of a group, and what they are to its operators.
LEMMA GroupNumbered ==
    ASSUME NEW G \in Group
    PROVE  /\ Numbers(G)
           /\ NumJobs(G) = Spare(G) + Taken(G)
           /\ NumActiveSocketSlots(G) = Held(G) + Resting(G)
           /\ G.pending = <<>> <=> Asked(G) = 0
           /\ G.idle = <<>> <=> Resting(G) = 0
           /\ G.jobs["unused"] = <<>> <=> Spare(G) = 0
<1>1. /\ G.idle \in Seq(Nat) /\ G.pending \in Seq(Handles) /\ G.active \in Nat
      /\ G.jobs["unused"] \in Seq(Nat) /\ G.jobs["used"] \in Seq(Nat)
  BY DEF Group, JobKinds
<1>2. Numbers(G)
  BY <1>1 DEF Numbers, Asked, Spare, Taken, Resting
<1>3. NumJobs(G) = Spare(G) + Taken(G)
  BY DEF NumJobs, Spare, Taken
<1>4. NumActiveSocketSlots(G) = G.active + (Spare(G) + Taken(G)) + Resting(G)
  BY <1>3 DEF NumActiveSocketSlots, Resting
<1>5. NumActiveSocketSlots(G) = Held(G) + Resting(G)
  BY <1>2, <1>4 DEF Numbers, Held
<1>6. \A S : \A s \in Seq(S) : s = <<>> <=> Len(s) = 0
  OBVIOUS
<1>7. /\ G.pending = <<>> <=> Asked(G) = 0
      /\ G.idle = <<>> <=> Resting(G) = 0
      /\ G.jobs["unused"] = <<>> <=> Spare(G) = 0
  BY <1>1, <1>6 DEF Asked, Resting, Spare
<1> QED
  BY <1>2, <1>3, <1>5, <1>7

\* So it is in every pool.
LEMMA PoolNumbered ==
    ASSUME NEW p \in Shape
    PROVE  /\ AllNumbered(p) /\ p.group \in [Groups -> Group]
           /\ TotalSockets(p) = InUse(p) + p.idle_socket_count_
           /\ p.idle_socket_count_ \in Int
<1>1. /\ p.group \in [Groups -> Group] /\ p.handed_out_socket_count_ \in Int
      /\ p.connecting_socket_count_ \in Int /\ p.idle_socket_count_ \in Int
  BY DEF Shape
<1>2. \A x \in Groups : Numbers(p.group[x])
  BY <1>1, GroupNumbered
<1>3. InUse(p) \in Int
  BY <1>1 DEF InUse
<1>4. TotalSockets(p) = InUse(p) + p.idle_socket_count_
  BY DEF InUse, TotalSockets
<1> QED
  BY <1>1, <1>2, <1>3, <1>4 DEF AllNumbered

\* Steps add up.
LEMMA ChangedTwice ==
    ASSUME NEW p, NEW q, NEW z, AllNumbered(p), NEW g \in Groups,
           NEW r \in Int, NEW s \in Int, NEW t \in Int, NEW a \in Int, Changed(p, q, g, r, s, t, a),
           NEW rr \in Int, NEW ss \in Int, NEW tt \in Int, NEW aa \in Int,
           Changed(q, z, g, rr, ss, tt, aa)
    PROVE  Changed(p, z, g, r + rr, s + ss, t + tt, a + aa)
<1>1. ASSUME NEW x \in Groups \ {g}
      PROVE  Keeps(p.group[x], z.group[x])
  <2>1. Keeps(p.group[x], q.group[x]) /\ Keeps(q.group[x], z.group[x]) /\ Numbers(p.group[x])
    BY DEF Changed, AllNumbered
  <2> QED
    BY <2>1 DEF Keeps, Numbers
<1>2. /\ Grew(p.group[g], q.group[g], r, s, t, a) /\ Numbers(p.group[g])
      /\ Grew(q.group[g], z.group[g], rr, ss, tt, aa)
  BY DEF Changed, AllNumbered
<1>3. Grew(p.group[g], z.group[g], r + rr, s + ss, t + tt, a + aa)
  BY <1>2 DEF Grew, Numbers
<1>4. InUse(q) = InUse(p) + s + t + a /\ InUse(z) = InUse(q) + ss + tt + aa /\ InUse(p) \in Int
  BY DEF Changed, AllNumbered
<1>5. InUse(z) = InUse(p) + (s + ss) + (t + tt) + (a + aa)
  BY <1>4
<1> QED
  BY <1>1, <1>3, <1>5 DEF Changed

\* A group that grew is covered, or blocked, as these numbers say.
LEMMA GrewNumbers ==
    ASSUME NEW G, NEW H, Numbers(G), NEW r \in Int, NEW s \in Int, NEW t \in Int, NEW a \in Int,
           Grew(G, H, r, s, t, a)
    PROVE  /\ Held(H) = Held(G) + s + t + a
           /\ Waits(H) <=> Asked(G) + r > Spare(G) + Taken(G) + s + t
           /\ Covered(H) <=> (Spare(G) + s > 0 => Asked(G) + r <= Taken(G) + t)
<1>1. /\ Asked(G) \in Nat /\ Spare(G) \in Nat /\ Taken(G) \in Nat /\ G.active \in Nat
  BY DEF Numbers
<1>2. /\ Asked(H) = Asked(G) + r /\ Spare(H) = Spare(G) + s /\ Taken(H) = Taken(G) + t
      /\ H.active = G.active + a
  BY DEF Grew
<1>3. Held(H) = Held(G) + s + t + a
  BY <1>1, <1>2 DEF Held
<1>4. Waits(H) <=> Asked(G) + r > Spare(G) + Taken(G) + s + t
  BY <1>1, <1>2 DEF Waits
<1>5. Covered(H) <=> (Spare(G) + s > 0 => Asked(G) + r <= Taken(G) + t)
  BY <1>2 DEF Covered
<1> QED
  BY <1>3, <1>4, <1>5

\* A group that kept what it had stays covered and blocked, with more sockets in use.
LEMMA KeepsBlocked ==
    ASSUME NEW G, NEW H, Numbers(G), Keeps(G, H), NEW n \in Int, NEW u \in Int, NEW v \in Int,
           v >= u
    PROVE  /\ Covered(G) => Covered(H)
           /\ Blocked(G, n, u) => Blocked(H, n, v)
           /\ Waits(H) <=> Waits(G)
           /\ Held(H) = Held(G)
<1>1. /\ Asked(H) = Asked(G) /\ Spare(H) = Spare(G) /\ Taken(H) = Taken(G) /\ H.active = G.active
      /\ Resting(H) \in Nat /\ Resting(H) <= Resting(G)
  BY DEF Keeps
<1>2. Held(H) = Held(G) /\ (Waits(H) <=> Waits(G)) /\ (Covered(G) <=> Covered(H))
  BY <1>1 DEF Held, Waits, Covered
<1>3. Resting(G) \in Nat /\ MaxSockets \in Int
  BY LimitAssumption DEF Numbers
<1>4. ASSUME Resting(G) = 0
      PROVE  Resting(H) = 0
  BY <1>1, <1>3, <1>4
<1>5. u >= MaxSockets => v >= MaxSockets
  BY <1>3
<1>6. Blocked(G, n, u) => Blocked(H, n, v)
  BY <1>2, <1>4, <1>5 DEF Blocked
<1> QED
  BY <1>2, <1>6

\* A pool in which every request has its wake-up is one that may lose a socket.
LEMMA AwakeIsAwakeBut ==
    ASSUME NEW p, AllNumbered(p), Awake(p), NEW g \in Groups
    PROVE  AwakeBut(p, g)
<1> SUFFICES ASSUME NEW x \in Groups
             PROVE  /\ Covered(p.group[x])
                    /\ Blocked(p.group[x], IF x = g THEN 1 ELSE 0, InUse(p) + 1)
  BY DEF AwakeBut
<1>1. Covered(p.group[x]) /\ Blocked(p.group[x], 0, InUse(p)) /\ Numbers(p.group[x])
  BY DEF Awake, AllNumbered
<1> DEFINE n == IF x = g THEN 1 ELSE 0
           u == InUse(p)
           H == Held(p.group[x])
<1>2. u \in Int /\ H \in Int /\ n \in {0, 1} /\ MaxSockets \in Int /\ MaxPerGroup \in Int
  BY <1>1, LimitAssumption DEF AllNumbered, Numbers, Held
<1>3. Waits(p.group[x]) => Resting(p.group[x]) = 0 /\ (H + 0 < MaxPerGroup => u >= MaxSockets)
  BY <1>1 DEF Blocked
<1> HIDE DEF n, u, H
<1>4. Waits(p.group[x]) => Resting(p.group[x]) = 0 /\ (H + n < MaxPerGroup => u + 1 >= MaxSockets)
  BY <1>2, <1>3
<1>5. Blocked(p.group[x], n, u + 1)
  BY <1>4 DEF Blocked, H
<1> QED
  BY <1>1, <1>5 DEF n, u

\* Only the group g changes, to G.
GrewTo(p, q, g, G, r, s, t, a) ==
    /\ q.group = [p.group EXCEPT ![g] = G]
    /\ Grew(p.group[g], G, r, s, t, a) /\ InUse(q) = InUse(p) + s + t + a

\* Then the others keep what they have.
LEMMA OneGroupChanges ==
    ASSUME NEW p \in Shape, NEW g \in Groups, NEW G \in Group, NEW q,
           NEW r, NEW s, NEW t, NEW a, GrewTo(p, q, g, G, r, s, t, a)
    PROVE  Changed(p, q, g, r, s, t, a) /\ q.group[g] = G
<1>1. p.group \in [Groups -> Group]
  BY PoolNumbered
<1>2. q.group[g] = G /\ \A x \in Groups \ {g} : q.group[x] = p.group[x]
  BY <1>1 DEF GrewTo
<1>3. \A x \in Groups \ {g} : Keeps(p.group[x], q.group[x])
  <2> TAKE x \in Groups \ {g}
  <2>1. q.group[x] = p.group[x] /\ Numbers(p.group[x])
    BY <1>1, <1>2, GroupNumbered
  <2>2. Resting(p.group[x]) \in Nat
    BY <2>1 DEF Numbers
  <2> QED
    BY <2>1, <2>2 DEF Keeps
<1>4. Resting(G) \in Nat
  BY GroupNumbered DEF Numbers
<1> QED
  BY <1>2, <1>3, <1>4 DEF GrewTo, Changed

\* Nothing that is counted changes.
LEMMA NothingChanges ==
    ASSUME NEW p \in Shape, NEW q, q.group = p.group,
           q.handed_out_socket_count_ = p.handed_out_socket_count_,
           q.connecting_socket_count_ = p.connecting_socket_count_, NEW g \in Groups
    PROVE  Changed(p, q, g, 0, 0, 0, 0)
<1>1. p.group \in [Groups -> Group] /\ AllNumbered(p)
  BY PoolNumbered
<1>2. \A x \in Groups : Numbers(p.group[x]) /\ q.group[x] = p.group[x]
  BY <1>1 DEF AllNumbered
<1>3. \A x \in Groups : Keeps(p.group[x], q.group[x]) /\ Resting(q.group[x]) \in Nat
  BY <1>2 DEF Keeps, Numbers
<1>4. InUse(q) = InUse(p) + 0 + 0 + 0
  BY <1>1 DEF InUse, AllNumbered
<1>5. Grew(p.group[g], q.group[g], 0, 0, 0, 0)
  BY <1>2 DEF Grew, Numbers
<1> QED
  BY <1>3, <1>4, <1>5 DEF Changed

\* HandOutSocket.
LEMMA HandOutChanges ==
    ASSUME NEW p \in Shape, NEW g \in Groups, NEW h \in Handles, NEW b
    PROVE  LET q == HandOutSocket(p, g, h, b) IN
           Changed(p, q, g, 0, 0, 0, 1) /\ Resting(q.group[g]) = Resting(p.group[g])
<1> DEFINE G == p.group[g]
           m == G.active
           H == [G EXCEPT !.active = m + 1]
           q == HandOutSocket(p, g, h, b)
<1>1. p.group \in [Groups -> Group] /\ G \in Group /\ m \in Nat /\ AllNumbered(p)
  BY PoolNumbered, GroupFields
<1>2. m + 1 \in Nat
  <2> HIDE DEF m
  <2> QED
    BY <1>1
<1>3. /\ H \in Group /\ H.pending = G.pending /\ H.jobs = G.jobs /\ H.idle = G.idle
      /\ H.active = m + 1
  BY <1>1, <1>2 DEF Group
<1>4. /\ q.group = [p.group EXCEPT ![g] = H]
      /\ q.handed_out_socket_count_ = p.handed_out_socket_count_ + 1
      /\ q.connecting_socket_count_ = p.connecting_socket_count_
  BY DEF HandOutSocket, Shape
<1> HIDE DEF H, q
<1>5. InUse(q) = InUse(p) + 0 + 0 + 1
  <2> DEFINE c == p.handed_out_socket_count_
             d == p.connecting_socket_count_
  <2>1. c \in Int /\ d \in Int
    BY DEF Shape
  <2>2. InUse(q) = (c + 1) + d /\ InUse(p) = c + d
    BY <1>4 DEF InUse
  <2> HIDE DEF c, d
  <2> QED
    BY <2>1, <2>2
<1>6. Grew(G, H, 0, 0, 0, 1) /\ Resting(H) = Resting(G)
  <2>1. Asked(H) = Asked(G) /\ Spare(H) = Spare(G) /\ Taken(H) = Taken(G) /\ Resting(H) = Resting(G)
    BY <1>3 DEF Asked, Spare, Taken, Resting
  <2>2. Numbers(G)
    BY <1>1, GroupNumbered
  <2> QED
    BY <1>3, <2>1, <2>2 DEF Grew, Numbers
<1> HIDE DEF G
<1>7. Changed(p, q, g, 0, 0, 0, 1) /\ q.group[g] = H
  <2>1. GrewTo(p, q, g, H, 0, 0, 0, 1)
    BY <1>4, <1>5, <1>6 DEF GrewTo, G
  <2> QED
    BY <1>3, <2>1, OneGroupChanges
<1> QED
  BY <1>6, <1>7 DEF q, G

\* A group gets other idle sockets, and the pool another number of them.
IdleBecomes(p, g, s, n, q) ==
    q = [p EXCEPT !.group = [p.group EXCEPT ![g] = [p.group[g] EXCEPT !.idle = s]],
                  !.idle_socket_count_ = n]

\* Only the number of the group's idle sockets changes.
LEMMA IdleChanges ==
    ASSUME NEW p \in Shape, NEW g \in Groups, NEW s \in Seq(Nat), NEW n, NEW q,
           IdleBecomes(p, g, s, n, q)
    PROVE  /\ Changed(p, q, g, 0, 0, 0, 0) /\ Resting(q.group[g]) = Len(s)
           /\ n \in Int => q \in Shape
<1> DEFINE G == p.group[g]
           H == [G EXCEPT !.idle = s]
<1>1. p.group \in [Groups -> Group] /\ G \in Group /\ AllNumbered(p)
  BY PoolNumbered
<1>2. /\ H \in Group /\ H.pending = G.pending /\ H.jobs = G.jobs /\ H.active = G.active
      /\ H.idle = s
  BY <1>1 DEF Group
<1>3. /\ q.group = [p.group EXCEPT ![g] = H]
      /\ q.handed_out_socket_count_ = p.handed_out_socket_count_
      /\ q.connecting_socket_count_ = p.connecting_socket_count_
  BY DEF IdleBecomes, Shape
<1> HIDE DEF H
<1>4. InUse(q) = InUse(p) + 0 + 0 + 0
  BY <1>1, <1>3 DEF InUse, AllNumbered
<1>5. Grew(G, H, 0, 0, 0, 0) /\ Resting(H) = Len(s)
  <2>1. /\ Asked(H) = Asked(G) /\ Spare(H) = Spare(G) /\ Taken(H) = Taken(G)
        /\ Resting(H) = Len(s)
    BY <1>2 DEF Asked, Spare, Taken, Resting
  <2>2. Numbers(G)
    BY <1>1, GroupNumbered
  <2> QED
    BY <1>2, <2>1, <2>2 DEF Grew, Numbers
<1> HIDE DEF G
<1>6. Changed(p, q, g, 0, 0, 0, 0) /\ q.group[g] = H
  <2>1. GrewTo(p, q, g, H, 0, 0, 0, 0)
    BY <1>3, <1>4, <1>5 DEF GrewTo, G
  <2> QED
    BY <1>2, <2>1, OneGroupChanges
<1>7. n \in Int => q \in Shape
  <2> DEFINE X == [p.group EXCEPT ![g] = H]
  <2>1. X \in [Groups -> Group]
    BY <1>1, <1>2
  <2>2. q = [p EXCEPT !.group = X, !.idle_socket_count_ = n]
    BY DEF IdleBecomes, G, H
  <2> HIDE DEF X
  <2> QED
    BY <2>1, <2>2 DEF Shape
<1> QED
  BY <1>5, <1>6, <1>7

\* AddIdleSocket.
LEMMA AddIdleChanges ==
    ASSUME NEW p \in Shape, NEW g \in Groups, NEW b \in Nat
    PROVE  LET q == AddIdleSocket(p, g, b) IN
           Changed(p, q, g, 0, 0, 0, 0) /\ Resting(q.group[g]) = Resting(p.group[g]) + 1
<1> DEFINE i == p.group[g].idle
           s == Append(i, b)
           q == AddIdleSocket(p, g, b)
<1>1. i \in Seq(Nat)
  BY PoolNumbered, GroupFields
<1>2. s \in Seq(Nat) /\ Len(s) = Len(i) + 1
  <2> HIDE DEF i
  <2> QED
    BY <1>1
<1>3. IdleBecomes(p, g, s, p.idle_socket_count_ + 1, q)
  BY DEF IdleBecomes, AddIdleSocket, Shape
<1> HIDE DEF s, q
<1>4. Changed(p, q, g, 0, 0, 0, 0) /\ Resting(q.group[g]) = Len(s)
  BY <1>2, <1>3, IdleChanges
<1> QED
  BY <1>2, <1>4 DEF q, Resting

\* KeepIdle.
LEMMA KeepIdleChanges ==
    ASSUME NEW p \in Shape, NEW g \in Groups, NEW keep \in SUBSET (1..Len(p.group[g].idle))
    PROVE  LET q == KeepIdle(p, g, keep) IN
           /\ Changed(p, q, g, 0, 0, 0, 0) /\ Resting(q.group[g]) = Cardinality(keep)
           /\ Cardinality(keep) \in 0..Resting(p.group[g])
           /\ q \in Shape
<1> DEFINE i == p.group[g].idle
           s == Kept(i, keep)
           n == p.idle_socket_count_ - (Len(i) - Cardinality(keep))
           q == KeepIdle(p, g, keep)
<1>1. i \in Seq(Nat)
  BY PoolNumbered, GroupFields
<1>2. s \in Seq(Nat) /\ Len(s) = Cardinality(keep) /\ Cardinality(keep) \in 0..Len(i)
  BY <1>1, KeptIdle
<1>3. IdleBecomes(p, g, s, n, q)
  BY DEF IdleBecomes, KeepIdle, Kept, Shape
<1>4. n \in Int
  <2> DEFINE a == p.idle_socket_count_
             b == Len(i)
             c == Cardinality(keep)
  <2>1. a \in Int /\ b \in Nat /\ c \in 0..b
    BY <1>1, <1>2 DEF Shape
  <2> HIDE DEF a, b, c
  <2>2. a - (b - c) \in Int
    BY <2>1
  <2> QED
    BY <2>2 DEF a, b, c
<1> HIDE DEF s, q, n
<1>5. Changed(p, q, g, 0, 0, 0, 0) /\ Resting(q.group[g]) = Len(s) /\ q \in Shape
  BY <1>2, <1>3, <1>4, IdleChanges
<1> QED
  BY <1>2, <1>5 DEF q, Resting

\* The group g gets other jobs, so many more of either kind, and is H.
JobsBecome(p, q, g, H, s, t) ==
    /\ q.group = [p.group EXCEPT ![g] = H]
    /\ H.pending = p.group[g].pending /\ H.idle = p.group[g].idle /\ H.active = p.group[g].active
    /\ Spare(H) = Spare(p.group[g]) + s /\ Taken(H) = Taken(p.group[g]) + t
    /\ q.handed_out_socket_count_ = p.handed_out_socket_count_
    /\ q.connecting_socket_count_ = p.connecting_socket_count_ + (s + t)

\* These are the numbers that change.
LEMMA JobsBecomeChanges ==
    ASSUME NEW p \in Shape, NEW g \in Groups, NEW H \in Group, NEW q,
           NEW s \in Int, NEW t \in Int, JobsBecome(p, q, g, H, s, t)
    PROVE  Changed(p, q, g, 0, s, t, 0) /\ Resting(q.group[g]) = Resting(p.group[g])
<1> DEFINE G == p.group[g]
<1>1. G \in Group /\ Numbers(G)
  BY PoolNumbered, GroupNumbered
<1>2. InUse(q) = InUse(p) + s + t + 0
  <2> DEFINE c == p.handed_out_socket_count_
             d == p.connecting_socket_count_
  <2>1. c \in Int /\ d \in Int
    BY DEF Shape
  <2>2. InUse(q) = c + (d + (s + t)) /\ InUse(p) = c + d
    BY DEF JobsBecome, InUse
  <2> HIDE DEF c, d
  <2> QED
    BY <2>1, <2>2
<1>3. Asked(H) = Asked(G) /\ H.active = G.active /\ Resting(H) = Resting(G)
  BY DEF JobsBecome, Asked, Resting
<1>4. Asked(H) = Asked(G) + 0 /\ H.active = G.active + 0
  BY <1>1, <1>3 DEF Numbers
<1>5. Spare(H) = Spare(G) + s /\ Taken(H) = Taken(G) + t /\ q.group = [p.group EXCEPT ![g] = H]
  BY DEF JobsBecome
<1> HIDE DEF G
<1>6. Grew(G, H, 0, s, t, 0)
  BY <1>4, <1>5 DEF Grew
<1>7. GrewTo(p, q, g, H, 0, s, t, 0)
  BY <1>2, <1>5, <1>6 DEF GrewTo, G
<1> QED
  BY <1>3, <1>7, OneGroupChanges DEF G

\* One kind of jobs has another length: the other keeps its own.
LEMMA OneKindChanges ==
    ASSUME NEW p \in Shape, NEW g \in Groups, NEW k \in JobKinds, NEW s \in Seq(Nat),
           NEW d \in Int, Longer(s, p.group[g].jobs[k], d),
           NEW backup \in {"none", "posted", "running"}, NEW q,
           ChangesJobs(p, g, k, s, d, backup, q)
    PROVE  /\ k = "unused" => Changed(p, q, g, 0, d, 0, 0)
           /\ k = "used" => Changed(p, q, g, 0, 0, d, 0)
           /\ Resting(q.group[g]) = Resting(p.group[g])
           /\ q \in Shape
<1> DEFINE G == p.group[g]
           H == WithJobs(G, k, s, backup)
<1>1. G \in Group /\ Numbers(G) /\ p.group \in [Groups -> Group]
  BY PoolNumbered, GroupNumbered
<1>2. Longer(s, G.jobs[k], d)
  OBVIOUS
<1> HIDE DEF G
<1>3. /\ H \in Group /\ H.pending = G.pending /\ H.active = G.active /\ H.idle = G.idle
      /\ H.jobs[k] = s /\ \A x \in JobKinds \ {k} : H.jobs[x] = G.jobs[x]
  BY <1>1, <1>2, WithJobsFields
<1>4. q = Put(p, g, H, p.idle_socket_count_, p.connecting_socket_count_ + d,
              p.handed_out_socket_count_)
  BY DEF ChangesJobs, G
<1> HIDE DEF H
<1>5. /\ q \in Shape /\ q.group = [p.group EXCEPT ![g] = H]
      /\ q.connecting_socket_count_ = p.connecting_socket_count_ + d
      /\ q.handed_out_socket_count_ = p.handed_out_socket_count_
  <2> DEFINE c == p.connecting_socket_count_
  <2>1. p.idle_socket_count_ \in Int /\ c \in Int /\ p.handed_out_socket_count_ \in Int
    BY DEF Shape
  <2> DEFINE e == c + d
  <2>2. e \in Int
    <3> HIDE DEF c
    <3> QED
      BY <2>1
  <2> HIDE DEF e
  <2>3. q = Put(p, g, H, p.idle_socket_count_, e, p.handed_out_socket_count_)
    BY <1>4 DEF e
  <2> QED
    BY <1>3, <2>1, <2>2, <2>3, PutFields DEF e
<1>6. ASSUME k = "unused"
      PROVE  JobsBecome(p, q, g, H, d, 0)
  <2>1. Spare(H) = Spare(G) + d
    BY <1>2, <1>3, <1>6 DEF Longer, Spare
  <2>2. Taken(H) = Taken(G)
    BY <1>3, <1>6 DEF Taken, JobKinds
  <2>3. Taken(G) = Taken(G) + 0 /\ d = d + 0
    BY <1>1 DEF Numbers
  <2> QED
    BY <1>3, <1>5, <2>1, <2>2, <2>3 DEF JobsBecome, G
<1>7. ASSUME k = "used"
      PROVE  JobsBecome(p, q, g, H, 0, d)
  <2>1. Taken(H) = Taken(G) + d
    BY <1>2, <1>3, <1>7 DEF Longer, Taken
  <2>2. Spare(H) = Spare(G)
    BY <1>3, <1>7 DEF Spare, JobKinds
  <2>3. Spare(G) = Spare(G) + 0 /\ d = 0 + d
    BY <1>1 DEF Numbers
  <2> QED
    BY <1>3, <1>5, <2>1, <2>2, <2>3 DEF JobsBecome, G
<1>8. k = "unused" \/ k = "used"
  BY DEF JobKinds
<1>9. 0 \in Int
  OBVIOUS
<1>10. ASSUME k = "unused"
       PROVE  Changed(p, q, g, 0, d, 0, 0) /\ Resting(q.group[g]) = Resting(p.group[g])
  <2>1. JobsBecome(p, q, g, H, d, 0)
    BY <1>6, <1>10
  <2> QED
    BY <1>3, <1>9, <2>1, JobsBecomeChanges
<1>11. ASSUME k = "used"
       PROVE  Changed(p, q, g, 0, 0, d, 0) /\ Resting(q.group[g]) = Resting(p.group[g])
  <2>1. JobsBecome(p, q, g, H, 0, d)
    BY <1>7, <1>11
  <2> QED
    BY <1>3, <1>9, <2>1, JobsBecomeChanges
<1> QED
  BY <1>5, <1>8, <1>10, <1>11

\* A job is added to a kind or taken from it.
LEMMA JobsGrowChanges ==
    ASSUME NEW p \in Shape, NEW g \in Groups, NEW k \in JobKinds, NEW d \in Int, NEW q,
           JobsGrow(p, g, k, d, q)
    PROVE  /\ k = "unused" => Changed(p, q, g, 0, d, 0, 0)
           /\ k = "used" => Changed(p, q, g, 0, 0, d, 0)
           /\ Resting(q.group[g]) = Resting(p.group[g])
           /\ q \in Shape
<1>1. PICK s \in Seq(Nat), backup \in {"none", "posted", "running"} :
         Longer(s, p.group[g].jobs[k], d) /\ ChangesJobs(p, g, k, s, d, backup, q)
  BY DEF JobsGrow
<1> QED
  BY <1>1, OneKindChanges

\* TryToUsePreconnectConnectJob.
LEMMA UseChanges ==
    ASSUME NEW p \in Shape, NEW g \in Groups, p.group[g].jobs["unused"] # <<>>
    PROVE  LET q == UsePreconnect(p, g) IN
           Changed(p, q, g, 0, -1, 1, 0) /\ Resting(q.group[g]) = Resting(p.group[g])
<1> DEFINE G == p.group[g]
           u == G.jobs["unused"]
           v == G.jobs["used"]
           J == [k \in JobKinds |-> IF k = "unused" THEN Tail(u) ELSE Append(v, Head(u))]
           H == [G EXCEPT !.jobs = J]
           q == UsePreconnect(p, g)
<1>1. G \in Group /\ p.group \in [Groups -> Group] /\ u # <<>>
  BY PoolNumbered
<1>2. u \in Seq(Nat) /\ v \in Seq(Nat)
  BY <1>1, GroupFields DEF JobKinds
<1>3. q = [p EXCEPT !.group[g].jobs = J]
  BY DEF UsePreconnect
<1> HIDE DEF u, v, q
<1>4. /\ Tail(u) \in Seq(Nat) /\ Len(Tail(u)) = Len(u) - 1
      /\ Append(v, Head(u)) \in Seq(Nat) /\ Len(Append(v, Head(u))) = Len(v) + 1
  <2>1. Tail(u) \in Seq(Nat) /\ Len(Tail(u)) = Len(u) - 1 /\ Head(u) \in Nat
    BY <1>1, <1>2
  <2>2. ASSUME NEW x \in Nat
        PROVE  Append(v, x) \in Seq(Nat) /\ Len(Append(v, x)) = Len(v) + 1
    BY <1>2
  <2> QED
    BY <2>1, <2>2
<1>5. /\ J \in [JobKinds -> Seq(Nat)] /\ J["unused"] = Tail(u) /\ J["used"] = Append(v, Head(u))
  BY <1>4 DEF JobKinds
<1> HIDE DEF J
<1>6. /\ H \in Group /\ H.pending = G.pending /\ H.active = G.active /\ H.idle = G.idle
      /\ H.jobs = J
  BY <1>1, <1>5 DEF Group
<1>7. /\ q.group = [p.group EXCEPT ![g] = H]
      /\ q.connecting_socket_count_ = p.connecting_socket_count_
      /\ q.handed_out_socket_count_ = p.handed_out_socket_count_
  BY <1>3 DEF Shape
<1> HIDE DEF H
<1>8. ASSUME NEW d \in Int, NEW e \in Int, d = -1, e = 1
      PROVE  JobsBecome(p, q, g, H, d, e)
  <2>1. Spare(H) = Spare(G) + d /\ Taken(H) = Taken(G) + e
    <3>1. Spare(H) = Len(u) - 1 /\ Taken(H) = Len(v) + 1
      BY <1>4, <1>5, <1>6 DEF Spare, Taken
    <3>2. Spare(G) = Len(u) /\ Taken(G) = Len(v)
      BY DEF Spare, Taken, u, v
    <3>3. Len(u) \in Nat /\ Len(v) \in Nat
      BY <1>2
    <3> QED
      BY <1>8, <3>1, <3>2, <3>3
  <2> DEFINE c == p.connecting_socket_count_
  <2>2. c \in Int
    BY DEF Shape
  <2> HIDE DEF c
  <2>3. c = c + (d + e)
    BY <1>8, <2>2
  <2> QED
    BY <1>6, <1>7, <2>1, <2>3 DEF JobsBecome, c
<1>9. ASSUME NEW d \in Int, NEW e \in Int, d = -1, e = 1
      PROVE  Changed(p, q, g, 0, d, e, 0) /\ Resting(q.group[g]) = Resting(p.group[g])
  <2>1. JobsBecome(p, q, g, H, d, e)
    BY <1>8, <1>9
  <2> QED
    BY <1>6, <2>1, JobsBecomeChanges
<1>10. -1 \in Int /\ 1 \in Int
  OBVIOUS
<1> QED
  BY <1>9, <1>10 DEF q

\* A group with nothing in it comes or goes.
LEMMA NothingInItChanges ==
    ASSUME NEW p \in Shape, NEW g \in Groups, NEW G \in {NewGroup, NoGroup}, NEW q,
           q = [p EXCEPT !.group[g] = G], IsEmpty(p.group[g])
    PROVE  /\ Changed(p, q, g, 0, 0, 0, 0) /\ Resting(q.group[g]) = Resting(p.group[g])
           /\ q \in Shape
<1>1. p.group[g] \in Group /\ p.group \in [Groups -> Group]
  BY PoolNumbered
<1>2. /\ G \in Group /\ G.pending = <<>> /\ G.idle = <<>> /\ G.active = 0
      /\ Len(G.jobs["unused"]) = 0 /\ Len(G.jobs["used"]) = 0
  BY NothingInIt DEF JobKinds
<1>3. /\ Asked(p.group[g]) = 0 /\ Spare(p.group[g]) = 0 /\ Taken(p.group[g]) = 0
      /\ p.group[g].active = 0 /\ Resting(p.group[g]) = 0
  <2> DEFINE a == Spare(p.group[g])
             b == Taken(p.group[g])
  <2>1. a \in Nat /\ b \in Nat /\ a + b = 0
    BY <1>1, GroupNumbered DEF IsEmpty, Numbers
  <2> HIDE DEF a, b
  <2>2. a = 0 /\ b = 0
    BY <2>1
  <2> QED
    BY <1>1, <2>2, GroupNumbered DEF IsEmpty, a, b
<1>4. Asked(G) = 0 /\ Spare(G) = 0 /\ Taken(G) = 0 /\ Resting(G) = 0
  BY <1>2 DEF Asked, Spare, Taken, Resting
<1>5. /\ q.group = [p.group EXCEPT ![g] = G] /\ q \in Shape
      /\ q.connecting_socket_count_ = p.connecting_socket_count_
      /\ q.handed_out_socket_count_ = p.handed_out_socket_count_
  BY <1>2 DEF Shape
<1>6. Grew(p.group[g], G, 0, 0, 0, 0)
  BY <1>2, <1>3, <1>4 DEF Grew
<1>7. InUse(q) = InUse(p) + 0 + 0 + 0
  BY <1>5, PoolNumbered DEF InUse, AllNumbered
<1>8. GrewTo(p, q, g, G, 0, 0, 0, 0)
  BY <1>5, <1>6, <1>7 DEF GrewTo
<1> QED
  BY <1>2, <1>3, <1>4, <1>5, <1>8, OneGroupChanges

\* RemoveIfEmpty.
LEMMA TidyChanges ==
    ASSUME NEW p \in Shape, NEW g \in Groups
    PROVE  LET q == RemoveIfEmpty(p, g) IN
           /\ Changed(p, q, g, 0, 0, 0, 0) /\ Resting(q.group[g]) = Resting(p.group[g])
           /\ q \in Shape
<1>1. CASE IsEmpty(p.group[g])
  <2>1. RemoveIfEmpty(p, g) = [p EXCEPT !.group[g] = NoGroup]
    BY <1>1 DEF RemoveIfEmpty, RemoveGroup
  <2> QED
    BY <1>1, <2>1, NothingInItChanges
<1>2. CASE ~IsEmpty(p.group[g])
  <2>1. RemoveIfEmpty(p, g) = p
    BY <1>2 DEF RemoveIfEmpty
  <2> QED
    BY <2>1, NothingChanges
<1> QED
  BY <1>1, <1>2

\* GetOrCreateGroup.
LEMMA OpenedChanges ==
    ASSUME NEW p, NEW busy, NEW due, NEW run, Good(p, busy, due, run), NEW g \in Groups
    PROVE  LET q == GetOrCreateGroup(p, g) IN
           Changed(p, q, g, 0, 0, 0, 0) /\ Resting(q.group[g]) = Resting(p.group[g])
<1>1. p \in Shape /\ SoundGroup(p.group[g], p.generation, g, due)
  BY GoodTypes
<1>2. CASE p.group[g].exists
  <2>1. GetOrCreateGroup(p, g) = p
    BY <1>2 DEF GetOrCreateGroup
  <2> QED
    BY <1>1, <2>1, NothingChanges
<1>3. CASE ~p.group[g].exists
  <2>1. GetOrCreateGroup(p, g) = [p EXCEPT !.group[g] = NewGroup]
    BY <1>3 DEF GetOrCreateGroup
  <2>2. p.group[g] = NoGroup
    BY <1>1, <1>3 DEF SoundGroup, SoundLists
  <2>3. IsEmpty(NoGroup)
    BY NothingInIt DEF IsEmpty
  <2> QED
    BY <1>1, <2>1, <2>2, <2>3, NothingInItChanges
<1> QED
  BY <1>2, <1>3

\* CloseOneIdleSocketExceptInGroup.
LEMMA CloseOneChanges ==
    ASSUME NEW p \in Shape, NEW exception, NEW q \in CloseOneIdleSocket(p, exception)
    PROVE  /\ InUse(q) = InUse(p)
           /\ \A x \in Groups : Keeps(p.group[x], q.group[x])
<1>1. PICK y \in Groups : /\ p.group[y].idle # <<>>
                          /\ q = RemoveIfEmpty(KeepIdle(p, y, 2..Len(p.group[y].idle)), y)
  BY DEF CloseOneIdleSocket
<1> DEFINE keep == 2..Len(p.group[y].idle)
           z == KeepIdle(p, y, keep)
<1>2. Len(p.group[y].idle) \in Nat /\ AllNumbered(p)
  BY PoolNumbered, GroupNumbers
<1>3. keep \in SUBSET (1..Len(p.group[y].idle))
  BY <1>2
<1> HIDE DEF keep
<1>4. /\ Changed(p, z, y, 0, 0, 0, 0) /\ Resting(z.group[y]) = Cardinality(keep)
      /\ Cardinality(keep) \in 0..Resting(p.group[y]) /\ z \in Shape
  BY <1>3, KeepIdleChanges
<1> HIDE DEF z
<1>5. Changed(z, q, y, 0, 0, 0, 0) /\ Resting(q.group[y]) = Resting(z.group[y])
  BY <1>1, <1>4, TidyChanges DEF z, keep
<1>6. Changed(p, q, y, 0 + 0, 0 + 0, 0 + 0, 0 + 0)
  BY <1>2, <1>4, <1>5, ChangedTwice
<1>7. Keeps(p.group[y], q.group[y])
  <2>1. Grew(p.group[y], q.group[y], 0 + 0, 0 + 0, 0 + 0, 0 + 0) /\ Numbers(p.group[y])
    BY <1>2, <1>6 DEF Changed, AllNumbered
  <2>2. Resting(q.group[y]) \in 0..Resting(p.group[y])
    BY <1>4, <1>5
  <2> QED
    BY <2>1, <2>2 DEF Grew, Numbers, Keeps
<1>8. InUse(q) = InUse(p)
  BY <1>2, <1>6 DEF Changed, AllNumbered
<1> QED
  BY <1>6, <1>7, <1>8 DEF Changed

\* Only the requests of the group change, and its timer.
QueueBecomes(p, q, g, H, r) ==
    /\ q.group = [p.group EXCEPT ![g] = H]
    /\ H.jobs = p.group[g].jobs /\ H.idle = p.group[g].idle /\ H.active = p.group[g].active
    /\ Asked(H) = Asked(p.group[g]) + r
    /\ q.handed_out_socket_count_ = p.handed_out_socket_count_
    /\ q.connecting_socket_count_ = p.connecting_socket_count_

\* These are the numbers that change.
LEMMA QueueBecomesChanges ==
    ASSUME NEW p \in Shape, NEW g \in Groups, NEW H \in Group, NEW q, NEW r \in Int,
           QueueBecomes(p, q, g, H, r)
    PROVE  Changed(p, q, g, r, 0, 0, 0) /\ Resting(q.group[g]) = Resting(p.group[g])
<1> DEFINE G == p.group[g]
<1>1. G \in Group /\ Numbers(G)
  BY PoolNumbered, GroupNumbered
<1>2. InUse(q) = InUse(p) + 0 + 0 + 0
  BY PoolNumbered DEF QueueBecomes, InUse, AllNumbered
<1>3. Spare(H) = Spare(G) /\ Taken(H) = Taken(G) /\ H.active = G.active /\ Resting(H) = Resting(G)
  BY DEF QueueBecomes, Spare, Taken, Resting
<1>4. Spare(H) = Spare(G) + 0 /\ Taken(H) = Taken(G) + 0 /\ H.active = G.active + 0
  BY <1>1, <1>3 DEF Numbers
<1>5. Asked(H) = Asked(G) + r /\ q.group = [p.group EXCEPT ![g] = H]
  BY DEF QueueBecomes
<1> HIDE DEF G
<1>6. Grew(G, H, r, 0, 0, 0)
  BY <1>4, <1>5 DEF Grew
<1>7. GrewTo(p, q, g, H, r, 0, 0, 0)
  BY <1>2, <1>5, <1>6 DEF GrewTo, G
<1> QED
  BY <1>3, <1>7, OneGroupChanges DEF G

\* RemoveRequestFromQueue.
LEMMA RemoveRequestChanges ==
    ASSUME NEW p \in Shape, NEW g \in Groups, NEW h \in Handles, NoneTwice(p.group[g].pending),
           InQueue(p, g, h)
    PROVE  LET q == RemoveRequestFromQueue(p, g, h) IN
           /\ Changed(p, q, g, -1, 0, 0, 0) /\ Resting(q.group[g]) = Resting(p.group[g])
           /\ q \in Shape
<1> DEFINE G == p.group[g]
           old == G.pending
           s == RemoveFirst(old, h)
           backup == IF s = <<>> THEN "none" ELSE G.backup
           H == [G EXCEPT !.pending = s, !.backup = backup]
           q == RemoveRequestFromQueue(p, g, h)
<1>1. p.group \in [Groups -> Group] /\ G \in Group
  BY PoolNumbered
<1>2. old \in Seq(Handles) /\ NoneTwice(old) /\ \E k \in 1..Len(old) : old[k] = h
  BY <1>1, GroupFields DEF InQueue
<1>3. q = [p EXCEPT !.group = [p.group EXCEPT ![g] = H]]
  <2> DEFINE K == [G EXCEPT !.pending = s]
  <2>1. K.pending = s /\ H = IF s = <<>> THEN [K EXCEPT !.backup = "none"] ELSE K
    BY <1>1 DEF Group
  <2>2. q = [p EXCEPT !.group[g] = IF K.pending = <<>> THEN CleanupBackupJob(K) ELSE K]
    BY DEF RemoveRequestFromQueue
  <2> HIDE DEF K, H, q
  <2>3. H = IF K.pending = <<>> THEN CleanupBackupJob(K) ELSE K
    BY <2>1 DEF CleanupBackupJob
  <2> QED
    BY <2>2, <2>3
<1>4. s \in Seq(Handles) /\ Len(s) = Len(old) - 1 /\ Len(old) \in Nat
  <2> HIDE DEF old
  <2> QED
    BY <1>2, RemovedFirst, RemovedFirstLength
<1> HIDE DEF s
<1>5. /\ H \in Group /\ H.pending = s /\ H.idle = G.idle /\ H.jobs = G.jobs
      /\ H.active = G.active
  <2>1. backup \in {"none", "posted", "running"}
    BY <1>1 DEF Group
  <2> HIDE DEF backup
  <2> QED
    BY <1>1, <1>4, <2>1 DEF Group
<1> HIDE DEF H, q
<1>6. /\ q \in Shape /\ q.group = [p.group EXCEPT ![g] = H]
      /\ q.connecting_socket_count_ = p.connecting_socket_count_
      /\ q.handed_out_socket_count_ = p.handed_out_socket_count_
  <2> DEFINE X == [p.group EXCEPT ![g] = H]
  <2>1. X \in [Groups -> Group]
    BY <1>1, <1>5
  <2> HIDE DEF X
  <2>2. q = [p EXCEPT !.group = X]
    BY <1>3 DEF X
  <2>3. q.group = X /\ q \in Shape
    BY <2>1, <2>2 DEF Shape
  <2> QED
    BY <2>2, <2>3 DEF X, Shape
<1>7. ASSUME NEW d \in Int, d = -1
      PROVE  Changed(p, q, g, d, 0, 0, 0) /\ Resting(q.group[g]) = Resting(p.group[g])
  <2>1. Asked(H) = Asked(G) + d
    BY <1>4, <1>5, <1>7 DEF Asked
  <2>2. QueueBecomes(p, q, g, H, d)
    BY <1>5, <1>6, <2>1 DEF QueueBecomes
  <2> QED
    BY <1>5, <2>2, QueueBecomesChanges
<1>8. -1 \in Int
  OBVIOUS
<1> QED
  BY <1>6, <1>7, <1>8 DEF q

\* InsertRequestIntoQueue.
LEMMA InsertChanges ==
    ASSUME NEW p \in Shape, NEW g \in Groups, NEW h \in Handles
    PROVE  LET q == InsertRequestIntoQueue(p, g, h) IN
           Changed(p, q, g, 1, 0, 0, 0) /\ Resting(q.group[g]) = Resting(p.group[g])
<1> DEFINE G == p.group[g]
           old == G.pending
           before == {i \in DOMAIN old :
                        \A j \in 1..i : p.request[h].priority >= p.request[old[j]].priority}
           n == Cardinality(before) + 1
           s == InsertAt(old, n, h)
           H == [G EXCEPT !.pending = s]
           q == InsertRequestIntoQueue(p, g, h)
<1>1. p.group \in [Groups -> Group] /\ G \in Group
  BY PoolNumbered
<1>2. old \in Seq(Handles)
  BY <1>1, GroupFields
<1>3. n \in 1..(Len(old) + 1)
  <2> DEFINE m == Len(old)
  <2>1. before \in SUBSET (1..m) /\ m \in Nat
    BY <1>2, SMTT(40)
  <2> HIDE DEF before, m
  <2>2. Cardinality(before) \in 0..m
    BY <2>1, Ranks
  <2>3. n \in 1..(m + 1)
    BY <2>1, <2>2
  <2> QED
    BY <2>3 DEF m
<1>4. q = [p EXCEPT !.group = [p.group EXCEPT ![g] = H]]
  BY DEF InsertRequestIntoQueue
<1> HIDE DEF n, q
<1>5. Len(s) = Len(old) + 1 /\ Len(old) \in Nat
  <2> HIDE DEF old
  <2> QED
    BY <1>2, <1>3, InsertedLength
<1>6. s \in Seq(Handles)
  <2> HIDE DEF old
  <2> QED
    BY <1>2, <1>3 DEF InsertAt
<1> HIDE DEF s
<1>7. /\ H \in Group /\ H.pending = s /\ H.idle = G.idle /\ H.jobs = G.jobs
      /\ H.active = G.active
  BY <1>1, <1>6 DEF Group
<1> HIDE DEF H
<1>8. /\ q.group = [p.group EXCEPT ![g] = H]
      /\ q.connecting_socket_count_ = p.connecting_socket_count_
      /\ q.handed_out_socket_count_ = p.handed_out_socket_count_
  BY <1>4 DEF Shape
<1>9. Asked(H) = Asked(G) + 1
  BY <1>5, <1>7 DEF Asked
<1>10. QueueBecomes(p, q, g, H, 1)
  BY <1>7, <1>8, <1>9 DEF QueueBecomes
<1> QED
  BY <1>7, <1>10, QueueBecomesChanges DEF q

\* The request has been given a socket.
Supplied(p, q, g) ==
    /\ Changed(p, q, g, 0, 0, 0, 1)
    /\ Resting(q.group[g]) = 0 \/ Resting(q.group[g]) < Resting(p.group[g])

\* The request has to wait, for a job of its own or because of a limit.
Delayed(p, q, g) ==
    /\ Resting(q.group[g]) = 0
    /\ \/ Spare(p.group[g]) > 0 /\ Changed(p, q, g, 0, -1, 1, 0)
       \/ Spare(p.group[g]) = 0 /\ Changed(p, q, g, 0, 0, 1, 0)
       \/ /\ Spare(p.group[g]) = 0 /\ Changed(p, q, g, 0, 0, 0, 0)
          /\ Held(p.group[g]) >= MaxPerGroup \/ InUse(p) >= MaxSockets

\* The request has failed, and has used nothing.
Refused(p, q, g) == Changed(p, q, g, 0, 0, 0, 0) /\ Resting(q.group[g]) = 0

\* What comes of the request of h.
Outcome(p, g, h, end) ==
    IF end.rv = "pending" THEN Delayed(p, end.pool, g)
    ELSE \/ Supplied(p, end.pool, g)
         \/ end.rv = "error" /\ end.pool.socket[h] = None /\ Refused(p, end.pool, g)

\* An idle socket is handed out, or there is none left.
LEMMA AssignIdleChanges ==
    ASSUME NEW p \in Shape, NEW g \in Groups, NEW h \in Handles,
           NEW found \in AssignIdleSocketToGroup(p, g, h)
    PROVE  /\ found.rv = "ok" => Supplied(p, found.pool, g)
           /\ found.rv # "ok" => /\ Changed(p, found.pool, g, 0, 0, 0, 0)
                                 /\ Resting(found.pool.group[g]) = 0
<1> DEFINE i == p.group[g].idle
           n == Len(i)
<1>1. PICK alive \in SUBSET DOMAIN i :
         found \in IF alive = {}
             THEN {[pool |-> KeepIdle(p, g, {}), rv |-> "none"]}
             ELSE {[pool |-> HandOutSocket(KeepIdle(p, g, alive \ {j}), g, h, i[j]),
                    rv |-> "ok"] : j \in alive}
  BY DEF AssignIdleSocketToGroup
<1>2. i \in Seq(Nat) /\ DOMAIN i = 1..n /\ n \in Nat /\ AllNumbered(p) /\ n = Resting(p.group[g])
  BY PoolNumbered, GroupFields DEF Resting
<1>3. CASE alive = {}
  <2> DEFINE q == KeepIdle(p, g, {})
  <2>1. found = [pool |-> q, rv |-> "none"]
    BY <1>1, <1>3
  <2>2. {} \in SUBSET (1..Len(p.group[g].idle)) /\ Cardinality({}) = 0
    BY FS_EmptySet
  <2>3. Changed(p, q, g, 0, 0, 0, 0) /\ Resting(q.group[g]) = 0
    BY <2>2, KeepIdleChanges
  <2> HIDE DEF q
  <2> QED
    BY <2>1, <2>3
<1>4. CASE alive # {}
  <2>1. PICK j \in alive :
           found = [pool |-> HandOutSocket(KeepIdle(p, g, alive \ {j}), g, h, i[j]), rv |-> "ok"]
    BY <1>1, <1>4
  <2> DEFINE keep == alive \ {j}
             q == KeepIdle(p, g, keep)
             r == HandOutSocket(q, g, h, i[j])
  <2>2. keep \in SUBSET (1..Len(p.group[g].idle)) /\ keep \in SUBSET ((1..n) \ {j}) /\ j \in 1..n
    BY <1>2
  <2>3. /\ Changed(p, q, g, 0, 0, 0, 0) /\ Resting(q.group[g]) = Cardinality(keep)
        /\ q \in Shape
    BY <2>2, KeepIdleChanges
  <2> HIDE DEF keep, n
  <2>4. Cardinality(keep) < n
    <3>1. IsFiniteSet(1..n) /\ Cardinality(1..n) = n
      BY <1>2, FS_Interval
    <3> DEFINE T == (1..n) \ {j}
    <3>2. IsFiniteSet(T) /\ Cardinality(T) = n - 1
      BY <2>2, <3>1, FS_RemoveElement
    <3>3. keep \in SUBSET T
      BY <2>2
    <3> HIDE DEF T
    <3>4. Cardinality(keep) \in Nat /\ Cardinality(keep) <= Cardinality(T)
      BY <3>2, <3>3, FS_Subset, FS_CardinalityType
    <3> QED
      BY <1>2, <3>2, <3>4
  <2> HIDE DEF q
  <2>5. Changed(q, r, g, 0, 0, 0, 1) /\ Resting(r.group[g]) = Resting(q.group[g])
    BY <2>3, HandOutChanges
  <2> HIDE DEF r
  <2>6. Changed(p, r, g, 0 + 0, 0 + 0, 0 + 0, 0 + 1)
    BY <1>2, <2>3, <2>5, ChangedTwice
  <2>7. Supplied(p, r, g)
    BY <1>2, <2>3, <2>4, <2>5, <2>6 DEF Supplied
  <2>8. found.pool = r /\ found.rv = "ok"
    BY <2>1 DEF r, q, keep
  <2> QED
    BY <2>7, <2>8
<1> QED
  BY <1>3, <1>4

\* A new connect job.
LEMMA ConnectChanges ==
    ASSUME NEW p, NEW busy, NEW run, Good(p, busy, {}, run), NEW g \in Groups,
           p.group[g].exists, Room(p, g), NEW h \in Handles, Asking(p, g, h, busy),
           NEW end \in Connect(p, g, h)
    PROVE  /\ IF end.rv = "pending" THEN Changed(p, end.pool, g, 0, 0, 1, 0)
              ELSE \/ Changed(p, end.pool, g, 0, 0, 0, 1)
                   \/ /\ end.rv = "error" /\ end.pool.socket[h] = None
                      /\ Changed(p, end.pool, g, 0, 0, 0, 0)
           /\ Resting(end.pool.group[g]) = Resting(p.group[g])
<1> DEFINE t == IF BackupJobs /\ IsEmpty(p.group[g]) THEN StartTimer(p, g) ELSE p
           given == HandOutSocket(p, g, h, p.generation)
           added == AddJob(t, g, "used")
           tidy == RemoveIfEmpty(p, g)
<1>1. h # None /\ p \in Shape
  BY UserAssumption DEF Good
<1>2. \/ end = [pool |-> given, rv |-> "ok"]
      \/ end = [pool |-> added, rv |-> "pending"]
      \/ end = [pool |-> given, rv |-> "error"]
      \/ end = [pool |-> tidy, rv |-> "error"]
  <2>1. t = IF BackupJobs /\ IsEmpty(p.group[g]) /\ h # None
                   THEN [p EXCEPT !.group[g] = StartBackupSocketTimer(p.group[g])] ELSE p
    BY <1>1 DEF StartTimer
  <2>2. PICK result \in ConnectResults :
          end = CASE result = "ok" -> [pool |-> given, rv |-> "ok"]
                  [] result = "pending" -> [pool |-> added, rv |-> "pending"]
                  [] result = "errorWithSocket" /\ h # None -> [pool |-> given, rv |-> "error"]
                  [] OTHER -> [pool |-> tidy, rv |-> "error"]
    BY <1>1, <2>1 DEF Connect
  <2> HIDE DEF given, added, tidy
  <2> QED
    BY <2>2
<1>3. Changed(p, given, g, 0, 0, 0, 1) /\ Resting(given.group[g]) = Resting(p.group[g])
  BY <1>1, HandOutChanges
<1>4. Changed(p, added, g, 0, 0, 1, 0) /\ Resting(added.group[g]) = Resting(p.group[g])
  <2>1. "used" \in JobKinds
    BY DEF JobKinds
  <2>2. More(g, {}, run, {g}, run) /\ ~(g \in {}) /\ g \in {g}
    BY DEF More
  <2>3. t = p \/ (t = StartTimer(p, g) /\ (p.group[g].pending # <<>> \/ g \in {g}))
    OBVIOUS
  <2> HIDE DEF t
  <2>4. JobsGrow(p, g, "used", 1, added)
    BY <2>1, <2>2, <2>3, AddJobGood
  <2>5. 1 \in Int
    OBVIOUS
  <2> HIDE DEF added
  <2> QED
    BY <1>1, <2>1, <2>4, <2>5, JobsGrowChanges
<1>7. /\ Changed(p, tidy, g, 0, 0, 0, 0) /\ Resting(tidy.group[g]) = Resting(p.group[g])
      /\ tidy.socket[h] = None
  <2>1. tidy.socket = p.socket
    BY TidyGood
  <2> QED
    BY <1>1, <2>1, TidyChanges DEF Asking
<1> HIDE DEF given, added, tidy
<1>5. CASE end = [pool |-> given, rv |-> "ok"] \/ end = [pool |-> given, rv |-> "error"]
  <2>1. end.pool = given /\ end.rv # "pending"
    BY <1>5
  <2> QED
    BY <1>3, <2>1
<1>6. CASE end = [pool |-> added, rv |-> "pending"]
  <2>1. end.pool = added /\ end.rv = "pending"
    BY <1>6
  <2> QED
    BY <1>4, <2>1
<1>8. CASE end = [pool |-> tidy, rv |-> "error"]
  <2>1. end.pool = tidy /\ end.rv = "error"
    BY <1>8
  <2> QED
    BY <1>7, <2>1
<1> QED
  BY <1>2, <1>5, <1>6, <1>8

\* No idle socket of the group can serve the request.
LEMMA NewSocketChanges ==
    ASSUME NEW p, NEW busy, NEW run, Good(p, busy, {}, run), NEW g \in Groups,
           p.group[g].exists, NEW h \in Handles, Asking(p, g, h, busy),
           NoneIgnores, p.group[g].idle = <<>>,
           NEW end \in RequestNewSocket(p, g, h, FALSE)
    PROVE  Outcome(p, g, h, end)
<1> DEFINE G == p.group[g]
           elsewhere == CloseOneIdleSocket(p, {g})
           full == ~HasAvailableSocketSlot(G)
<1>1. /\ p \in Shape /\ h # None /\ G \in Group /\ AllNumbered(p) /\ Numbers(G)
      /\ TotalSockets(p) = InUse(p) + p.idle_socket_count_ /\ p.idle_socket_count_ \in Int
  BY UserAssumption, PoolNumbered, GroupNumbered DEF Good
<1>2. /\ Resting(G) = 0 /\ NumActiveSocketSlots(G) = Held(G) + Resting(G)
      /\ G.jobs["unused"] = <<>> <=> Spare(G) = 0
  BY <1>1, GroupNumbered
<1>3. Changed(p, p, g, 0, 0, 0, 0)
  BY <1>1, NothingChanges
<1>4. ASSUME end = [pool |-> p, rv |-> "pending"], Spare(G) = 0,
             Held(G) >= MaxPerGroup \/ InUse(p) >= MaxSockets
      PROVE  Outcome(p, g, h, end)
  <2>1. end.pool = p /\ end.rv = "pending"
    BY <1>4
  <2> QED
    BY <1>2, <1>3, <1>4, <2>1 DEF Outcome, Delayed
<1>5. ASSUME NEW q, Good(q, busy, {}, run), Same(p, q), q.socket = p.socket,
             q.group[g] = p.group[g], Changed(p, q, g, 0, 0, 0, 0), Room(q, g),
             end \in Connect(q, g, h), Spare(G) = 0
      PROVE  Outcome(p, g, h, end)
  <2>1. Asking(q, g, h, busy)
    BY <1>5, AskingAfter
  <2>2. /\ IF end.rv = "pending" THEN Changed(q, end.pool, g, 0, 0, 1, 0)
           ELSE \/ Changed(q, end.pool, g, 0, 0, 0, 1)
                \/ /\ end.rv = "error" /\ end.pool.socket[h] = None
                   /\ Changed(q, end.pool, g, 0, 0, 0, 0)
        /\ Resting(end.pool.group[g]) = 0
    BY <1>2, <1>5, <2>1, ConnectChanges
  <2>3. CASE end.rv = "pending"
    <3>1. Changed(p, end.pool, g, 0 + 0, 0 + 0, 0 + 1, 0 + 0)
      BY <1>1, <1>5, <2>2, <2>3, ChangedTwice
    <3> QED
      BY <1>5, <2>2, <2>3, <3>1 DEF Outcome, Delayed
  <2>4. CASE end.rv # "pending" /\ Changed(q, end.pool, g, 0, 0, 0, 1)
    <3>1. Changed(p, end.pool, g, 0 + 0, 0 + 0, 0 + 0, 0 + 1)
      BY <1>1, <1>5, <2>4, ChangedTwice
    <3> QED
      BY <2>2, <2>4, <3>1 DEF Outcome, Supplied
  <2>5. CASE /\ end.rv = "error" /\ end.pool.socket[h] = None
             /\ Changed(q, end.pool, g, 0, 0, 0, 0)
    <3>1. Changed(p, end.pool, g, 0 + 0, 0 + 0, 0 + 0, 0 + 0)
      BY <1>1, <1>5, <2>5, ChangedTwice
    <3>2. Refused(p, end.pool, g)
      BY <2>2, <3>1 DEF Refused
    <3> QED
      BY <2>5, <3>2 DEF Outcome
  <2> QED
    BY <2>2, <2>3, <2>4, <2>5
<1>6. CASE G.jobs["unused"] # <<>>
  <2> DEFINE q == UsePreconnect(p, g)
  <2>1. end = [pool |-> q, rv |-> "pending"]
    BY <1>1, <1>6 DEF RequestNewSocket
  <2>2. Changed(p, q, g, 0, -1, 1, 0) /\ Resting(q.group[g]) = Resting(p.group[g])
    BY <1>1, <1>6, UseChanges
  <2> HIDE DEF q
  <2>3. end.pool = q /\ end.rv = "pending"
    BY <2>1
  <2>4. Spare(G) > 0
    BY <1>1, <1>2, <1>6 DEF Numbers
  <2> QED
    BY <1>2, <2>2, <2>3, <2>4 DEF Outcome, Delayed
<1>7. CASE G.jobs["unused"] = <<>> /\ full
  <2>1. end = [pool |-> p, rv |-> "pending"]
    BY <1>1, <1>7 DEF RequestNewSocket
  <2>2. Held(G) >= MaxPerGroup
    <3> DEFINE n == Held(G)
    <3>1. n \in Nat /\ MaxPerGroup \in Nat
      BY <1>1, LimitAssumption, SMTT(40) DEF Numbers, Held
    <3>2. ~(n + 0 < MaxPerGroup)
      BY <1>2, <1>7 DEF HasAvailableSocketSlot
    <3> HIDE DEF n
    <3>3. n >= MaxPerGroup
      BY <3>1, <3>2
    <3> QED
      BY <3>3 DEF n
  <2> QED
    BY <1>2, <1>4, <1>7, <2>1, <2>2
<1>8. CASE G.jobs["unused"] = <<>> /\ ~full /\ ~ReachedMaxSocketsLimit(p)
  <2>1. end \in Connect(p, g, h)
    BY <1>1, <1>8 DEF RequestNewSocket
  <2>2. TotalSockets(p) < MaxSockets
    <3> DEFINE n == TotalSockets(p)
    <3>1. n \in Nat /\ MaxSockets \in Nat
      BY GoodTypes, LimitAssumption DEF TotalSockets
    <3>2. ~(n >= MaxSockets)
      BY <1>8 DEF ReachedMaxSocketsLimit
    <3> HIDE DEF n
    <3>3. n < MaxSockets
      BY <3>1, <3>2
    <3> QED
      BY <3>3 DEF n
  <2>3. Room(p, g)
    BY <1>8, <2>2, RoomFromLimits
  <2>4. Same(p, p) /\ Spare(G) = 0
    BY <1>2, <1>8 DEF Same
  <2> QED
    BY <1>3, <1>5, <2>1, <2>3, <2>4
<1>9. CASE G.jobs["unused"] = <<>> /\ ~full /\ ReachedMaxSocketsLimit(p)
  <2>1. CASE p.idle_socket_count_ = 0
    <3>1. end = [pool |-> p, rv |-> "pending"]
      BY <1>1, <1>9, <2>1 DEF RequestNewSocket
    <3>2. InUse(p) >= MaxSockets
      BY <1>1, <1>9, <2>1 DEF ReachedMaxSocketsLimit, AllNumbered
    <3> QED
      BY <1>2, <1>4, <1>9, <3>1, <3>2
  <2>2. CASE p.idle_socket_count_ # 0
    <3>1. elsewhere # {}
      <4>1. PICK x \in Groups : p.group[x].idle # <<>>
        BY <2>2, IdleSomewhere
      <4>2. RemoveIfEmpty(KeepIdle(p, x, 2..Len(p.group[x].idle)), x) \in elsewhere
        BY <4>1 DEF CloseOneIdleSocket
      <4> QED
        BY <4>2
    <3>2. PICK q \in elsewhere : end \in Connect(q, g, h)
      BY <1>1, <1>9, <2>2, <3>1 DEF RequestNewSocket
    <3>3. /\ Good(q, busy, {}, run) /\ Same(p, q) /\ q.socket = p.socket
          /\ TotalSockets(q) < MaxSockets /\ q.group[g] = p.group[g]
      BY <3>2, CloseOneGood
    <3>4. Room(q, g)
      <4>1. HasAvailableSocketSlot(q.group[g])
        BY <1>9, <3>3
      <4> QED
        BY <3>3, <4>1, RoomFromLimits
    <3>5. InUse(q) = InUse(p) /\ \A x \in Groups : Keeps(p.group[x], q.group[x])
      BY <1>1, <3>2, CloseOneChanges
    <3>6. Changed(p, q, g, 0, 0, 0, 0)
      BY <1>1, <3>3, <3>5 DEF Changed, Grew, AllNumbered, Numbers
    <3>7. Spare(G) = 0
      BY <1>2, <1>9
    <3> QED
      BY <1>5, <3>2, <3>3, <3>4, <3>6, <3>7
  <2> QED
    BY <2>1, <2>2
<1> QED
  BY <1>6, <1>7, <1>8, <1>9

\* What comes of it is the same before as after the dead idle sockets are deleted.
LEMMA OutcomeAfter ==
    ASSUME NEW p, AllNumbered(p), NEW g \in Groups, NEW z, Changed(p, z, g, 0, 0, 0, 0),
           z.group[g].idle = <<>>, NEW h, NEW end, Outcome(z, g, h, end)
    PROVE  Outcome(p, g, h, end)
<1> DEFINE q == end.pool
<1>1. Resting(z.group[g]) = 0
  BY DEF Resting
<1>2. /\ Spare(z.group[g]) = Spare(p.group[g]) /\ Held(z.group[g]) = Held(p.group[g])
      /\ InUse(z) = InUse(p)
  BY DEF Changed, Grew, AllNumbered, Numbers, Held
<1> HIDE DEF q
<1>3. 0 \in Int /\ 1 \in Int /\ -1 \in Int
  OBVIOUS
<1>4. ASSUME NEW s \in Int, NEW t \in Int, NEW a \in Int, Changed(z, q, g, 0, s, t, a)
      PROVE  Changed(p, q, g, 0, s, t, a)
  <2>1. Changed(p, q, g, 0 + 0, 0 + s, 0 + t, 0 + a)
    BY <1>3, <1>4, ChangedTwice
  <2> QED
    BY <2>1
<1>5. CASE end.rv = "pending"
  <2>1. Delayed(z, q, g)
    BY <1>5 DEF Outcome, q
  <2>2. Delayed(p, q, g)
    BY <1>2, <1>3, <1>4, <2>1 DEF Delayed
  <2> QED
    BY <1>5, <2>2 DEF Outcome, q
<1>6. CASE end.rv # "pending" /\ Supplied(z, q, g)
  <2>1. Supplied(z, q, g)
    BY <1>6
  <2>2. Changed(p, q, g, 0, 0, 0, 1) /\ Resting(q.group[g]) \in Nat
    BY <1>3, <1>4, <2>1 DEF Supplied, Changed
  <2>3. Resting(q.group[g]) = 0
    BY <1>1, <2>1, <2>2 DEF Supplied
  <2> QED
    BY <1>6, <2>2, <2>3 DEF Outcome, Supplied, q
<1>7. CASE /\ end.rv = "error" /\ end.pool.socket[h] = None
           /\ Refused(z, q, g)
  <2>1. Refused(p, q, g)
    BY <1>3, <1>4, <1>7 DEF Refused
  <2> QED
    BY <1>7, <2>1 DEF Outcome, q
<1> QED
  BY <1>5, <1>6, <1>7 DEF Outcome, q

\* RequestSocketInternal, for a request.
LEMMA RequestChanges ==
    ASSUME NEW p, NEW busy, NEW run, Good(p, busy, {}, run), NEW g \in Groups,
           NEW h \in Handles, Asking(p, g, h, busy), NoneIgnores,
           NEW end \in RequestSocketInternal(p, g, h, FALSE)
    PROVE  Outcome(p, g, h, end)
<1> DEFINE q == GetOrCreateGroup(p, g)
<1>1. Good(q, busy, {}, run) /\ Same(p, q) /\ q.socket = p.socket /\ q.group[g].exists
  BY OpenedGood
<1>2. Changed(p, q, g, 0, 0, 0, 0) /\ Resting(q.group[g]) = Resting(p.group[g])
  BY OpenedChanges
<1>3. h # None /\ p \in Shape /\ q \in Shape /\ AllNumbered(p) /\ AllNumbered(q)
  BY <1>1, UserAssumption, PoolNumbered DEF Good
<1>4. PICK found \in AssignIdleSocketToGroup(q, g, h) :
        end \in IF found.rv = "ok" THEN {found} ELSE RequestNewSocket(found.pool, g, h, FALSE)
  BY <1>3 DEF RequestSocketInternal
<1> HIDE DEF q
<1>5. Asking(q, g, h, busy)
  BY <1>1, AskingAfter
<1>6. /\ found.rv = "ok" => Supplied(q, found.pool, g)
      /\ found.rv # "ok" => /\ Changed(q, found.pool, g, 0, 0, 0, 0)
                            /\ Resting(found.pool.group[g]) = 0
  BY <1>3, <1>4, AssignIdleChanges
<1>7. CASE found.rv = "ok"
  <2>1. end = found /\ end.rv # "pending"
    BY <1>4, <1>7
  <2>2. Supplied(q, end.pool, g)
    BY <1>6, <1>7, <2>1
  <2>3. Changed(p, end.pool, g, 0 + 0, 0 + 0, 0 + 0, 0 + 1)
    BY <1>2, <1>3, <2>2, ChangedTwice DEF Supplied
  <2>4. Supplied(p, end.pool, g)
    BY <1>2, <2>2, <2>3 DEF Supplied
  <2> QED
    BY <2>1, <2>4 DEF Outcome
<1>8. CASE found.rv # "ok"
  <2> DEFINE z == found.pool
  <2>1. end \in RequestNewSocket(z, g, h, FALSE)
    BY <1>4, <1>8
  <2>2. /\ Good(z, busy, {}, run) /\ Same(q, z) /\ z.socket = q.socket
        /\ z.group[g].exists /\ z.group[g].idle = <<>>
    BY <1>1, <1>3, <1>4, <1>5, <1>8, AssignIdleGood
  <2>3. Changed(q, z, g, 0, 0, 0, 0)
    BY <1>6, <1>8
  <2> HIDE DEF z
  <2>4. Asking(z, g, h, busy)
    BY <1>5, <2>2, AskingAfter
  <2>5. Outcome(z, g, h, end)
    BY <2>1, <2>2, <2>4, NewSocketChanges
  <2>6. Changed(p, z, g, 0 + 0, 0 + 0, 0 + 0, 0 + 0)
    BY <1>2, <1>3, <2>3, ChangedTwice
  <2>7. Changed(p, z, g, 0, 0, 0, 0)
    BY <2>6
  <2> QED
    BY <1>3, <2>2, <2>5, <2>7, OutcomeAfter
<1> QED
  BY <1>7, <1>8

\* The groups other than g are covered, and blocked by u sockets in use.
OthersAwake(p, g, u) ==
    \A x \in Groups \ {g} : Covered(p.group[x]) /\ Blocked(p.group[x], 0, u)

\* The group g has a use for the socket it is about to be given.
Wanting(p, g) ==
    Waits(p.group[g]) =>
        /\ Resting(p.group[g]) <= 1 /\ Held(p.group[g]) + 1 <= MaxPerGroup
        /\ InUse(p) + 1 <= MaxSockets
        /\ Held(p.group[g]) + 1 < MaxPerGroup => InUse(p) + 1 >= MaxSockets

\* In each of these pools the groups other than g are.
LEMMA OthersOf ==
    ASSUME NEW p, NEW g \in Groups
    PROVE  /\ Awake(p) => OthersAwake(p, g, InUse(p))
           /\ AwakeBut(p, g) => OthersAwake(p, g, InUse(p) + 1)
           /\ Ready(p, g) <=>
                OthersAwake(p, g, InUse(p) + 1) /\ Covered(p.group[g]) /\ Wanting(p, g)
<1>1. Awake(p) => OthersAwake(p, g, InUse(p))
  BY DEF Awake, OthersAwake
<1>2. AwakeBut(p, g) => OthersAwake(p, g, InUse(p) + 1)
  BY DEF AwakeBut, OthersAwake
<1>3. Ready(p, g) <=> OthersAwake(p, g, InUse(p) + 1) /\ Covered(p.group[g]) /\ Wanting(p, g)
  BY DEF Ready, OthersAwake, Wanting
<1> QED
  BY <1>1, <1>2, <1>3

\* They stay so while g changes and the sockets in use get no fewer than those.
LEMMA OthersStay ==
    ASSUME NEW p, AllNumbered(p), NEW g \in Groups, NEW u \in Int, OthersAwake(p, g, u),
           NEW q, NEW r, NEW s, NEW t, NEW a, Changed(p, q, g, r, s, t, a),
           NEW v \in Int, v >= u
    PROVE  OthersAwake(q, g, v)
<1> SUFFICES ASSUME NEW x \in Groups \ {g}
             PROVE  Covered(q.group[x]) /\ Blocked(q.group[x], 0, v)
  BY DEF OthersAwake
<1>1. Keeps(p.group[x], q.group[x]) /\ Numbers(p.group[x])
  BY DEF Changed, AllNumbered
<1>2. Covered(p.group[x]) /\ Blocked(p.group[x], 0, u)
  BY DEF OthersAwake
<1>3. 0 \in Int
  OBVIOUS
<1> QED
  BY <1>1, <1>2, <1>3, KeepsBlocked

\* All that is left to show is what becomes of g.
LEMMA AwakeFrom ==
    ASSUME NEW p, AllNumbered(p), NEW g \in Groups, NEW u \in Int, OthersAwake(p, g, u),
           NEW r, NEW s, NEW t, NEW a, NEW q, Changed(p, q, g, r, s, t, a), InUse(q) \in Int,
           Covered(q.group[g])
    PROVE  /\ InUse(q) >= u /\ Blocked(q.group[g], 0, InUse(q)) => Awake(q)
           /\ InUse(q) + 1 >= u /\ Blocked(q.group[g], 1, InUse(q) + 1) => AwakeBut(q, g)
           /\ InUse(q) + 1 >= u /\ Wanting(q, g) => Ready(q, g)
<1> DEFINE v == InUse(q)
           w == InUse(q) + 1
<1>1. v \in Int /\ w \in Int
  OBVIOUS
<1>2. ASSUME v >= u, Blocked(q.group[g], 0, v)
      PROVE  Awake(q)
  <2>1. OthersAwake(q, g, v)
    <3> HIDE DEF v
    <3> QED
      BY <1>1, <1>2, OthersStay
  <2> QED
    BY <1>2, <2>1 DEF OthersAwake, Awake
<1>3. ASSUME w >= u
      PROVE  OthersAwake(q, g, w)
  <2> HIDE DEF w
  <2> QED
    BY <1>1, <1>3, OthersStay
<1>4. ASSUME w >= u, Blocked(q.group[g], 1, w)
      PROVE  AwakeBut(q, g)
  BY <1>3, <1>4 DEF OthersAwake, AwakeBut
<1>5. ASSUME w >= u, Wanting(q, g)
      PROVE  Ready(q, g)
  BY <1>3, <1>5, OthersOf
<1> QED
  BY <1>2, <1>4, <1>5

\* The group's numbers before, and what they and those of the pool are bounded by.
LEMMA NumbersOf ==
    ASSUME NEW p, AllNumbered(p), NEW g \in Groups
    PROVE  /\ Asked(p.group[g]) \in Nat /\ Spare(p.group[g]) \in Nat /\ Taken(p.group[g]) \in Nat
           /\ Resting(p.group[g]) \in Nat /\ Held(p.group[g]) \in Nat /\ InUse(p) \in Int
           /\ MaxSockets \in Nat /\ MaxPerGroup \in Nat
<1>1. Numbers(p.group[g])
  BY DEF AllNumbered
<1>2. Held(p.group[g]) \in Nat
  BY <1>1 DEF Numbers, Held
<1> QED
  BY <1>1, <1>2, LimitAssumption DEF Numbers, AllNumbered

\* A request served with a socket is out of the queue; one that waits is still in it.
Served(p, q, g) ==
    \/ Delayed(p, q, g)
    \/ /\ Changed(p, q, g, -1, 0, 0, 1)
       /\ Resting(q.group[g]) = 0 \/ Resting(q.group[g]) < Resting(p.group[g])

\* The group takes what it is given; when it did not wait, another may still have it.
LEMMA ServeAwakens ==
    ASSUME NEW p, AllNumbered(p), NEW g \in Groups, Ready(p, g), Asked(p.group[g]) > 0,
           NEW q, Served(p, q, g)
    PROVE  IF Waits(p.group[g]) THEN Awake(q) ELSE AwakeBut(q, g)
<1> DEFINE G == p.group[g]
           H == q.group[g]
           A == Asked(G)
           S == Spare(G)
           T == Taken(G)
           R == Resting(G)
           K == Held(G)
           U == InUse(p)
<1>1. /\ A \in Nat /\ S \in Nat /\ T \in Nat /\ R \in Nat /\ K \in Nat /\ U \in Int
      /\ MaxSockets \in Nat /\ MaxPerGroup \in Nat /\ Numbers(G) /\ A > 0
  BY NumbersOf DEF AllNumbered
<1>2. OthersAwake(p, g, U + 1) /\ Covered(G) /\ Wanting(p, g)
  BY OthersOf
<1>3. S > 0 => A <= T
  BY <1>2 DEF Covered
<1>4. (Waits(G) <=> A > S + T)
  BY DEF Waits
<1>5. Waits(G) => /\ R <= 1 /\ K + 1 <= MaxPerGroup /\ U + 1 <= MaxSockets
                  /\ K + 1 < MaxPerGroup => U + 1 >= MaxSockets
  BY <1>2 DEF Wanting
<1>6. U + 1 \in Int
  BY <1>1
<1> HIDE DEF A, S, T, R, K, U
<1>7. ASSUME NEW r \in Int, NEW s \in Int, NEW t \in Int, NEW a \in Int,
             Changed(p, q, g, r, s, t, a)
      PROVE  /\ Held(H) = K + s + t + a /\ InUse(q) = U + s + t + a
             /\ Waits(H) <=> A + r > S + T + s + t
             /\ Covered(H) <=> (S + s > 0 => A + r <= T + t)
             /\ Resting(H) \in Nat
  <2>1. Grew(G, H, r, s, t, a) /\ InUse(q) = U + s + t + a /\ Resting(H) \in Nat
    BY <1>7 DEF Changed, U
  <2>2. /\ Held(H) = K + s + t + a /\ (Waits(H) <=> A + r > S + T + s + t)
        /\ (Covered(H) <=> (S + s > 0 => A + r <= T + t))
    <3>1. Numbers(G)
      BY <1>1
    <3> HIDE DEF G, H
    <3>2. /\ Held(H) = Held(G) + s + t + a
          /\ Waits(H) <=> Asked(G) + r > Spare(G) + Taken(G) + s + t
          /\ Covered(H) <=> (Spare(G) + s > 0 => Asked(G) + r <= Taken(G) + t)
      BY <2>1, <3>1, GrewNumbers
    <3> QED
      BY <3>2 DEF A, S, T, K
  <2> QED
    BY <2>1, <2>2
<1>8. ASSUME NEW r \in Int, NEW s \in Int, NEW t \in Int, NEW a \in Int,
             Changed(p, q, g, r, s, t, a), r + (s + t + a) <= 1, s + t + a = 1, r <= 0, s = 0,
             Waits(G), Resting(H) = 0
      PROVE  Awake(q)
  <2>1. /\ Held(H) = K + s + t + a /\ InUse(q) = U + s + t + a
        /\ Covered(H) <=> (S + s > 0 => A + r <= T + t)
    BY <1>7, <1>8
  <2>2. S = 0
    BY <1>1, <1>3, <1>4, <1>8
  <2>3. Covered(H) /\ Held(H) = K + 1 /\ InUse(q) = U + 1
    BY <1>1, <1>8, <2>1, <2>2
  <2>4. Blocked(H, 0, InUse(q))
    <3>1. Held(H) + 0 = K + 1
      BY <1>1, <2>3
    <3> QED
      BY <1>5, <1>8, <2>3, <3>1 DEF Blocked
  <2>5. InUse(q) \in Int /\ InUse(q) >= U + 1
    BY <1>6, <2>3
  <2> HIDE DEF H
  <2> QED
    BY <1>2, <1>6, <1>8, <2>3, <2>4, <2>5, AwakeFrom DEF H
<1>9. ASSUME NEW r \in Int, NEW s \in Int, NEW t \in Int, NEW a \in Int,
             Changed(p, q, g, r, s, t, a), s + t + a >= 0, ~(A + r > S + T + s + t),
             S + s > 0 => A + r <= T + t
      PROVE  AwakeBut(q, g)
  <2>1. InUse(q) = U + s + t + a /\ ~Waits(H) /\ Covered(H)
    BY <1>7, <1>9
  <2>2. Blocked(H, 1, InUse(q) + 1)
    BY <2>1 DEF Blocked
  <2>3. InUse(q) \in Int /\ InUse(q) + 1 >= U + 1
    BY <1>1, <1>9, <2>1
  <2> QED
    BY <1>2, <1>6, <1>9, <2>1, <2>2, <2>3, AwakeFrom
<1>10. 0 \in Int /\ 1 \in Int /\ -1 \in Int
  OBVIOUS
<1>11. CASE Changed(p, q, g, -1, 0, 0, 1) /\ (Resting(H) = 0 \/ Resting(H) < R)
  <2>1. CASE Waits(G)
    <3>1. Resting(H) \in Nat
      BY <1>7, <1>10, <1>11
    <3>2. Resting(H) = 0
      BY <1>1, <1>5, <1>11, <2>1, <3>1
    <3> QED
      BY <1>8, <1>10, <1>11, <2>1, <3>2
  <2>2. CASE ~Waits(G)
    <3>1. ~(A + -1 > S + T + 0 + 0) /\ (S + 0 > 0 => A + -1 <= T + 0)
      BY <1>1, <1>3, <1>4, <2>2
    <3> QED
      BY <1>9, <1>10, <1>11, <2>2, <3>1
  <2> QED
    BY <2>1, <2>2
<1>12. CASE Resting(H) = 0 /\ S > 0 /\ Changed(p, q, g, 0, -1, 1, 0)
  <2>1. ~Waits(G)
    BY <1>1, <1>3, <1>4, <1>12
  <2>2. ~(A + 0 > S + T + -1 + 1) /\ (S + -1 > 0 => A + 0 <= T + 1)
    BY <1>1, <1>3, <1>4, <2>1
  <2> QED
    BY <1>9, <1>10, <1>12, <2>1, <2>2
<1>13. CASE Resting(H) = 0 /\ S = 0 /\ Changed(p, q, g, 0, 0, 1, 0)
  <2>1. CASE Waits(G)
    BY <1>8, <1>10, <1>13, <2>1
  <2>2. CASE ~Waits(G)
    <3>1. ~(A + 0 > S + T + 0 + 1) /\ (S + 0 > 0 => A + 0 <= T + 1)
      BY <1>1, <1>3, <1>4, <1>13, <2>2
    <3> QED
      BY <1>9, <1>10, <1>13, <2>2, <3>1
  <2> QED
    BY <2>1, <2>2
<1>14. CASE /\ Resting(H) = 0 /\ S = 0 /\ Changed(p, q, g, 0, 0, 0, 0)
            /\ K >= MaxPerGroup \/ U >= MaxSockets
  <2>1. ~Waits(G)
    BY <1>1, <1>5, <1>14
  <2>2. ~(A + 0 > S + T + 0 + 0) /\ (S + 0 > 0 => A + 0 <= T + 0)
    BY <1>1, <1>3, <1>4, <1>14, <2>1
  <2> QED
    BY <1>9, <1>10, <1>14, <2>1, <2>2
<1> QED
  BY <1>11, <1>12, <1>13, <1>14 DEF Served, Delayed, S, R, K, U

\* A group that asks for nothing leaves the socket to another.
LEMMA NotServed ==
    ASSUME NEW p, AllNumbered(p), NEW g \in Groups, Ready(p, g), ~Waits(p.group[g]),
           NEW q, Changed(p, q, g, 0, 0, 0, 0)
    PROVE  AwakeBut(q, g)
<1> DEFINE G == p.group[g]
           H == q.group[g]
           u == InUse(p) + 1
<1>1. OthersAwake(p, g, u) /\ Covered(G) /\ Numbers(G) /\ u \in Int /\ InUse(p) \in Int
  BY OthersOf DEF AllNumbered
<1>2. Grew(G, H, 0, 0, 0, 0) /\ InUse(q) = InUse(p)
  BY <1>1 DEF Changed
<1>3. Covered(H) /\ ~Waits(H)
  BY <1>1, <1>2 DEF Grew, Numbers, Covered, Waits
<1>4. InUse(q) \in Int /\ InUse(q) + 1 >= u
  BY <1>1, <1>2
<1>5. Blocked(H, 1, InUse(q) + 1)
  BY <1>3 DEF Blocked
<1> HIDE DEF u
<1> QED
  BY <1>1, <1>3, <1>4, <1>5, AwakeFrom

\* What a request that has been given a socket does when it leaves the queue.
LEMMA ServedLeaves ==
    ASSUME NEW p, AllNumbered(p), NEW g \in Groups, NEW e \in Shape, Supplied(p, e, g),
           NEW h \in Handles, NoneTwice(e.group[g].pending), InQueue(e, g, h), NEW rv
    PROVE  Served(p, InvokeUserCallbackLater(
                        RemoveIfEmpty(RemoveRequestFromQueue(e, g, h), g), h, rv), g)
<1> DEFINE r == RemoveRequestFromQueue(e, g, h)
           u == RemoveIfEmpty(r, g)
           q == InvokeUserCallbackLater(u, h, rv)
<1>1. Changed(e, r, g, -1, 0, 0, 0) /\ Resting(r.group[g]) = Resting(e.group[g]) /\ r \in Shape
  BY RemoveRequestChanges
<1> HIDE DEF r
<1>2. Changed(r, u, g, 0, 0, 0, 0) /\ Resting(u.group[g]) = Resting(r.group[g]) /\ u \in Shape
  BY <1>1, TidyChanges
<1>3. /\ q.group = u.group /\ q.handed_out_socket_count_ = u.handed_out_socket_count_
      /\ q.connecting_socket_count_ = u.connecting_socket_count_
  BY <1>2 DEF InvokeUserCallbackLater, Shape
<1> HIDE DEF u, q
<1>4. Changed(u, q, g, 0, 0, 0, 0)
  BY <1>2, <1>3, NothingChanges
<1>5. AllNumbered(e) /\ AllNumbered(r) /\ 0 \in Int /\ 1 \in Int /\ -1 \in Int
  BY <1>1, PoolNumbered
<1>6. Changed(r, q, g, 0 + 0, 0 + 0, 0 + 0, 0 + 0)
  BY <1>2, <1>4, <1>5, ChangedTwice
<1>7. Changed(r, q, g, 0, 0, 0, 0)
  BY <1>6
<1>8. Changed(e, q, g, -1 + 0, 0 + 0, 0 + 0, 0 + 0)
  BY <1>1, <1>5, <1>7, ChangedTwice
<1>9. Changed(e, q, g, -1, 0, 0, 0)
  BY <1>8
<1>10. Changed(p, q, g, 0 + -1, 0 + 0, 0 + 0, 1 + 0)
  BY <1>5, <1>9, ChangedTwice DEF Supplied
<1>11. Changed(p, q, g, -1, 0, 0, 1)
  BY <1>10
<1>12. Resting(q.group[g]) = Resting(e.group[g])
  BY <1>1, <1>2, <1>3
<1>13. Served(p, q, g)
  BY <1>11, <1>12 DEF Served, Supplied
<1> QED
  BY <1>13 DEF q, u, r

\* With nobody queued there is nobody to forget.
LEMMA EmptyAwake ==
    ASSUME NEW p, \A x \in Groups : p.group[x] \in Group /\ p.group[x].pending = <<>>
    PROVE  Awake(p)
<1> SUFFICES ASSUME NEW x \in Groups
             PROVE  Covered(p.group[x]) /\ Blocked(p.group[x], 0, InUse(p))
  BY DEF Awake
<1> DEFINE G == p.group[x]
<1>1. G \in Group /\ G.pending = <<>>
  OBVIOUS
<1> HIDE DEF G
<1>2. Numbers(G) /\ Asked(G) = 0
  BY <1>1, GroupNumbered
<1>3. Covered(G) /\ ~Waits(G)
  BY <1>2 DEF Numbers, Covered, Waits
<1> QED
  BY <1>3 DEF Blocked, G

\* Awake, or else a woken request failed at once while others waited.
Fine(p) == Awake(p) \/ Told(p)

\* OnAvailableSocketSlot.
LEMMA AvailableAwakens ==
    ASSUME NEW p, NEW run, Good(p, {}, {}, run), NEW g \in Groups, Ready(p, g),
           NoneIgnores, NEW q \in OnAvailableSocketSlot(p, g)
    PROVE  Told(q) \/ IF Waits(p.group[g]) THEN Awake(q) ELSE AwakeBut(q, g)
<1> DEFINE G == p.group[g]
           h == Head(G.pending)
           ignore == p.request[h].ignore
<1>1. p \in Shape /\ AllNumbered(p) /\ G \in Group /\ (G.pending = <<>> <=> Asked(G) = 0)
  BY PoolNumbered, GroupNumbered DEF Good
<1>2. Numbers(G)
  BY <1>1 DEF AllNumbered
<1>3. CASE G.pending = <<>>
  <2>1. ~Waits(G)
    BY <1>1, <1>2, <1>3 DEF Waits, Numbers
  <2>2. q = RemoveIfEmpty(p, g) \/ q = p
    BY <1>3 DEF OnAvailableSocketSlot, RemoveIfEmpty
  <2>3. Changed(p, q, g, 0, 0, 0, 0)
    BY <1>1, <2>2, TidyChanges, NothingChanges
  <2> QED
    BY <1>1, <2>1, <2>3, NotServed
<1>4. CASE G.pending # <<>>
  <2>1. q \in ProcessPendingRequest(p, g) /\ Asked(G) > 0
    BY <1>1, <1>2, <1>4 DEF OnAvailableSocketSlot, IsEmpty, Numbers
  <2>2. h \in Handles /\ InQueue(p, g, h)
    BY <1>4, FirstQueued
  <2>3. PICK end \in RequestSocketInternal(p, g, h, ignore) :
           q = IF end.rv = "pending" THEN end.pool
               ELSE Noted(InvokeUserCallbackLater(
                       RemoveIfEmpty(RemoveRequestFromQueue(end.pool, g, h), g), h, end.rv), h)
    BY <2>1 DEF ProcessPendingRequest
  <2> HIDE DEF h
  <2>4. Good(p, {h}, {}, run) /\ Asking(p, g, h, {h}) /\ h # None
    BY <2>2, QueuedAsks
  <2>5. ignore = FALSE
    BY <2>2, HandleFields DEF Request
  <2> HIDE DEF ignore
  <2>6. Outcome(p, g, h, end) /\ Answered(p, g, h, {h}, run, end)
    BY <2>2, <2>3, <2>4, <2>5, RequestChanges, RequestSocketInternalGood
  <2> DEFINE e == end.pool
             r == RemoveRequestFromQueue(e, g, h)
             u == RemoveIfEmpty(r, g)
             w == InvokeUserCallbackLater(u, h, end.rv)
  <2>7. CASE end.rv = "pending"
    <3>1. Served(p, q, g)
      BY <2>3, <2>6, <2>7 DEF Outcome, Served
    <3> QED
      BY <1>1, <2>1, <3>1, ServeAwakens
  <2>8. CASE end.rv # "pending"
    <3>1. /\ Good(e, {h}, {}, run) /\ Same(p, e) /\ q = Noted(w, h)
          /\ end.rv \in {"ok", "error"} /\ (end.rv = "ok" => e.socket[h] # None)
          /\ Supplied(p, e, g) \/ (end.rv = "error" /\ e.socket[h] = None)
      BY <2>3, <2>4, <2>6, <2>8 DEF Answered, Outcome
    <3> HIDE DEF e
    <3>2. e \in Shape /\ NoneTwice(e.group[g].pending) /\ InQueue(e, g, h)
      BY <2>2, <3>1 DEF Good, GroupsSound, SoundGroup, SoundLists, InQueue, Same
    <3>3. Supplied(p, e, g) => Served(p, w, g)
      BY <1>1, <2>2, <3>2, ServedLeaves
    <3>4. e.request[h].group = g
      BY <2>4, <3>1 DEF Asking, Same
    <3>5. Good(r, {h}, {}, run) /\ Requeued(e, g, r) /\ NotQueued(r, h)
      BY <2>2, <3>1, <3>2, <3>4, RemoveRequestGood
    <3> HIDE DEF r
    <3>6. Good(u, {h}, {}, run) /\ Same(r, u) /\ u.socket = r.socket /\ NotQueued(u, h)
      <4>1. Good(u, {h}, {}, run) /\ Same(r, u) /\ u.socket = r.socket
        BY <3>5, TidyGood
      <4> QED
        BY <3>5, <4>1, NotQueuedAfter
    <3> HIDE DEF u
    <3>7. u.socket = e.socket
      BY <3>5, <3>6 DEF Requeued
    <3>8. Good(w, {}, {}, run)
      BY <2>2, <3>1, <3>6, <3>7, InvokeLaterGood
    <3>9. w.callback[h] = end.rv /\ w.socket = e.socket
      <4>1. u \in Shape
        BY <3>6 DEF Good
      <4> QED
        BY <2>2, <3>7, <4>1 DEF InvokeUserCallbackLater, Shape
    <3> HIDE DEF w
    <3>10. PICK b \in BOOLEAN : q = Marked(w, b) /\ (b <=> w.wakeFailed \/ Failing(w, h))
      BY <2>2, <3>1, <3>8, NotedMarks DEF Good
    <3>11. /\ Good(q, {}, {}, run) /\ q.group = w.group /\ InUse(q) = InUse(w)
           /\ q.wakeFailed = b
      BY <3>8, <3>10, MarkedGood
    <3>12. CASE Supplied(p, e, g)
      <4>1. Served(p, q, g)
        BY <3>3, <3>11, <3>12 DEF Served, Delayed, Changed
      <4> QED
        BY <1>1, <2>1, <4>1, ServeAwakens
    <3>13. CASE end.rv = "error" /\ e.socket[h] = None
      <4>1. CASE b
        <5>1. "wakeFailed" \in DOMAIN q
          BY <3>11 DEF Good, Shape
        <5> QED
          BY <3>11, <4>1, <5>1 DEF Told
      <4>2. CASE ~b
        <5>1. \A x \in Groups : q.group[x] \in Group /\ q.group[x].pending = <<>>
          BY <3>9, <3>10, <3>11, <3>13, <4>2, GoodTypes DEF Failing
        <5>2. Awake(q) /\ AllNumbered(q)
          BY <3>11, <5>1, EmptyAwake, PoolNumbered DEF Good
        <5> QED
          BY <5>2, AwakeIsAwakeBut
      <4> QED
        BY <4>1, <4>2
    <3> QED
      BY <3>1, <3>12, <3>13
  <2> QED
    BY <2>7, <2>8
<1> QED
  BY <1>3, <1>4

-----------------------------------------------------------------------------
(* A stalled group is woken                                                *)

\* Some member has the least number.
LEMMA LeastExists ==
    ASSUME NEW S, NEW f \in [S -> Nat], S # {}
    PROVE  \E x \in S : \A y \in S : f[x] <= f[y]
<1> SUFFICES ASSUME \A x \in S : \E y \in S : ~(f[x] <= f[y])
             PROVE  FALSE
  OBVIOUS
<1> DEFINE T == {n \in Nat : \A x \in S : n <= f[x]}
<1>1. 0 \in T
  OBVIOUS
<1>2. ASSUME NEW n \in Nat, n \in T
      PROVE  n + 1 \in T
  <2> SUFFICES ASSUME NEW x \in S
               PROVE  n + 1 <= f[x]
    OBVIOUS
  <2>1. PICK y \in S : ~(f[x] <= f[y])
    OBVIOUS
  <2>2. f[x] \in Nat /\ f[y] \in Nat /\ n <= f[y]
    BY <1>2
  <2> QED
    BY <2>1, <2>2
<1> HIDE DEF T
<1>3. Nat \subseteq T
  BY <1>1, <1>2, AllNumbers
<1>4. PICK x \in S : TRUE
  OBVIOUS
<1>5. f[x] \in Nat /\ f[x] + 1 \in Nat
  OBVIOUS
<1>6. f[x] + 1 <= f[x]
  BY <1>3, <1>5 DEF T
<1> QED
  BY <1>5, <1>6

\* FindTopStalledGroup finds a group if there is a stalled one.
LEMMA TopFound ==
    ASSUME NEW p, NEW busy, NEW due, NEW run, Good(p, busy, due, run), TopStalledGroups(p) = {},
           NEW x \in Groups
    PROVE  ~IsStalled(p.group[x])
<1> DEFINE S == {g \in Groups : IsStalled(p.group[g])}
           f == [g \in S |-> p.request[Head(p.group[g].pending)].priority]
<1> SUFFICES ASSUME x \in S
             PROVE  FALSE
  OBVIOUS
<1>1. \A g \in S : p.request[Head(p.group[g].pending)].priority \in Nat
  <2> TAKE g \in S
  <2>1. p.group[g] \in Group
    BY GoodTypes
  <2>2. p.group[g].pending # <<>>
    <3>1. Waits(p.group[g]) /\ Numbers(p.group[g])
      BY <2>1, GroupNumbered DEF IsStalled, Waits, Asked
    <3>2. ~(Asked(p.group[g]) = 0)
      BY <3>1 DEF Waits, Numbers
    <3> QED
      BY <2>1, <3>2, GroupNumbered
  <2>3. Head(p.group[g].pending) \in Handles
    BY <2>2, FirstQueued
  <2>4. p.request[Head(p.group[g].pending)] \in Request
    BY <2>3, HandleFields
  <2> QED
    BY <2>4 DEF Request
<1>2. f \in [S -> Nat] /\ S # {}
  BY <1>1
<1>3. PICK g \in S : \A y \in S : f[g] <= f[y]
  <2> HIDE DEF f, S
  <2> QED
    BY <1>2, LeastExists
<1>4. g \in TopStalledGroups(p)
  BY <1>3 DEF TopStalledGroups
<1> QED
  BY <1>4

\* A group that waits and has room for the socket g lost is ready for it.
LEMMA ReadyStalled ==
    ASSUME NEW p, AllNumbered(p), NEW g \in Groups, AwakeBut(p, g), NEW x \in Groups,
           Waits(p.group[x]), Held(p.group[x]) < MaxPerGroup, InUse(p) < MaxSockets
    PROVE  Ready(p, x)
<1> DEFINE K == Held(p.group[x])
           U == InUse(p)
           n(y) == IF y = g THEN 1 ELSE 0
<1>1. /\ K \in Nat /\ U \in Int /\ Resting(p.group[x]) \in Nat /\ MaxSockets \in Nat
      /\ MaxPerGroup \in Nat
  BY NumbersOf
<1>2. \A y \in Groups : Covered(p.group[y]) /\ Blocked(p.group[y], n(y), U + 1)
  BY DEF AwakeBut
<1>3. Resting(p.group[x]) = 0 /\ (K + n(x) < MaxPerGroup => U + 1 >= MaxSockets)
  <2>1. Blocked(p.group[x], n(x), U + 1)
    BY <1>2
  <2> HIDE DEF n
  <2> QED
    BY <2>1 DEF Blocked
<1> HIDE DEF K, U
<1>4. K + 1 <= MaxPerGroup /\ U + 1 <= MaxSockets
  BY <1>1 DEF K, U
<1>5. K + 1 < MaxPerGroup => U + 1 >= MaxSockets
  BY <1>1, <1>3
<1>6. Wanting(p, x)
  BY <1>1, <1>3, <1>4, <1>5 DEF Wanting, K, U
<1>7. ASSUME NEW y \in Groups \ {x}
      PROVE  Blocked(p.group[y], 0, U + 1)
  <2>1. Blocked(p.group[y], n(y), U + 1)
    BY <1>2
  <2>2. CASE y = g
    <3>1. K + 0 < MaxPerGroup /\ x # g
      BY <1>1, <2>2 DEF K
    <3>2. U + 1 >= MaxSockets
      BY <1>3, <3>1
    <3> QED
      BY <2>1, <3>2 DEF Blocked
  <2>3. CASE y # g
    BY <2>1, <2>3
  <2> QED
    BY <2>2, <2>3
<1>8. OthersAwake(p, x, U + 1)
  BY <1>2, <1>7 DEF OthersAwake
<1> QED
  BY <1>2, <1>6, <1>8, OthersOf DEF U

\* Idle sockets may go.
LEMMA KeptAwakeBut ==
    ASSUME NEW p, AllNumbered(p), NEW g \in Groups, AwakeBut(p, g), NEW q, InUse(q) = InUse(p),
           \A x \in Groups : Keeps(p.group[x], q.group[x])
    PROVE  AwakeBut(q, g)
<1> SUFFICES ASSUME NEW x \in Groups
             PROVE  /\ Covered(q.group[x])
                    /\ Blocked(q.group[x], IF x = g THEN 1 ELSE 0, InUse(q) + 1)
  BY DEF AwakeBut
<1> DEFINE n == IF x = g THEN 1 ELSE 0
           u == InUse(p) + 1
<1>1. /\ Covered(p.group[x]) /\ Blocked(p.group[x], n, u) /\ Numbers(p.group[x])
      /\ Keeps(p.group[x], q.group[x]) /\ n \in Int /\ u \in Int
  BY DEF AwakeBut, AllNumbered
<1> HIDE DEF n, u
<1>2. u >= u
  BY <1>1
<1>3. Covered(q.group[x]) /\ Blocked(q.group[x], n, u)
  BY <1>1, <1>2, KeepsBlocked
<1> QED
  BY <1>3 DEF n, u

\* CheckForStalledSocketGroups, after g has lost a socket.
LEMMA CheckAwakens ==
    ASSUME NEW p, NEW run, Good(p, {}, {}, run), NEW g \in Groups, AwakeBut(p, g),
           NoneIgnores, NEW q \in CheckForStalledSocketGroups(p)
    PROVE  Fine(q)
<1>1. p \in Shape /\ AllNumbered(p) /\ InUse(p) \in Int /\ p.idle_socket_count_ \in Nat
  BY PoolNumbered, GoodTypes DEF Good, AllNumbered
<1>2. ASSUME NEW x \in Groups
      PROVE  /\ Held(p.group[x]) \in Nat /\ Resting(p.group[x]) \in Nat
             /\ IsStalled(p.group[x]) <=> /\ Held(p.group[x]) + Resting(p.group[x]) < MaxPerGroup
                                          /\ Waits(p.group[x])
             /\ Covered(p.group[x])
             /\ Waits(p.group[x]) => Resting(p.group[x]) = 0
  <2>1. p.group[x] \in Group
    BY GoodTypes
  <2>2. Covered(p.group[x]) /\ (Waits(p.group[x]) => Resting(p.group[x]) = 0)
    BY DEF AwakeBut, Blocked
  <2>3. /\ NumJobs(p.group[x]) = Spare(p.group[x]) + Taken(p.group[x])
        /\ NumActiveSocketSlots(p.group[x]) = Held(p.group[x]) + Resting(p.group[x])
    BY <2>1, GroupNumbered
  <2> QED
    BY <1>1, <2>2, <2>3, NumbersOf DEF IsStalled, HasAvailableSocketSlot, Waits, Asked
<1>3. ASSUME \A x \in Groups : Waits(p.group[x]) =>
                 (Held(p.group[x]) + 0 < MaxPerGroup => InUse(p) >= MaxSockets)
      PROVE  Fine(p)
  BY <1>2, <1>3 DEF Awake, Blocked, Fine
<1>4. CASE TopStalledGroups(p) = {}
  <2>1. q = p
    BY <1>4 DEF CheckForStalledSocketGroups
  <2>2. ASSUME NEW x \in Groups, Waits(p.group[x])
        PROVE  ~(Held(p.group[x]) + 0 < MaxPerGroup)
    <3>1. ~IsStalled(p.group[x])
      BY <1>4, TopFound
    <3>2. ~(Held(p.group[x]) + Resting(p.group[x]) < MaxPerGroup) /\ Resting(p.group[x]) = 0
      BY <1>2, <2>2, <3>1
    <3> QED
      BY <3>2
  <2> QED
    BY <1>3, <2>1, <2>2
<1>5. ASSUME NEW x \in Groups, IsStalled(p.group[x]), NEW r, Good(r, {}, {}, run), AwakeBut(r, g),
             Waits(r.group[x]), Held(r.group[x]) = Held(p.group[x]), TotalSockets(r) < MaxSockets,
             q \in OnAvailableSocketSlot(r, x)
      PROVE  Fine(q)
  <2>1. /\ r \in Shape /\ AllNumbered(r) /\ r.idle_socket_count_ \in Nat
        /\ TotalSockets(r) = InUse(r) + r.idle_socket_count_ /\ InUse(r) \in Int
    BY <1>5, PoolNumbered, GoodTypes DEF Good, AllNumbered
  <2>2. MaxSockets \in Nat /\ MaxPerGroup \in Nat
    BY LimitAssumption
  <2>3. InUse(r) < MaxSockets
    BY <1>5, <2>1, <2>2
  <2>4. Held(r.group[x]) < MaxPerGroup
    <3> DEFINE K == Held(p.group[x])
    <3>1. K \in Nat /\ K + Resting(p.group[x]) < MaxPerGroup /\ Resting(p.group[x]) \in Nat
      BY <1>2, <1>5
    <3> HIDE DEF K
    <3>2. K < MaxPerGroup
      BY <2>2, <3>1
    <3> QED
      BY <1>5, <3>2 DEF K
  <2>5. Ready(r, x)
    BY <1>5, <2>1, <2>3, <2>4, ReadyStalled
  <2> QED
    BY <1>5, <2>5, AvailableAwakens DEF Fine
<1>6. CASE TopStalledGroups(p) # {}
  <2>1. PICK x \in TopStalledGroups(p) :
           \/ ~ReachedMaxSocketsLimit(p) /\ q \in OnAvailableSocketSlot(p, x)
           \/ \E r \in CloseOneIdleSocket(p, {}) : q \in OnAvailableSocketSlot(r, x)
           \/ ReachedMaxSocketsLimit(p) /\ ~(p.idle_socket_count_ > 0) /\ q = p
    BY <1>6 DEF CheckForStalledSocketGroups, Then
  <2>2. x \in Groups /\ IsStalled(p.group[x])
    BY <2>1 DEF TopStalledGroups
  <2>3. Waits(p.group[x])
    BY <1>2, <2>2
  <2>4. TotalSockets(p) = InUse(p) + p.idle_socket_count_ /\ MaxSockets \in Nat
    BY <1>1, PoolNumbered, LimitAssumption
  <2>5. CASE ~ReachedMaxSocketsLimit(p) /\ q \in OnAvailableSocketSlot(p, x)
    <3>1. TotalSockets(p) < MaxSockets
      BY <1>1, <2>4, <2>5 DEF ReachedMaxSocketsLimit
    <3> QED
      BY <1>5, <2>2, <2>3, <2>5, <3>1
  <2>6. CASE \E r \in CloseOneIdleSocket(p, {}) : q \in OnAvailableSocketSlot(r, x)
    <3>1. PICK r \in CloseOneIdleSocket(p, {}) : q \in OnAvailableSocketSlot(r, x)
      BY <2>6
    <3>2. Good(r, {}, {}, run) /\ TotalSockets(r) < MaxSockets
      BY <3>1, CloseOneGood
    <3>3. InUse(r) = InUse(p) /\ \A y \in Groups : Keeps(p.group[y], r.group[y])
      BY <1>1, <3>1, CloseOneChanges
    <3>4. AwakeBut(r, g)
      BY <1>1, <3>3, KeptAwakeBut
    <3>5. Waits(r.group[x]) /\ Held(r.group[x]) = Held(p.group[x])
      BY <2>2, <2>3, <3>3 DEF Keeps, Waits, Held
    <3> QED
      BY <1>5, <2>2, <3>1, <3>2, <3>4, <3>5
  <2>7. CASE ReachedMaxSocketsLimit(p) /\ ~(p.idle_socket_count_ > 0) /\ q = p
    <3>1. InUse(p) >= MaxSockets
      BY <1>1, <2>4, <2>7 DEF ReachedMaxSocketsLimit
    <3> QED
      BY <1>3, <2>7, <3>1
  <2> QED
    BY <2>1, <2>5, <2>6, <2>7
<1> QED
  BY <1>4, <1>6

\* A socket slot of g, and then a stalled group's.
LEMMA SlotAwakens ==
    ASSUME NEW p, NEW run, Good(p, {}, {}, run), NEW g \in Groups, Ready(p, g),
           NoneIgnores,
           NEW q \in Then(OnAvailableSocketSlot(p, g), CheckForStalledSocketGroups)
    PROVE  Fine(q)
<1>1. PICK r \in OnAvailableSocketSlot(p, g) : q \in CheckForStalledSocketGroups(r)
  BY DEF Then
<1>2. Good(r, {}, {}, run)
  BY <1>1, OnAvailableGood
<1>3. AllNumbered(r)
  BY <1>2, PoolNumbered DEF Good
<1>4. Awake(r) \/ AwakeBut(r, g) \/ Told(r)
  BY <1>1, AvailableAwakens
<1>5. AwakeBut(r, g) \/ Told(r)
  BY <1>3, <1>4, AwakeIsAwakeBut
<1> QED
  BY <1>1, <1>2, <1>5, CheckAwakens, CheckTold DEF Fine

-----------------------------------------------------------------------------
(* What every action does to those that wait                               *)

\* Limits, as they bound what is counted here.
LEMMA LimitsBound ==
    ASSUME NEW p, NEW busy, NEW due, NEW run, Good(p, busy, due, run), NoneIgnores,
           NEW g \in Groups
    PROVE  InUse(p) <= MaxSockets /\ Held(p.group[g]) <= MaxPerGroup
<1> DEFINE U == InUse(p)
           K == Held(p.group[g])
           R == Resting(p.group[g])
           n == p.idle_socket_count_
<1>1. /\ p \in Shape /\ AllNumbered(p) /\ n \in Nat /\ p.group[g] \in Group
      /\ TotalSockets(p) = U + n
  BY GoodTypes, PoolNumbered
<1>2. U \in Int /\ K \in Nat /\ R \in Nat /\ MaxSockets \in Nat /\ MaxPerGroup \in Nat
  BY <1>1, NumbersOf
<1>3. TotalSockets(p) <= MaxSockets /\ NumActiveSocketSlots(p.group[g]) <= MaxPerGroup
  BY GoodTypes DEF Limited, SoundGroup
<1>4. NumActiveSocketSlots(p.group[g]) = K + R
  BY <1>1, GroupNumbered
<1> HIDE DEF U, K, R, n
<1>5. U <= MaxSockets /\ K <= MaxPerGroup
  BY <1>1, <1>2, <1>3, <1>4
<1> QED
  BY <1>5 DEF U, K

\* One job less, of either kind.
JobGone(s, t) == (s = -1 /\ t = 0) \/ (s = 0 /\ t = -1)

\* As many jobs less as requests.
LEMMA WaitsAlike ==
    ASSUME NEW p, AllNumbered(p), NEW g \in Groups, Covered(p.group[g]), NEW r \in Int,
           NEW s \in Int, NEW t \in Int, NEW a \in Int,
           (r = 0 /\ s = 0 /\ t = 0) \/ (r = -1 /\ JobGone(s, t)),
           NEW q, Changed(p, q, g, r, s, t, a)
    PROVE  /\ Waits(q.group[g]) <=> Waits(p.group[g])
           /\ Covered(q.group[g])
           /\ Held(q.group[g]) = Held(p.group[g]) + (s + t + a)
           /\ InUse(q) = InUse(p) + (s + t + a)
           /\ InUse(q) \in Int /\ Held(q.group[g]) \in Int
<1> DEFINE G == p.group[g]
           H == q.group[g]
           A == Asked(G)
           S == Spare(G)
           T == Taken(G)
           K == Held(G)
           U == InUse(p)
<1>1. A \in Nat /\ S \in Nat /\ T \in Nat /\ K \in Nat /\ U \in Int /\ Numbers(G)
  BY NumbersOf DEF AllNumbered
<1>2. Grew(G, H, r, s, t, a) /\ InUse(q) = U + s + t + a
  BY DEF Changed
<1>3. (S > 0 => A <= T) /\ (Waits(G) <=> A > S + T)
  BY DEF Covered, Waits
<1> HIDE DEF G, H
<1>4. /\ Held(H) = Held(G) + s + t + a
      /\ Waits(H) <=> Asked(G) + r > Spare(G) + Taken(G) + s + t
      /\ Covered(H) <=> (Spare(G) + s > 0 => Asked(G) + r <= Taken(G) + t)
  BY <1>1, <1>2, GrewNumbers
<1> HIDE DEF A, S, T, K, U
<1>5. /\ Held(H) = K + s + t + a /\ (Waits(H) <=> A + r > S + T + s + t)
      /\ (Covered(H) <=> (S + s > 0 => A + r <= T + t))
  BY <1>4 DEF A, S, T, K
<1>6. A + r > S + T + s + t <=> A > S + T
  BY <1>1 DEF JobGone
<1>7. S + s > 0 => A + r <= T + t
  BY <1>1, <1>3 DEF JobGone
<1>8. Held(H) = K + (s + t + a) /\ InUse(q) = U + (s + t + a)
  BY <1>1, <1>2, <1>5
<1>9. InUse(q) \in Int /\ Held(H) \in Int
  BY <1>1, <1>8
<1> QED
  BY <1>3, <1>5, <1>6, <1>7, <1>8, <1>9 DEF G, H, K, U

\* g loses a socket in use, or a job with its request, and may get an idle socket for it.
LEMMA LosesOne ==
    ASSUME NEW p, NEW busy, NEW due, NEW run, Good(p, busy, due, run), NoneIgnores, Awake(p),
           NEW g \in Groups, NEW r \in Int, NEW s \in Int, NEW t \in Int, NEW a \in Int,
           (r = 0 /\ s = 0 /\ t = 0) \/ (r = -1 /\ JobGone(s, t)), s + t + a = -1,
           NEW q, Changed(p, q, g, r, s, t, a)
    PROVE  /\ Resting(q.group[g]) = Resting(p.group[g]) => AwakeBut(q, g) /\ Ready(q, g)
           /\ Resting(q.group[g]) = Resting(p.group[g]) + 1 => Ready(q, g)
<1> DEFINE G == p.group[g]
           H == q.group[g]
           K == Held(G)
           U == InUse(p)
           R == Resting(G)
<1>1. AllNumbered(p)
  BY PoolNumbered DEF Good
<1>2. /\ K \in Nat /\ U \in Int /\ R \in Nat /\ MaxSockets \in Nat /\ MaxPerGroup \in Nat
      /\ U <= MaxSockets /\ K <= MaxPerGroup
  BY <1>1, NumbersOf, LimitsBound
<1>3. OthersAwake(p, g, U) /\ Covered(G) /\ Blocked(G, 0, U)
  BY OthersOf DEF Awake
<1>4. Waits(G) => R = 0 /\ (K + 0 < MaxPerGroup => U >= MaxSockets)
  BY <1>3 DEF Blocked
<1>5. /\ Waits(H) <=> Waits(G)
      /\ Covered(H) /\ Held(H) = K + (s + t + a) /\ InUse(q) = U + (s + t + a)
      /\ InUse(q) \in Int
  BY <1>1, <1>3, WaitsAlike
<1> HIDE DEF K, U, R, G, H
<1>6. Held(H) = K - 1 /\ InUse(q) = U - 1
  BY <1>2, <1>5
<1>7. InUse(q) + 1 >= U /\ Held(H) + 1 = K /\ InUse(q) + 1 = U
  BY <1>2, <1>6
<1>8. ASSUME Resting(H) = R
      PROVE  AwakeBut(q, g)
  <2>1. Blocked(H, 1, InUse(q) + 1)
    BY <1>2, <1>4, <1>5, <1>7, <1>8 DEF Blocked
  <2> QED
    BY <1>1, <1>2, <1>3, <1>5, <1>7, <2>1, AwakeFrom DEF H
<1>9. ASSUME Resting(H) = R \/ Resting(H) = R + 1
      PROVE  Ready(q, g)
  <2>1. Waits(H) => /\ Resting(H) <= 1 /\ Held(H) + 1 <= MaxPerGroup
                    /\ InUse(q) + 1 <= MaxSockets
                    /\ Held(H) + 1 < MaxPerGroup => InUse(q) + 1 >= MaxSockets
    BY <1>2, <1>4, <1>5, <1>7, <1>9
  <2>2. Wanting(q, g)
    BY <2>1 DEF Wanting, H
  <2> QED
    BY <1>1, <1>2, <1>3, <1>5, <1>7, <2>2, AwakeFrom DEF H
<1> QED
  BY <1>8, <1>9 DEF G, H, R

\* A job of g ends, and with it a request that is given its socket.
LEMMA JobServes ==
    ASSUME NEW p, AllNumbered(p), Awake(p), NEW g \in Groups, NEW r \in Int, r = -1,
           NEW s \in Int, NEW t \in Int, JobGone(s, t), NEW a \in Int, a = 1,
           NEW q, Changed(p, q, g, r, s, t, a), Resting(q.group[g]) = Resting(p.group[g])
    PROVE  Awake(q)
<1> DEFINE G == p.group[g]
           H == q.group[g]
           U == InUse(p)
<1>1. OthersAwake(p, g, U) /\ Covered(G) /\ Blocked(G, 0, U) /\ U \in Int /\ Held(G) \in Nat
  BY OthersOf, NumbersOf DEF Awake
<1>2. s + t + a = 0
  BY DEF JobGone
<1>3. /\ Waits(H) <=> Waits(G)
      /\ Covered(H) /\ Held(H) = Held(G) + 0 /\ InUse(q) = U + 0 /\ InUse(q) \in Int
  BY <1>1, <1>2, WaitsAlike
<1>4. Held(H) = Held(G) /\ InUse(q) = U
  BY <1>1, <1>3
<1>5. Blocked(H, 0, InUse(q))
  BY <1>1, <1>3, <1>4 DEF Blocked
<1>6. InUse(q) >= U
  BY <1>1, <1>4
<1> HIDE DEF U
<1> QED
  BY <1>1, <1>3, <1>5, <1>6, AwakeFrom

\* A job of g ends when nothing is asked for.
LEMMA JobLeaves ==
    ASSUME NEW p, AllNumbered(p), Awake(p), NEW g \in Groups, Asked(p.group[g]) = 0,
           NEW s \in Int, NEW t \in Int, JobGone(s, t), NEW q, AllNumbered(q),
           Changed(p, q, g, 0, s, t, 0)
    PROVE  Ready(q, g)
<1> DEFINE H == q.group[g]
           U == InUse(p)
<1>1. OthersAwake(p, g, U) /\ U \in Int
  BY OthersOf, NumbersOf
<1>2. Asked(H) = 0 + 0 /\ Spare(H) \in Nat /\ Taken(H) \in Nat /\ InUse(q) \in Int
  BY NumbersOf DEF Changed, Grew
<1>3. ~Waits(H) /\ Covered(H)
  BY <1>2 DEF Waits, Covered
<1>4. Wanting(q, g)
  BY <1>3 DEF Wanting
<1>5. InUse(q) = U + s + t + 0
  BY DEF Changed
<1> HIDE DEF U
<1>6. InUse(q) + 1 >= U
  BY <1>1, <1>5 DEF JobGone
<1> QED
  BY <1>1, <1>2, <1>3, <1>4, <1>6, AwakeFrom

\* A group counts more sockets handed out, or fewer.
LEMMA ActiveChanges ==
    ASSUME NEW p \in Shape, NEW g \in Groups, NEW d \in Int, NEW q, ChangesActive(p, g, d, q)
    PROVE  Changed(p, q, g, 0, 0, 0, d) /\ Resting(q.group[g]) = Resting(p.group[g])
<1> DEFINE G == p.group[g]
           m == G.active + d
           H == [G EXCEPT !.active = m]
<1>1. p.group \in [Groups -> Group] /\ G \in Group /\ q.group \in [Groups -> Group]
  BY DEF Shape, ChangesActive
<1>2. q.group = [p.group EXCEPT ![g] = H] /\ q.group[g] = H /\ H \in Group
  BY <1>1 DEF ChangesActive
<1>3. H.pending = G.pending /\ H.jobs = G.jobs /\ H.idle = G.idle /\ H.active = m
  BY <1>1 DEF Group
<1>4. Numbers(G)
  BY <1>1, GroupNumbered
<1>5. Grew(G, H, 0, 0, 0, d)
  <2> HIDE DEF H
  <2>1. Asked(H) = Asked(G) /\ Spare(H) = Spare(G) /\ Taken(H) = Taken(G)
    BY <1>3 DEF Asked, Spare, Taken
  <2> QED
    BY <1>3, <1>4, <2>1 DEF Grew, Numbers
<1>6. InUse(q) = InUse(p) + 0 + 0 + d
  <2> DEFINE a == p.handed_out_socket_count_
             b == p.connecting_socket_count_
  <2>1. InUse(q) = (a + d) + b /\ InUse(p) = a + b
    BY DEF InUse, ChangesActive
  <2>2. a \in Int /\ b \in Int
    BY DEF Shape
  <2> HIDE DEF a, b
  <2> QED
    BY <2>1, <2>2
<1> HIDE DEF H
<1>7. GrewTo(p, q, g, H, 0, 0, 0, d)
  BY <1>2, <1>5, <1>6 DEF GrewTo
<1>8. Changed(p, q, g, 0, 0, 0, d)
  BY <1>2, <1>7, OneGroupChanges
<1> QED
  BY <1>2, <1>3, <1>8 DEF Resting

\* ReleaseToPool.
LEMMA ReleaseAwakens ==
    ASSUME NEW p, NEW run, Good(p, {}, {}, run), Awake(p), NoneIgnores,
           NEW h \in Handles, p.socket[h] # None,
           NEW r, r = Reset(p, h), NEW connectedAndIdle \in BOOLEAN,
           NEW q \in ReleaseToPool(r, p.request[h].group, p.socket[h], connectedAndIdle)
    PROVE  Fine(q)
<1> SUFFICES ASSUME NEW d \in Int, d = -1
             PROVE  Fine(q)
  OBVIOUS
<1> DEFINE g == p.request[h].group
           u == [r EXCEPT !.handed_out_socket_count_ = @ - 1, !.group[g].active = @ - 1]
           idled == AddIdleSocket(u, g, p.socket[h].born)
<1>1. /\ g \in Groups /\ p.socket[h].born = p.socket[h].id /\ p \in Shape
      /\ p.generation \in Nat
  BY HolderCounts, GoodTypes DEF Good
<1>2. GivesUp(p, h, g, d, u) /\ r.generation = p.generation
  BY ResetGivesUp
<1>3. \/ /\ p.socket[h].id = p.generation
         /\ q \in Then(OnAvailableSocketSlot(idled, g), CheckForStalledSocketGroups)
      \/ q \in CheckForStalledSocketGroups(u)
  BY <1>2 DEF ReleaseToPool
<1>4. g = p.request[h].group
  OBVIOUS
<1> HIDE DEF g, u
<1>5. Good(u, {}, {}, run) /\ Room(u, g) /\ u.group[g].exists
  BY <1>2, <1>4, GivesUpGood
<1>6. ChangesActive(p, g, d, u) /\ u.generation = p.generation
  BY <1>2 DEF GivesUp, ChangesActive
<1>7. Changed(p, u, g, 0, 0, 0, d) /\ Resting(u.group[g]) = Resting(p.group[g])
  BY <1>1, <1>6, ActiveChanges
<1>8. 0 \in Int /\ 0 + 0 + d = -1
  OBVIOUS
<1>9. CASE q \in CheckForStalledSocketGroups(u)
  <2>1. AwakeBut(u, g)
    BY <1>1, <1>7, <1>8, LosesOne
  <2> QED
    BY <1>1, <1>5, <1>9, <2>1, CheckAwakens
<1>10. CASE /\ p.socket[h].id = p.generation
            /\ q \in Then(OnAvailableSocketSlot(idled, g), CheckForStalledSocketGroups)
  <2>1. idled = AddIdleSocket(u, g, u.generation) /\ u.generation \in Nat /\ u \in Shape
    BY <1>1, <1>5, <1>6, <1>10 DEF Good
  <2>2. Good(idled, {}, {}, run)
    BY <1>1, <1>5, <2>1, AddIdleGood
  <2>3. Changed(u, idled, g, 0, 0, 0, 0) /\ Resting(idled.group[g]) = Resting(u.group[g]) + 1
    BY <1>1, <2>1, AddIdleChanges
  <2> HIDE DEF idled
  <2>4. AllNumbered(p)
    BY <1>1, PoolNumbered
  <2>5. Changed(p, idled, g, 0 + 0, 0 + 0, 0 + 0, d + 0)
    BY <1>1, <1>7, <1>8, <2>3, <2>4, ChangedTwice
  <2>6. Changed(p, idled, g, 0, 0, 0, d)
    BY <2>5
  <2>7. Ready(idled, g)
    BY <1>1, <1>7, <1>8, <2>3, <2>6, LosesOne
  <2> QED
    BY <1>1, <1>10, <2>2, <2>7, SlotAwakens
<1> QED
  BY <1>3, <1>9, <1>10

\* RemoveConnectJob.
LEMMA JobGoneChanges ==
    ASSUME NEW p, NEW busy, NEW due, NEW run, Good(p, busy, due, run),
           NEW g \in Groups, NEW k \in JobKinds, NEW i \in DOMAIN p.group[g].jobs[k]
    PROVE  LET q == RemoveConnectJob(p, g, k, i) IN
           /\ \E s \in Int, t \in Int : JobGone(s, t) /\ Changed(p, q, g, 0, s, t, 0)
           /\ Resting(q.group[g]) = Resting(p.group[g])
           /\ q \in Shape
<1> DEFINE q == RemoveConnectJob(p, g, k, i)
<1>1. JobsGrow(p, g, k, -1, q)
  BY RemoveJobGood
<1> HIDE DEF q
<1>2. p \in Shape /\ -1 \in Int /\ 0 \in Int
  BY DEF Good
<1>3. /\ k = "unused" => Changed(p, q, g, 0, -1, 0, 0)
      /\ k = "used" => Changed(p, q, g, 0, 0, -1, 0)
      /\ Resting(q.group[g]) = Resting(p.group[g]) /\ q \in Shape
  BY <1>1, <1>2, JobsGrowChanges
<1>4. JobGone(-1, 0) /\ JobGone(0, -1)
  BY DEF JobGone
<1>5. \E s \in Int, t \in Int : JobGone(s, t) /\ Changed(p, q, g, 0, s, t, 0)
  BY <1>2, <1>3, <1>4 DEF JobKinds
<1> QED
  BY <1>3, <1>5 DEF q

\* RemoveRequestFromQueue, and then RemoveConnectJob.
LEMMA ServedChanges ==
    ASSUME NEW p, NEW run, NEW h \in Handles, NEW g \in Groups, InQueue(p, g, h),
           Good(p, {h}, {}, run), p.request[h].group = g,
           NEW k \in JobKinds, NEW i \in DOMAIN p.group[g].jobs[k]
    PROVE  LET q == RemoveConnectJob(RemoveRequestFromQueue(p, g, h), g, k, i) IN
           /\ \E s \in Int, t \in Int : JobGone(s, t) /\ Changed(p, q, g, -1, s, t, 0)
           /\ Resting(q.group[g]) = Resting(p.group[g])
           /\ q \in Shape
<1> DEFINE r == RemoveRequestFromQueue(p, g, h)
           q == RemoveConnectJob(r, g, k, i)
<1>1. p \in Shape /\ NoneTwice(p.group[g].pending) /\ AllNumbered(p)
  BY PoolNumbered DEF Good, GroupsSound, SoundGroup, SoundLists
<1>2. Good(r, {h}, {}, run) /\ Requeued(p, g, r)
  BY RemoveRequestGood
<1>3. Changed(p, r, g, -1, 0, 0, 0) /\ Resting(r.group[g]) = Resting(p.group[g])
  BY <1>1, RemoveRequestChanges
<1> HIDE DEF r
<1>4. i \in DOMAIN r.group[g].jobs[k]
  BY <1>2 DEF Requeued
<1>5. Resting(q.group[g]) = Resting(r.group[g]) /\ q \in Shape
  BY <1>2, <1>4, JobGoneChanges
<1>6. \E s \in Int, t \in Int : JobGone(s, t) /\ Changed(r, q, g, 0, s, t, 0)
  BY <1>2, <1>4, JobGoneChanges
<1> HIDE DEF q
<1>7. ASSUME NEW s \in Int, NEW t \in Int, JobGone(s, t), Changed(r, q, g, 0, s, t, 0)
      PROVE  Changed(p, q, g, -1, s, t, 0)
  <2>1. -1 \in Int /\ 0 \in Int
    OBVIOUS
  <2>2. Changed(p, q, g, -1 + 0, 0 + s, 0 + t, 0 + 0)
    BY <1>1, <1>3, <1>7, <2>1, ChangedTwice
  <2> QED
    BY <2>2
<1>8. \E s \in Int, t \in Int : JobGone(s, t) /\ Changed(p, q, g, -1, s, t, 0)
  BY <1>6, <1>7
<1> QED
  BY <1>3, <1>5, <1>8 DEF q, r

\* InvokeUserCallbackLater counts nothing.
LEMMA LaterChanges ==
    ASSUME NEW p \in Shape, NEW h, NEW rv, NEW g \in Groups
    PROVE  LET q == InvokeUserCallbackLater(p, h, rv) IN
           Changed(p, q, g, 0, 0, 0, 0) /\ q.group = p.group
<1> DEFINE q == InvokeUserCallbackLater(p, h, rv)
<1>1. /\ q.group = p.group /\ q.handed_out_socket_count_ = p.handed_out_socket_count_
      /\ q.connecting_socket_count_ = p.connecting_socket_count_
  BY DEF InvokeUserCallbackLater, Shape
<1> HIDE DEF q
<1>2. Changed(p, q, g, 0, 0, 0, 0)
  BY <1>1, NothingChanges
<1> QED
  BY <1>1, <1>2 DEF q

\* ConnectJobComplete.
LEMMA ConnectJobCompleteAwakens ==
    ASSUME NEW p, NEW run, Good(p, {}, {}, run), Awake(p), NoneIgnores,
           NEW g \in Groups, NEW k \in JobKinds, NEW i \in DOMAIN p.group[g].jobs[k],
           NEW result \in {"ok", "error", "errorWithSocket"},
           NEW q \in ConnectJobComplete(p, g, k, i, result)
    PROVE  Fine(q)
<1> DEFINE born == p.group[g].jobs[k][i]
           queue == p.group[g].pending
           h == Head(queue)
           gone == RemoveConnectJob(p, g, k, i)
           idled == AddIdleSocket(gone, g, born)
           served == RemoveConnectJob(RemoveRequestFromQueue(p, g, h), g, k, i)
           given == HandOutSocket(served, g, h, born)
           slot(x) == Then(OnAvailableSocketSlot(x, g), CheckForStalledSocketGroups)
<1>1. \/ queue = <<>> /\ q \in slot(idled)
      \/ queue = <<>> /\ q \in slot(gone)
      \/ queue # <<>> /\ q = InvokeUserCallbackLater(given, h, "ok")
      \/ queue # <<>> /\ q = InvokeUserCallbackLater(given, h, "error")
      \/ queue # <<>> /\ q \in slot(InvokeUserCallbackLater(served, h, "error"))
  <2>1. q \in CASE result = "ok" /\ queue = <<>> -> slot(idled)
                [] result = "ok" /\ queue # <<>> -> {InvokeUserCallbackLater(given, h, "ok")}
                [] result = "errorWithSocket" /\ queue # <<>> ->
                     {InvokeUserCallbackLater(given, h, "error")}
                [] result = "error" /\ queue # <<>> ->
                     slot(InvokeUserCallbackLater(served, h, "error"))
                [] OTHER -> slot(gone)
    BY DEF ConnectJobComplete
  <2> HIDE DEF idled, queue, given, gone, served, slot, h
  <2>2. CASE queue = <<>>
    <3>1. q \in slot(idled) \/ q \in slot(gone)
      BY <2>1, <2>2
    <3> QED
      BY <2>2, <3>1
  <2>3. CASE queue # <<>>
    BY <2>1, <2>3
  <2> QED
    BY <2>2, <2>3
<1>2. p \in Shape /\ AllNumbered(p) /\ p.group[g] \in Group
  BY GoodTypes, PoolNumbered
<1>3. CASE queue = <<>>
  <2>1. /\ Good(gone, {}, {}, run) /\ gone.group[g].exists /\ Room(gone, g)
        /\ born = gone.generation /\ Same(p, gone)
    BY RemoveJobGood DEF Same
  <2>2. \E s \in Int, t \in Int : JobGone(s, t) /\ Changed(p, gone, g, 0, s, t, 0)
    BY JobGoneChanges
  <2> HIDE DEF gone
  <2>3. PICK s \in Int, t \in Int : JobGone(s, t) /\ Changed(p, gone, g, 0, s, t, 0)
    BY <2>2
  <2>4. Asked(p.group[g]) = 0
    BY <1>2, <1>3, GroupNumbered
  <2>5. gone \in Shape /\ AllNumbered(gone) /\ gone.generation \in Nat
    BY <2>1, GoodTypes, PoolNumbered
  <2>6. CASE q \in slot(gone)
    <3>1. Ready(gone, g)
      BY <1>2, <2>3, <2>4, <2>5, JobLeaves
    <3> QED
      BY <2>1, <2>6, <3>1, SlotAwakens
  <2>7. CASE q \in slot(idled)
    <3>1. Changed(gone, idled, g, 0, 0, 0, 0)
      BY <2>1, <2>5, AddIdleChanges
    <3>2. Good(idled, {}, {}, run)
      BY <2>1, AddIdleGood
    <3> HIDE DEF idled
    <3>3. 0 \in Int
      OBVIOUS
    <3>4. Changed(p, idled, g, 0 + 0, s + 0, t + 0, 0 + 0)
      BY <1>2, <2>3, <3>1, <3>3, ChangedTwice
    <3>5. Changed(p, idled, g, 0, s, t, 0)
      BY <3>4
    <3>6. AllNumbered(idled)
      BY <3>2, PoolNumbered DEF Good
    <3>7. Ready(idled, g)
      BY <1>2, <2>3, <2>4, <3>5, <3>6, JobLeaves
    <3> QED
      BY <2>7, <3>2, <3>7, SlotAwakens
  <2> QED
    BY <1>1, <1>3, <2>6, <2>7
<1>4. CASE queue # <<>>
  <2>1. IsFirst(p, g, h) /\ h \in Handles /\ InQueue(p, g, h)
    BY <1>4, FirstQueued DEF IsFirst
  <2>2. Good(p, {h}, {}, run) /\ p.request[h].group = g
    <3> HIDE DEF h
    <3> QED
      BY <2>1, UserAssumption, QueuedAsks DEF Asking
  <2> HIDE DEF h
  <2>3. /\ h # None /\ Good(served, {h}, {}, run) /\ NotQueued(served, h)
        /\ Asking(served, g, h, {h}) /\ Room(served, g) /\ served.group[g].exists
        /\ born = served.generation
    BY <2>1, ServedGood
  <2>4. /\ \E s \in Int, t \in Int : JobGone(s, t) /\ Changed(p, served, g, -1, s, t, 0)
        /\ Resting(served.group[g]) = Resting(p.group[g]) /\ served \in Shape
    BY <2>1, <2>2, ServedChanges
  <2> HIDE DEF served
  <2>5. PICK s \in Int, t \in Int : JobGone(s, t) /\ Changed(p, served, g, -1, s, t, 0)
    BY <2>4
  <2>6. 0 \in Int /\ 1 \in Int /\ -1 \in Int /\ s + t + 0 = -1
    BY <2>5 DEF JobGone
  <2>7. ASSUME NEW rv, q = InvokeUserCallbackLater(given, h, rv)
        PROVE  Fine(q)
    <3>1. Changed(served, given, g, 0, 0, 0, 1) /\ Resting(given.group[g]) = Resting(served.group[g])
      BY <2>1, <2>4, HandOutChanges
    <3>2. given \in Shape
      <4>1. Good(given, {h}, {}, run)
        BY <2>3, HandOutGood
      <4> QED
        BY <4>1 DEF Good
    <3> HIDE DEF given
    <3>3. Changed(given, q, g, 0, 0, 0, 0) /\ q.group = given.group
      BY <2>7, <3>2, LaterChanges
    <3>4. AllNumbered(served) /\ AllNumbered(given)
      BY <2>4, <3>2, PoolNumbered
    <3>5. Changed(served, q, g, 0 + 0, 0 + 0, 0 + 0, 1 + 0)
      BY <2>6, <3>1, <3>3, <3>4, ChangedTwice
    <3>6. Changed(served, q, g, 0, 0, 0, 1)
      BY <3>5
    <3>7. Changed(p, q, g, -1 + 0, s + 0, t + 0, 0 + 1)
      BY <1>2, <2>5, <2>6, <3>6, ChangedTwice
    <3>8. Changed(p, q, g, -1, s, t, 1)
      BY <3>7
    <3>9. Resting(q.group[g]) = Resting(p.group[g])
      BY <2>4, <3>1, <3>3
    <3> QED
      BY <1>2, <2>5, <2>6, <3>8, <3>9, JobServes DEF Fine
  <2>8. ASSUME q \in slot(InvokeUserCallbackLater(served, h, "error"))
        PROVE  Fine(q)
    <3> DEFINE r == InvokeUserCallbackLater(served, h, "error")
    <3>1. Changed(served, r, g, 0, 0, 0, 0) /\ r.group = served.group
      BY <2>4, LaterChanges
    <3>2. ASSUME NEW rv \in {"ok", "error"}, rv # "ok"
          PROVE  Good(InvokeUserCallbackLater(served, h, rv), {}, {}, run)
      BY <2>1, <2>3, <3>2, InvokeLaterGood
    <3>3. Good(r, {}, {}, run) /\ q \in slot(r)
      BY <2>8, <3>2
    <3> HIDE DEF r
    <3>4. Changed(p, r, g, -1 + 0, s + 0, t + 0, 0 + 0)
      BY <1>2, <2>5, <2>6, <3>1, ChangedTwice
    <3>5. Changed(p, r, g, -1, s, t, 0)
      BY <3>4
    <3>6. Resting(r.group[g]) = Resting(p.group[g])
      BY <2>4, <3>1
    <3>7. Ready(r, g)
      BY <2>5, <2>6, <3>5, <3>6, LosesOne
    <3> QED
      BY <3>3, <3>7, SlotAwakens
  <2> QED
    BY <1>1, <1>4, <2>7, <2>8
<1> QED
  BY <1>3, <1>4

\* With so many more of everything a group G is covered, and blocked with n idle sockets.
CoveredWith(G, r, s, t) == Spare(G) + s > 0 => Asked(G) + r <= Taken(G) + t
BlockedWith(G, r, s, t, a, n, u) ==
    Asked(G) + r > Spare(G) + Taken(G) + s + t =>
        n = 0 /\ (Held(G) + s + t + a < MaxPerGroup => u + s + t + a >= MaxSockets)

\* A pool that gets no fewer sockets in use stays awake when the group that changes does.
LEMMA StaysAwake ==
    ASSUME NEW p, AllNumbered(p), Awake(p), NEW g \in Groups, NEW r \in Int, NEW s \in Int,
           NEW t \in Int, NEW a \in Int, s + t + a >= 0, NEW q, Changed(p, q, g, r, s, t, a),
           CoveredWith(p.group[g], r, s, t),
           BlockedWith(p.group[g], r, s, t, a, Resting(q.group[g]), InUse(p))
    PROVE  Awake(q)
<1> DEFINE G == p.group[g]
           H == q.group[g]
           u == InUse(p)
<1>1. OthersAwake(p, g, u) /\ u \in Int /\ Numbers(G) /\ Held(G) \in Nat
  BY OthersOf, NumbersOf DEF AllNumbered
<1>2. Grew(G, H, r, s, t, a) /\ InUse(q) = u + s + t + a
  BY DEF Changed
<1>3. CoveredWith(G, r, s, t) /\ BlockedWith(G, r, s, t, a, Resting(H), u)
  OBVIOUS
<1>4. InUse(q) \in Int /\ InUse(q) >= u
  <2> HIDE DEF u
  <2> QED
    BY <1>1, <1>2
<1> HIDE DEF G, H, u
<1>5. /\ Held(H) = Held(G) + s + t + a
      /\ Waits(H) <=> Asked(G) + r > Spare(G) + Taken(G) + s + t
      /\ Covered(H) <=> (Spare(G) + s > 0 => Asked(G) + r <= Taken(G) + t)
  BY <1>1, <1>2, GrewNumbers
<1>6. Covered(H)
  BY <1>3, <1>5 DEF CoveredWith
<1>7. Held(H) + 0 = Held(G) + s + t + a
  BY <1>1, <1>5
<1>8. Blocked(H, 0, InUse(q))
  BY <1>2, <1>3, <1>5, <1>7 DEF BlockedWith, Blocked
<1> QED
  BY <1>1, <1>4, <1>6, <1>8, AwakeFrom DEF H, u

\* A request is given a socket, without having been in the queue.
LEMMA SuppliedAwake ==
    ASSUME NEW p, AllNumbered(p), Awake(p), NEW g \in Groups, NEW q, Supplied(p, q, g)
    PROVE  Awake(q)
<1> DEFINE G == p.group[g]
           A == Asked(G)
           S == Spare(G)
           T == Taken(G)
           K == Held(G)
           R == Resting(G)
           n == Resting(q.group[g])
           u == InUse(p)
<1>1. /\ A \in Nat /\ S \in Nat /\ T \in Nat /\ K \in Nat /\ R \in Nat /\ u \in Int
      /\ MaxSockets \in Nat /\ MaxPerGroup \in Nat
  BY NumbersOf
<1>2. Covered(G) /\ Blocked(G, 0, u)
  BY DEF Awake
<1>3. (S > 0 => A <= T) /\ (A > S + T => R = 0 /\ (K + 0 < MaxPerGroup => u >= MaxSockets))
  BY <1>2 DEF Covered, Blocked, Waits
<1>4. Changed(p, q, g, 0, 0, 0, 1) /\ n \in Nat /\ (n = 0 \/ n < R)
  BY DEF Supplied, Changed
<1> HIDE DEF A, S, T, K, R, n, u
<1>5. S + 0 > 0 => A + 0 <= T + 0
  BY <1>1, <1>3
<1>6. A + 0 > S + T + 0 + 0 => n = 0 /\ (K + 0 + 0 + 1 < MaxPerGroup => u + 0 + 0 + 1 >= MaxSockets)
  BY <1>1, <1>3, <1>4
<1>7. CoveredWith(G, 0, 0, 0) /\ BlockedWith(G, 0, 0, 0, 1, n, u)
  BY <1>5, <1>6 DEF CoveredWith, BlockedWith, A, S, T, K
<1>8. 0 \in Int /\ 1 \in Int /\ 0 + 0 + 1 >= 0
  OBVIOUS
<1> QED
  BY <1>4, <1>7, <1>8, StaysAwake DEF n, u

\* Idle sockets may go, and no request is the worse for it.
LEMMA KeptAwake ==
    ASSUME NEW p, AllNumbered(p), Awake(p), NEW q, InUse(q) = InUse(p),
           \A x \in Groups : Keeps(p.group[x], q.group[x])
    PROVE  Awake(q)
<1> SUFFICES ASSUME NEW x \in Groups
             PROVE  Covered(q.group[x]) /\ Blocked(q.group[x], 0, InUse(q))
  BY DEF Awake
<1> DEFINE u == InUse(p)
<1>1. /\ Covered(p.group[x]) /\ Blocked(p.group[x], 0, u) /\ Numbers(p.group[x])
      /\ Keeps(p.group[x], q.group[x]) /\ u \in Int /\ 0 \in Int
  BY DEF Awake, AllNumbered
<1> HIDE DEF u
<1>2. u >= u
  BY <1>1
<1>3. Covered(q.group[x]) /\ Blocked(q.group[x], 0, u)
  BY <1>1, <1>2, KeepsBlocked
<1> QED
  BY <1>3 DEF u

\* A request fails at once, without having been in the queue.
LEMMA RefusedAwake ==
    ASSUME NEW p, AllNumbered(p), Awake(p), NEW g \in Groups, NEW q, Refused(p, q, g)
    PROVE  Awake(q)
<1>1. /\ Grew(p.group[g], q.group[g], 0, 0, 0, 0) /\ Numbers(p.group[g])
      /\ Resting(q.group[g]) = 0
  BY DEF Refused, Changed, AllNumbered
<1>2. Keeps(p.group[g], q.group[g])
  BY <1>1 DEF Grew, Numbers, Keeps
<1>3. \A x \in Groups : Keeps(p.group[x], q.group[x])
  BY <1>2 DEF Refused, Changed
<1>4. InUse(q) = InUse(p)
  BY DEF Refused, Changed, AllNumbered
<1> QED
  BY <1>3, <1>4, KeptAwake

\* A request has to wait, and joins the queue.
LEMMA DelayedAwake ==
    ASSUME NEW p, AllNumbered(p), Awake(p), NEW g \in Groups, NEW z, Delayed(p, z, g),
           NEW q, Changed(z, q, g, 1, 0, 0, 0), Resting(q.group[g]) = Resting(z.group[g])
    PROVE  Awake(q)
<1> DEFINE G == p.group[g]
           A == Asked(G)
           S == Spare(G)
           T == Taken(G)
           K == Held(G)
           n == Resting(q.group[g])
           u == InUse(p)
<1>1. /\ A \in Nat /\ S \in Nat /\ T \in Nat /\ K \in Nat /\ u \in Int
      /\ MaxSockets \in Nat /\ MaxPerGroup \in Nat
  BY NumbersOf
<1>2. Covered(G) /\ Blocked(G, 0, u)
  BY DEF Awake
<1>3. (S > 0 => A <= T) /\ (A > S + T => (K + 0 < MaxPerGroup => u >= MaxSockets))
  BY <1>2 DEF Covered, Blocked, Waits
<1>4. n = 0
  BY DEF Delayed
<1>5. 0 \in Int /\ 1 \in Int /\ -1 \in Int
  OBVIOUS
<1> HIDE DEF A, S, T, K, n, u
<1>6. ASSUME NEW s \in Int, NEW t \in Int, Changed(p, z, g, 0, s, t, 0), s + t + 0 >= 0,
             S + s > 0 => A + 1 <= T + t,
             A + 1 > S + T + s + t =>
                (K + s + t + 0 < MaxPerGroup => u + s + t + 0 >= MaxSockets)
      PROVE  Awake(q)
  <2>1. Changed(p, q, g, 0 + 1, s + 0, t + 0, 0 + 0)
    BY <1>5, <1>6, ChangedTwice
  <2>2. Changed(p, q, g, 1, s, t, 0)
    BY <2>1
  <2>3. CoveredWith(G, 1, s, t) /\ BlockedWith(G, 1, s, t, 0, n, u)
    BY <1>4, <1>6 DEF CoveredWith, BlockedWith, A, S, T, K
  <2> QED
    BY <1>5, <1>6, <2>2, <2>3, StaysAwake DEF n, u
<1>7. CASE S > 0 /\ Changed(p, z, g, 0, -1, 1, 0)
  <2>1. /\ -1 + 1 + 0 >= 0 /\ S + -1 > 0 => A + 1 <= T + 1
        /\ ~(A + 1 > S + T + -1 + 1)
    BY <1>1, <1>3, <1>7
  <2> QED
    BY <1>5, <1>6, <1>7, <2>1
<1>8. CASE S = 0 /\ Changed(p, z, g, 0, 0, 1, 0)
  <2>1. /\ 0 + 1 + 0 >= 0 /\ ~(S + 0 > 0)
        /\ A + 1 > S + T + 0 + 1 =>
              (K + 0 + 1 + 0 < MaxPerGroup => u + 0 + 1 + 0 >= MaxSockets)
    BY <1>1, <1>3, <1>8
  <2> QED
    BY <1>5, <1>6, <1>8, <2>1
<1>9. CASE /\ S = 0 /\ Changed(p, z, g, 0, 0, 0, 0)
           /\ K >= MaxPerGroup \/ u >= MaxSockets
  <2>1. /\ 0 + 0 + 0 >= 0 /\ ~(S + 0 > 0)
        /\ K + 0 + 0 + 0 < MaxPerGroup => u + 0 + 0 + 0 >= MaxSockets
    BY <1>1, <1>9
  <2> QED
    BY <1>5, <1>6, <1>9, <2>1
<1> QED
  BY <1>7, <1>8, <1>9 DEF Delayed, S, K, u

\* Where the groups and the counters are the same, nothing else matters.
LEMMA SameAwake ==
    ASSUME NEW p, NEW q, Awake(p), q.group = p.group,
           q.handed_out_socket_count_ = p.handed_out_socket_count_,
           q.connecting_socket_count_ = p.connecting_socket_count_
    PROVE  Awake(q)
<1>1. InUse(q) = InUse(p)
  BY DEF InUse
<1> QED
  BY <1>1 DEF Awake

\* RequestSocket.
LEMMA RequestSocketAwakens ==
    ASSUME IInv, Awake(pool), NoneIgnores,
           NEW h \in Handles, NEW g \in Groups, NEW k \in Kinds, RequestSocket(h, g, k)
    PROVE  Awake(pool')
<1> DEFINE r == [group |-> g, priority |-> k.priority, ignore |-> k.ignore]
           requesting == [pool EXCEPT !.request[h] = r]
           asked == Marked(requesting, pool.wakeFailed /\ ~NoneQueued)
<1>1. Good(pool, {}, {}, {}) /\ pool \in Shape
  BY DEF IInv, Good
<1>2. /\ r \in Request /\ r.group = g /\ k.ignore = FALSE /\ ~r.ignore
  BY UserAssumption DEF Request, NoneIgnores
<1>3. pool.request[h] = NoRequest
  BY DEF RequestSocket
<1>4. PICK end \in RequestSocketInternal(asked, g, h, FALSE) :
         pool' = IF end.rv = "pending" THEN InsertRequestIntoQueue(end.pool, g, h)
                 ELSE HandleInitCompletion(end.pool, h)
  <2>1. asked = [pool EXCEPT !.request[h] = r, !.wakeFailed = @ /\ ~NoneQueued]
    BY <1>1 DEF Shape, Marked
  <2> QED
    BY <1>2, <2>1 DEF RequestSocket
<1> HIDE DEF r
<1>5. Good(asked, {h}, {}, {}) /\ Asking(asked, g, h, {h})
  <2>1. Good(requesting, {h}, {}, {}) /\ Asking(requesting, g, h, {h})
    BY <1>1, <1>2, <1>3, AskedGood
  <2> HIDE DEF requesting
  <2>2. /\ Good(asked, {h}, {}, {}) /\ Same(requesting, asked)
        /\ asked.socket = requesting.socket
    BY <2>1, MarkedGood
  <2> HIDE DEF asked
  <2> QED
    BY <2>1, <2>2, AskingAfter
<1>6. Awake(asked)
  <2>1. /\ asked.group = pool.group
        /\ asked.handed_out_socket_count_ = pool.handed_out_socket_count_
        /\ asked.connecting_socket_count_ = pool.connecting_socket_count_
    BY <1>1 DEF Shape, Marked
  <2> HIDE DEF asked
  <2> QED
    BY <2>1, SameAwake
<1> HIDE DEF asked
<1>7. Outcome(asked, g, h, end) /\ Answered(asked, g, h, {h}, {}, end)
  BY <1>4, <1>5, RequestChanges, RequestSocketInternalGood
<1> DEFINE t == end.pool
<1>8. t \in Shape /\ AllNumbered(asked)
  BY <1>5, <1>7, PoolNumbered DEF Answered, Good
<1>9. CASE end.rv = "pending"
  <2> DEFINE q == InsertRequestIntoQueue(t, g, h)
  <2>1. Delayed(asked, t, g) /\ pool' = q
    BY <1>4, <1>7, <1>9 DEF Outcome
  <2> HIDE DEF t
  <2>2. Changed(t, q, g, 1, 0, 0, 0) /\ Resting(q.group[g]) = Resting(t.group[g])
    BY <1>8, InsertChanges
  <2> HIDE DEF q
  <2> QED
    BY <1>6, <1>8, <2>1, <2>2, DelayedAwake
<1>10. CASE end.rv # "pending"
  <2>1. /\ Supplied(asked, t, g) \/ Refused(asked, t, g)
        /\ pool' = HandleInitCompletion(t, h)
    BY <1>4, <1>7, <1>10 DEF Outcome
  <2> HIDE DEF t
  <2>2. Awake(t)
    BY <1>6, <1>8, <2>1, SuppliedAwake, RefusedAwake
  <2>3. /\ pool'.group = t.group
        /\ pool'.handed_out_socket_count_ = t.handed_out_socket_count_
        /\ pool'.connecting_socket_count_ = t.connecting_socket_count_
    BY <1>8, <2>1 DEF HandleInitCompletion, Shape
  <2> QED
    BY <2>2, <2>3, SameAwake
<1> QED
  BY <1>9, <1>10

\* InvokeUserCallback.
LEMMA InvokeUserCallbackAwakens ==
    ASSUME IInv, Awake(pool), NEW h \in Handles, InvokeUserCallback(h)
    PROVE  Awake(pool')
<1>1. pool \in Shape
  BY DEF IInv, Good
<1>2. /\ pool'.group = pool.group
      /\ pool'.handed_out_socket_count_ = pool.handed_out_socket_count_
      /\ pool'.connecting_socket_count_ = pool.connecting_socket_count_
  BY <1>1 DEF InvokeUserCallback, HandleInitCompletion, Shape
<1> QED
  BY <1>2, SameAwake

\* OnConnectJobComplete.
LEMMA OnConnectJobCompleteAwakens ==
    ASSUME IInv, Awake(pool), NoneIgnores,
           NEW g \in Groups, OnConnectJobComplete(g)
    PROVE  Fine(pool')
<1>1. PICK k \in JobKinds, result \in {"ok", "error", "errorWithSocket"} :
         \E i \in DOMAIN pool.group[g].jobs[k] :
            pool' \in ConnectJobComplete(pool, g, k, i, result)
  BY DEF OnConnectJobComplete
<1>2. PICK i \in DOMAIN pool.group[g].jobs[k] :
         pool' \in ConnectJobComplete(pool, g, k, i, result)
  BY <1>1
<1> QED
  BY <1>2, ConnectJobCompleteAwakens DEF IInv

\* ReleaseSocket.
LEMMA ReleaseSocketAwakens ==
    ASSUME IInv, Awake(pool), NoneIgnores, NEW h \in Handles, ReleaseSocket(h)
    PROVE  Fine(pool')
<1> DEFINE r == [pool EXCEPT !.initialized[h] = FALSE, !.socket[h] = None,
                             !.request[h] = NoRequest]
<1>1. Good(pool, {}, {}, {}) /\ pool \in Shape /\ SoundHandle(pool, h) /\ pool.initialized[h]
  BY DEF IInv, Good, HandlesSound, ReleaseSocket
<1>2. pool.socket[h] # None /\ pool.callback[h] = None
  BY <1>1 DEF SoundHandle
<1>3. PICK connectedAndIdle \in BOOLEAN :
         pool' \in ReleaseToPool(r, pool.request[h].group, pool.socket[h], connectedAndIdle)
  BY DEF ReleaseSocket
<1>4. r = Reset(pool, h)
  <2>1. [pool.callback EXCEPT ![h] = None] = pool.callback
    BY <1>1, <1>2 DEF Shape
  <2> QED
    BY <1>1, <2>1 DEF Reset, Shape
<1> HIDE DEF r
<1> QED
  BY <1>1, <1>2, <1>3, <1>4, ReleaseAwakens

\* CancelCallback.
LEMMA CancelCallbackAwakens ==
    ASSUME IInv, Awake(pool), NoneIgnores, NEW h \in Handles, CancelCallback(h)
    PROVE  Fine(pool')
<1> DEFINE r == [pool EXCEPT !.callback[h] = None, !.socket[h] = None,
                             !.request[h] = NoRequest]
<1>1. Good(pool, {}, {}, {}) /\ pool \in Shape /\ SoundHandle(pool, h) /\ pool.callback[h] # None
  BY DEF IInv, Good, HandlesSound, CancelCallback
<1>2. CASE pool.socket[h] # None
  <2>1. PICK connectedAndIdle \in {pool.callback[h] = "ok", FALSE} :
           pool' \in ReleaseToPool(r, pool.request[h].group, pool.socket[h], connectedAndIdle)
    BY <1>2 DEF CancelCallback
  <2>2. connectedAndIdle \in BOOLEAN
    BY <2>1
  <2>3. r = Reset(pool, h)
    <3>1. [pool.initialized EXCEPT ![h] = FALSE] = pool.initialized
      BY <1>1 DEF Shape, SoundHandle
    <3> QED
      BY <1>1, <3>1 DEF Reset, Shape
  <2> HIDE DEF r
  <2> QED
    BY <1>1, <1>2, <2>1, <2>2, <2>3, ReleaseAwakens
<1>3. CASE pool.socket[h] = None
  <2>1. pool' = r
    BY <1>3 DEF CancelCallback
  <2>2. /\ pool'.group = pool.group
        /\ pool'.handed_out_socket_count_ = pool.handed_out_socket_count_
        /\ pool'.connecting_socket_count_ = pool.connecting_socket_count_
    BY <1>1, <2>1 DEF Shape
  <2> QED
    BY <2>2, SameAwake DEF Fine
<1> QED
  BY <1>2, <1>3

\* CancelRequest.
LEMMA CancelRequestAwakens ==
    ASSUME IInv, Awake(pool), NoneIgnores, NEW h \in Handles, CancelRequest(h)
    PROVE  Fine(pool')
<1> DEFINE x == [pool EXCEPT !.request[h] = NoRequest]
           p(g) == RemoveRequestFromQueue(x, g, h)
<1>1. PICK g \in Groups :
        /\ Contains(pool.group[g].pending, h)
        /\ \/ pool' = p(g)
           \/ pool' \in Then({RemoveConnectJob(p(g), g, k, 1) :
                                k \in {kind \in JobKinds : p(g).group[g].jobs[kind] # <<>>}},
                             CheckForStalledSocketGroups)
  BY DEF CancelRequest
<1>2. /\ Good(pool, {}, {}, {}) /\ pool \in Shape /\ AllNumbered(pool)
      /\ NoneTwice(pool.group[g].pending)
  BY PoolNumbered DEF IInv, Good, GroupsSound, SoundGroup, SoundLists
<1>3. InQueue(pool, g, h)
  BY <1>1 DEF InQueue, Contains
<1> DEFINE q == p(g)
<1>4. Good(q, {}, {}, {})
  BY <1>2, <1>3, CancelledGood
<1>5. Changed(pool, q, g, -1, 0, 0, 0) /\ Resting(q.group[g]) = Resting(pool.group[g])
  <2>1. x \in Shape /\ x.group = pool.group /\ InUse(x) = InUse(pool)
    <3>1. NoRequest \in Request
      BY DEF NoRequest, Request
    <3> QED
      BY <1>2, <3>1 DEF Shape, InUse
  <2> HIDE DEF x
  <2>2. NoneTwice(x.group[g].pending) /\ InQueue(x, g, h)
    BY <1>2, <1>3, <2>1 DEF InQueue
  <2>3. Changed(x, q, g, -1, 0, 0, 0) /\ Resting(q.group[g]) = Resting(x.group[g])
    BY <2>1, <2>2, RemoveRequestChanges
  <2> HIDE DEF q
  <2> QED
    BY <2>1, <2>3 DEF Changed
<1> HIDE DEF x
<1>6. 0 \in Int /\ -1 \in Int
  OBVIOUS
<1>7. CASE pool' = q
  <2> DEFINE G == pool.group[g]
             A == Asked(G)
             S == Spare(G)
             T == Taken(G)
             K == Held(G)
             R == Resting(G)
             u == InUse(pool)
  <2>1. /\ A \in Nat /\ S \in Nat /\ T \in Nat /\ K \in Nat /\ u \in Int
        /\ MaxSockets \in Nat /\ MaxPerGroup \in Nat
    BY <1>2, NumbersOf
  <2>2. Covered(G) /\ Blocked(G, 0, u)
    BY DEF Awake
  <2>3. (S > 0 => A <= T) /\ (A > S + T => R = 0 /\ (K + 0 < MaxPerGroup => u >= MaxSockets))
    BY <2>2 DEF Covered, Blocked, Waits
  <2> HIDE DEF A, S, T, K, R, u, q
  <2>4. /\ S + 0 > 0 => A + -1 <= T + 0
        /\ A + -1 > S + T + 0 + 0 =>
              R = 0 /\ (K + 0 + 0 + 0 < MaxPerGroup => u + 0 + 0 + 0 >= MaxSockets)
    BY <2>1, <2>3
  <2>5. CoveredWith(G, -1, 0, 0) /\ BlockedWith(G, -1, 0, 0, 0, R, u)
    BY <2>4 DEF CoveredWith, BlockedWith, A, S, T, K
  <2>6. Resting(q.group[g]) = R /\ 0 + 0 + 0 >= 0
    BY <1>5 DEF R
  <2>7. Awake(q)
    BY <1>2, <1>5, <1>6, <2>5, <2>6, StaysAwake DEF u
  <2> QED
    BY <1>7, <2>7 DEF Fine
<1>8. CASE pool' \in Then({RemoveConnectJob(q, g, k, 1) :
                             k \in {kind \in JobKinds : q.group[g].jobs[kind] # <<>>}},
                          CheckForStalledSocketGroups)
  <2> HIDE DEF q
  <2>1. PICK k \in JobKinds :
           /\ q.group[g].jobs[k] # <<>>
           /\ pool' \in CheckForStalledSocketGroups(RemoveConnectJob(q, g, k, 1))
    BY <1>8 DEF Then
  <2>2. 1 \in DOMAIN q.group[g].jobs[k]
    <3>1. q.group[g].jobs[k] \in Seq(Nat)
      BY <1>4, GoodTypes, GroupFields
    <3> QED
      BY <2>1, <3>1
  <2> DEFINE r == RemoveConnectJob(q, g, k, 1)
  <2>3. Good(r, {}, {}, {})
    BY <1>4, <2>2, RemoveJobGood
  <2>4. /\ \E s \in Int, t \in Int : JobGone(s, t) /\ Changed(q, r, g, 0, s, t, 0)
        /\ Resting(r.group[g]) = Resting(q.group[g])
    BY <1>4, <2>2, JobGoneChanges
  <2>5. pool' \in CheckForStalledSocketGroups(r)
    BY <2>1
  <2> HIDE DEF r
  <2>6. PICK s \in Int, t \in Int : JobGone(s, t) /\ Changed(q, r, g, 0, s, t, 0)
    BY <2>4
  <2>7. Changed(pool, r, g, -1 + 0, 0 + s, 0 + t, 0 + 0)
    BY <1>2, <1>5, <1>6, <2>6, ChangedTwice
  <2>8. Changed(pool, r, g, -1, s, t, 0)
    BY <2>7
  <2>9. s + t + 0 = -1
    BY <2>6 DEF JobGone
  <2>10. AwakeBut(r, g)
    BY <1>2, <1>5, <1>6, <2>4, <2>6, <2>8, <2>9, LosesOne
  <2> QED
    BY <2>3, <2>5, <2>10, CheckAwakens
<1> QED
  BY <1>1, <1>7, <1>8

\* The backup timer of a group counts nothing.
LEMMA TimerAwake ==
    ASSUME NEW p \in Shape, Awake(p), NEW g \in Groups, NEW backup
    PROVE  Awake(SetTimer(p, g, backup))
<1> DEFINE q == SetTimer(p, g, backup)
<1>1. InUse(q) = InUse(p)
  BY DEF SetTimer, InUse, Shape
<1>2. \A x \in Groups : p.group[x] \in Group
  BY DEF Shape
<1>3. ASSUME NEW x \in Groups
      PROVE  /\ q.group[x].pending = p.group[x].pending /\ q.group[x].jobs = p.group[x].jobs
             /\ q.group[x].idle = p.group[x].idle /\ q.group[x].active = p.group[x].active
  BY <1>2 DEF SetTimer, Shape, Group
<1> HIDE DEF q
<1>4. ASSUME NEW x \in Groups
      PROVE  Covered(q.group[x]) /\ Blocked(q.group[x], 0, InUse(q))
  <2>1. Covered(p.group[x]) /\ Blocked(p.group[x], 0, InUse(p))
    BY DEF Awake
  <2> QED
    BY <1>1, <1>3, <2>1 DEF Covered, Blocked, Waits, Held, Asked, Spare, Taken, Resting
<1> QED
  BY <1>4 DEF Awake, q

\* Nor does the end of its task.
LEMMA DoneAwake ==
    ASSUME NEW p \in Shape, Awake(p), NEW g \in Groups
    PROVE  Awake(Done(p, g))
<1>1. Done(p, g) = SetTimer(p, g, "none") \/ Done(p, g) = p
  BY DEF Done, SetTimer
<1> QED
  BY <1>1, TimerAwake

\* A connect job more, for a request that has one or for one that waits.
LEMMA JobAwake ==
    ASSUME NEW p, AllNumbered(p), Awake(p), NEW g \in Groups, NEW q,
           Changed(p, q, g, 0, 0, 1, 0), Resting(q.group[g]) = Resting(p.group[g])
    PROVE  Awake(q)
<1> DEFINE G == p.group[g]
           A == Asked(G)
           S == Spare(G)
           T == Taken(G)
           K == Held(G)
           R == Resting(G)
           u == InUse(p)
<1>1. /\ A \in Nat /\ S \in Nat /\ T \in Nat /\ K \in Nat /\ u \in Int
      /\ MaxSockets \in Nat /\ MaxPerGroup \in Nat
  BY NumbersOf
<1>2. Covered(G) /\ Blocked(G, 0, u)
  BY DEF Awake
<1>3. (S > 0 => A <= T) /\ (A > S + T => R = 0 /\ (K + 0 < MaxPerGroup => u >= MaxSockets))
  BY <1>2 DEF Covered, Blocked, Waits
<1> HIDE DEF A, S, T, K, R, u
<1>4. /\ S + 0 > 0 => A + 0 <= T + 1
      /\ A + 0 > S + T + 0 + 1 =>
            R = 0 /\ (K + 0 + 1 + 0 < MaxPerGroup => u + 0 + 1 + 0 >= MaxSockets)
  BY <1>1, <1>3
<1>5. CoveredWith(G, 0, 0, 1) /\ BlockedWith(G, 0, 0, 1, 0, R, u)
  BY <1>4 DEF CoveredWith, BlockedWith, A, S, T, K
<1>6. Resting(q.group[g]) = R /\ 0 \in Int /\ 1 \in Int /\ 0 + 1 + 0 >= 0
  BY DEF R
<1> QED
  BY <1>5, <1>6, StaysAwake DEF u

\* OnBackupSocketTimerFired.
LEMMA OnBackupSocketTimerFiredAwakens ==
    ASSUME IInv, Awake(pool), NoneIgnores,
           NEW g \in Groups, OnBackupSocketTimerFired(g)
    PROVE  Fine(pool')
<1> DEFINE p == [pool EXCEPT !.group[g].backup = "running"]
           G == p.group[g]
           added == AddJob(p, g, "used")
           again == [p EXCEPT !.group[g] = StartBackupSocketTimer(G)]
           last == Len(added.group[g].jobs["used"])
<1>1. Good(pool, {}, {}, {}) /\ pool \in Shape /\ pool.group[g].backup = "posted"
  BY DEF IInv, Good, OnBackupSocketTimerFired
<1>2. Good(p, {}, {}, {g}) /\ p \in Shape /\ Awake(p) /\ G.backup = "running"
  <2>1. TimerMay(pool, g, "running", {}, {g})
    BY <1>1 DEF TimerMay
  <2>2. p = SetTimer(pool, g, "running")
    BY DEF SetTimer
  <2> HIDE DEF p
  <2>3. Good(p, {}, {}, {g}) /\ p.group[g].backup = "running"
    BY <1>1, <2>1, <2>2, SetTimerGood
  <2>4. Awake(p)
    BY <1>1, <2>2, TimerAwake
  <2> QED
    BY <2>3, <2>4 DEF Good
<1>3. \/ pool' = Done(p, g)
      \/ pool' = Done(again, g)
      \/ /\ ~(ReachedMaxSocketsLimit(p) \/ ~HasAvailableSocketSlot(G))
         /\ \/ pool' = Done(added, g)
            \/ \E result \in {"ok", "error", "errorWithSocket"} :
                  pool' \in {Done(q, g) : q \in ConnectJobComplete(added, g, "used", last, result)}
  <2> USE DEF Done
  <2> HIDE DEF p, last, added
  <2> QED
    BY ConnectAssumption DEF OnBackupSocketTimerFired, p, added, last
<1> HIDE DEF p
<1>4. again = p
  BY <1>2 DEF Shape, StartBackupSocketTimer
<1>5. CASE pool' = Done(p, g) \/ pool' = Done(again, g)
  BY <1>2, <1>4, <1>5, DoneAwake DEF Fine
<1>6. CASE /\ ~(ReachedMaxSocketsLimit(p) \/ ~HasAvailableSocketSlot(G))
           /\ \/ pool' = Done(added, g)
              \/ \E result \in {"ok", "error", "errorWithSocket"} :
                    pool' \in {Done(q, g) :
                                 q \in ConnectJobComplete(added, g, "used", last, result)}
  <2>1. Room(p, g)
    <3>1. HasAvailableSocketSlot(p.group[g])
      BY <1>6
    <3>2. TotalSockets(p) < MaxSockets
      <4>1. TotalSockets(p) \in Int
        BY <1>2, GoodTypes DEF TotalSockets
      <4> QED
        BY <1>6, <4>1, LimitAssumption DEF ReachedMaxSocketsLimit
    <3> QED
      BY <3>1, <3>2, RoomFromLimits
  <2>2. p.group[g].exists
    <3>1. SoundLists(G, p.generation, g, {})
      BY <1>2 DEF Good, GroupsSound, SoundGroup
    <3> QED
      BY <1>2, <3>1, NothingInIt DEF SoundLists
  <2>3. More(g, {}, {g}, {}, {g})
    BY DEF More
  <2>4. "used" \in JobKinds /\ 1 \in Int /\ AllNumbered(p)
    BY <1>2, PoolNumbered DEF JobKinds
  <2>5. /\ Good(added, {}, {}, {g}) /\ last \in DOMAIN added.group[g].jobs["used"]
        /\ JobsGrow(p, g, "used", 1, added)
    BY <1>2, <2>1, <2>2, <2>3, <2>4, AddJobGood
  <2> HIDE DEF added, last
  <2>6. added \in Shape /\ Awake(added)
    <3>1. /\ Changed(p, added, g, 0, 0, 1, 0) /\ added \in Shape
          /\ Resting(added.group[g]) = Resting(p.group[g])
      BY <1>2, <2>4, <2>5, JobsGrowChanges
    <3> QED
      BY <1>2, <2>4, <3>1, JobAwake
  <2>7. CASE pool' = Done(added, g)
    BY <2>6, <2>7, DoneAwake DEF Fine
  <2>8. CASE \E result \in {"ok", "error", "errorWithSocket"} :
                pool' \in {Done(q, g) :
                             q \in ConnectJobComplete(added, g, "used", last, result)}
    <3>1. PICK result \in {"ok", "error", "errorWithSocket"} :
             pool' \in {Done(q, g) : q \in ConnectJobComplete(added, g, "used", last, result)}
      BY <2>8
    <3>2. PICK q \in ConnectJobComplete(added, g, "used", last, result) : pool' = Done(q, g)
      BY <3>1
    <3>3. Good(q, {}, {}, {g})
      BY <2>4, <2>5, <3>1, <3>2, ConnectJobCompleteGood
    <3>4. Fine(q)
      BY <2>4, <2>5, <2>6, <3>1, <3>2, ConnectJobCompleteAwakens
    <3> QED
      <4>1. CASE Awake(q)
        BY <3>2, <3>3, <4>1, DoneAwake DEF Good, Fine
      <4>2. CASE Told(q)
        BY <3>2, <4>2 DEF Done, Told, Fine
      <4> QED
        BY <3>4, <4>1, <4>2 DEF Fine
  <2> QED
    BY <1>6, <2>7, <2>8
<1> QED
  BY <1>3, <1>5, <1>6

\* No request is the worse when a group with nothing in it comes or goes.
LEMMA UnchangedAwake ==
    ASSUME NEW p, AllNumbered(p), Awake(p), NEW g \in Groups, NEW q,
           Changed(p, q, g, 0, 0, 0, 0), Resting(q.group[g]) = Resting(p.group[g])
    PROVE  Awake(q)
<1>1. Grew(p.group[g], q.group[g], 0, 0, 0, 0) /\ Numbers(p.group[g])
  BY DEF Changed, AllNumbered
<1>2. Keeps(p.group[g], q.group[g])
  BY <1>1 DEF Grew, Numbers, Keeps
<1>3. \A x \in Groups : Keeps(p.group[x], q.group[x])
  BY <1>2 DEF Changed
<1>4. InUse(q) = InUse(p)
  BY DEF Changed, AllNumbered
<1> QED
  BY <1>3, <1>4, KeptAwake

\* While there is room for a socket every request of a group has a job.
LEMMA RoomIsNotWaitedFor ==
    ASSUME NEW p, Good(p, {}, {}, {}), Awake(p), NEW g \in Groups,
           HasAvailableSocketSlot(p.group[g]), TotalSockets(p) < MaxSockets
    PROVE  ~Waits(p.group[g])
<1> DEFINE K == Held(p.group[g])
           R == Resting(p.group[g])
           U == InUse(p)
           n == p.idle_socket_count_
<1>1. /\ p \in Shape /\ AllNumbered(p) /\ n \in Nat /\ p.group[g] \in Group
      /\ TotalSockets(p) = U + n
  BY GoodTypes, PoolNumbered
<1>2. U \in Int /\ K \in Nat /\ R \in Nat /\ MaxSockets \in Nat /\ MaxPerGroup \in Nat
  BY <1>1, NumbersOf
<1>3. K + R < MaxPerGroup /\ U + n < MaxSockets
  BY <1>1, GroupNumbered DEF HasAvailableSocketSlot
<1>4. Waits(p.group[g]) => (K + 0 < MaxPerGroup => U >= MaxSockets)
  BY DEF Awake, Blocked
<1> HIDE DEF K, R, U, n
<1> QED
  BY <1>1, <1>2, <1>3, <1>4

\* Such a group may be given an idle socket, or a job that is left unused.
LEMMA PreconnectedAwake ==
    ASSUME NEW p, AllNumbered(p), Awake(p), NEW g \in Groups, ~Waits(p.group[g]), NEW s \in Nat,
           NEW q, Changed(p, q, g, 0, s, 0, 0)
    PROVE  Awake(q)
<1> DEFINE G == p.group[g]
           A == Asked(G)
           S == Spare(G)
           T == Taken(G)
           n == Resting(q.group[g])
           u == InUse(p)
<1>1. A \in Nat /\ S \in Nat /\ T \in Nat
  BY NumbersOf
<1>2. (S > 0 => A <= T) /\ ~(A > S + T)
  BY DEF Awake, Covered, Waits
<1> HIDE DEF A, S, T, n, u
<1>3. (S + s > 0 => A + 0 <= T + 0) /\ ~(A + 0 > S + T + s + 0)
  BY <1>1, <1>2
<1>4. CoveredWith(G, 0, s, 0) /\ BlockedWith(G, 0, s, 0, 0, n, u)
  BY <1>3 DEF CoveredWith, BlockedWith, A, S, T
<1>5. 0 \in Int /\ s \in Int /\ s + 0 + 0 >= 0
  OBVIOUS
<1> QED
  BY <1>4, <1>5, StaysAwake DEF n, u

\* The last part of RequestSocketInternal, for a preconnect.
LEMMA PreconnectConnects ==
    ASSUME NEW p, Good(p, {}, {}, {}), Awake(p), NEW g \in Groups, p.group[g].exists,
           HasAvailableSocketSlot(p.group[g]), TotalSockets(p) < MaxSockets,
           NEW end \in Connect(p, g, None)
    PROVE  Awake(end.pool)
<1> DEFINE given == AddIdleSocket(p, g, p.generation)
           added == AddJob(p, g, "unused")
           tidy == RemoveIfEmpty(p, g)
<1>1. end.pool \in {given, added, tidy}
  <2>1. PICK result \in ConnectResults :
          end = CASE result = "ok" -> [pool |-> given, rv |-> "ok"]
                  [] result = "pending" -> [pool |-> added, rv |-> "pending"]
                  [] OTHER -> [pool |-> tidy, rv |-> "error"]
    BY DEF Connect
  <2> HIDE DEF given, added, tidy
  <2> QED
    BY <2>1
<1>2. p \in Shape /\ AllNumbered(p) /\ p.generation \in Nat /\ ~Waits(p.group[g])
  BY PoolNumbered, GoodTypes, RoomIsNotWaitedFor
<1>3. Awake(given)
  <2>1. Changed(p, given, g, 0, 0, 0, 0)
    BY <1>2, AddIdleChanges
  <2> HIDE DEF given
  <2> QED
    BY <1>2, <2>1, PreconnectedAwake
<1>4. Awake(added)
  <2>1. "unused" \in JobKinds /\ More(g, {}, {}, {}, {}) /\ ~(g \in {}) /\ 1 \in Int /\ 1 \in Nat
    BY DEF JobKinds, More
  <2>2. Room(p, g)
    BY RoomFromLimits
  <2>3. JobsGrow(p, g, "unused", 1, added)
    BY <2>1, <2>2, AddJobGood
  <2> HIDE DEF added
  <2>4. Changed(p, added, g, 0, 1, 0, 0)
    BY <1>2, <2>1, <2>3, JobsGrowChanges
  <2> QED
    BY <1>2, <2>1, <2>4, PreconnectedAwake
<1>5. Awake(tidy)
  <2>1. Changed(p, tidy, g, 0, 0, 0, 0) /\ Resting(tidy.group[g]) = Resting(p.group[g])
    BY <1>2, TidyChanges
  <2> HIDE DEF tidy
  <2> QED
    BY <1>2, <2>1, UnchangedAwake
<1> QED
  BY <1>1, <1>3, <1>4, <1>5

\* RequestSocketInternal, for a preconnect.
LEMMA PreconnectAwakens ==
    ASSUME NEW p, Good(p, {}, {}, {}), Awake(p), NoneIgnores, NEW g \in Groups,
           NEW end \in RequestSocketInternal(p, g, None, FALSE)
    PROVE  Awake(end.pool)
<1> DEFINE z == GetOrCreateGroup(p, g)
           elsewhere == CloseOneIdleSocket(z, {g})
<1>1. end \in RequestNewSocket(z, g, None, FALSE)
  BY DEF RequestSocketInternal
<1>2. Good(z, {}, {}, {}) /\ z.group[g].exists
  BY OpenedGood
<1>3. Awake(z)
  <2>1. Changed(p, z, g, 0, 0, 0, 0) /\ Resting(z.group[g]) = Resting(p.group[g])
    BY OpenedChanges
  <2>2. AllNumbered(p)
    BY PoolNumbered DEF Good
  <2> HIDE DEF z
  <2> QED
    BY <2>1, <2>2, UnchangedAwake
<1> HIDE DEF z
<1>4. z \in Shape /\ AllNumbered(z)
  BY <1>2, PoolNumbered DEF Good
<1>5. \/ end.pool = z
      \/ /\ HasAvailableSocketSlot(z.group[g]) /\ ~ReachedMaxSocketsLimit(z)
         /\ end \in Connect(z, g, None)
      \/ /\ HasAvailableSocketSlot(z.group[g])
         /\ \E q \in elsewhere : end \in Connect(q, g, None)
  BY <1>1 DEF RequestNewSocket
<1>6. CASE /\ HasAvailableSocketSlot(z.group[g]) /\ ~ReachedMaxSocketsLimit(z)
           /\ end \in Connect(z, g, None)
  <2>1. TotalSockets(z) < MaxSockets
    <3>1. TotalSockets(z) \in Int
      BY <1>2, GoodTypes DEF TotalSockets
    <3> QED
      BY <1>6, <3>1, LimitAssumption DEF ReachedMaxSocketsLimit
  <2> QED
    BY <1>2, <1>3, <1>6, <2>1, PreconnectConnects
<1>7. CASE /\ HasAvailableSocketSlot(z.group[g])
           /\ \E q \in elsewhere : end \in Connect(q, g, None)
  <2>1. PICK q \in elsewhere : end \in Connect(q, g, None)
    BY <1>7
  <2>2. Good(q, {}, {}, {}) /\ TotalSockets(q) < MaxSockets /\ q.group[g] = z.group[g]
    BY <1>2, <2>1, CloseOneGood
  <2>3. InUse(q) = InUse(z) /\ \A x \in Groups : Keeps(z.group[x], q.group[x])
    BY <1>4, <2>1, CloseOneChanges
  <2>4. Awake(q)
    BY <1>3, <1>4, <2>3, KeptAwake
  <2> QED
    BY <1>2, <1>7, <2>1, <2>2, <2>4, PreconnectConnects
<1> QED
  BY <1>3, <1>5, <1>6, <1>7

\* The rounds of a preconnect forget nobody.
LEMMA RoundsAwake ==
    ASSUME NEW g \in Groups, NEW n, NEW k \in Nat, NEW E, NEW f, Rounds(f, k, E, g, n),
           NoneIgnores, \A e \in E : Good(e.pool, {}, {}, {}) /\ Awake(e.pool), NEW end \in f[k]
    PROVE  Awake(end.pool)
<1> DEFINE T == {m \in Nat : m \in 0..k => \A e \in f[m] : Good(e.pool, {}, {}, {})
                                                             /\ Awake(e.pool)}
<1>1. 0 \in T
  BY DEF Rounds
<1>2. ASSUME NEW m \in Nat, m \in T
      PROVE  m + 1 \in T
  <2>1. SUFFICES ASSUME m + 1 \in 0..k, NEW e \in f[m + 1]
                 PROVE  Good(e.pool, {}, {}, {}) /\ Awake(e.pool)
    OBVIOUS
  <2>2. m \in 0..k /\ m + 1 # 0 /\ m + 1 - 1 = m
    BY <2>1
  <2>3. f[m + 1] = NextRound(f[m], g, n)
    <3> DEFINE i == m + 1
    <3>1. i \in 0..k /\ i # 0 /\ i - 1 = m
      BY <2>1, <2>2
    <3> HIDE DEF i
    <3>2. f[i] = NextRound(f[i - 1], g, n)
      BY <3>1 DEF Rounds
    <3> QED
      BY <3>1, <3>2 DEF i
  <2>4. PICK d \in f[m] : e \in Round(d, g, n)
    BY <2>1, <2>3 DEF NextRound
  <2>5. Good(d.pool, {}, {}, {}) /\ Awake(d.pool)
    BY <1>2, <2>2, <2>4
  <2>6. e = d \/ e \in RequestSocketInternal(d.pool, g, None, FALSE)
    BY <2>4 DEF Round
  <2> QED
    BY <2>4, <2>5, <2>6, RoundGood, PreconnectAwakens
<1> HIDE DEF T
<1>3. k \in T
  BY <1>1, <1>2, AllNumbers
<1> QED
  BY <1>3 DEF T

\* RequestSockets.
LEMMA RequestSocketsAwakens ==
    ASSUME IInv, Awake(pool), NoneIgnores, NEW g \in Groups, NEW n \in Nat, RequestSockets(g, n)
    PROVE  Awake(pool')
<1> DEFINE z == GetOrCreateGroup(pool, g)
           E == {[pool |-> z, rv |-> "ok"]}
           ends == CHOOSE f : Rounds(f, n, E, g, n)
<1>1. Rounds(ends, n, E, g, n)
  BY RoundsDefined
<1>2. pool' \in {RemoveIfEmpty(e.pool, g) : e \in ends[n]}
  BY DEF RequestSockets, Rounds, NextRound, Round
<1>3. Good(z, {}, {}, {}) /\ Awake(z)
  <2>1. Good(z, {}, {}, {})
    BY OpenedGood DEF IInv
  <2>2. Changed(pool, z, g, 0, 0, 0, 0) /\ Resting(z.group[g]) = Resting(pool.group[g])
    BY OpenedChanges DEF IInv
  <2>3. AllNumbered(pool)
    BY PoolNumbered DEF IInv, Good
  <2> HIDE DEF z
  <2> QED
    BY <2>1, <2>2, <2>3, UnchangedAwake
<1> HIDE DEF z
<1>4. \A e \in E : Good(e.pool, {}, {}, {}) /\ Awake(e.pool)
  BY <1>3
<1> HIDE DEF ends, E
<1>5. PICK e \in ends[n] : pool' = RemoveIfEmpty(e.pool, g)
  BY <1>2
<1>6. Good(e.pool, {}, {}, {}) /\ Awake(e.pool)
  BY <1>1, <1>4, <1>5, RoundsGood, RoundsAwake
<1>7. e.pool \in Shape /\ AllNumbered(e.pool)
  BY <1>6, PoolNumbered DEF Good
<1>8. /\ Changed(e.pool, pool', g, 0, 0, 0, 0)
      /\ Resting(pool'.group[g]) = Resting(e.pool.group[g])
  BY <1>5, <1>7, TidyChanges
<1> QED
  BY <1>6, <1>7, <1>8, UnchangedAwake

\* Flush: nobody is left to wait.
LEMMA FlushAwakens ==
    ASSUME IInv, Flush
    PROVE  Awake(pool')
<1>1. Good(pool', {}, {}, {}) /\ QueuesGone(pool')
  BY FlushKeeps DEF IInv
<1>2. \A x \in Groups : pool'.group[x] \in Group /\ pool'.group[x].pending = <<>>
  BY <1>1, GoodTypes DEF QueuesGone
<1> QED
  BY <1>2, EmptyAwake

\* A group that is closed had nothing in it.
LEMMA TidyAwake ==
    ASSUME NEW p \in Shape, Awake(p)
    PROVE  Awake(Tidy(p))
<1> DEFINE q == Tidy(p)
<1>1. /\ \A x \in Groups : q.group[x] = IF IsEmpty(p.group[x]) THEN NoGroup ELSE p.group[x]
      /\ q.handed_out_socket_count_ = p.handed_out_socket_count_
      /\ q.connecting_socket_count_ = p.connecting_socket_count_
  BY TidyFields DEF Shape
<1> HIDE DEF q
<1>2. InUse(q) = InUse(p)
  BY <1>1 DEF InUse
<1>3. ASSUME NEW x \in Groups
      PROVE  Covered(q.group[x]) /\ Blocked(q.group[x], 0, InUse(q))
  <2>1. CASE q.group[x] = NoGroup
    <3>1. NoGroup \in Group /\ NoGroup.pending = <<>>
      BY NothingInIt
    <3>2. Numbers(NoGroup) /\ Asked(NoGroup) = 0
      BY <3>1, GroupNumbered
    <3>3. Covered(NoGroup) /\ ~Waits(NoGroup)
      BY <3>2 DEF Numbers, Covered, Waits
    <3> QED
      BY <2>1, <3>3 DEF Blocked
  <2>2. CASE q.group[x] = p.group[x]
    BY <1>2, <2>2 DEF Awake
  <2> QED
    BY <1>1, <2>1, <2>2
<1> QED
  BY <1>3 DEF Awake, q

\* CleanupIdleSockets.
LEMMA CleanupAwakens ==
    ASSUME NEW p, Good(p, {}, {}, {}), Awake(p), NEW keep, KeepsSome(p, keep)
    PROVE  Awake(CleanupIdleSockets(p, keep))
<1> DEFINE q == Cleaned(p, keep)
           X == [g \in Groups |-> KeepIdle(p, g, keep[g]).group[g]]
<1>1. p \in Shape /\ AllNumbered(p) /\ q \in Shape
  BY PoolNumbered, CleanedGood DEF Good
<1>2. q = [p EXCEPT !.group = X,
                    !.idle_socket_count_ = SumOver([g \in Groups |-> Cardinality(keep[g])])]
  BY DEF Cleaned
<1> HIDE DEF q
<1>3. /\ q.group = X /\ q.handed_out_socket_count_ = p.handed_out_socket_count_
      /\ q.connecting_socket_count_ = p.connecting_socket_count_
  <2> HIDE DEF X
  <2> QED
    BY <1>1, <1>2 DEF Shape
<1>4. InUse(q) = InUse(p)
  BY <1>3 DEF InUse
<1>5. ASSUME NEW x \in Groups
      PROVE  Keeps(p.group[x], q.group[x])
  <2> DEFINE G == q.group[x]
             k == keep[x]
  <2>1. G = KeepIdle(p, x, k).group[x] /\ k \in SUBSET (1..Len(p.group[x].idle))
    BY <1>3 DEF KeepsSome
  <2> HIDE DEF G, k
  <2>2. /\ G \in Group /\ G.pending = p.group[x].pending /\ G.active = p.group[x].active
        /\ G.jobs = p.group[x].jobs /\ Len(G.idle) \in 0..Len(p.group[x].idle)
    BY <2>1, KeepsFields
  <2>3. Len(p.group[x].idle) \in Nat
    BY <1>1 DEF AllNumbered, Numbers, Resting
  <2> QED
    BY <2>2, <2>3 DEF Keeps, Asked, Spare, Taken, Resting, G
<1>6. Awake(q)
  BY <1>1, <1>4, <1>5, KeptAwake
<1>7. CleanupIdleSockets(p, keep) = p \/ CleanupIdleSockets(p, keep) = Tidy(q)
  BY DEF CleanupIdleSockets, Cleaned, q
<1> QED
  BY <1>1, <1>6, <1>7, TidyAwake

\* CloseIdleSockets and OnCleanupTimerFired.
LEMMA IdleCleanupAwakens ==
    ASSUME IInv, Awake(pool), CloseIdleSockets \/ OnCleanupTimerFired
    PROVE  Awake(pool')
<1>1. Good(pool, {}, {}, {})
  BY DEF IInv
<1>2. CASE CloseIdleSockets
  <2> DEFINE none == [g \in Groups |-> {}]
  <2>1. KeepsSome(pool, none) /\ pool' = CleanupIdleSockets(pool, none)
    BY <1>2 DEF KeepsSome, CloseIdleSockets
  <2> HIDE DEF none
  <2> QED
    BY <1>1, <2>1, CleanupAwakens
<1>3. CASE OnCleanupTimerFired
  <2>1. PICK keep \in [Groups -> SUBSET (1..MaxSockets)] :
           /\ \A g \in Groups : keep[g] \subseteq DOMAIN pool.group[g].idle
           /\ pool' = CleanupIdleSockets(pool, keep)
    BY <1>3 DEF OnCleanupTimerFired
  <2>2. \A g \in Groups : DOMAIN pool.group[g].idle = 1..Len(pool.group[g].idle)
    <3>1. \A g \in Groups : pool.group[g].idle \in Seq(Nat)
      BY <1>1, GoodTypes, GroupFields
    <3> QED
      BY <3>1
  <2>3. KeepsSome(pool, keep)
    BY <2>1, <2>2 DEF KeepsSome
  <2> QED
    BY <1>1, <2>1, <2>3, CleanupAwakens
<1> QED
  BY <1>2, <1>3

\* At first there are no requests.
LEMMA InitAwake ==
    ASSUME Init
    PROVE  Awake(pool)
<1>1. \A x \in Groups : pool.group[x] = NoGroup
  BY DEF Init
<1>2. NoGroup \in Group /\ NoGroup.pending = <<>>
  BY NothingInIt
<1> QED
  BY <1>1, <1>2, EmptyAwake

\* From a pool that is awake every step leads to one that is, or the history says why not.
LEMMA NextAwakens ==
    ASSUME IInv, Awake(pool), NoneIgnores, [Next]_pool
    PROVE  Fine(pool')
<1>1. CASE UNCHANGED pool
  BY <1>1 DEF Fine
<1>2. ASSUME NEW h \in Handles,
             \/ \E g \in Groups, k \in Kinds : RequestSocket(h, g, k)
             \/ ReleaseSocket(h) \/ CancelCallback(h) \/ CancelRequest(h)
             \/ InvokeUserCallback(h)
      PROVE  Fine(pool')
  BY <1>2, RequestSocketAwakens, ReleaseSocketAwakens, CancelCallbackAwakens,
     CancelRequestAwakens, InvokeUserCallbackAwakens DEF Fine
<1>3. ASSUME NEW g \in Groups,
             \/ \E n \in 1..MaxPerGroup : RequestSockets(g, n)
             \/ OnConnectJobComplete(g) \/ OnBackupSocketTimerFired(g)
      PROVE  Fine(pool')
  <2>1. 1..MaxPerGroup \subseteq Nat
    BY LimitAssumption
  <2> QED
    BY <1>3, <2>1, RequestSocketsAwakens, OnConnectJobCompleteAwakens,
       OnBackupSocketTimerFiredAwakens DEF Fine
<1>4. CASE Flush
  BY <1>4, FlushAwakens DEF Fine
<1>5. CASE CloseIdleSockets \/ OnCleanupTimerFired
  BY <1>5, IdleCleanupAwakens DEF Fine
<1> QED
  BY <1>1, <1>2, <1>3, <1>4, <1>5 DEF Next

\* client_socket_pool_base.cc, CheckForStalledSocketGroups: at most one stalled group is
\* woken, and yet "there is no starvation".  While a request is queued some job or some
\* user's socket is still to end, and will wake it, whatever jobs fail and whenever, unless
\* one of those woken failed to connect at once while others waited: that wake-up is lost,
\* and wakeFailed, which WakeupDue excepts, says that it happened.  Nothing is assumed of
\* what connecting returns; a request that ignores the limits can break the chain.
THEOREM NobodyIsForgotten ==
    ASSUME NoneIgnores
    PROVE  Spec => []WakeupDue
<1> DEFINE WInv == IInv /\ Fine(pool)
<1>1. Init => WInv
  BY InitGood, InitAwake DEF Fine
<1>2. ASSUME WInv, [Next]_pool
      PROVE  WInv'
  <2>1. CASE Awake(pool)
    BY <1>2, <2>1, NextKeeps, NextAwakens DEF Fine
  <2>2. CASE Told(pool) /\ ~Awake(pool)
    <3>1. ~NoneQueued
      BY <1>2, <2>2, GoodTypes, EmptyAwake DEF NoneQueued, IInv
    <3> QED
      BY <1>2, <2>2, <3>1, NextKeeps, NextTold DEF Fine
  <2> QED
    BY <1>2, <2>1, <2>2 DEF Fine
<1>3. ASSUME WInv
      PROVE  WakeupDue
  <2> DEFINE n == pool.connecting_socket_count_
             m == pool.handed_out_socket_count_
             jobs == [g \in Groups |-> NumJobs(pool.group[g])]
             active == [g \in Groups |-> pool.group[g].active]
  <2> SUFFICES ASSUME NEW g \in Groups, pool.group[g].pending # <<>>, ~(n + m > 0), Awake(pool)
               PROVE  FALSE
    BY <1>3 DEF WakeupDue, NoneQueued, SlotsInUse, Fine, Told
  <2>1. /\ Good(pool, {}, {}, {}) /\ n \in Nat /\ m \in Nat
        /\ \A x \in Groups : pool.group[x] \in Group
    BY <1>3, GoodTypes DEF IInv
  <2>2. n = SumOver(jobs) /\ m = SumOver(active)
    BY <2>1 DEF Good, Counted
  <2>3. jobs \in [Groups -> Nat] /\ active \in [Groups -> Nat]
    BY <2>1, GroupNumbers
  <2> HIDE DEF n, m
  <2>4. n = 0 /\ m = 0
    BY <2>1
  <2>5. NumJobs(pool.group[g]) = 0 /\ pool.group[g].active = 0
    <3> HIDE DEF jobs, active
    <3>1. jobs[g] = 0 /\ active[g] = 0
      BY <2>2, <2>3, <2>4, SumZero
    <3> QED
      BY <3>1 DEF jobs, active
  <2> DEFINE G == pool.group[g]
  <2>6. G \in Group /\ G.pending # <<>> /\ G.active = 0 /\ NumJobs(G) = 0
    BY <2>1, <2>5
  <2>7. InUse(pool) = 0
    BY <2>4 DEF InUse, n, m
  <2>8. Blocked(G, 0, 0)
    BY <2>7 DEF Awake
  <2> HIDE DEF G
  <2>9. /\ Numbers(G) /\ Spare(G) + Taken(G) = 0 /\ Asked(G) # 0
    BY <2>6, GroupNumbered
  <2>10. Waits(G) /\ Held(G) = 0
    BY <2>6, <2>9 DEF Numbers, Waits, Held
  <2>11. 0 + 0 < MaxPerGroup => 0 >= MaxSockets
    BY <2>8, <2>10 DEF Blocked
  <2> QED
    BY <2>11, LimitAssumption
<1> QED
  BY <1>1, <1>2, <1>3, PTL DEF Spec
=============================================================================
