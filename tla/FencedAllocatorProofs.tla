------------------------- MODULE FencedAllocatorProofs -------------------------
(***************************************************************************)
(* For memory of any size and any range of tokens: the blocks of a         *)
(* FencedAllocator tile the memory with no two free ones next to each      *)
(* other, in the middle of its loops too, and memory that commands still   *)
(* read is neither free nor handed out; and Alloc fails only for want of   *)
(* room (the last section).                                                *)
(*                                                                         *)
(* Every operation replaces a few blocks in a row by one or two others     *)
(* that cover the same memory, so what a replacement keeps is proved once  *)
(* (SpliceTiling), and applied to a block that is freed (FreedFacts) and   *)
(* to one that is put in use (AllocInBlockFacts).                          *)
(*                                                                         *)
(* What a command still reads is tied to the block that waits for its      *)
(* token, and the tokens in the stream rise above those executed.          *)
(***************************************************************************)
EXTENDS FencedAllocator, SequenceTheorems, TLAPS, WellFoundedInduction

-----------------------------------------------------------------------------
(* Rows of blocks                                                          *)

EndOf(b) == b.offset + b.size

\* Blocks in a row.  That there is a byte at least in each of the blocks between two
\* is what bounds their number by the size of the memory.
Row(bs) ==
    /\ Len(bs) >= 1
    /\ \A i \in 1..Len(bs) : bs[i].size > 0
    /\ \A i \in 1..(Len(bs) - 1) : bs[i + 1].offset = EndOf(bs[i])
    /\ \A i, j \in 1..Len(bs) : i < j => EndOf(bs[i]) + (j - i - 1) <= bs[j].offset

Covers(bs, from, to) == bs[1].offset = from /\ EndOf(bs[Len(bs)]) = to

FreeApart(bs) ==
    \A i \in 1..(Len(bs) - 1) : bs[i].state = "FREE" => bs[i + 1].state # "FREE"

Tiling(bs) == Row(bs) /\ Covers(bs, 0, Size) /\ FreeApart(bs)

-----------------------------------------------------------------------------
(* Replacing blocks                                                        *)

\* Blocks a to b of bs replaced by the blocks of mid.
Splice(bs, a, b, mid) ==
    SubSeq(bs, 1, a - 1) \o mid \o SubSeq(bs, b + 1, Len(bs))

\* Of the n blocks of bs those from a to b give way to the m blocks of mid, which
\* makes the len blocks of cs.
PartsOf(cs, len, bs, n, mid, m, a, b) ==
    /\ n \in Nat /\ m \in Nat /\ len \in Nat /\ a \in Nat /\ b \in Nat
    /\ 1 <= a /\ a <= b /\ b <= n /\ m >= 1 /\ len = n - (b - a + 1) + m
    /\ \A j \in 1..(a - 1) : cs[j] = bs[j]
    /\ \A j \in a..(a + m - 1) : cs[j] = mid[j - (a - 1)]
    /\ \A j \in (a + m)..len : cs[j] = bs[j - m + (b - a + 1)]

\* What is where when t is p, q and r joined.
Joins(t, p, q, r) ==
    /\ Len(t) = Len(p) + Len(q) + Len(r)
    /\ \A j \in 1..Len(p) : t[j] = p[j]
    /\ \A j \in (Len(p) + 1)..(Len(p) + Len(q)) : t[j] = q[j - Len(p)]
    /\ \A j \in (Len(p) + Len(q) + 1)..(Len(p) + Len(q) + Len(r)) :
          t[j] = r[j - (Len(p) + Len(q))]

\* Three sequences joined, element by element.
LEMMA Joined ==
    ASSUME NEW S, NEW p \in Seq(S), NEW q \in Seq(S), NEW r \in Seq(S)
    PROVE  p \o q \o r \in Seq(S) /\ Joins(p \o q \o r, p, q, r)
<1> DEFINE h == p \o q
           t == h \o r
           np == Len(p)
           nq == Len(q)
           nr == Len(r)
<1>1. np \in Nat /\ nq \in Nat /\ nr \in Nat
  OBVIOUS
<1>2. /\ h \in Seq(S) /\ Len(h) = np + nq
      /\ \A j \in 1..(np + nq) : h[j] = IF j <= np THEN p[j] ELSE q[j - np]
  BY ConcatProperties
<1>3. /\ t \in Seq(S) /\ Len(t) = Len(h) + nr
      /\ \A j \in 1..(Len(h) + nr) : t[j] = IF j <= Len(h) THEN h[j] ELSE r[j - Len(h)]
  <2>1. h \in Seq(S)
    BY <1>2
  <2> HIDE DEF h
  <2> QED
    BY <2>1, ConcatProperties
<1> HIDE DEF t, h, np, nq, nr
<1>4. ASSUME NEW j \in 1..np
      PROVE  t[j] = p[j]
  <2>1. j \in 1..(Len(h) + nr) /\ j <= Len(h) /\ j \in 1..(np + nq) /\ j <= np
    BY <1>1, <1>2
  <2> QED
    BY <2>1, <1>2, <1>3
<1>5. ASSUME NEW j \in (np + 1)..(np + nq)
      PROVE  t[j] = q[j - np]
  <2>1. j \in 1..(Len(h) + nr) /\ j <= Len(h) /\ j \in 1..(np + nq) /\ ~(j <= np)
    BY <1>1, <1>2
  <2> QED
    BY <2>1, <1>2, <1>3
<1>6. ASSUME NEW j \in (np + nq + 1)..(np + nq + nr)
      PROVE  t[j] = r[j - (np + nq)]
  <2>1. j \in 1..(Len(h) + nr) /\ ~(j <= Len(h))
    BY <1>1, <1>2
  <2> QED
    BY <2>1, <1>2, <1>3
<1>7. t \in Seq(S) /\ Len(t) = np + nq + nr
  BY <1>1, <1>2, <1>3
<1>8. Len(t) = np + nq + nr
  BY <1>7
<1>9. t = p \o q \o r /\ np = Len(p) /\ nq = Len(q) /\ nr = Len(r)
  BY DEF t, h, np, nq, nr
<1>10. Joins(t, p, q, r)
  BY <1>4, <1>5, <1>6, <1>8, <1>9 DEF Joins
<1> QED
  BY <1>7, <1>9, <1>10

\* The front of a sequence and its back.
LEMMA FrontAndBack ==
    ASSUME NEW S, NEW s \in Seq(S), NEW a \in 1..Len(s), NEW b \in a..Len(s)
    PROVE  /\ SubSeq(s, 1, a - 1) \in Seq(S) /\ Len(SubSeq(s, 1, a - 1)) = a - 1
           /\ \A j \in 1..(a - 1) : SubSeq(s, 1, a - 1)[j] = s[j]
           /\ SubSeq(s, b + 1, Len(s)) \in Seq(S) /\ Len(SubSeq(s, b + 1, Len(s))) = Len(s) - b
           /\ \A j \in 1..(Len(s) - b) : SubSeq(s, b + 1, Len(s))[j] = s[b + j]
<1> DEFINE front == SubSeq(s, 1, a - 1)
           back == SubSeq(s, b + 1, Len(s))
<1>1. /\ front \in Seq(S) /\ Len(front) = a - 1
      /\ \A j \in 1..(a - 1) : front[j] = s[j]
  OBVIOUS
<1>2. /\ back \in Seq(S) /\ Len(back) = Len(s) - b
      /\ \A j \in 1..(Len(s) - b) : back[j] = s[b + j]
  OBVIOUS
<1> QED
  BY <1>1, <1>2

\* Where the blocks are after a replacement.
LEMMA SpliceFacts ==
    ASSUME NEW bs \in Seq(Block), NEW a \in 1..Len(bs), NEW b \in a..Len(bs),
           NEW mid \in Seq(Block), Len(mid) >= 1
    PROVE  LET cs == Splice(bs, a, b, mid) IN
           cs \in Seq(Block) /\ PartsOf(cs, Len(cs), bs, Len(bs), mid, Len(mid), a, b)
<1> DEFINE front == SubSeq(bs, 1, a - 1)
           back == SubSeq(bs, b + 1, Len(bs))
           n == Len(bs)
           m == Len(mid)
           cs == front \o mid \o back
           len == Len(cs)
<1>1. /\ n \in Nat /\ m \in Nat /\ a \in Nat /\ b \in Nat
      /\ 1 <= a /\ a <= b /\ b <= n /\ m >= 1
  OBVIOUS
<1>2. /\ front \in Seq(Block) /\ Len(front) = a - 1
      /\ \A j \in 1..(a - 1) : front[j] = bs[j]
      /\ back \in Seq(Block) /\ Len(back) = n - b
      /\ \A j \in 1..(n - b) : back[j] = bs[b + j]
  BY FrontAndBack
<1>3. Splice(bs, a, b, mid) = cs
  BY DEF Splice
<1>4. /\ cs \in Seq(Block) /\ len = Len(front) + m + Len(back)
      /\ \A j \in 1..Len(front) : cs[j] = front[j]
      /\ \A j \in (Len(front) + 1)..(Len(front) + m) : cs[j] = mid[j - Len(front)]
      /\ \A j \in (Len(front) + m + 1)..(Len(front) + m + Len(back)) :
            cs[j] = back[j - (Len(front) + m)]
  <2>1. front \in Seq(Block) /\ back \in Seq(Block)
    BY <1>2
  <2> HIDE DEF front, back
  <2>2. cs \in Seq(Block) /\ Joins(cs, front, mid, back)
    BY <2>1, Joined
  <2> HIDE DEF cs
  <2> QED
    BY <2>2 DEF Joins
<1> HIDE DEF cs, front, back, n, m, len
<1>5. len = n - (b - a + 1) + m /\ len \in Nat
  <2>1. len = (a - 1) + m + (n - b)
    BY <1>2, <1>4
  <2> QED
    BY <2>1, <1>1
<1>6. ASSUME NEW j \in 1..(a - 1)
      PROVE  cs[j] = bs[j]
  BY <1>2, <1>4
<1>7. ASSUME NEW j \in a..(a + m - 1)
      PROVE  cs[j] = mid[j - (a - 1)]
  <2>1. j \in (a - 1 + 1)..(a - 1 + m)
    BY <1>1
  <2> QED
    BY <2>1, <1>2, <1>4
<1>8. ASSUME NEW j \in (a + m)..len
      PROVE  cs[j] = bs[j - m + (b - a + 1)]
  <2>1. /\ j \in (a - 1 + m + 1)..(a - 1 + m + (n - b))
        /\ j - (a - 1 + m) \in 1..(n - b)
        /\ b + (j - (a - 1 + m)) = j - m + (b - a + 1)
    BY <1>1, <1>5
  <2>2. cs[j] = back[j - (a - 1 + m)]
    BY <2>1, <1>2, <1>4
  <2>3. back[j - (a - 1 + m)] = bs[b + (j - (a - 1 + m))]
    BY <2>1, <1>2
  <2> QED
    BY <2>1, <2>2, <2>3
<1>9. PartsOf(cs, len, bs, n, mid, m, a, b)
  BY <1>1, <1>5, <1>6, <1>7, <1>8 DEF PartsOf
<1> QED
  BY <1>3, <1>4, <1>9 DEF len, n, m

\* What Row says of the first n blocks, and of numbers.
RowOf(bs, n) ==
    /\ \A i \in 1..n : /\ bs[i].offset \in Nat /\ bs[i].size \in Nat \ {0}
                       /\ EndOf(bs[i]) \in Nat
    /\ \A i \in 1..(n - 1) : bs[i + 1].offset = EndOf(bs[i])
    /\ \A i, j \in 1..n : i < j => EndOf(bs[i]) + (j - i - 1) <= bs[j].offset

\* What is in a row is as long as it has blocks, at least.
LEMMA RowIsLong ==
    ASSUME NEW bs, NEW n \in Nat, n >= 1, RowOf(bs, n)
    PROVE  bs[1].offset + n <= EndOf(bs[n])
<1>1. 1 \in 1..n /\ n \in 1..n
  OBVIOUS
<1>2. /\ bs[1].offset \in Nat /\ bs[1].size \in Nat \ {0}
      /\ bs[n].offset \in Nat /\ bs[n].size \in Nat \ {0}
  BY <1>1 DEF RowOf
<1>3. CASE n = 1
  BY <1>2, <1>3 DEF EndOf
<1>4. CASE n > 1
  <2>1. EndOf(bs[1]) + (n - 1 - 1) <= bs[n].offset
    BY <1>1, <1>4 DEF RowOf
  <2> QED
    BY <2>1, <1>2 DEF EndOf
<1> QED
  BY <1>3, <1>4

\* The blocks of a row, with their numbers natural.
LEMMA RowIsRowOf ==
    ASSUME NEW bs \in Seq(Block), Row(bs)
    PROVE  RowOf(bs, Len(bs)) /\ Len(bs) \in Nat /\ Len(bs) >= 1
<1>1. \A i \in 1..Len(bs) : bs[i] \in Block
  OBVIOUS
<1>2. ASSUME NEW i \in 1..Len(bs)
      PROVE  /\ bs[i].offset \in Nat /\ bs[i].size \in Nat \ {0}
             /\ EndOf(bs[i]) \in Nat
  <2>1. bs[i].offset \in 0..Size /\ bs[i].size \in 0..Size /\ bs[i].size > 0
    BY <1>1 DEF Block, Row
  <2> QED
    BY <2>1, FenceAssumption DEF EndOf
<1>3. Len(bs) \in Nat /\ Len(bs) >= 1
  BY DEF Row
<1>4. /\ \A i \in 1..(Len(bs) - 1) : bs[i + 1].offset = EndOf(bs[i])
      /\ \A i, j \in 1..Len(bs) : i < j => EndOf(bs[i]) + (j - i - 1) <= bs[j].offset
  BY DEF Row
<1> QED
  BY <1>2, <1>3, <1>4 DEF RowOf

\* A row of blocks replaced by a row over the same memory gives a row.
LEMMA RowOfParts ==
    ASSUME NEW bs, NEW mid, NEW cs, NEW n, NEW m, NEW len, NEW a, NEW b,
           RowOf(bs, n), RowOf(mid, m), PartsOf(cs, len, bs, n, mid, m, a, b),
           mid[1].offset = bs[a].offset, EndOf(mid[m]) = EndOf(bs[b])
    PROVE  /\ len >= 1 /\ RowOf(cs, len)
           /\ cs[1].offset = bs[1].offset
           /\ EndOf(cs[len]) = EndOf(bs[n])
<1> DEFINE d == b - a + 1
           Old(j) == j - m + d
<1>1. /\ \A j \in 1..(a - 1) : cs[j] = bs[j]
      /\ \A j \in a..(a + m - 1) : cs[j] = mid[j - (a - 1)]
      /\ \A j \in (a + m)..len : cs[j] = bs[Old(j)]
  BY DEF PartsOf
<1>2. /\ n \in Nat /\ a \in Nat /\ b \in Nat /\ 1 <= a /\ a <= b /\ b <= n
      /\ m \in Nat /\ m >= 1 /\ d \in Nat /\ len \in Nat /\ len >= 1 /\ len = n - d + m
  BY DEF PartsOf
<1>3. \A i \in 1..n : /\ bs[i].offset \in Nat /\ bs[i].size \in Nat \ {0}
                      /\ EndOf(bs[i]) \in Nat
  BY DEF RowOf
<1>4. /\ \A i \in 1..m : /\ mid[i].offset \in Nat /\ mid[i].size \in Nat \ {0}
                         /\ EndOf(mid[i]) \in Nat
      /\ mid[1].offset + m <= EndOf(mid[m])
      /\ mid[1].offset = bs[a].offset /\ EndOf(mid[m]) = EndOf(bs[b])
  BY <1>2, RowIsLong DEF RowOf
<1>5. ASSUME NEW i \in 1..n, NEW j \in 1..n, i < j
      PROVE  EndOf(bs[i]) + (j - i - 1) <= bs[j].offset
  BY <1>5 DEF RowOf
<1>6. ASSUME NEW i \in 1..m, NEW j \in 1..m, i < j
      PROVE  EndOf(mid[i]) + (j - i - 1) <= mid[j].offset
  BY <1>6 DEF RowOf
\* A block of mid, seen from both ends of what it is part of.
<1>7. ASSUME NEW i \in 1..m
      PROVE  /\ bs[a].offset + (i - 1) <= mid[i].offset
             /\ EndOf(mid[i]) + (m - i) <= EndOf(bs[b])
  <2>1. bs[a].offset + (i - 1) <= mid[i].offset
    <3>1. CASE i = 1
      BY <3>1, <1>2, <1>3, <1>4
    <3>2. CASE i > 1
      <4>1. EndOf(mid[1]) + (i - 1 - 1) <= mid[i].offset
        BY <3>2, <1>2, <1>6
      <4> QED
        BY <4>1, <3>2, <1>2, <1>3, <1>4 DEF EndOf
    <3> QED
      BY <3>1, <3>2
  <2>2. EndOf(mid[i]) + (m - i) <= EndOf(bs[b])
    <3>1. CASE i = m
      BY <3>1, <1>2, <1>3, <1>4
    <3>2. CASE i < m
      <4>1. EndOf(mid[i]) + (m - i - 1) <= mid[m].offset
        BY <3>2, <1>2, <1>6
      <4>2. /\ mid[m].offset \in Nat /\ mid[m].size \in Nat \ {0}
            /\ EndOf(mid[i]) \in Nat /\ EndOf(mid[m]) = EndOf(bs[b])
        BY <1>2, <1>4
      <4>3. mid[m].offset + 1 <= EndOf(mid[m])
        BY <4>2 DEF EndOf
      <4>4. mid[m].offset + 1 <= EndOf(bs[b])
        BY <4>2, <4>3
      <4> DEFINE e == EndOf(mid[i])
                 o == mid[m].offset
                 f == EndOf(bs[b])
      <4>5. e \in Int /\ o \in Int /\ f \in Int /\ i \in Int /\ m \in Int
        BY <4>2, <1>2, <1>3
      <4>6. e + (m - i - 1) <= o /\ o + 1 <= f
        BY <4>1, <4>4
      <4> HIDE DEF e, o, f
      <4>7. e + (m - i) <= f
        BY <4>5, <4>6
      <4> QED
        BY <4>7 DEF e, f
    <3> QED
      BY <3>1, <3>2, <1>2
  <2> QED
    BY <2>1, <2>2
<1>8. ASSUME NEW j \in (a + m)..len
      PROVE  /\ Old(j) \in 1..n /\ Old(j) > b
             /\ cs[j] = bs[Old(j)]
             /\ EndOf(bs[b]) + (Old(j) - b - 1) <= bs[Old(j)].offset
             /\ Old(j) - b = j - (a + m - 1)
  <2>1. Old(j) \in 1..n /\ Old(j) > b /\ Old(j) - b = j - (a + m - 1)
    BY <1>1, <1>2
  <2> QED
    BY <2>1, <1>1, <1>2, <1>5
<1>9. ASSUME NEW j \in a..(a + m - 1)
      PROVE  /\ j - (a - 1) \in 1..m /\ cs[j] = mid[j - (a - 1)]
  BY <1>1, <1>2
<1>10. ASSUME NEW j \in 1..(a - 1)
       PROVE  /\ j \in 1..n /\ cs[j] = bs[j]
              /\ EndOf(bs[j]) + (a - j - 1) <= bs[a].offset
  BY <1>1, <1>2, <1>5
<1>11. \A j \in 1..len : \/ j \in 1..(a - 1)
                             \/ j \in a..(a + m - 1)
                             \/ j \in (a + m)..len
  BY <1>2
<1>12. ASSUME NEW j \in 1..len
       PROVE  /\ cs[j].offset \in Nat /\ cs[j].size \in Nat \ {0}
              /\ EndOf(cs[j]) \in Nat
  BY <1>2, <1>3, <1>4, <1>8, <1>9, <1>10, <1>11
<1>13. ASSUME NEW i \in 1..(len - 1)
       PROVE  cs[i + 1].offset = EndOf(cs[i])
  <2>1. \A k \in 1..(n - 1) : bs[k + 1].offset = EndOf(bs[k])
    BY DEF RowOf
  <2>2. \A k \in 1..(m - 1) : mid[k + 1].offset = EndOf(mid[k])
    BY DEF RowOf
  <2>3. CASE i + 1 \in 1..(a - 1)
    <3>1. i \in 1..(a - 1) /\ i \in 1..(n - 1)
      BY <2>3, <1>2
    <3> QED
      BY <3>1, <2>1, <2>3, <1>10
  <2>4. CASE i + 1 = a
    <3>1. i \in 1..(a - 1) /\ i \in 1..(n - 1) /\ a \in a..(a + m - 1) /\ a - (a - 1) = 1
      BY <2>4, <1>2
    <3>2. cs[a] = mid[1]
      BY <3>1, <1>9
    <3>3. cs[i] = bs[i] /\ bs[i + 1].offset = EndOf(bs[i])
      BY <3>1, <2>1, <1>10
    <3> QED
      BY <2>4, <3>2, <3>3, <1>4
  <2>5. CASE i + 1 \in (a + 1)..(a + m - 1)
    <3>1. i \in a..(a + m - 1) /\ i - (a - 1) \in 1..(m - 1)
          /\ (i + 1) - (a - 1) = (i - (a - 1)) + 1 /\ i + 1 \in a..(a + m - 1)
      BY <2>5, <1>2
    <3> QED
      BY <3>1, <2>2, <1>9
  <2>6. CASE i + 1 = a + m
    <3>1. i \in a..(a + m - 1) /\ i - (a - 1) = m /\ i + 1 \in (a + m)..len
          /\ Old(i + 1) = b + 1
      BY <2>6, <1>2
    <3>2. cs[i] = mid[m] /\ cs[i + 1] = bs[b + 1] /\ b + 1 \in 1..n
      BY <3>1, <1>8, <1>9
    <3>3. b \in 1..(n - 1)
      BY <3>2, <1>2
    <3> QED
      BY <3>2, <3>3, <2>1, <1>4
  <2>7. CASE i + 1 > a + m
    <3>1. /\ i \in (a + m)..len /\ i + 1 \in (a + m)..len
          /\ Old(i + 1) = Old(i) + 1
      BY <2>7, <1>2
    <3>2. cs[i] = bs[Old(i)] /\ cs[i + 1] = bs[Old(i) + 1]
      BY <3>1, <1>8
    <3>3. Old(i) \in 1..(n - 1)
      BY <3>1, <1>2, <1>8
    <3> QED
      BY <3>2, <3>3, <2>1
  <2>8. \/ i + 1 \in 1..(a - 1) \/ i + 1 = a \/ i + 1 \in (a + 1)..(a + m - 1)
        \/ i + 1 = a + m \/ i + 1 > a + m
    BY <1>2
  <2> QED
    BY <2>3, <2>4, <2>5, <2>6, <2>7, <2>8
<1>14. ASSUME NEW i \in 1..len, NEW j \in 1..len, i < j
       PROVE  EndOf(cs[i]) + (j - i - 1) <= cs[j].offset
  <2>1. CASE j \in 1..(a - 1)
    <3>1. i \in 1..(a - 1)
      BY <2>1, <1>2, <1>14
    <3> QED
      BY <2>1, <3>1, <1>5, <1>10, <1>14
  <2>2. CASE j \in a..(a + m - 1)
    <3> DEFINE q == j - (a - 1)
    <3>1. q \in 1..m /\ cs[j] = mid[q]
      BY <2>2, <1>9
    <3>2. CASE i \in 1..(a - 1)
      <4>1. /\ cs[i] = bs[i] /\ EndOf(bs[i]) + (a - i - 1) <= bs[a].offset
            /\ bs[a].offset + (q - 1) <= mid[q].offset
        BY <3>1, <3>2, <1>7, <1>10
      <4>2. i \in 1..n /\ a \in 1..n
        BY <3>2, <1>2
      <4> QED
        BY <4>1, <4>2, <3>1, <1>2, <1>3, <1>4
    <3>3. CASE i \in a..(a + m - 1)
      <4>1. i - (a - 1) \in 1..m /\ cs[i] = mid[i - (a - 1)]
        BY <3>3, <1>9
      <4>2. i - (a - 1) < q /\ q - (i - (a - 1)) - 1 = j - i - 1
        BY <1>2, <1>14
      <4> QED
        BY <3>1, <4>1, <4>2, <1>6
    <3> QED
      BY <2>2, <3>2, <3>3, <1>2, <1>14
  <2>3. CASE j \in (a + m)..len
    <3> DEFINE q == Old(j)
    <3>1. /\ q \in 1..n /\ cs[j] = bs[q] /\ q - b = j - (a + m - 1)
          /\ EndOf(bs[b]) + (q - b - 1) <= bs[q].offset
      BY <2>3, <1>8
    <3>2. CASE i \in 1..(a - 1)
      <4>1. /\ cs[i] = bs[i] /\ EndOf(bs[i]) + (a - i - 1) <= bs[a].offset
        BY <3>2, <1>10
      <4>2. i \in 1..n /\ a \in 1..n /\ b \in 1..n
        BY <3>2, <1>2
      <4>3. bs[a].offset + m <= EndOf(bs[b])
        BY <1>4
      <4>4. /\ EndOf(bs[i]) \in Nat /\ bs[a].offset \in Nat /\ EndOf(bs[b]) \in Nat
            /\ bs[q].offset \in Nat
        BY <4>2, <3>1, <1>3
      <4>5. /\ EndOf(cs[i]) + (a - i - 1) <= bs[a].offset
            /\ EndOf(bs[b]) + (j - (a + m - 1) - 1) <= cs[j].offset
            /\ EndOf(cs[i]) \in Nat /\ cs[j].offset \in Nat
        BY <4>1, <4>4, <3>1
      <4> HIDE DEF q
      <4> QED
        BY <4>3, <4>4, <4>5, <1>2
    <3>3. CASE i \in a..(a + m - 1)
      <4>1. i - (a - 1) \in 1..m /\ cs[i] = mid[i - (a - 1)]
        BY <3>3, <1>9
      <4>2. EndOf(mid[i - (a - 1)]) + (m - (i - (a - 1))) <= EndOf(bs[b])
        BY <4>1, <1>7
      <4>3. /\ EndOf(mid[i - (a - 1)]) \in Nat /\ EndOf(bs[b]) \in Nat /\ bs[q].offset \in Nat
        <5>1. b \in 1..n
          BY <1>2
        <5> HIDE DEF q
        <5> QED
          BY <5>1, <4>1, <3>1, <1>3, <1>4
      <4>4. /\ EndOf(cs[i]) + (m - (i - (a - 1))) <= EndOf(bs[b])
            /\ EndOf(bs[b]) + (j - (a + m - 1) - 1) <= cs[j].offset
            /\ EndOf(cs[i]) \in Nat /\ cs[j].offset \in Nat
        BY <4>1, <4>2, <4>3, <3>1
      <4> HIDE DEF q
      <4> QED
        BY <4>3, <4>4, <1>2
    <3>4. CASE i \in (a + m)..len
      <4>1. Old(i) \in 1..n /\ cs[i] = bs[Old(i)]
        BY <3>4, <1>8
      <4>2. Old(i) < q /\ q - Old(i) - 1 = j - i - 1
        BY <1>2, <1>14
      <4> QED
        BY <3>1, <4>1, <4>2, <1>5
    <3> QED
      BY <3>2, <3>3, <3>4, <1>11
  <2> QED
    BY <2>1, <2>2, <2>3, <1>11
<1>15. cs[1].offset = bs[1].offset
  <2>1. CASE a = 1
    <3>1. 1 \in a..(a + m - 1) /\ 1 - (a - 1) = 1
      BY <2>1, <1>2
    <3> QED
      BY <3>1, <2>1, <1>4, <1>9
  <2>2. CASE a > 1
    <3>1. 1 \in 1..(a - 1)
      BY <2>2, <1>2
    <3> QED
      BY <3>1, <1>10
  <2> QED
    BY <2>1, <2>2, <1>2
<1>16. EndOf(cs[len]) = EndOf(bs[n])
  <2>1. CASE b = n
    <3>1. len = a + m - 1 /\ len \in a..(a + m - 1) /\ len - (a - 1) = m
      BY <2>1, <1>1, <1>2
    <3> QED
      BY <3>1, <2>1, <1>4, <1>9
  <2>2. CASE b < n
    <3>1. len \in (a + m)..len /\ Old(len) = n
      BY <2>2, <1>1, <1>2
    <3> QED
      BY <3>1, <1>8
  <2> QED
    BY <2>1, <2>2, <1>2
<1> QED
  BY <1>2, <1>12, <1>13, <1>14, <1>15, <1>16 DEF RowOf

\* Blocks in a row that cover what they replace leave a row that covers the same.
LEMMA SpliceRow ==
    ASSUME NEW bs \in Seq(Block), NEW a \in 1..Len(bs), NEW b \in a..Len(bs),
           NEW mid \in Seq(Block), Row(bs), Row(mid),
           Covers(mid, bs[a].offset, EndOf(bs[b]))
    PROVE  LET cs == Splice(bs, a, b, mid)
           IN Row(cs) /\ Covers(cs, bs[1].offset, EndOf(bs[Len(bs)]))
<1> DEFINE cs == Splice(bs, a, b, mid)
           m == Len(mid)
           n == Len(bs)
           len == Len(cs)
<1>1. PartsOf(cs, len, bs, n, mid, m, a, b)
  <2>1. Len(mid) >= 1
    BY DEF Row
  <2> QED
    BY <2>1, SpliceFacts
<1>2. RowOf(bs, n) /\ RowOf(mid, m)
  BY RowIsRowOf
<1>3. mid[1].offset = bs[a].offset /\ EndOf(mid[m]) = EndOf(bs[b])
  BY DEF Covers
<1> HIDE DEF cs, m, n, len
<1>6. /\ len >= 1 /\ RowOf(cs, len)
      /\ cs[1].offset = bs[1].offset
      /\ EndOf(cs[len]) = EndOf(bs[n])
  BY <1>1, <1>2, <1>3, RowOfParts
<1>7. \A i \in 1..len : cs[i].size > 0
  BY <1>6 DEF RowOf
<1> QED
  BY <1>6, <1>7 DEF Row, RowOf, Covers, cs, n, len

\* Every block of a tiling lies in the memory, and there are no more of them than bytes.
LEMMA TilingBounds ==
    ASSUME NEW bs \in Seq(Block), Tiling(bs)
    PROVE  /\ Len(bs) \in 1..Size
           /\ \A i \in 1..Len(bs) : /\ bs[i] \in Block /\ bs[i].offset \in Nat
                                    /\ bs[i].size \in Nat \ {0} /\ EndOf(bs[i]) <= Size
<1> DEFINE n == Len(bs)
<1>1. RowOf(bs, n) /\ n \in Nat /\ n >= 1
  BY RowIsRowOf DEF Tiling
<1>2. bs[1].offset = 0 /\ EndOf(bs[n]) = Size
  BY DEF Tiling, Covers
<1>3. \A i \in 1..n : bs[i] \in Block
  OBVIOUS
<1> HIDE DEF n
<1>4. Size \in Nat
  BY FenceAssumption
<1>5. n <= Size
  BY <1>1, <1>2, <1>4, RowIsLong
<1>6. ASSUME NEW i \in 1..n
      PROVE  bs[i].offset \in Nat /\ bs[i].size \in Nat \ {0} /\ EndOf(bs[i]) <= Size
  <2>1. bs[i].offset \in Nat /\ bs[i].size \in Nat \ {0} /\ EndOf(bs[i]) \in Nat
    BY <1>1 DEF RowOf
  <2>2. CASE i = n
    BY <2>1, <2>2, <1>2, <1>4
  <2>3. CASE i < n
    <3>1. EndOf(bs[i]) + (n - i - 1) <= bs[n].offset
      <4>1. n \in 1..n
        BY <1>1
      <4>2. \A p, q \in 1..n : p < q => EndOf(bs[p]) + (q - p - 1) <= bs[q].offset
        BY <1>1 DEF RowOf
      <4> QED
        BY <4>1, <4>2, <2>3
    <3>2. bs[n].offset \in Nat /\ bs[n].size \in Nat \ {0} /\ bs[n].offset + bs[n].size = Size
      BY <1>1, <1>2 DEF RowOf, EndOf
    <3> DEFINE e == EndOf(bs[i])
               o == bs[n].offset
               z == bs[n].size
    <3>3. /\ e \in Int /\ o \in Int /\ z \in Int /\ z > 0 /\ o + z = Size
          /\ e + (n - i - 1) <= o
      BY <2>1, <3>1, <3>2
    <3> HIDE DEF e, o, z
    <3>4. e <= Size
      BY <3>3, <2>3, <1>1, <1>4
    <3> QED
      BY <3>4, <2>1 DEF e
  <2> QED
    BY <2>2, <2>3, <1>1
<1> QED
  BY <1>1, <1>3, <1>4, <1>5, <1>6 DEF n

\* A replacement that puts no two free blocks next to each other keeps the tiling,
\* and the blocks around it.
LEMMA SpliceTiling ==
    ASSUME NEW bs \in Seq(Block), Tiling(bs),
           NEW a \in 1..Len(bs), NEW b \in a..Len(bs),
           NEW mid \in Seq(Block), Row(mid), FreeApart(mid),
           Covers(mid, bs[a].offset, EndOf(bs[b])),
           a > 1 => bs[a - 1].state # "FREE" \/ mid[1].state # "FREE",
           b < Len(bs) => mid[Len(mid)].state # "FREE" \/ bs[b + 1].state # "FREE"
    PROVE  LET cs == Splice(bs, a, b, mid) IN
           /\ cs \in Seq(Block) /\ Tiling(cs)
           /\ a \in 1..Len(cs) /\ cs[a] = mid[1]
           /\ \A j \in 1..Len(bs) : j < a \/ j > b => \E k \in 1..Len(cs) : cs[k] = bs[j]
<1> DEFINE cs == Splice(bs, a, b, mid)
           n == Len(bs)
           m == Len(mid)
           len == Len(cs)
           d == b - a + 1
<1>1. cs \in Seq(Block) /\ PartsOf(cs, len, bs, n, mid, m, a, b)
  <2>1. Len(mid) >= 1
    BY DEF Row
  <2> QED
    BY <2>1, SpliceFacts
<1>2. Row(cs) /\ Covers(cs, 0, Size)
  <2>1. bs[1].offset = 0 /\ EndOf(bs[Len(bs)]) = Size /\ Row(bs)
    BY DEF Tiling, Covers
  <2>2. Row(cs) /\ Covers(cs, bs[1].offset, EndOf(bs[Len(bs)]))
    BY <2>1, SpliceRow
  <2> QED
    BY <2>1, <2>2
<1>3. /\ \A j \in 1..(n - 1) : bs[j].state = "FREE" => bs[j + 1].state # "FREE"
      /\ \A j \in 1..(m - 1) : mid[j].state = "FREE" => mid[j + 1].state # "FREE"
  BY DEF Tiling, FreeApart
<1>4. /\ a > 1 => bs[a - 1].state # "FREE" \/ mid[1].state # "FREE"
      /\ b < n => mid[m].state # "FREE" \/ bs[b + 1].state # "FREE"
  OBVIOUS
<1> HIDE DEF cs, n, m, len
<1>5. /\ n \in Nat /\ m \in Nat /\ len \in Nat /\ a \in Nat /\ b \in Nat /\ d \in Nat
      /\ 1 <= a /\ a <= b /\ b <= n /\ m >= 1 /\ len = n - d + m
  BY <1>1 DEF PartsOf
<1>6. /\ \A j \in 1..(a - 1) : cs[j] = bs[j]
      /\ \A j \in a..(a + m - 1) : cs[j] = mid[j - (a - 1)]
      /\ \A j \in (a + m)..len : cs[j] = bs[j - m + d]
  BY <1>1 DEF PartsOf
<1>7. ASSUME NEW i \in 1..(len - 1), cs[i].state = "FREE"
      PROVE  cs[i + 1].state # "FREE"
  <2>1. CASE i + 1 <= a - 1
    <3>1. i \in 1..(a - 1) /\ i + 1 \in 1..(a - 1) /\ i \in 1..(n - 1)
      BY <2>1, <1>5
    <3> QED
      BY <3>1, <1>3, <1>6, <1>7
  <2>2. CASE i = a - 1
    <3>1. i \in 1..(a - 1) /\ i + 1 \in a..(a + m - 1) /\ (i + 1) - (a - 1) = 1 /\ a > 1
      BY <2>2, <1>5
    <3>2. cs[i] = bs[a - 1] /\ cs[i + 1] = mid[1]
      BY <3>1, <2>2, <1>6
    <3> QED
      BY <3>1, <3>2, <1>4, <1>7
  <2>3. CASE a <= i /\ i + 1 <= a + m - 1
    <3>1. /\ i \in a..(a + m - 1) /\ i + 1 \in a..(a + m - 1)
          /\ i - (a - 1) \in 1..(m - 1) /\ (i + 1) - (a - 1) = (i - (a - 1)) + 1
      BY <2>3, <1>5
    <3> QED
      BY <3>1, <1>3, <1>6, <1>7
  <2>4. CASE i = a + m - 1
    <3>1. /\ i \in a..(a + m - 1) /\ i + 1 \in (a + m)..len /\ i - (a - 1) = m
          /\ (i + 1) - m + d = b + 1 /\ b < n
      BY <2>4, <1>5
    <3>2. cs[i] = mid[m] /\ cs[i + 1] = bs[b + 1]
      BY <3>1, <1>6
    <3> QED
      BY <3>1, <3>2, <1>4, <1>7
  <2>5. CASE a + m <= i
    <3>1. /\ i \in (a + m)..len /\ i + 1 \in (a + m)..len
          /\ i - m + d \in 1..(n - 1) /\ (i + 1) - m + d = (i - m + d) + 1
      BY <2>5, <1>5
    <3>2. cs[i] = bs[i - m + d] /\ cs[i + 1] = bs[(i + 1) - m + d]
      BY <3>1, <1>6
    <3>3. cs[i + 1] = bs[(i - m + d) + 1]
      BY <3>1, <3>2
    <3> QED
      BY <3>1, <3>2, <3>3, <1>3, <1>7
  <2>6. \/ i + 1 <= a - 1 \/ i = a - 1 \/ (a <= i /\ i + 1 <= a + m - 1)
        \/ i = a + m - 1 \/ a + m <= i
    BY <1>5
  <2> QED
    BY <2>1, <2>2, <2>3, <2>4, <2>5, <2>6
<1>8. Tiling(cs)
  BY <1>2, <1>7 DEF Tiling, FreeApart, len
<1>9. a \in 1..len /\ cs[a] = mid[1]
  <2>1. a \in 1..len /\ a \in a..(a + m - 1) /\ a - (a - 1) = 1
    BY <1>5
  <2> QED
    BY <2>1, <1>6
<1>10. ASSUME NEW j \in 1..n, j < a \/ j > b
       PROVE  \E k \in 1..len : cs[k] = bs[j]
  <2>1. CASE j < a
    <3>1. j \in 1..(a - 1) /\ j \in 1..len
      BY <2>1, <1>5
    <3> QED
      BY <3>1, <1>6
  <2>2. CASE j > b
    <3> DEFINE k == j + m - d
    <3>1. k \in (a + m)..len /\ k \in 1..len /\ k - m + d = j
      BY <2>2, <1>5
    <3> HIDE DEF k
    <3> QED
      BY <3>1, <1>6
  <2> QED
    BY <1>10, <2>1, <2>2
<1> QED
  BY <1>1, <1>8, <1>9, <1>10 DEF cs, len, n

\* One block is a row.
LEMMA OneBlock ==
    ASSUME NEW c \in Block, c.size > 0
    PROVE  /\ <<c>> \in Seq(Block) /\ Len(<<c>>) = 1 /\ <<c>>[1] = c
           /\ Row(<<c>>) /\ FreeApart(<<c>>) /\ Covers(<<c>>, c.offset, EndOf(c))
<1> DEFINE mid == <<c>>
<1>1. mid \in Seq(Block) /\ Len(mid) = 1 /\ mid[1] = c
  OBVIOUS
<1> HIDE DEF mid
<1>2. Row(mid) /\ FreeApart(mid) /\ Covers(mid, c.offset, EndOf(c))
  BY <1>1 DEF Row, FreeApart, Covers
<1> QED
  BY <1>1, <1>2 DEF mid

\* So are two blocks of which the second begins where the first, in use, ends.
LEMMA TwoBlocks ==
    ASSUME NEW c \in Block, NEW e \in Block, c.size > 0, e.size > 0,
           e.offset = EndOf(c), c.state # "FREE"
    PROVE  /\ <<c, e>> \in Seq(Block) /\ Len(<<c, e>>) = 2
           /\ <<c, e>>[1] = c /\ <<c, e>>[2] = e
           /\ Row(<<c, e>>) /\ FreeApart(<<c, e>>) /\ Covers(<<c, e>>, c.offset, EndOf(e))
<1> DEFINE mid == <<c, e>>
<1>1. mid \in Seq(Block) /\ Len(mid) = 2 /\ mid[1] = c /\ mid[2] = e
  OBVIOUS
<1> HIDE DEF mid
<1>2. EndOf(c) \in Nat
  BY FenceAssumption DEF Block, EndOf
<1>3. Row(mid)
  <2>1. \A i \in 1..2 : mid[i].size > 0
    BY <1>1
  <2>2. \A i \in 1..(2 - 1) : mid[i + 1].offset = EndOf(mid[i])
    BY <1>1
  <2>3. \A i, j \in 1..2 : i < j => EndOf(mid[i]) + (j - i - 1) <= mid[j].offset
    <3> SUFFICES ASSUME NEW i \in 1..2, NEW j \in 1..2, i < j
                 PROVE  EndOf(mid[i]) + (j - i - 1) <= mid[j].offset
      OBVIOUS
    <3>1. i = 1 /\ j = 2 /\ j - i - 1 = 0
      OBVIOUS
    <3> QED
      BY <3>1, <1>1, <1>2
  <2> QED
    BY <2>1, <2>2, <2>3, <1>1 DEF Row
<1>4. FreeApart(mid) /\ Covers(mid, c.offset, EndOf(e))
  BY <1>1 DEF FreeApart, Covers
<1> QED
  BY <1>1, <1>3, <1>4 DEF mid

\* A block that is freed is joined with those around it, and the others stay.
LEMMA FreedFacts ==
    ASSUME NEW bs \in Seq(Block), Tiling(bs), NEW i \in 1..Len(bs), bs[i].state # "FREE"
    PROVE  LET cs == Freed(bs, i)
               f == FirstJoined(bs, i)
           IN /\ cs \in Seq(Block) /\ Tiling(cs)
              /\ f \in 1..i /\ f \in 1..Len(cs) /\ cs[f].state = "FREE"
              /\ \A j \in 1..Len(bs) : j # i /\ bs[j].state # "FREE" =>
                    \E k \in 1..Len(cs) : cs[k] = bs[j]
              /\ f = i \/ bs[f].state = "FREE"
              /\ \A j \in 1..(f - 1) : cs[j] = bs[j]
              /\ \A j \in 1..Len(cs) : j # f => \E k \in 1..Len(bs) : cs[j] = bs[k]
<1> DEFINE f == FirstJoined(bs, i)
           l == LastJoined(bs, i)
           n == Len(bs)
           size == bs[i].size + (IF f < i THEN bs[f].size ELSE 0)
                              + (IF i < l THEN bs[l].size ELSE 0)
           fb == FreeBlock(bs[f].offset, size)
           mid == <<fb>>
           cs == Splice(bs, f, l, mid)
<1>1. Freed(bs, i) = cs
  BY DEF Freed, Splice
<1>2. n \in Nat /\ i \in 1..n /\ i \in Int
  OBVIOUS
<1>3. /\ f = i \/ (f = i - 1 /\ f \in 1..n /\ bs[f].state = "FREE")
      /\ l = i \/ (l = i + 1 /\ l \in 1..n /\ bs[l].state = "FREE")
      /\ f = i /\ i > 1 => bs[i - 1].state # "FREE"
      /\ l = i /\ i < n => bs[i + 1].state # "FREE"
  <2>1. i > 1 => i - 1 \in 1..n
    BY <1>2
  <2>2. i < n => i + 1 \in 1..n
    BY <1>2
  <2>3. i - 1 # i /\ i + 1 # i
    BY <1>2
  <2>4. /\ f = IF i - 1 \in 1..n /\ bs[i - 1].state = "FREE" THEN i - 1 ELSE i
        /\ l = IF i + 1 \in 1..n /\ bs[i + 1].state = "FREE" THEN i + 1 ELSE i
    BY DEF FirstJoined, LastJoined, IsFree
  <2> HIDE DEF f, l, n
  <2>5. /\ f = i \/ (f = i - 1 /\ f \in 1..n /\ bs[f].state = "FREE")
        /\ f = i /\ i > 1 => bs[i - 1].state # "FREE"
    BY <2>1, <2>3, <2>4
  <2>6. /\ l = i \/ (l = i + 1 /\ l \in 1..n /\ bs[l].state = "FREE")
        /\ l = i /\ i < n => bs[i + 1].state # "FREE"
    BY <2>2, <2>3, <2>4
  <2> QED
    BY <2>5, <2>6
<1>4. \A j \in 1..n : /\ bs[j] \in Block /\ bs[j].offset \in Nat
                      /\ bs[j].size \in Nat \ {0} /\ EndOf(bs[j]) <= Size
  BY TilingBounds
<1>5. \A j \in 1..(n - 1) : /\ bs[j + 1].offset = EndOf(bs[j])
                            /\ bs[j].state = "FREE" => bs[j + 1].state # "FREE"
  BY DEF Tiling, Row, FreeApart
<1> HIDE DEF f, l, n
<1>6. /\ f \in 1..n /\ l \in f..n /\ f \in 1..i /\ l \in i..n /\ f <= i /\ i <= l
      /\ f < i => f = i - 1
      /\ i < l => l = i + 1
  BY <1>2, <1>3
<1>7. bs[f].offset + size = EndOf(bs[l]) /\ size \in Nat \ {0}
  <2>1. /\ bs[i].offset \in Nat /\ bs[i].size \in Nat \ {0}
        /\ bs[f].offset \in Nat /\ bs[f].size \in Nat \ {0}
        /\ bs[l].offset \in Nat /\ bs[l].size \in Nat \ {0}
    BY <1>2, <1>4, <1>6
  <2>2. f < i => bs[f].offset + bs[f].size = bs[i].offset
    <3> SUFFICES ASSUME f < i PROVE bs[f].offset + bs[f].size = bs[i].offset
      OBVIOUS
    <3>1. f \in 1..(n - 1) /\ f + 1 = i
      BY <1>2, <1>6
    <3> QED
      BY <3>1, <1>5 DEF EndOf
  <2>3. i < l => bs[i].offset + bs[i].size = bs[l].offset
    <3> SUFFICES ASSUME i < l PROVE bs[i].offset + bs[i].size = bs[l].offset
      OBVIOUS
    <3>1. i \in 1..(n - 1) /\ i + 1 = l
      BY <1>2, <1>6
    <3> QED
      BY <3>1, <1>5 DEF EndOf
  <2>4. (f < i \/ f = i) /\ (i < l \/ l = i) /\ ~(i < i)
    BY <1>2, <1>6
  <2> DEFINE fo == bs[f].offset
             fs == bs[f].size
             io == bs[i].offset
             is == bs[i].size
             lo == bs[l].offset
             ls == bs[l].size
  <2>5. /\ fo \in Int /\ io \in Int /\ lo \in Int
        /\ fs \in Nat \ {0} /\ is \in Nat \ {0} /\ ls \in Nat \ {0}
    BY <2>1
  <2>6. /\ f < i => fo + fs = io
        /\ f = i => fo = io
        /\ i < l => io + is = lo
        /\ l = i => lo = io /\ ls = is
    BY <2>2, <2>3
  <2> HIDE DEF fo, fs, io, is, lo, ls
  <2>7. /\ fo + (is + (IF f < i THEN fs ELSE 0) + (IF i < l THEN ls ELSE 0)) = lo + ls
        /\ is + (IF f < i THEN fs ELSE 0) + (IF i < l THEN ls ELSE 0) \in Nat \ {0}
    <3>1. CASE f < i /\ i < l
      BY <2>5, <2>6, <3>1
    <3>2. CASE f < i /\ l = i
      BY <2>4, <2>5, <2>6, <3>2
    <3>3. CASE f = i /\ i < l
      BY <2>4, <2>5, <2>6, <3>3
    <3>4. CASE f = i /\ l = i
      BY <2>4, <2>5, <2>6, <3>4
    <3> QED
      BY <2>4, <3>1, <3>2, <3>3, <3>4
  <2> QED
    BY <2>7 DEF fo, fs, io, is, lo, ls, EndOf
<1>8. /\ fb \in Block /\ fb.size > 0 /\ fb.state = "FREE"
      /\ fb.offset = bs[f].offset /\ EndOf(fb) = EndOf(bs[l])
  <2>1. bs[f].offset \in Nat /\ EndOf(bs[l]) <= Size /\ Size \in Nat
    BY <1>4, <1>6, FenceAssumption
  <2> HIDE DEF size
  <2>2. bs[f].offset \in 0..Size /\ size \in 0..Size /\ size > 0
    BY <2>1, <1>7
  <2>3. 0 \in Token
    BY FenceAssumption DEF Token
  <2> QED
    BY <2>2, <2>3, <1>7 DEF FreeBlock, Block, EndOf
<1> HIDE DEF fb
<1>9. /\ mid \in Seq(Block) /\ Len(mid) = 1 /\ mid[1] = fb
      /\ Row(mid) /\ FreeApart(mid) /\ Covers(mid, bs[f].offset, EndOf(bs[l]))
  <2>1. /\ mid \in Seq(Block) /\ Len(mid) = 1 /\ mid[1] = fb
        /\ Row(mid) /\ FreeApart(mid) /\ Covers(mid, fb.offset, EndOf(fb))
    BY <1>8, OneBlock
  <2> HIDE DEF mid
  <2> QED
    BY <2>1, <1>8
<1> HIDE DEF mid
<1>10. f > 1 => bs[f - 1].state # "FREE"
  <2> SUFFICES ASSUME f > 1 PROVE bs[f - 1].state # "FREE"
    OBVIOUS
  <2>1. CASE f = i
    BY <2>1, <1>3
  <2>2. CASE f # i
    <3>1. bs[f].state = "FREE" /\ f - 1 \in 1..(n - 1) /\ (f - 1) + 1 = f
      BY <2>2, <1>2, <1>3
    <3> QED
      BY <3>1, <1>5
  <2> QED
    BY <2>1, <2>2
<1>11. l < n => bs[l + 1].state # "FREE"
  <2> SUFFICES ASSUME l < n PROVE bs[l + 1].state # "FREE"
    OBVIOUS
  <2>1. CASE l = i
    BY <2>1, <1>3
  <2>2. CASE l # i
    <3>1. bs[l].state = "FREE" /\ l \in 1..(n - 1)
      BY <2>2, <1>2, <1>3
    <3> QED
      BY <3>1, <1>5
  <2> QED
    BY <2>1, <2>2
<1>12. /\ cs \in Seq(Block) /\ Tiling(cs) /\ f \in 1..Len(cs) /\ cs[f] = fb
       /\ \A j \in 1..n : j < f \/ j > l => \E k \in 1..Len(cs) : cs[k] = bs[j]
  <2>1. /\ f \in 1..Len(bs) /\ l \in f..Len(bs)
        /\ f > 1 => bs[f - 1].state # "FREE" \/ mid[1].state # "FREE"
        /\ l < Len(bs) => mid[Len(mid)].state # "FREE" \/ bs[l + 1].state # "FREE"
    BY <1>6, <1>10, <1>11 DEF n
  <2>2. Row(mid) /\ FreeApart(mid) /\ Covers(mid, bs[f].offset, EndOf(bs[l])) /\ mid \in Seq(Block)
    BY <1>9
  <2>3. /\ cs \in Seq(Block) /\ Tiling(cs) /\ f \in 1..Len(cs) /\ cs[f] = mid[1]
        /\ \A j \in 1..Len(bs) : j < f \/ j > l => \E k \in 1..Len(cs) : cs[k] = bs[j]
    BY <2>1, <2>2, SpliceTiling
  <2>4. mid[1] = fb
    BY <1>9
  <2> HIDE DEF cs
  <2> QED
    BY <2>3, <2>4 DEF n
<1>13. PartsOf(cs, Len(cs), bs, n, mid, 1, f, l)
  <2>1. f \in 1..Len(bs) /\ l \in f..Len(bs) /\ mid \in Seq(Block) /\ Len(mid) = 1
    BY <1>6, <1>9 DEF n
  <2>2. Len(mid) >= 1
    BY <2>1
  <2>3. PartsOf(cs, Len(cs), bs, Len(bs), mid, Len(mid), f, l)
    BY <2>1, <2>2, SpliceFacts
  <2> HIDE DEF cs
  <2> QED
    BY <2>1, <2>3 DEF n
<1> HIDE DEF cs
<1>14. \A j \in 1..(f - 1) : cs[j] = bs[j]
  BY <1>13 DEF PartsOf
<1>15. ASSUME NEW j \in 1..Len(cs), j # f
       PROVE  \E k \in 1..n : cs[j] = bs[k]
  <2> DEFINE len == Len(cs)
  <2>1. /\ len \in Nat /\ len = n - (l - f + 1) + 1
        /\ \A p \in (f + 1)..len : cs[p] = bs[p - 1 + (l - f + 1)]
    BY <1>13 DEF PartsOf
  <2>2. CASE j < f
    <3>1. j \in 1..(f - 1) /\ j \in 1..n
      BY <2>2, <1>2, <1>6
    <3> QED
      BY <3>1, <1>14
  <2>3. CASE j > f
    <3> DEFINE k == j - 1 + (l - f + 1)
    <3>1. j \in (f + 1)..len /\ k \in 1..n
      BY <2>1, <2>3, <1>2, <1>6
    <3> QED
      BY <3>1, <2>1
  <2> QED
    BY <2>2, <2>3, <1>6, <1>15
<1>16. ASSUME NEW j \in 1..n, j # i, bs[j].state # "FREE"
       PROVE  \E k \in 1..Len(cs) : cs[k] = bs[j]
  <2>1. j # f /\ j # l
    BY <1>3, <1>16
  <2>2. j < f \/ j > l
    BY <2>1, <1>2, <1>6, <1>16
  <2> QED
    BY <2>2, <1>12
<1> QED
  BY <1>1, <1>3, <1>6, <1>8, <1>12, <1>14, <1>15, <1>16 DEF f, n

\* A block of which the first bytes are put in use, and the blocks around it.
LEMMA AllocInBlockFacts ==
    ASSUME NEW bs \in Seq(Block), Tiling(bs), NEW i \in 1..Len(bs), bs[i].state = "FREE",
           NEW size \in 1..Size, bs[i].size >= size
    PROVE  LET cs == AllocInBlock(bs, i, size) IN
           /\ cs \in Seq(Block) /\ Tiling(cs)
           /\ i \in 1..Len(cs) /\ cs[i].state = "IN_USE"
           /\ \A j \in 1..Len(bs) : bs[j].state # "FREE" =>
                 \E k \in 1..Len(cs) : cs[k] = bs[j]
<1> DEFINE n == Len(bs)
           used == [bs[i] EXCEPT !.state = "IN_USE", !.size = size]
           rest == FreeBlock(bs[i].offset + size, bs[i].size - size)
           mid == IF bs[i].size = size THEN <<used>> ELSE <<used, rest>>
           cs == Splice(bs, i, i, mid)
<1>1. AllocInBlock(bs, i, size) = cs
  BY DEF AllocInBlock, Splice
<1>2. /\ bs[i] \in Block /\ bs[i].offset \in Nat /\ bs[i].size \in Nat \ {0}
      /\ EndOf(bs[i]) <= Size /\ Size \in Nat \ {0}
  BY TilingBounds, FenceAssumption
<1>3. /\ used \in Block /\ used.state = "IN_USE" /\ used.size = size /\ used.size > 0
      /\ used.offset = bs[i].offset /\ EndOf(used) = bs[i].offset + size
  <2>1. size \in 0..Size /\ size > 0
    BY <1>2
  <2>2. /\ used \in Block /\ used.state = "IN_USE" /\ used.size = size
        /\ used.offset = bs[i].offset
    BY <2>1, <1>2 DEF Block
  <2> HIDE DEF used
  <2> QED
    BY <2>1, <2>2 DEF EndOf
<1>4. ASSUME bs[i].size # size
      PROVE  /\ rest \in Block /\ rest.size > 0 /\ rest.state = "FREE"
             /\ rest.offset = EndOf(used) /\ EndOf(rest) = EndOf(bs[i])
  <2> DEFINE o == bs[i].offset
             s == bs[i].size
  <2>1. o \in Nat /\ s \in Nat /\ o + s <= Size /\ s > size /\ size \in Nat \ {0}
    BY <1>2, <1>4 DEF EndOf
  <2> HIDE DEF o, s
  <2>2. /\ o + size \in 0..Size /\ s - size \in 0..Size /\ s - size > 0
        /\ (o + size) + (s - size) = o + s
    BY <2>1, <1>2
  <2>3. 0 \in Token
    BY FenceAssumption DEF Token
  <2>4. rest = [state |-> "FREE", offset |-> o + size, size |-> s - size, token |-> 0]
    BY DEF FreeBlock, o, s
  <2> HIDE DEF rest, used
  <2>5. EndOf(bs[i]) = o + s /\ EndOf(used) = o + size
    BY <1>3 DEF EndOf, o, s
  <2> QED
    BY <2>2, <2>3, <2>4, <2>5 DEF Block, EndOf
<1> HIDE DEF used, rest
<1>5. /\ mid \in Seq(Block) /\ mid[1] = used /\ Row(mid) /\ FreeApart(mid)
      /\ Covers(mid, bs[i].offset, EndOf(bs[i]))
      /\ bs[i].size # size \/ Len(mid) = 1
  <2>1. CASE bs[i].size = size
    <3>1. mid = <<used>> /\ EndOf(used) = EndOf(bs[i])
      BY <2>1, <1>3 DEF EndOf
    <3> QED
      BY <3>1, <1>3, OneBlock
  <2>2. CASE bs[i].size # size
    <3>1. mid = <<used, rest>>
      BY <2>2
    <3>2. used.state # "FREE"
      BY <1>3
    <3> QED
      BY <2>2, <3>1, <3>2, <1>3, <1>4, TwoBlocks
  <2> QED
    BY <2>1, <2>2
<1>6. \A j \in 1..(n - 1) : bs[j].state = "FREE" => bs[j + 1].state # "FREE"
  BY DEF Tiling, FreeApart
<1> HIDE DEF mid
<1>7. /\ cs \in Seq(Block) /\ Tiling(cs)
      /\ i \in 1..Len(cs) /\ cs[i] = mid[1]
      /\ \A j \in 1..n : j < i \/ j > i => \E k \in 1..Len(cs) : cs[k] = bs[j]
  <2>1. /\ i \in i..Len(bs) /\ mid[1].state # "FREE"
        /\ Row(mid) /\ FreeApart(mid) /\ Covers(mid, bs[i].offset, EndOf(bs[i]))
        /\ mid \in Seq(Block)
    BY <1>3, <1>5
  <2>2. i < Len(bs) => bs[i + 1].state # "FREE"
    <3> SUFFICES ASSUME i < Len(bs) PROVE bs[i + 1].state # "FREE"
      OBVIOUS
    <3>1. i \in 1..(n - 1)
      OBVIOUS
    <3> QED
      BY <3>1, <1>6
  <2>3. /\ i > 1 => bs[i - 1].state # "FREE" \/ mid[1].state # "FREE"
        /\ i < Len(bs) => mid[Len(mid)].state # "FREE" \/ bs[i + 1].state # "FREE"
    BY <2>1, <2>2
  <2> QED
    BY <2>1, <2>3, SpliceTiling
<1> HIDE DEF cs
<1>8. ASSUME NEW j \in 1..n, bs[j].state # "FREE"
      PROVE  \E k \in 1..Len(cs) : cs[k] = bs[j]
  <2>1. j # i
    BY <1>8
  <2>2. j < i \/ j > i
    BY <2>1
  <2> QED
    BY <2>2, <1>7
<1> QED
  BY <1>1, <1>3, <1>5, <1>7, <1>8

-----------------------------------------------------------------------------
(* The inductive invariant                                                 *)

StreamRises ==
    /\ last_token_read_ <= executed /\ executed <= token_
    /\ \A k \in 1..Len(stream) : executed < stream[k].token /\ stream[k].token <= token_
    /\ \A k, l \in 1..Len(stream) : k < l => stream[k].token < stream[l].token

Waits(b, item) ==
    /\ b.state = "FREE_PENDING_TOKEN"
    /\ b.token = item.token /\ b.offset = item.offset /\ b.size = item.size

StreamHasBlocks ==
    \A k \in 1..Len(stream) : \E i \in 1..Len(blocks_) : Waits(blocks_[i], stream[k])

Fenced == ~lost => StreamRises /\ StreamHasBlocks

IInv ==
    /\ TypeOK
    /\ Tiling(blocks_)
    /\ call = "Alloc" => want > 0
    /\ Fenced

-----------------------------------------------------------------------------
(* The steps                                                               *)

\* At first one free block is all the memory, and nothing reads it.
LEMMA InitIInv == Init => IInv
<1> SUFFICES ASSUME Init PROVE IInv
  OBVIOUS
<1>1. Size \in Nat \ {0} /\ MaxToken \in Nat \ {0}
  BY FenceAssumption
<1> DEFINE b == FreeBlock(0, Size)
<1>2. /\ b \in Block /\ b.size = Size /\ b.offset = 0 /\ EndOf(b) = Size
  BY <1>1 DEF FreeBlock, Block, Token, EndOf
<1> HIDE DEF b
<1>3. blocks_ = <<b>>
  BY DEF Init, b
<1>4. blocks_ \in Seq(Block) /\ Tiling(blocks_)
  <2>1. b.size > 0
    BY <1>1, <1>2
  <2> QED
    BY <2>1, <1>2, <1>3, OneBlock DEF Tiling
<1>5. Len(stream) = 0 /\ stream \in Seq(Command)
  BY DEF Init, FenceInit
<1>6. lost \in BOOLEAN
  BY Zenon DEF Init, FenceInit
<1>7. TypeOK
  BY <1>1, <1>4, <1>5, <1>6 DEF Init, FenceInit, TypeOK, FenceTypeOK, Token
<1>8. Fenced
  BY <1>5 DEF Init, FenceInit, Fenced, StreamRises, StreamHasBlocks
<1>9. call = "none"
  BY DEF Init
<1> QED
  BY <1>4, <1>7, <1>8, <1>9 DEF IInv

\* Only blocks whose token has not been read are waited for.
LEMMA WaitedIsNotRead ==
    ASSUME IInv, ~lost, NEW k \in 1..Len(stream), NEW i \in 1..Len(blocks_),
           Waits(blocks_[i], stream[k])
    PROVE  /\ Pending(i) /\ ~TokenAwaited(blocks_[i].token)
           /\ ~(blocks_[i].token <= last_token_read_)
<1>1. Pending(i) /\ blocks_[i].token = stream[k].token
  BY DEF Waits, Pending
<1>2. /\ token_ \in Nat /\ executed \in Nat /\ last_token_read_ \in Nat
      /\ stream \in Seq(Command)
  BY FenceAssumption DEF IInv, TypeOK, FenceTypeOK, Token
<1>3. stream[k].token \in Nat
  <2>1. stream[k] \in Command
    BY <1>2
  <2> QED
    BY <2>1, FenceAssumption DEF Command, Token
<1>4. executed < stream[k].token /\ stream[k].token <= token_ /\ last_token_read_ <= executed
  BY DEF IInv, Fenced, StreamRises
<1> DEFINE t == blocks_[i].token
<1>5. t \in Nat /\ executed < t /\ t <= token_
  BY <1>1, <1>3, <1>4
<1> HIDE DEF t
<1>6. ~(t > token_) /\ ~(last_token_read_ >= t) /\ ~(t <= last_token_read_)
  BY <1>2, <1>4, <1>5
<1> QED
  BY <1>1, <1>6 DEF TokenAwaited, t

\* Blocks that are waited for stay when the others change.
LEMMA StillFenced ==
    ASSUME IInv, UNCHANGED fenceVars,
           ~lost => \A k \in 1..Len(stream), j \in 1..Len(blocks_) :
                       Waits(blocks_[j], stream[k]) =>
                          \E i \in 1..Len(blocks_') : blocks_'[i] = blocks_[j]
    PROVE  Fenced'
<1> SUFFICES ASSUME ~lost PROVE StreamRises /\ StreamHasBlocks'
  BY DEF Fenced, StreamRises, fenceVars
<1>1. StreamRises /\ StreamHasBlocks /\ stream' = stream
  BY DEF IInv, Fenced, fenceVars
<1>2. ASSUME NEW k \in 1..Len(stream)
      PROVE  \E i \in 1..Len(blocks_') : Waits(blocks_'[i], stream[k])
  <2>1. PICK j \in 1..Len(blocks_) : Waits(blocks_[j], stream[k])
    BY <1>1 DEF StreamHasBlocks
  <2>2. PICK i \in 1..Len(blocks_') : blocks_'[i] = blocks_[j]
    BY <2>1
  <2> QED
    BY <2>1, <2>2
<1> QED
  BY <1>1, <1>2 DEF StreamHasBlocks

\* A block is freed that no command reads, in a call that goes on or not.
LEMMA FreedStep ==
    ASSUME IInv, UNCHANGED fenceVars, NEW i \in 1..Len(blocks_),
           blocks_[i].state # "FREE", blocks_' = Freed(blocks_, i),
           Pending(i) => TokenAwaited(blocks_[i].token) \/ blocks_[i].token <= last_token_read_
    PROVE  blocks_' \in Seq(Block) /\ Tiling(blocks_)' /\ Fenced'
<1>1. blocks_ \in Seq(Block) /\ Tiling(blocks_)
  BY DEF IInv, TypeOK
<1>2. /\ blocks_' \in Seq(Block) /\ Tiling(blocks_')
      /\ \A j \in 1..Len(blocks_) : j # i /\ blocks_[j].state # "FREE" =>
            \E k \in 1..Len(blocks_') : blocks_'[k] = blocks_[j]
  BY <1>1, FreedFacts
<1>3. Tiling(blocks_)'
  BY <1>2 DEF Tiling, Row, Covers, FreeApart, EndOf
<1>4. ASSUME ~lost, NEW k \in 1..Len(stream), NEW j \in 1..Len(blocks_),
             Waits(blocks_[j], stream[k])
      PROVE  \E l \in 1..Len(blocks_') : blocks_'[l] = blocks_[j]
  <2>1. Pending(j) /\ ~TokenAwaited(blocks_[j].token) /\ ~(blocks_[j].token <= last_token_read_)
    BY <1>4, WaitedIsNotRead
  <2>2. j # i /\ blocks_[j].state # "FREE"
    BY <2>1 DEF Pending
  <2> QED
    BY <2>2, <1>2
<1>5. Fenced'
  BY <1>4, StillFenced
<1> QED
  BY <1>2, <1>3, <1>5

\* What is left to show of a step that does not touch the fence.
LEMMA StepOfAllocator ==
    ASSUME IInv, UNCHANGED fenceVars,
           blocks_' \in Seq(Block), Tiling(blocks_)', Fenced',
           call' \in {"none", "Alloc", "FreeUnused", "delete", "deleted"},
           want' \in 0..Size, index' \in 1..(Size + 1),
           call' = "Alloc" => want' > 0
    PROVE  IInv'
<1>1. FenceTypeOK'
  BY DEF IInv, TypeOK, FenceTypeOK, fenceVars
<1> QED
  BY <1>1 DEF IInv, TypeOK

\* A step that leaves the blocks and the fence alone.
LEMMA SameBlocks ==
    ASSUME IInv, UNCHANGED fenceVars, UNCHANGED blocks_
    PROVE  blocks_' \in Seq(Block) /\ Tiling(blocks_)' /\ Fenced'
<1>1. blocks_' \in Seq(Block) /\ Tiling(blocks_)'
  BY DEF IInv, TypeOK, Tiling, Row, Covers, FreeApart, EndOf
<1>2. Fenced'
  BY DEF IInv, Fenced, StreamRises, StreamHasBlocks, fenceVars
<1> QED
  BY <1>1, <1>2

\* A block is put in use: it was free, and no command reads it.
LEMMA AllocatedStep ==
    ASSUME IInv, UNCHANGED fenceVars, NEW i \in 1..Len(blocks_), blocks_[i].state = "FREE",
           NEW size \in 1..Size, blocks_[i].size >= size,
           blocks_' = AllocInBlock(blocks_, i, size)
    PROVE  blocks_' \in Seq(Block) /\ Tiling(blocks_)' /\ Fenced'
<1>1. blocks_ \in Seq(Block) /\ Tiling(blocks_)
  BY DEF IInv, TypeOK
<1>2. /\ blocks_' \in Seq(Block) /\ Tiling(blocks_')
      /\ \A j \in 1..Len(blocks_) : blocks_[j].state # "FREE" =>
            \E k \in 1..Len(blocks_') : blocks_'[k] = blocks_[j]
  BY <1>1, AllocInBlockFacts
<1>3. Tiling(blocks_)'
  BY <1>2 DEF Tiling, Row, Covers, FreeApart, EndOf
<1>4. ASSUME NEW k \in 1..Len(stream), NEW j \in 1..Len(blocks_), Waits(blocks_[j], stream[k])
      PROVE  \E l \in 1..Len(blocks_') : blocks_'[l] = blocks_[j]
  <2>1. blocks_[j].state # "FREE"
    BY <1>4 DEF Waits
  <2> QED
    BY <2>1, <1>2
<1>5. Fenced'
  BY <1>4, StillFenced
<1> QED
  BY <1>2, <1>3, <1>5

\* Alloc takes a free block that is large enough, or begins its loop of waits.
LEMMA AllocStep ==
    ASSUME IInv, NEW size \in 0..Size, Alloc(size)
    PROVE  IInv'
<1> DEFINE n == IF size = 0 THEN 1 ELSE size
           fits == {i \in 1..Len(blocks_) : IsFree(blocks_, i) /\ blocks_[i].size >= n}
<1>1. n \in 1..Size /\ n \in 0..Size /\ n > 0 /\ 1 \in 1..(Size + 1)
  BY FenceAssumption
<1>2. call = "none" /\ UNCHANGED fenceVars
  BY DEF Alloc
<1>3. CASE \E i \in fits : /\ blocks_' = AllocInBlock(blocks_, i, n)
                           /\ UNCHANGED <<call, want, index>>
  <2>1. PICK i \in fits : /\ blocks_' = AllocInBlock(blocks_, i, n)
                         /\ UNCHANGED <<call, want, index>>
    BY <1>3
  <2>2. i \in 1..Len(blocks_) /\ blocks_[i].state = "FREE" /\ blocks_[i].size >= n
    BY DEF IsFree
  <2> HIDE DEF n
  <2>3. blocks_' \in Seq(Block) /\ Tiling(blocks_)' /\ Fenced'
    BY <1>1, <1>2, <2>1, <2>2, AllocatedStep
  <2>4. /\ call' = "none" /\ want' \in 0..Size /\ index' \in 1..(Size + 1)
    BY <1>2, <2>1 DEF IInv, TypeOK
  <2> QED
    BY <1>2, <2>3, <2>4, StepOfAllocator
<1>4. CASE call' = "Alloc" /\ want' = n /\ index' = 1 /\ UNCHANGED blocks_
  <2> HIDE DEF n
  <2>1. blocks_' \in Seq(Block) /\ Tiling(blocks_)' /\ Fenced'
    BY <1>2, <1>4, SameBlocks
  <2> QED
    BY <1>1, <1>2, <1>4, <2>1, StepOfAllocator
<1> QED
  BY <1>3, <1>4 DEF Alloc

\* A call begins, goes on to the next block, or ends.
LEMMA QuietStep ==
    ASSUME IInv, SkipBlock \/ FreeUnused \/ LoopEnds \/ Delete
    PROVE  IInv'
<1>1. UNCHANGED fenceVars /\ UNCHANGED blocks_
  BY DEF SkipBlock, FreeUnused, LoopEnds, Delete
<1>2. blocks_' \in Seq(Block) /\ Tiling(blocks_)' /\ Fenced'
  BY <1>1, SameBlocks
<1>3. /\ call' \in {"none", "Alloc", "FreeUnused", "delete", "deleted"}
      /\ want' \in 0..Size /\ (call' = "Alloc" => want' > 0)
  BY FenceAssumption DEF IInv, TypeOK, SkipBlock, FreeUnused, LoopEnds, Delete
<1>4. index' \in 1..(Size + 1)
  <2>1. CASE SkipBlock
    <3>1. index' = index + 1 /\ index <= Len(blocks_)
      BY <2>1 DEF SkipBlock, Scanning
    <3>2. Len(blocks_) \in 1..Size
      BY TilingBounds DEF IInv, TypeOK
    <3> QED
      BY <3>1, <3>2, FenceAssumption DEF IInv, TypeOK
  <2>2. CASE FreeUnused \/ LoopEnds \/ Delete
    <3>1. index' = 1
      BY <2>2 DEF FreeUnused, LoopEnds, Delete
    <3> QED
      BY <3>1, FenceAssumption
  <2> QED
    BY <2>1, <2>2
<1> QED
  BY <1>1, <1>2, <1>3, <1>4, StepOfAllocator

\* A block whose token has been waited for is free; Alloc may end with it.
LEMMA WaitForTokenAndFreeBlockStep ==
    ASSUME IInv, WaitForTokenAndFreeBlock
    PROVE  IInv'
<1> DEFINE f == FirstJoined(blocks_, index)
           freed == Freed(blocks_, index)
<1>1. /\ UNCHANGED fenceVars /\ call \in {"Alloc", "delete"} /\ Pending(index)
      /\ TokenAwaited(blocks_[index].token)
  BY DEF WaitForTokenAndFreeBlock, Scanning
<1>2. index \in 1..Len(blocks_)
  BY DEF WaitForTokenAndFreeBlock, Scanning, IInv, TypeOK
<1>3. /\ blocks_[index].state # "FREE" /\ blocks_ \in Seq(Block) /\ Tiling(blocks_)
  BY <1>1 DEF Pending, IInv, TypeOK
<1>4. /\ freed \in Seq(Block) /\ Tiling(freed)
      /\ f \in 1..index /\ f \in 1..Len(freed) /\ freed[f].state = "FREE"
      /\ \A j \in 1..Len(blocks_) : j # index /\ blocks_[j].state # "FREE" =>
            \E k \in 1..Len(freed) : freed[k] = blocks_[j]
  BY <1>2, <1>3, FreedFacts
<1>5. CASE call = "Alloc" /\ freed[f].size >= want
  <2>1. /\ blocks_' = AllocInBlock(freed, f, want)
        /\ call' = "none" /\ want' = 0 /\ index' = 1
    BY <1>5 DEF WaitForTokenAndFreeBlock
  <2>2. want \in 1..Size
    BY <1>5, FenceAssumption DEF IInv, TypeOK
  <2> HIDE DEF freed, f
  <2>3. /\ blocks_' \in Seq(Block) /\ Tiling(blocks_')
        /\ \A j \in 1..Len(freed) : freed[j].state # "FREE" =>
              \E k \in 1..Len(blocks_') : blocks_'[k] = freed[j]
    <3>1. /\ freed \in Seq(Block) /\ Tiling(freed) /\ f \in 1..Len(freed)
          /\ freed[f].state = "FREE"
      BY <1>4
    <3> QED
      BY <3>1, <2>1, <2>2, <1>5, AllocInBlockFacts
  <2>4. ASSUME ~lost, NEW k \in 1..Len(stream), NEW j \in 1..Len(blocks_),
               Waits(blocks_[j], stream[k])
        PROVE  \E l \in 1..Len(blocks_') : blocks_'[l] = blocks_[j]
    <3>1. Pending(j) /\ ~TokenAwaited(blocks_[j].token)
      BY <2>4, WaitedIsNotRead
    <3>2. j # index /\ blocks_[j].state # "FREE"
      BY <3>1, <1>1 DEF Pending
    <3>3. PICK l \in 1..Len(freed) : freed[l] = blocks_[j]
      BY <3>2, <1>4
    <3>4. freed[l].state # "FREE"
      BY <3>2, <3>3
    <3> QED
      BY <3>3, <3>4, <2>3
  <2>5. Fenced'
    BY <1>1, <2>4, StillFenced
  <2>6. Tiling(blocks_)'
    BY <2>3 DEF Tiling, Row, Covers, FreeApart, EndOf
  <2>7. want' \in 0..Size /\ index' \in 1..(Size + 1)
    BY <2>1, FenceAssumption
  <2> QED
    BY <1>1, <2>1, <2>3, <2>5, <2>6, <2>7, StepOfAllocator
<1>6. CASE ~(call = "Alloc" /\ freed[f].size >= want)
  <2>1. blocks_' = freed /\ index' = f + 1 /\ UNCHANGED <<call, want>>
    BY <1>6 DEF WaitForTokenAndFreeBlock
  <2>2. blocks_' \in Seq(Block) /\ Tiling(blocks_)' /\ Fenced'
    BY <1>1, <1>2, <1>3, <2>1, FreedStep
  <2>3. /\ call' \in {"none", "Alloc", "FreeUnused", "delete", "deleted"}
        /\ want' \in 0..Size /\ (call' = "Alloc" => want' > 0)
    BY <2>1 DEF IInv, TypeOK
  <2>4. index' \in 1..(Size + 1)
    <3>1. Len(blocks_) \in 1..Size
      BY <1>3, TilingBounds
    <3> HIDE DEF f
    <3> QED
      BY <3>1, <2>1, <1>2, <1>4, FenceAssumption
  <2> QED
    BY <1>1, <2>2, <2>3, <2>4, StepOfAllocator
<1> QED
  BY <1>5, <1>6

\* A block whose token has been read is free.
LEMMA FreeUnusedBlockStep ==
    ASSUME IInv, FreeUnusedBlock
    PROVE  IInv'
<1> DEFINE f == FirstJoined(blocks_, index)
<1>1. /\ UNCHANGED fenceVars /\ UNCHANGED <<call, want>> /\ Pending(index)
      /\ blocks_[index].token <= last_token_read_
      /\ blocks_' = Freed(blocks_, index) /\ index' = f
  BY DEF FreeUnusedBlock
<1>2. index \in 1..Len(blocks_)
  BY DEF FreeUnusedBlock, Scanning, IInv, TypeOK
<1>3. /\ blocks_[index].state # "FREE" /\ blocks_ \in Seq(Block) /\ Tiling(blocks_)
  BY <1>1 DEF Pending, IInv, TypeOK
<1>4. blocks_' \in Seq(Block) /\ Tiling(blocks_)' /\ Fenced'
  BY <1>1, <1>2, <1>3, FreedStep
<1>5. f \in 1..index
  BY <1>2, <1>3, FreedFacts
<1>6. index' \in 1..(Size + 1)
  <2> HIDE DEF f
  <2> QED
    BY <1>1, <1>5, FenceAssumption DEF IInv, TypeOK
<1>7. /\ call' \in {"none", "Alloc", "FreeUnused", "delete", "deleted"}
      /\ want' \in 0..Size /\ (call' = "Alloc" => want' > 0)
  BY <1>1 DEF IInv, TypeOK
<1> QED
  BY <1>1, <1>4, <1>6, <1>7, StepOfAllocator

\* The client frees a block at once; no command waits for it.
LEMMA FreeStep ==
    ASSUME IInv, Free
    PROVE  IInv'
<1>1. PICK i \in 1..Len(blocks_) :
        /\ call = "none" /\ blocks_[i].state = "IN_USE"
        /\ blocks_' = Freed(blocks_, i)
        /\ UNCHANGED <<fenceVars, call, want, index>>
  BY DEF Free
<1>2. blocks_[i].state # "FREE" /\ ~Pending(i) /\ UNCHANGED fenceVars
  BY <1>1 DEF Pending
<1>3. blocks_' \in Seq(Block) /\ Tiling(blocks_)' /\ Fenced'
  BY <1>1, <1>2, FreedStep
<1>4. /\ call' \in {"none", "Alloc", "FreeUnused", "delete", "deleted"}
      /\ want' \in 0..Size /\ index' \in 1..(Size + 1) /\ (call' = "Alloc" => want' > 0)
  BY <1>1 DEF IInv, TypeOK
<1> QED
  BY <1>2, <1>3, <1>4, StepOfAllocator

\* The block in use now waits for the token behind the commands that read it.
LEMMA FreePendingTokenStep ==
    ASSUME IInv, FreePendingToken
    PROVE  IInv'
<1> DEFINE n == Len(blocks_)
<1>1. PICK i \in 1..n :
        /\ call = "none" /\ blocks_[i].state = "IN_USE"
        /\ InsertToken(blocks_[i].offset, blocks_[i].size)
        /\ blocks_' = [blocks_ EXCEPT ![i] =
                         [@ EXCEPT !.state = "FREE_PENDING_TOKEN", !.token = NextToken]]
        /\ UNCHANGED <<call, want, index>>
  BY DEF FreePendingToken
<1>2. Size \in Nat \ {0} /\ MaxToken \in Nat \ {0}
  BY FenceAssumption
<1>3. /\ token_ \in Token /\ executed \in Token /\ last_token_read_ \in Token
      /\ stream \in Seq(Command) /\ lost \in BOOLEAN /\ blocks_ \in Seq(Block)
  BY DEF IInv, TypeOK, FenceTypeOK
<1>4. NextToken \in Token /\ (NextToken = 0 \/ NextToken = token_ + 1)
  <2>1. CASE token_ = MaxToken
    BY <2>1, <1>2 DEF NextToken, Token
  <2>2. CASE token_ \in 0..(MaxToken - 1)
    BY <2>2, <1>2 DEF NextToken, Token
  <2> QED
    BY <2>1, <2>2, <1>2, <1>3 DEF Token
<1>5. blocks_[i] \in Block /\ blocks_[i].offset \in 0..Size /\ blocks_[i].size \in 0..Size
  <2>1. blocks_[i] \in Block
    BY <1>3
  <2> QED
    BY <2>1 DEF Block
<1> DEFINE freed == [blocks_[i] EXCEPT !.state = "FREE_PENDING_TOKEN", !.token = NextToken]
<1>6. /\ freed \in Block /\ freed.offset = blocks_[i].offset /\ freed.size = blocks_[i].size
      /\ freed.state = "FREE_PENDING_TOKEN" /\ freed.token = NextToken
  BY <1>4, <1>5 DEF Block
<1>7. /\ blocks_' \in Seq(Block) /\ Len(blocks_') = n /\ n \in Nat
      /\ blocks_'[i] = freed
      /\ \A j \in 1..n : j # i => blocks_'[j] = blocks_[j]
  <2>1. blocks_' = [blocks_ EXCEPT ![i] = freed]
    BY <1>1
  <2> HIDE DEF freed
  <2> QED
    BY <2>1, <1>3, <1>6
<1> DEFINE item == [token |-> NextToken, offset |-> blocks_[i].offset, size |-> blocks_[i].size]
<1>8. item \in Command
  BY <1>4, <1>5 DEF Command
<1>9. /\ token_' = NextToken /\ lost' = lost
      /\ \/ lost /\ UNCHANGED <<stream, executed, last_token_read_>>
         \/ ~lost /\ NextToken = 0 /\ stream' = <<>> /\ executed' = 0 /\ last_token_read_' = 0
         \/ ~lost /\ NextToken # 0 /\ stream' = Append(stream, item)
                  /\ UNCHANGED <<executed, last_token_read_>>
  BY <1>1, <1>3 DEF InsertToken
<1>10. TypeOK'
  <2>1. 0 \in Token /\ <<>> \in Seq(Command)
    BY <1>2 DEF Token
  <2>2. stream' \in Seq(Command)
    <3>1. stream' = stream \/ stream' = <<>> \/ stream' = Append(stream, item)
      BY <1>9
    <3>2. Append(stream, item) \in Seq(Command)
      BY <1>3, <1>8
    <3> QED
      BY <3>1, <3>2, <1>3, <2>1
  <2>3. lost' \in BOOLEAN
    BY <1>3, <1>9
  <2>4. token_' \in Token /\ executed' \in Token /\ last_token_read_' \in Token
    BY <1>3, <1>4, <1>9, <2>1
  <2> QED
    BY <1>1, <1>7, <2>2, <2>3, <2>4 DEF IInv, TypeOK, FenceTypeOK
<1>11. Tiling(blocks_)'
  <2>1. /\ \A j \in 1..n : /\ blocks_'[j].offset = blocks_[j].offset
                           /\ blocks_'[j].size = blocks_[j].size
                           /\ blocks_'[j].state = "FREE" => blocks_[j].state = "FREE"
    BY <1>6, <1>7
  <2>2. Tiling(blocks_)
    BY DEF IInv
  <2>3. Row(blocks_')
    <3> HIDE DEF freed
    <3>1. Row(blocks_) /\ Len(blocks_') = n
      BY <2>2, <1>7 DEF Tiling
    <3>2. \A j \in 1..n : EndOf(blocks_'[j]) = EndOf(blocks_[j])
      BY <2>1 DEF EndOf
    <3>3. Len(blocks_') >= 1 /\ \A j \in 1..Len(blocks_') : blocks_'[j].size > 0
      BY <3>1, <2>1 DEF Row
    <3>4. ASSUME NEW j \in 1..(n - 1)
          PROVE  blocks_'[j + 1].offset = EndOf(blocks_'[j])
      <4>1. j \in 1..n /\ j + 1 \in 1..n
        BY <1>7
      <4> QED
        BY <4>1, <3>1, <3>2, <2>1 DEF Row
    <3>5. ASSUME NEW j \in 1..n, NEW k \in 1..n, j < k
          PROVE  EndOf(blocks_'[j]) + (k - j - 1) <= blocks_'[k].offset
      <4>1. EndOf(blocks_[j]) + (k - j - 1) <= blocks_[k].offset
        BY <3>1, <3>5 DEF Row
      <4> QED
        BY <4>1, <3>2, <2>1
    <3> QED
      BY <3>1, <3>3, <3>4, <3>5 DEF Row
  <2>4. Covers(blocks_', 0, Size)
    <3>1. 1 \in 1..n /\ n \in 1..n
      BY <2>2, <1>7 DEF Tiling, Row
    <3> QED
      BY <3>1, <2>1, <2>2, <1>7 DEF Tiling, Covers, EndOf
  <2>5. FreeApart(blocks_')
    <3> SUFFICES ASSUME NEW j \in 1..(n - 1), blocks_'[j].state = "FREE"
                 PROVE  blocks_'[j + 1].state # "FREE"
      BY <1>7 DEF FreeApart
    <3>1. j \in 1..n /\ j + 1 \in 1..n
      BY <1>7
    <3>2. blocks_[j].state = "FREE" /\ blocks_[j + 1].state # "FREE"
      BY <3>1, <2>1, <2>2 DEF Tiling, FreeApart
    <3> QED
      BY <3>1, <3>2, <2>1
  <2> QED
    BY <2>3, <2>4, <2>5 DEF Tiling, Row, Covers, FreeApart, EndOf
<1>12. call' = "Alloc" => want' > 0
  BY <1>1
<1>13. Fenced'
  <2> SUFFICES ASSUME ~lost PROVE StreamRises' /\ StreamHasBlocks'
    BY <1>9 DEF Fenced
  <2>1. StreamRises /\ StreamHasBlocks
    BY DEF IInv, Fenced
  <2>2. CASE NextToken = 0
    <3>1. /\ Len(stream') = 0
          /\ executed' = 0 /\ last_token_read_' = 0 /\ token_' = 0
      BY <2>2, <1>9
    <3> QED
      BY <3>1 DEF StreamRises, StreamHasBlocks
  <2>3. CASE NextToken # 0
    <3> DEFINE m == Len(stream)
    <3>1. /\ stream' = Append(stream, item) /\ token_' = token_ + 1
          /\ executed' = executed /\ last_token_read_' = last_token_read_
      BY <2>3, <1>4, <1>9
    <3>2. /\ m \in Nat /\ Len(stream') = m + 1 /\ stream'[m + 1] = item
          /\ \A k \in 1..m : stream'[k] = stream[k] /\ stream[k].token \in Nat
      <4>1. m \in Nat /\ Len(stream') = m + 1 /\ stream'[m + 1] = item
        BY <3>1, <1>3, <1>8
      <4>2. \A k \in 1..m : stream'[k] = stream[k] /\ stream[k] \in Command
        BY <3>1, <1>3
      <4> QED
        BY <4>1, <4>2, <1>2 DEF Command, Token
    <3>3. item.token = token_ + 1 /\ token_ \in Nat /\ executed \in Nat /\ last_token_read_ \in Nat
      BY <2>3, <1>2, <1>3, <1>4 DEF Token
    <3>4. StreamRises'
      <4>1. last_token_read_' <= executed' /\ executed' <= token_'
        BY <2>1, <3>1, <3>3 DEF StreamRises
      <4>2. \A k \in 1..Len(stream') : executed' < stream'[k].token /\ stream'[k].token <= token_'
        <5>1. \A k \in 1..m : executed < stream[k].token /\ stream[k].token <= token_
          BY <2>1 DEF StreamRises
        <5>2. executed <= token_
          BY <2>1 DEF StreamRises
        <5> HIDE DEF item
        <5> QED
          BY <5>1, <5>2, <3>1, <3>2, <3>3
      <4>3. \A k, l \in 1..Len(stream') : k < l => stream'[k].token < stream'[l].token
        <5>1. /\ \A k \in 1..m : stream[k].token <= token_
              /\ \A k, l \in 1..m : k < l => stream[k].token < stream[l].token
          BY <2>1 DEF StreamRises
        <5> HIDE DEF item
        <5> SUFFICES ASSUME NEW k \in 1..(m + 1), NEW l \in 1..(m + 1), k < l
                     PROVE  stream'[k].token < stream'[l].token
          BY <3>2
        <5>2. k \in 1..m /\ stream'[k] = stream[k] /\ stream[k].token \in Nat
          BY <3>2
        <5>3. CASE l = m + 1
          BY <5>1, <5>2, <5>3, <3>2, <3>3
        <5>4. CASE l \in 1..m
          BY <5>1, <5>2, <5>4, <3>2
        <5>5. m \in Nat
          BY <3>2
        <5>6. l = m + 1 \/ l \in 1..m
          BY <5>5
        <5> QED
          BY <5>3, <5>4, <5>6
      <4> QED
        BY <4>1, <4>2, <4>3 DEF StreamRises
    <3>5. ASSUME NEW k \in 1..Len(stream')
          PROVE  \E j \in 1..Len(blocks_') : Waits(blocks_'[j], stream'[k])
      <4>1. CASE k = m + 1
        <5>1. Waits(freed, item)
          BY <1>6 DEF Waits
        <5> HIDE DEF item, freed
        <5> QED
          BY <5>1, <4>1, <3>2, <1>7
      <4>2. CASE k \in 1..m
        <5>1. PICK j \in 1..n : Waits(blocks_[j], stream[k])
          BY <4>2, <2>1 DEF StreamHasBlocks
        <5>2. j # i
          BY <5>1, <1>1 DEF Waits
        <5> HIDE DEF item, freed
        <5> QED
          BY <5>1, <5>2, <4>2, <3>2, <1>7
      <4> QED
        BY <4>1, <4>2, <3>2
    <3> QED
      BY <3>4, <3>5 DEF StreamHasBlocks
  <2> QED
    BY <2>2, <2>3
<1> QED
  BY <1>10, <1>11, <1>12, <1>13 DEF IInv

\* The service and the flushes move only along the stream.
LEMMA FenceStep ==
    ASSUME IInv, Fence
    PROVE  IInv'
<1>1. UNCHANGED <<blocks_, call, want, index>>
  BY DEF Fence, allocVars
<1>2. /\ token_ \in Nat /\ executed \in Nat /\ last_token_read_ \in Nat
      /\ executed \in Token /\ stream \in Seq(Command) /\ lost \in BOOLEAN
  BY FenceAssumption DEF IInv, TypeOK, FenceTypeOK, Token
<1>3. \A k \in 1..Len(stream) : stream[k].token \in Token /\ stream[k].token \in Nat
  <2>1. \A k \in 1..Len(stream) : stream[k] \in Command
    BY <1>2
  <2> QED
    BY <2>1, FenceAssumption DEF Command, Token
<1>4. Tiling(blocks_)' /\ (call' = "Alloc" => want' > 0)
  BY <1>1 DEF IInv, Tiling, Row, Covers, FreeApart, EndOf
<1>5. CASE SetToken
  <2> DEFINE m == Len(stream)
  <2>1. /\ stream # <<>> /\ ~lost /\ executed' = stream[1].token /\ stream' = Tail(stream)
        /\ UNCHANGED <<token_, last_token_read_, lost>>
    BY <1>5 DEF SetToken
  <2>2. m \in Nat \ {0} /\ stream' \in Seq(Command) /\ Len(stream') = m - 1
    BY <1>2, <2>1
  <2>3. \A k \in 1..(m - 1) : stream'[k] = stream[k + 1]
    BY <1>2, <2>1
  <2>4. 1 \in 1..m /\ stream[1].token \in Token
    BY <1>3, <2>2
  <2>5. TypeOK'
    BY <1>1, <2>1, <2>2, <2>4 DEF IInv, TypeOK, FenceTypeOK
  <2>6. StreamRises /\ StreamHasBlocks
    BY <2>1 DEF IInv, Fenced
  <2>7. StreamRises'
    <3>1. last_token_read_' <= executed' /\ executed' <= token_'
      BY <2>1, <2>4, <2>6, <1>2, <1>3 DEF StreamRises
    <3>2. \A k \in 1..Len(stream') : executed' < stream'[k].token /\ stream'[k].token <= token_'
      BY <2>1, <2>2, <2>3, <2>4, <2>6 DEF StreamRises
    <3>3. \A k, l \in 1..Len(stream') : k < l => stream'[k].token < stream'[l].token
      BY <2>2, <2>3, <2>6 DEF StreamRises
    <3> QED
      BY <3>1, <3>2, <3>3 DEF StreamRises
  <2>8. StreamHasBlocks'
    <3>1. \A k \in 1..Len(stream') : k + 1 \in 1..m /\ stream'[k] = stream[k + 1]
      BY <2>2, <2>3
    <3> QED
      BY <3>1, <2>6, <1>1 DEF StreamHasBlocks
  <2> QED
    BY <2>5, <2>7, <2>8, <1>4 DEF IInv, Fenced
<1>6. CASE SynchronizeState
  <2>1. last_token_read_' = executed /\ UNCHANGED <<token_, stream, executed, lost>>
    BY <1>6 DEF SynchronizeState
  <2>2. TypeOK'
    BY <1>1, <1>2, <2>1 DEF IInv, TypeOK, FenceTypeOK
  <2>3. Fenced'
    BY <1>1, <1>2, <2>1 DEF IInv, Fenced, StreamRises, StreamHasBlocks
  <2> QED
    BY <2>2, <2>3, <1>4 DEF IInv
<1>7. CASE LoseContext
  <2>1. lost' = TRUE /\ UNCHANGED <<token_, last_token_read_, stream, executed>>
    BY <1>7 DEF LoseContext
  <2>2. lost' \in BOOLEAN
    BY <2>1, Zenon
  <2>3. TypeOK'
    BY <1>1, <2>1, <2>2 DEF IInv, TypeOK, FenceTypeOK
  <2> QED
    BY <2>1, <2>3, <1>4 DEF IInv, Fenced
<1> QED
  BY <1>5, <1>6, <1>7 DEF Fence

-----------------------------------------------------------------------------
(* Theorems                                                                *)

\* The inductive invariant holds in every state of a FencedAllocator.
THEOREM Invariance == Spec => []IInv
<1>1. IInv /\ [Next]_vars => IInv'
  <2> SUFFICES ASSUME IInv, [Next]_vars PROVE IInv'
    OBVIOUS
  <2>1. CASE \E size \in 0..Size : Alloc(size)
    BY <2>1, AllocStep
  <2>2. CASE FreeUnused \/ Delete \/ SkipBlock \/ LoopEnds
    BY <2>2, QuietStep
  <2>3. CASE Free
    BY <2>3, FreeStep
  <2>4. CASE FreePendingToken
    BY <2>4, FreePendingTokenStep
  <2>5. CASE WaitForTokenAndFreeBlock
    BY <2>5, WaitForTokenAndFreeBlockStep
  <2>6. CASE FreeUnusedBlock
    BY <2>6, FreeUnusedBlockStep
  <2>7. CASE Fence
    BY <2>7, FenceStep
  <2>8. CASE UNCHANGED vars
    <3>1. UNCHANGED fenceVars /\ UNCHANGED blocks_ /\ UNCHANGED <<call, want, index>>
      BY <2>8 DEF vars, allocVars
    <3>2. blocks_' \in Seq(Block) /\ Tiling(blocks_)' /\ Fenced'
      BY <3>1, SameBlocks
    <3>3. /\ call' \in {"none", "Alloc", "FreeUnused", "delete", "deleted"}
          /\ want' \in 0..Size /\ index' \in 1..(Size + 1) /\ (call' = "Alloc" => want' > 0)
      BY <3>1 DEF IInv, TypeOK
    <3> QED
      BY <3>1, <3>2, <3>3, StepOfAllocator
  <2> QED
    BY <2>1, <2>2, <2>3, <2>4, <2>5, <2>6, <2>7, <2>8 DEF Next, LoopStep
<1> QED
  BY InitIInv, <1>1, PTL DEF Spec

\* What CheckConsistency of fenced_allocator.cc tests holds between any two steps of
\* the loops of Alloc, FreeUnused and the destructor.
THEOREM AlwaysConsistent == Spec => []CheckConsistency
<1>1. IInv => CheckConsistency
  <2> SUFFICES ASSUME IInv PROVE CheckConsistency
    OBVIOUS
  <2>1. TypeOK /\ Tiling(blocks_)
    BY DEF IInv
  <2>2. /\ Len(blocks_) >= 1 /\ blocks_[1].offset = 0
        /\ blocks_[Len(blocks_)].offset + blocks_[Len(blocks_)].size = Size
        /\ \A i \in 1..Len(blocks_) : blocks_[i].size > 0
    BY <2>1 DEF Tiling, Row, Covers, EndOf
  <2>3. ASSUME NEW i \in 1..(Len(blocks_) - 1)
        PROVE  /\ blocks_[i + 1].offset = blocks_[i].offset + blocks_[i].size
               /\ ~(IsFree(blocks_, i) /\ IsFree(blocks_, i + 1))
    BY <2>1 DEF Tiling, Row, FreeApart, EndOf, IsFree
  <2> QED
    BY <2>1, <2>2, <2>3 DEF CheckConsistency
<1> QED
  BY Invariance, <1>1, PTL

\* Waiting for the token of a block is enough: memory that is free or handed out is
\* not read by commands of an earlier use, whatever the wraps of the token.
THEOREM MemoryNotOverwritten == Spec => []NoOverwrite
<1>1. IInv => NoOverwrite
  <2> SUFFICES ASSUME IInv, ~lost, NEW i \in 1..Len(blocks_), ~Pending(i),
                      NEW k \in 1..Len(stream)
               PROVE  \/ blocks_[i].offset + blocks_[i].size <= stream[k].offset
                      \/ stream[k].offset + stream[k].size <= blocks_[i].offset
    BY DEF NoOverwrite, Untouched
  <2>1. PICK j \in 1..Len(blocks_) : Waits(blocks_[j], stream[k])
    BY DEF IInv, Fenced, StreamHasBlocks
  <2>2. j # i /\ stream[k].offset = blocks_[j].offset /\ stream[k].size = blocks_[j].size
    BY <2>1 DEF Waits, Pending
  <2>3. RowOf(blocks_, Len(blocks_)) /\ Len(blocks_) \in Nat
    BY RowIsRowOf DEF IInv, TypeOK, Tiling
  <2>4. ASSUME NEW p \in 1..Len(blocks_), NEW q \in 1..Len(blocks_), p < q
        PROVE  blocks_[p].offset + blocks_[p].size <= blocks_[q].offset
    <3>1. EndOf(blocks_[p]) + (q - p - 1) <= blocks_[q].offset
      BY <2>3, <2>4 DEF RowOf
    <3>2. EndOf(blocks_[p]) \in Nat /\ blocks_[q].offset \in Nat
      BY <2>3 DEF RowOf
    <3> DEFINE e == EndOf(blocks_[p])
               o == blocks_[q].offset
    <3>3. e \in Int /\ o \in Int /\ e + (q - p - 1) <= o /\ q - p - 1 >= 0
      BY <3>1, <3>2, <2>4
    <3> HIDE DEF e, o
    <3>4. e <= o
      BY <3>3
    <3> QED
      BY <3>4 DEF e, o, EndOf
  <2>5. i < j \/ j < i
    BY <2>2
  <2> QED
    BY <2>2, <2>4, <2>5
<1> QED
  BY Invariance, <1>1, PTL

-----------------------------------------------------------------------------
(* Alloc fails only when the memory is full                                *)

\* While Alloc goes round its second loop, the blocks it has passed wait for no token,
\* and no free block, passed or not, is large enough.
ScanInv ==
    call = "Alloc" =>
        /\ \A i \in 1..Len(blocks_) : i < index => ~Pending(i)
        /\ \A i \in 1..Len(blocks_) : blocks_[i].state = "FREE" => blocks_[i].size < want

\* The steps of the loop.
LEMMA ScanStep ==
    ASSUME IInv, ScanInv, [Next]_vars
    PROVE  ScanInv'
<1> SUFFICES ASSUME call' = "Alloc"
             PROVE  /\ \A i \in 1..Len(blocks_') : i < index' => ~(Pending(i)')
                    /\ \A i \in 1..Len(blocks_') : blocks_'[i].state = "FREE" =>
                                                     blocks_'[i].size < want'
  BY DEF ScanInv
<1>1. ASSUME NEW size \in 0..Size, Alloc(size)
      PROVE  ScanInv'
  <2> DEFINE n == IF size = 0 THEN 1 ELSE size
             fits == {i \in 1..Len(blocks_) : IsFree(blocks_, i) /\ blocks_[i].size >= n}
  <2>1. call = "none"
    BY <1>1 DEF Alloc
  <2>2. fits = {} /\ want' = n /\ index' = 1 /\ UNCHANGED blocks_
    BY <1>1, <2>1 DEF Alloc
  <2>3. ASSUME NEW i \in 1..Len(blocks_), blocks_[i].state = "FREE"
        PROVE  blocks_[i].size < n
    <3>1. ~(blocks_[i].size >= n)
      BY <2>2, <2>3 DEF IsFree
    <3>2. blocks_[i].size \in Nat /\ n \in Nat
      BY TilingBounds, FenceAssumption DEF IInv, TypeOK
    <3> HIDE DEF n
    <3> QED
      BY <3>1, <3>2
  <2>4. \A i \in 1..Len(blocks_) : ~(i < 1)
    OBVIOUS
  <2> QED
    BY <2>2, <2>3, <2>4 DEF ScanInv
<1>2. CASE SkipBlock
  <2>1. /\ index' = index + 1 /\ UNCHANGED <<blocks_, call, want>>
        /\ call = "Alloc" /\ ~Pending(index)
    BY <1>2 DEF SkipBlock
  <2>2. ASSUME NEW i \in 1..Len(blocks_), i < index + 1
        PROVE  ~Pending(i)
    <3>1. i < index \/ i = index
      BY <2>2 DEF IInv, TypeOK
    <3> QED
      BY <3>1, <2>1 DEF ScanInv
  <2> QED
    BY <2>1, <2>2 DEF ScanInv, Pending
<1>3. CASE WaitForTokenAndFreeBlock
  <2> DEFINE f == FirstJoined(blocks_, index)
             freed == Freed(blocks_, index)
  <2>1. /\ call = "Alloc" /\ Pending(index)
        /\ ~(freed[f].size >= want)
        /\ blocks_' = freed /\ index' = f + 1 /\ want' = want
    BY <1>3 DEF WaitForTokenAndFreeBlock
  <2>2. index \in 1..Len(blocks_)
    BY <1>3 DEF WaitForTokenAndFreeBlock, Scanning, IInv, TypeOK
  <2>3. blocks_[index].state # "FREE" /\ blocks_ \in Seq(Block) /\ Tiling(blocks_)
    BY <2>1 DEF Pending, IInv, TypeOK
  <2>4. /\ freed \in Seq(Block) /\ Tiling(freed)
        /\ f \in 1..index /\ f \in 1..Len(freed) /\ freed[f].state = "FREE"
        /\ \A j \in 1..(f - 1) : freed[j] = blocks_[j]
        /\ \A j \in 1..Len(freed) : j # f => \E k \in 1..Len(blocks_) : freed[j] = blocks_[k]
    BY <2>2, <2>3, FreedFacts
  <2>5. freed[f].size < want
    <3>1. freed[f].size \in Nat
      BY <2>4, TilingBounds
    <3> QED
      BY <3>1, <2>1, FenceAssumption DEF IInv, TypeOK
  <2>6. /\ \A i \in 1..Len(blocks_) : i < index => ~Pending(i)
        /\ \A i \in 1..Len(blocks_) : blocks_[i].state = "FREE" => blocks_[i].size < want
    BY <2>1 DEF ScanInv
  <2> HIDE DEF f, freed
  <2>7. ASSUME NEW i \in 1..Len(freed), i < f + 1
        PROVE  freed[i].state # "FREE_PENDING_TOKEN"
    <3>1. CASE i = f
      BY <3>1, <2>4
    <3>2. CASE i < f
      <4>1. i \in 1..(f - 1) /\ i \in 1..Len(blocks_) /\ i < index
        BY <3>2, <2>2, <2>4
      <4> QED
        BY <4>1, <2>4, <2>6 DEF Pending
    <3> QED
      BY <3>1, <3>2, <2>4, <2>7
  <2>8. ASSUME NEW i \in 1..Len(freed), freed[i].state = "FREE"
        PROVE  freed[i].size < want
    <3>1. CASE i = f
      BY <3>1, <2>5
    <3>2. CASE i # f
      BY <3>2, <2>4, <2>6, <2>8
    <3> QED
      BY <3>1, <3>2
  <2> QED
    BY <2>1, <2>7, <2>8 DEF Pending
<1>4. CASE FreeUnusedBlock \/ FreeUnused \/ LoopEnds \/ Free \/ FreePendingToken \/ Delete
  BY <1>4 DEF FreeUnusedBlock, FreeUnused, LoopEnds, Free, FreePendingToken, Delete
<1>5. CASE Fence \/ UNCHANGED vars
  <2>1. UNCHANGED <<blocks_, call, want, index>>
    BY <1>5 DEF Fence, vars, allocVars
  <2> QED
    BY <2>1 DEF ScanInv, Pending
<1> QED
  BY <1>1, <1>2, <1>3, <1>4, <1>5 DEF Next, LoopStep, ScanInv

\* Of natural numbers below a bound, one is the largest.
LEMMA LargestBelow ==
    ASSUME NEW bound \in Nat, NEW M, 0 \in M, \A x \in M : x \in Nat /\ x < bound
    PROVE  \E max \in M : \A x \in M : x <= max
<1> DEFINE T == {k \in Nat : \E x \in M : k = bound - x}
<1>1. T \subseteq Nat /\ T # {}
  <2>1. bound - 0 \in T
    OBVIOUS
  <2> QED
    BY <2>1
<1>2. PICK k \in T : \A l \in T : ~(l < k)
  <2>1. IsWellFoundedOn(OpToRel(<, Nat), Nat)
    BY NatLessThanWellFounded
  <2>2. PICK k \in T : \A l \in T : ~(<<l, k>> \in OpToRel(<, Nat))
    BY <1>1, <2>1, WFMin
  <2>3. \A l \in T : l < k => <<l, k>> \in OpToRel(<, Nat)
    BY <1>1 DEF OpToRel
  <2> QED
    BY <2>2, <2>3
<1>3. PICK max \in M : k = bound - max
  OBVIOUS
<1>4. ASSUME NEW x \in M
      PROVE  x <= max
  <2>1. bound - x \in T /\ x \in Nat /\ max \in Nat
    OBVIOUS
  <2>2. ~(bound - x < bound - max)
    BY <2>1, <1>2, <1>3
  <2> QED
    BY <2>1, <2>2
<1> QED
  BY <1>4

\* At the end of the loop no block is pending, so no two blocks that are free or pending
\* are next to each other and none of them is large enough.
LEMMA FullAtTheEnd ==
    ASSUME IInv, ScanInv, call = "Alloc", LoopEnds
    PROVE  want > GetLargestFreeOrPendingSize
<1> DEFINE n == Len(blocks_)
           runs == {r \in (1..n) \X (1..n) :
                      r[1] <= r[2] /\ \A i \in r[1]..r[2] : blocks_[i].state # "IN_USE"}
           length(r) == blocks_[r[2]].offset + blocks_[r[2]].size - blocks_[r[1]].offset
           M == {0} \cup {length(r) : r \in runs}
<1>1. n \in Nat /\ index > n /\ want \in Nat /\ want > 0
  BY FenceAssumption DEF LoopEnds, Scanning, IInv, TypeOK
<1>2. /\ \A i \in 1..n : /\ blocks_[i] \in Block /\ blocks_[i].offset \in Nat
                         /\ blocks_[i].size \in Nat
      /\ \A i \in 1..(n - 1) : blocks_[i].state = "FREE" => blocks_[i + 1].state # "FREE"
  BY TilingBounds DEF IInv, TypeOK, Tiling, FreeApart
<1>3. ASSUME NEW i \in 1..n, blocks_[i].state # "IN_USE"
      PROVE  blocks_[i].state = "FREE" /\ blocks_[i].size < want
  <2>1. blocks_[i].state \in {"IN_USE", "FREE", "FREE_PENDING_TOKEN"}
    BY <1>2 DEF Block
  <2>2. i < index
    BY <1>1 DEF IInv, TypeOK
  <2> QED
    BY <1>3, <2>1, <2>2 DEF ScanInv, Pending
<1>4. ASSUME NEW r \in runs
      PROVE  length(r) \in Nat /\ length(r) < want
  <2>1. /\ r[1] \in 1..n /\ r[2] \in 1..n /\ r[1] <= r[2]
        /\ \A i \in r[1]..r[2] : blocks_[i].state # "IN_USE"
    OBVIOUS
  <2>2. r[1] = r[2]
    <3> SUFFICES ASSUME r[1] < r[2] PROVE FALSE
      BY <2>1
    <3>1. /\ r[1] \in r[1]..r[2] /\ r[1] + 1 \in r[1]..r[2]
          /\ r[1] \in 1..(n - 1) /\ r[1] + 1 \in 1..n
      BY <2>1
    <3>2. blocks_[r[1]].state = "FREE" /\ blocks_[r[1] + 1].state = "FREE"
      BY <3>1, <2>1, <1>3
    <3> QED
      BY <3>1, <3>2, <1>2
  <2>3. blocks_[r[1]].state # "IN_USE"
    BY <2>1
  <2>4. length(r) = blocks_[r[1]].size
    BY <2>1, <2>2, <1>2
  <2> QED
    BY <2>1, <2>3, <2>4, <1>2, <1>3
<1>5. \A x \in M : x \in Nat /\ x < want
  BY <1>1, <1>4
<1>6. \E max \in M : \A x \in M : x <= max
  <2>1. 0 \in M
    OBVIOUS
  <2> HIDE DEF M
  <2> QED
    BY <2>1, <1>1, <1>5, LargestBelow
<1>7. \E max \in M : \A r \in runs : length(r) <= max
  <2>1. \A r \in runs : length(r) \in M
    OBVIOUS
  <2> QED
    BY <2>1, <1>6
<1>8. GetLargestFreeOrPendingSize = CHOOSE max \in M : \A r \in runs : length(r) <= max
  BY DEF GetLargestFreeOrPendingSize
<1>9. GetLargestFreeOrPendingSize \in M
  <2> HIDE DEF M, runs, length
  <2> QED
    BY <1>7, <1>8
<1> QED
  BY <1>1, <1>5, <1>9

\* A call of Alloc that ends with the blocks as they were has failed: when it succeeds
\* the block at the place of the one it freed is in use.
LEMMA FailedAlloc ==
    ASSUME IInv, [Next]_vars, call = "Alloc", call' = "none", blocks_' = blocks_
    PROVE  LoopEnds
<1>1. ASSUME WaitForTokenAndFreeBlock
      PROVE  FALSE
  <2> DEFINE f == FirstJoined(blocks_, index)
             freed == Freed(blocks_, index)
  <2>1. /\ Pending(index) /\ freed[f].size >= want
        /\ blocks_' = AllocInBlock(freed, f, want)
    BY <1>1 DEF WaitForTokenAndFreeBlock
  <2>2. index \in 1..Len(blocks_)
    BY <1>1 DEF WaitForTokenAndFreeBlock, Scanning, IInv, TypeOK
  <2>3. blocks_[index].state # "FREE" /\ blocks_ \in Seq(Block) /\ Tiling(blocks_)
    BY <2>1 DEF Pending, IInv, TypeOK
  <2>4. /\ freed \in Seq(Block) /\ Tiling(freed)
        /\ f \in 1..Len(freed) /\ freed[f].state = "FREE"
        /\ f = index \/ blocks_[f].state = "FREE"
    BY <2>2, <2>3, FreedFacts
  <2>5. want \in 1..Size
    BY FenceAssumption DEF IInv, TypeOK
  <2> HIDE DEF f, freed
  <2>6. AllocInBlock(freed, f, want)[f].state = "IN_USE"
    BY <2>1, <2>4, <2>5, AllocInBlockFacts
  <2>7. blocks_[f].state # "IN_USE"
    BY <2>1, <2>4 DEF Pending
  <2> QED
    BY <2>1, <2>6, <2>7
<1>2. \A size \in 0..Size : ~Alloc(size)
  BY DEF Alloc
<1>3. ~SkipBlock /\ ~FreeUnusedBlock /\ ~FreeUnused /\ ~Free /\ ~FreePendingToken /\ ~Delete
  BY DEF SkipBlock, FreeUnusedBlock, FreeUnused, Free, FreePendingToken, Delete
<1>4. ~Fence /\ ~UNCHANGED vars
  BY DEF Fence, vars, allocVars
<1> QED
  BY <1>1, <1>2, <1>3, <1>4 DEF Next, LoopStep

\* Alloc gives up only when no run of blocks that are free or waiting for a token is as
\* long as what was asked for: what GetLargestFreeOrPendingSize() promises its callers.
THEOREM AllocFailsOnlyWhenFull == Spec => FailsOnlyWhenFull
<1>1. Init => ScanInv
  BY DEF Init, ScanInv
<1>2. IInv /\ ScanInv /\ [Next]_vars => ScanInv'
  BY ScanStep
<1>3. IInv /\ ScanInv /\ [Next]_vars =>
        [call = "Alloc" /\ call' = "none" /\ blocks_' = blocks_ =>
            want > GetLargestFreeOrPendingSize]_vars
  BY FailedAlloc, FullAtTheEnd
<1> QED
  BY Invariance, <1>1, <1>2, <1>3, PTL DEF Spec, FailsOnlyWhenFull
===============================================================================
