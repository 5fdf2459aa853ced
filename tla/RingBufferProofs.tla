--------------------------- MODULE RingBufferProofs ---------------------------
(***************************************************************************)
(* For a ring of any size and any range of tokens: the blocks of a         *)
(* RingBuffer never overlap and memory that commands still read is never   *)
(* handed out.                                                             *)
(*                                                                         *)
(* The ring is cut at in_use_offset_: the blocks that begin at or after it *)
(* come first, those before it (the ring has turned) come last, and each   *)
(* part is in the order of its offsets.  This is what stays true when the  *)
(* oldest block goes and the cut moves.  What a command still reads is     *)
(* tied to the block that waits for its token, and the tokens in the       *)
(* stream rise above all those executed.                                   *)
(***************************************************************************)
EXTENDS RingBuffer, TLAPS

-----------------------------------------------------------------------------
(* The inductive invariant                                                 *)

EndOf(b) == b.offset + b.size

\* b comes before c on a ring cut at use.
Before(b, c, use) ==
    \/ b.offset >= use /\ c.offset < use
    \/ (b.offset >= use <=> c.offset >= use) /\ EndOf(b) <= c.offset

Sound(bs, use) ==
    \A i \in 1..Len(bs) : /\ bs[i].size > 0 /\ EndOf(bs[i]) <= Size
                          /\ bs[i].offset >= use \/ EndOf(bs[i]) <= use

Adjacent(bs) == \A i \in 1..(Len(bs) - 1) : bs[i + 1].offset = Wrap(EndOf(bs[i]))

Cyclic(bs, use) == \A i, j \in 1..Len(bs) : i < j => Before(bs[i], bs[j], use)

Ends(bs, use, free) ==
    /\ bs = <<>> => use = 0 /\ free = 0
    /\ bs # <<>> => bs[1].offset = use /\ Wrap(EndOf(bs[Len(bs)])) = free

\* The blocks bs lie in a ring from use to free.
Shape(bs, use, free) ==
    Sound(bs, use) /\ Adjacent(bs) /\ Cyclic(bs, use) /\ Ends(bs, use, free)

OnlyLastInUse ==
    /\ \A i \in 1..Len(blocks_) : InUse(i) => i = Len(blocks_)
    /\ call \in {"Alloc", "delete"} => LastIsFreed
    /\ call = "Alloc" => want > 0

StreamRises ==
    /\ last_token_read_ <= executed /\ executed <= token_
    /\ \A k \in 1..Len(stream) : executed < stream[k].token /\ stream[k].token <= token_
    /\ \A k, l \in 1..Len(stream) : k < l => stream[k].token < stream[l].token

Waits(b, item) ==
    /\ b.state = "FREE_PENDING_TOKEN"
    /\ b.token = item.token /\ b.offset = item.offset /\ b.size = item.size

StreamHasBlocks ==
    \A k \in 1..Len(stream) : \E i \in 1..Len(blocks_) : Waits(blocks_[i], stream[k])

Fenced == ~lost => StreamRises /\ StreamHasBlocks

IInv ==
    /\ TypeOK
    /\ Shape(blocks_, in_use_offset_, free_offset_)
    /\ OnlyLastInUse
    /\ Fenced

-----------------------------------------------------------------------------
(* Rings of blocks                                                         *)

\* A block p that is the last one, q, or comes before it, ends no later than
\* the free end does, on its own side of the cut at use.
LEMMA EndsBeforeFree ==
    ASSUME NEW po \in Int, NEW ps \in Int, NEW qo \in Int, NEW qs \in Int,
           NEW use \in Int, NEW free \in Int,
           0 <= po, 0 < ps, po + ps <= Size, 0 <= qo, 0 < qs, qo + qs <= Size,
           0 <= use, use < Size,
           qo >= use \/ qo + qs <= use,
           \/ free = 0 /\ qo + qs = Size
           \/ free = qo + qs,
           \/ po = qo /\ ps = qs
           \/ po >= use /\ qo < use
           \/ (po >= use <=> qo >= use) /\ po + ps <= qo
    PROVE  /\ free > use => po >= use /\ po + ps <= free
           /\ free < use => po >= use \/ po + ps <= free
<1>1. Size \in Nat \ {0}
  BY FenceAssumption
<1> QED
  BY <1>1

\* A block o on one side of the range [use, use + length) is on one side of the
\* place the beginning moves to.
LEMMA StillOutside ==
    ASSUME NEW o \in Int, NEW s \in Int, NEW use \in Int, NEW length \in Int,
           NEW moved \in Int, 0 <= o, o + s <= Size, 0 < length,
           o >= use + length \/ o + s <= use,
           moved = use + length \/ (moved = 0 /\ use + length = Size)
    PROVE  o >= moved \/ o + s <= moved
  OBVIOUS

\* The offsets are places in the ring.
LEMMA Ranges ==
    \A x : /\ x \in 0..Size => x \in Int /\ 0 <= x
           /\ x \in 1..Size => x \in Int /\ 0 < x
           /\ x \in 0..(Size - 1) => x \in Int /\ 0 <= x /\ x < Size
  BY FenceAssumption

\* An empty ring has no oldest block, and one that is not has a first.
LEMMA EmptyHasNoLength ==
    ASSUME NEW S, NEW s \in Seq(S)
    PROVE  s = <<>> <=> Len(s) = 0
  OBVIOUS

\* The block o, outside the range [use, use + length), ends where the free end
\* is: the beginning, moved over that range, is elsewhere.
LEMMA MovedIsNotFree ==
    ASSUME NEW o \in Int, NEW s \in Int, NEW use \in Int, NEW length \in Int,
           NEW moved \in Int, NEW free \in Int,
           0 <= o, 0 < s, o + s <= Size, 0 <= use, 0 < length, use + length <= Size,
           o >= use + length \/ o + s <= use,
           \/ free = 0 /\ o + s = Size
           \/ free = o + s,
           moved = use + length \/ (moved = 0 /\ use + length = Size)
    PROVE  moved # free
<1>1. Size \in Nat \ {0}
  BY FenceAssumption
<1> QED
  BY <1>1

\* A block put at the free end, in the space that is free, keeps the shape.
LEMMA AppendShape ==
    ASSUME NEW bs \in Seq(Block), NEW use \in 0..(Size - 1), NEW free \in 0..(Size - 1),
           NEW b \in Block, Shape(bs, use, free),
           b.offset = free, b.size > 0, EndOf(b) <= Size,
           bs = <<>> \/ free > use \/ EndOf(b) <= use
    PROVE  Shape(Append(bs, b), use, Wrap(EndOf(b)))
<1> DEFINE cs == Append(bs, b)
           n == Len(bs)
<1>1. /\ n \in Nat /\ cs \in Seq(Block) /\ Len(cs) = n + 1 /\ cs # <<>>
      /\ \A i \in 1..n : cs[i] = bs[i] /\ bs[i] \in Block
      /\ cs[n + 1] = b
  OBVIOUS
<1>2. Size \in Nat \ {0}
  BY FenceAssumption
<1>3. ASSUME n > 0
      PROVE  /\ bs # <<>> /\ bs[1].offset = use /\ Wrap(EndOf(bs[n])) = free
             /\ bs[n].offset \in 0..Size /\ bs[n].size \in 1..Size /\ EndOf(bs[n]) <= Size
             /\ bs[n].offset >= use \/ EndOf(bs[n]) <= use
  BY <1>1, <1>2, <1>3 DEF Shape, Ends, Sound, Block
<1>4. Sound(cs, use)
  <2>1. b.offset >= use \/ EndOf(b) <= use
    BY DEF Shape, Ends
  <2> QED
    BY <1>1, <2>1 DEF Shape, Sound
<1>5. Adjacent(cs)
  <2> SUFFICES ASSUME NEW i \in 1..n
               PROVE  cs[i + 1].offset = Wrap(EndOf(cs[i]))
    BY <1>1 DEF Adjacent
  <2>1. CASE i < n
    BY <1>1, <2>1 DEF Shape, Adjacent
  <2>2. CASE i = n
    BY <1>1, <1>3, <2>2
  <2> QED
    BY <2>1, <2>2, <1>1
<1>6. Cyclic(cs, use)
  <2> SUFFICES ASSUME NEW i \in 1..(n + 1), NEW j \in 1..(n + 1), i < j
               PROVE  Before(cs[i], cs[j], use)
    BY <1>1 DEF Cyclic
  <2>1. CASE j <= n
    BY <1>1, <2>1 DEF Shape, Cyclic
  <2>2. CASE j = n + 1
    <3>1. i \in 1..n /\ n > 0 /\ cs[i] = bs[i] /\ cs[j] = b /\ bs[i] \in Block
      BY <1>1, <2>2
    <3>2. /\ bs[i].offset \in 0..Size /\ bs[i].size \in 1..Size /\ EndOf(bs[i]) <= Size
          /\ bs[i].offset >= use \/ EndOf(bs[i]) <= use
      <4>1. /\ bs[i].size > 0 /\ EndOf(bs[i]) <= Size
            /\ bs[i].offset >= use \/ EndOf(bs[i]) <= use
        BY <3>1 DEF Shape, Sound
      <4>2. bs[i].offset \in 0..Size /\ bs[i].size \in 0..Size
        BY <3>1 DEF Block
      <4> QED
        BY <4>1, <4>2, <1>2
    <3>3. i = n \/ Before(bs[i], bs[n], use)
      BY <3>1, <1>1 DEF Shape, Cyclic
    <3>4. b.offset \in 0..Size /\ b.size \in 1..Size
      BY <1>2 DEF Block
    <3>8. /\ Wrap(bs[n].offset + bs[n].size) = free
          /\ bs[n].offset \in 0..Size /\ bs[n].size \in 1..Size
          /\ bs[n].offset + bs[n].size <= Size
          /\ bs[n].offset >= use \/ bs[n].offset + bs[n].size <= use
      BY <3>1, <1>3 DEF EndOf
    <3>9. \/ free = 0 /\ bs[n].offset + bs[n].size = Size
          \/ free = bs[n].offset + bs[n].size
      BY <3>8 DEF Wrap
    <3>5. /\ free > use => bs[i].offset >= use /\ EndOf(bs[i]) <= free
          /\ free < use => bs[i].offset >= use \/ EndOf(bs[i]) <= free
      <4> DEFINE po == bs[i].offset
                 ps == bs[i].size
                 qo == bs[n].offset
                 qs == bs[n].size
      <4>1. /\ po \in 0..Size /\ ps \in 1..Size /\ po + ps <= Size
            /\ qo \in 0..Size /\ qs \in 1..Size /\ qo + qs <= Size
            /\ qo >= use \/ qo + qs <= use
            /\ \/ free = 0 /\ qo + qs = Size
               \/ free = qo + qs
        BY <3>2, <3>8, <3>9 DEF EndOf
      <4>2. \/ po = qo /\ ps = qs
            \/ po >= use /\ qo < use
            \/ (po >= use <=> qo >= use) /\ po + ps <= qo
        BY <3>3 DEF Before, EndOf
      <4>3. po \in Int /\ ps \in Int /\ qo \in Int /\ qs \in Int /\ use \in Int /\ free \in Int
        BY <1>2, <4>1
      <4>4. 0 <= po /\ 0 < ps /\ 0 <= qo /\ 0 < qs /\ 0 <= use /\ use < Size
        BY <4>1, Ranges
      <4> HIDE DEF po, ps, qo, qs
      <4>5. /\ free > use => po >= use /\ po + ps <= free
            /\ free < use => po >= use \/ po + ps <= free
        BY <4>1, <4>2, <4>3, <4>4, EndsBeforeFree
      <4> QED
        BY <4>5 DEF po, ps, EndOf
    <3>6. CASE free # use
      <4>1. CASE free > use
        <5>1. bs[i].offset >= use /\ EndOf(bs[i]) <= free
          BY <3>5, <4>1
        <5> QED
          BY <5>1, <4>1, <3>1, <3>2, <3>4 DEF Before
      <4>2. CASE free < use /\ bs[i].offset >= use
        BY <4>2, <3>1 DEF Before
      <4>3. CASE free < use /\ ~(bs[i].offset >= use)
        <5>1. EndOf(bs[i]) <= free
          BY <4>3, <3>5
        <5> QED
          BY <5>1, <4>3, <3>1, <3>2, <3>4 DEF Before
      <4> QED
        BY <4>1, <4>2, <4>3, <3>6
    <3>7. CASE free = use
      <4>1. EndOf(b) <= use
        BY <3>1, <3>7, <1>2, <1>3
      <4>2. b.offset = use /\ b.size \in Nat \ {0} /\ use \in Nat
        BY <3>4, <3>7, <1>2
      <4> QED
        BY <4>1, <4>2 DEF EndOf
    <3> QED
      BY <3>6, <3>7
  <2> QED
    BY <2>1, <2>2, <1>1
<1>7. Ends(cs, use, Wrap(EndOf(b)))
  BY <1>1, <1>3 DEF Ends, Shape
<1> QED
  BY <1>4, <1>5, <1>6, <1>7 DEF Shape

\* Two blocks keep their order when the cut moves from use over a block of size
\* length that both of them lie outside.
LEMMA CutMoves ==
    ASSUME NEW p \in Block, NEW q \in Block,
           NEW use \in 0..(Size - 1), NEW length \in 1..Size, NEW moved \in 0..(Size - 1),
           p.offset \in 0..Size, p.size \in 1..Size, p.offset + p.size <= Size,
           q.offset \in 0..Size, q.size \in 1..Size, q.offset + q.size <= Size,
           \/ p.offset >= use /\ p.offset >= use + length
           \/ p.offset < use /\ p.offset + p.size <= use,
           \/ q.offset >= use /\ q.offset >= use + length
           \/ q.offset < use /\ q.offset + q.size <= use,
           Before(p, q, use),
           moved = use + length \/ (moved = 0 /\ use + length = Size)
    PROVE  Before(p, q, moved)
<1>1. Size \in Nat \ {0}
  BY FenceAssumption
<1>2. \/ p.offset >= use /\ q.offset < use
      \/ p.offset >= use /\ q.offset >= use /\ p.offset + p.size <= q.offset
      \/ p.offset < use /\ q.offset < use /\ p.offset + p.size <= q.offset
  BY <1>1 DEF Before, EndOf
<1>3. CASE moved = use + length
  <2>1. \/ p.offset >= moved /\ q.offset < moved
        \/ p.offset >= moved /\ q.offset >= moved /\ p.offset + p.size <= q.offset
        \/ p.offset < moved /\ q.offset < moved /\ p.offset + p.size <= q.offset
    BY <1>1, <1>2, <1>3
  <2> QED
    BY <2>1, <1>1 DEF Before, EndOf
<1>4. CASE moved = 0 /\ use + length = Size
  <2>1. p.offset >= moved /\ q.offset >= moved /\ p.offset + p.size <= q.offset
    BY <1>1, <1>2, <1>4
  <2> QED
    BY <2>1, <1>1 DEF Before, EndOf
<1> QED
  BY <1>3, <1>4

\* The oldest block goes: either it was the last, or the ring begins where it ended.
LEMMA TailShape ==
    ASSUME NEW bs \in Seq(Block), NEW use \in 0..(Size - 1), NEW free \in 0..(Size - 1),
           Shape(bs, use, free), bs # <<>>
    PROVE  LET moved == Wrap(use + bs[1].size) IN
           /\ moved \in 0..(Size - 1)
           /\ moved = free => Tail(bs) = <<>>
           /\ moved # free => Tail(bs) # <<>> /\ Shape(Tail(bs), moved, free)
<1> DEFINE cs == Tail(bs)
           n == Len(bs)
           moved == Wrap(use + bs[1].size)
<1>1. /\ n \in Nat \ {0} /\ cs \in Seq(Block) /\ Len(cs) = n - 1
      /\ \A i \in 1..(n - 1) : cs[i] = bs[i + 1]
      /\ \A i \in 1..n : bs[i] \in Block
      /\ cs = <<>> <=> n = 1
  <2>1. n \in Nat \ {0} /\ cs \in Seq(Block) /\ Len(cs) = n - 1
    OBVIOUS
  <2>2. \A i \in 1..(n - 1) : cs[i] = bs[i + 1]
    OBVIOUS
  <2>3. \A i \in 1..n : bs[i] \in Block
    OBVIOUS
  <2>4. cs = <<>> <=> Len(cs) = 0
    <3> HIDE DEF cs
    <3> QED
      BY <2>1, EmptyHasNoLength
  <2> QED
    BY <2>1, <2>2, <2>3, <2>4
<1>2. Size \in Nat \ {0}
  BY FenceAssumption
<1>3. /\ bs[1].offset = use /\ EndOf(bs[1]) = use + bs[1].size
      /\ Wrap(EndOf(bs[n])) = free
  BY <1>1 DEF Shape, Ends, EndOf
<1>4. ASSUME NEW i \in 1..n
      PROVE  /\ bs[i].offset \in 0..Size /\ bs[i].size \in 1..Size
             /\ bs[i].offset + bs[i].size <= Size
             /\ bs[i].offset >= use \/ bs[i].offset + bs[i].size <= use
  BY <1>1, <1>2 DEF Shape, Sound, Block, EndOf
<1>5. /\ use + bs[1].size <= Size /\ bs[1].size \in 1..Size
      /\ moved = use + bs[1].size \/ (moved = 0 /\ use + bs[1].size = Size)
      /\ moved \in 0..(Size - 1)
  <2>1. bs[1].offset + bs[1].size <= Size /\ bs[1].size \in 1..Size
    BY <1>1, <1>4
  <2>2. use + bs[1].size <= Size /\ bs[1].size \in 1..Size
    BY <2>1, <1>3
  <2> QED
    BY <2>2, <1>2 DEF Wrap
\* Seen from the new beginning, every other block is on the side it was on or,
\* when the cut is at the end, all of them are above it.
<1>6. ASSUME NEW i \in 2..n
      PROVE  \/ bs[i].offset >= use /\ bs[i].offset >= use + bs[1].size
             \/ bs[i].offset < use /\ bs[i].offset + bs[i].size <= use
  <2>1. Before(bs[1], bs[i], use)
    BY <1>1 DEF Shape, Cyclic
  <2>2. bs[i].offset \in 0..Size /\ bs[i].size \in 1..Size
    BY <1>1, <1>4
  <2>3. bs[i].offset >= use \/ bs[i].offset + bs[i].size <= use
    BY <1>1, <1>4
  <2> DEFINE o == bs[i].offset
             s == bs[i].size
             length == bs[1].size
  <2>4. \/ o < use
        \/ use + length <= o
    BY <2>1, <1>3 DEF Before
  <2>5. o \in Int /\ s \in Int /\ use \in Int /\ length \in Int /\ 0 < s /\ 0 < length
    BY <2>2, <1>5, Ranges
  <2> HIDE DEF o, s, length
  <2>6. \/ o >= use /\ o >= use + length
        \/ o < use /\ o + s <= use
    BY <2>3, <2>4, <2>5 DEF o, s
  <2> QED
    BY <2>6 DEF o, s, length
<1>7. CASE n = 1
  <2>1. moved = free
    BY <1>3, <1>7
  <2> QED
    BY <2>1, <1>1, <1>5, <1>7
<1>8. CASE n > 1
  <2>1. n \in 2..n /\ n - 1 \in 1..(n - 1)
    BY <1>1, <1>8
  <2>2. moved # free
    <3>1. /\ bs[n].offset \in 0..Size /\ bs[n].size \in 1..Size
          /\ bs[n].offset + bs[n].size <= Size
      BY <1>1, <1>4
    <3>2. \/ free = 0 /\ bs[n].offset + bs[n].size = Size
          \/ free = bs[n].offset + bs[n].size
      BY <1>3 DEF Wrap, EndOf
    <3>3. \/ bs[n].offset >= use /\ bs[n].offset >= use + bs[1].size
          \/ bs[n].offset < use /\ bs[n].offset + bs[n].size <= use
      BY <2>1, <1>6
    <3> DEFINE o == bs[n].offset
               s == bs[n].size
               length == bs[1].size
    <3>4. /\ o \in Int /\ s \in Int /\ length \in Int /\ use \in Int /\ moved \in Int /\ free \in Int
          /\ 0 <= o /\ 0 < s /\ o + s <= Size /\ 0 <= use /\ 0 < length /\ use + length <= Size
      BY <3>1, <1>5, Ranges
    <3>5. /\ o >= use + length \/ o + s <= use
          /\ \/ free = 0 /\ o + s = Size
             \/ free = o + s
          /\ moved = use + length \/ (moved = 0 /\ use + length = Size)
      BY <3>2, <3>3, <1>5
    <3> HIDE DEF o, s, length, moved
    <3> QED
      BY <3>4, <3>5, MovedIsNotFree
  <2>3. Sound(cs, moved)
    <3> SUFFICES ASSUME NEW i \in 1..(n - 1)
                 PROVE  /\ bs[i + 1].size > 0 /\ EndOf(bs[i + 1]) <= Size
                        /\ bs[i + 1].offset >= moved \/ EndOf(bs[i + 1]) <= moved
      BY <1>1 DEF Sound
    <3>1. i + 1 \in 2..n /\ i + 1 \in 1..n
      BY <1>1
    <3> DEFINE p == bs[i + 1]
    <3>2. /\ p.offset \in 0..Size /\ p.size \in 1..Size /\ p.offset + p.size <= Size
      BY <3>1, <1>4
    <3>3. \/ p.offset >= use /\ p.offset >= use + bs[1].size
          \/ p.offset < use /\ p.offset + p.size <= use
      BY <3>1, <1>6
    <3>4. /\ bs[1].size \in 1..Size /\ moved \in 0..(Size - 1)
          /\ moved = use + bs[1].size \/ (moved = 0 /\ use + bs[1].size = Size)
      BY <1>5
    <3> HIDE DEF p, moved
    <3>5. p.size > 0 /\ p.offset + p.size <= Size
      BY <3>2, <1>2
    <3> DEFINE o == p.offset
               s == p.size
               length == bs[1].size
    <3>6. /\ o \in Int /\ s \in Int /\ length \in Int /\ use \in Int /\ moved \in Int
          /\ 0 <= o /\ o + s <= Size
          /\ o >= use + length \/ o + s <= use
          /\ 0 < length
          /\ moved = use + length \/ (moved = 0 /\ use + length = Size)
      BY <3>2, <3>3, <3>4, <1>2
    <3> HIDE DEF o, s, length
    <3>7. o >= moved \/ o + s <= moved
      BY <3>6, StillOutside
    <3> QED
      BY <3>5, <3>7 DEF EndOf, p, o, s
  <2>4. Adjacent(cs)
    BY <1>1 DEF Shape, Adjacent
  <2>5. Cyclic(cs, moved)
    <3> SUFFICES ASSUME NEW i \in 1..(n - 1), NEW j \in 1..(n - 1), i < j
                 PROVE  Before(bs[i + 1], bs[j + 1], moved)
      BY <1>1 DEF Cyclic
    <3> DEFINE p == bs[i + 1]
               q == bs[j + 1]
    <3>1. i + 1 \in 2..n /\ j + 1 \in 2..n /\ i + 1 \in 1..n /\ j + 1 \in 1..n /\ i + 1 < j + 1
      BY <1>1
    <3>2. Before(p, q, use)
      BY <3>1 DEF Shape, Cyclic
    <3>3. /\ p.offset \in 0..Size /\ p.size \in 1..Size /\ p.offset + p.size <= Size
          /\ q.offset \in 0..Size /\ q.size \in 1..Size /\ q.offset + q.size <= Size
      BY <3>1, <1>4
    <3>4. /\ \/ p.offset >= use /\ p.offset >= use + bs[1].size
             \/ p.offset < use /\ p.offset + p.size <= use
          /\ \/ q.offset >= use /\ q.offset >= use + bs[1].size
             \/ q.offset < use /\ q.offset + q.size <= use
      BY <3>1, <1>6
    <3>5. p \in Block /\ q \in Block
      BY <3>1, <1>1
    <3> DEFINE length == bs[1].size
    <3>6. /\ length \in 1..Size /\ moved \in 0..(Size - 1)
          /\ moved = use + length \/ (moved = 0 /\ use + length = Size)
      BY <1>5
    <3>7. /\ \/ p.offset >= use /\ p.offset >= use + length
             \/ p.offset < use /\ p.offset + p.size <= use
          /\ \/ q.offset >= use /\ q.offset >= use + length
             \/ q.offset < use /\ q.offset + q.size <= use
      BY <3>4
    <3> HIDE DEF p, q, length, moved
    <3>8. Before(p, q, moved)
      BY <3>2, <3>3, <3>5, <3>6, <3>7, CutMoves
    <3> QED
      BY <3>8 DEF p, q
  <2>6. Ends(cs, moved, free)
    <3>1. cs # <<>> /\ cs[Len(cs)] = bs[n] /\ cs[1] = bs[2] /\ bs[2] = bs[1 + 1]
      BY <1>1, <1>8, <2>1
    <3>2. bs[1 + 1].offset = Wrap(EndOf(bs[1]))
      BY <1>1, <1>8 DEF Shape, Adjacent
    <3>3. cs[1].offset = moved
      BY <3>1, <3>2, <1>3
    <3> QED
      BY <3>1, <3>3, <1>3 DEF Ends
  <2> QED
    BY <2>2, <2>3, <2>4, <2>5, <2>6, <1>1, <1>5, <1>8 DEF Shape
<1> QED
  BY <1>1, <1>7, <1>8

\* The shape is a matter of offsets and sizes.
LEMMA SameShape ==
    ASSUME NEW bs \in Seq(Block), NEW cs \in Seq(Block), NEW use, NEW free,
           Shape(bs, use, free), Len(cs) = Len(bs),
           \A i \in 1..Len(bs) : cs[i].offset = bs[i].offset /\ cs[i].size = bs[i].size
    PROVE  Shape(cs, use, free)
<1>1. Len(bs) \in Nat /\ (bs = <<>> <=> Len(bs) = 0) /\ (cs = <<>> <=> Len(cs) = 0)
  OBVIOUS
<1>2. Sound(cs, use) /\ Cyclic(cs, use)
  BY <1>1 DEF Shape, Sound, Cyclic, Before, EndOf
<1>3. Adjacent(cs)
  BY <1>1 DEF Shape, Adjacent, EndOf
<1>4. Ends(cs, use, free)
  <2>1. CASE bs = <<>>
    BY <2>1, <1>1 DEF Shape, Ends
  <2>2. CASE bs # <<>>
    <3>1. 1 \in 1..Len(bs) /\ Len(bs) \in 1..Len(bs)
      BY <2>2, <1>1
    <3> QED
      BY <2>2, <3>1, <1>1 DEF Shape, Ends, EndOf
  <2> QED
    BY <2>1, <2>2
<1> QED
  BY <1>2, <1>3, <1>4 DEF Shape

-----------------------------------------------------------------------------
(* The steps                                                               *)

\* What FreeOldestBlock asserts of the block it frees.
LEMMA OldestFreed == IInv => OldestIsFreed
<1> SUFFICES ASSUME IInv, MustFree
             PROVE  blocks_ # <<>> /\ ~InUse(1)
  BY DEF OldestIsFreed
<1>1. call \in {"Alloc", "delete"} /\ LastIsFreed
  BY DEF IInv, OnlyLastInUse, MustFree
<1>2. blocks_ # <<>>
  <2> SUFFICES ASSUME blocks_ = <<>> PROVE FALSE
    OBVIOUS
  <2>1. in_use_offset_ = 0 /\ free_offset_ = 0
    BY DEF IInv, Shape, Ends
  <2>2. GetLargestFreeSizeNoWaiting = Size
    BY <2>1 DEF GetLargestFreeSizeNoWaiting
  <2>3. want > Size
    BY <2>2 DEF MustFree
  <2> QED
    BY <2>3, FenceAssumption DEF IInv, TypeOK
<1>3. 1 \in 1..Len(blocks_)
  BY <1>2 DEF IInv, TypeOK
<1> QED
  BY <1>1, <1>2, <1>3 DEF IInv, OnlyLastInUse, LastIsFreed

\* At first the ring is empty and nothing reads it.
LEMMA InitIInv == Init => IInv
<1> SUFFICES ASSUME Init PROVE IInv
  OBVIOUS
<1>1. Size \in Nat \ {0} /\ MaxToken \in Nat \ {0}
  BY FenceAssumption
<1>2. blocks_ \in Seq(Block) /\ Len(blocks_) = 0 /\ Len(stream) = 0
  BY DEF Init, FenceInit
<1>3. stream \in Seq(Command)
  BY DEF Init, FenceInit
<1>4. lost \in BOOLEAN
  BY Zenon DEF Init, FenceInit
<1>5. TypeOK
  BY <1>1, <1>2, <1>3, <1>4 DEF Init, FenceInit, TypeOK, FenceTypeOK, Token
<1>6. Shape(blocks_, in_use_offset_, free_offset_)
  BY <1>2 DEF Init, Shape, Sound, Adjacent, Cyclic, Ends
<1>7. OnlyLastInUse
  BY <1>2 DEF Init, OnlyLastInUse
<1>8. Fenced
  BY <1>2 DEF Init, FenceInit, Fenced, StreamRises, StreamHasBlocks
<1> QED
  BY <1>5, <1>6, <1>7, <1>8 DEF IInv

\* Alloc and the destructor begin, or the destructor ends: only the call changes.
LEMMA CallStep ==
    ASSUME IInv, (\E size \in 0..Size : Alloc(size)) \/ Delete \/ DeleteReturns
    PROVE  IInv'
<1>1. UNCHANGED <<fenceVars, blocks_, free_offset_, in_use_offset_>>
  BY DEF Alloc, Delete, DeleteReturns
<1>2. TypeOK'
  <2>1. want' \in 0..Size /\ call' \in {"none", "Alloc", "delete", "deleted"}
    BY FenceAssumption DEF IInv, TypeOK, Alloc, Delete, DeleteReturns
  <2> QED
    BY <1>1, <2>1 DEF IInv, TypeOK, FenceTypeOK, fenceVars
<1>3. Shape(blocks_, in_use_offset_, free_offset_)'
  BY <1>1 DEF IInv, Shape, Sound, Adjacent, Cyclic, Ends
<1>4. OnlyLastInUse'
  <2>1. \A i \in 1..Len(blocks_') : InUse(i)' => i = Len(blocks_')
    BY <1>1 DEF IInv, OnlyLastInUse, InUse
  <2>2. call' \in {"Alloc", "delete"} => LastIsFreed
    BY DEF Alloc, Delete, DeleteReturns
  <2>3. call' = "Alloc" => want' > 0
    BY FenceAssumption DEF Alloc, Delete, DeleteReturns
  <2> QED
    BY <1>1, <2>1, <2>2, <2>3 DEF OnlyLastInUse, LastIsFreed, InUse
<1>5. Fenced'
  BY <1>1 DEF IInv, Fenced, StreamRises, StreamHasBlocks, fenceVars
<1> QED
  BY <1>2, <1>3, <1>4, <1>5 DEF IInv

\* The oldest block goes, and no command reads it any more.
LEMMA FreeOldestBlockStep ==
    ASSUME IInv, FreeOldestBlock
    PROVE  IInv'
<1> DEFINE n == Len(blocks_)
           moved == Wrap(in_use_offset_ + blocks_[1].size)
<1>1. /\ UNCHANGED <<fenceVars, call, want>> /\ MustFree
      /\ blocks_' = Tail(blocks_)
      /\ blocks_[1].state = "FREE_PENDING_TOKEN" => TokenAwaited(blocks_[1].token)
      /\ in_use_offset_' = IF moved = free_offset_ THEN 0 ELSE moved
      /\ free_offset_' = IF moved = free_offset_ THEN 0 ELSE free_offset_
  BY DEF FreeOldestBlock
<1>2. blocks_ # <<>> /\ blocks_ \in Seq(Block)
  BY <1>1, OldestFreed DEF OldestIsFreed, IInv, TypeOK
<1>3. Size \in Nat \ {0}
  BY FenceAssumption
<1>4. /\ moved \in 0..(Size - 1)
      /\ moved = free_offset_ => Tail(blocks_) = <<>>
      /\ moved # free_offset_ => Tail(blocks_) # <<>>
                                 /\ Shape(Tail(blocks_), moved, free_offset_)
  BY <1>2, TailShape DEF IInv, TypeOK
<1>5. /\ n \in Nat \ {0} /\ blocks_' \in Seq(Block) /\ Len(blocks_') = n - 1
      /\ \A i \in 1..(n - 1) : blocks_'[i] = blocks_[i + 1]
  <2>1. n \in Nat \ {0} /\ blocks_' \in Seq(Block) /\ Len(blocks_') = n - 1
    BY <1>1, <1>2
  <2>2. \A i \in 1..(n - 1) : blocks_'[i] = blocks_[i + 1]
    BY <1>1, <1>2
  <2> QED
    BY <2>1, <2>2
<1>6. TypeOK'
  <2>1. in_use_offset_' \in 0..(Size - 1) /\ free_offset_' \in 0..(Size - 1)
    BY <1>1, <1>3, <1>4 DEF IInv, TypeOK
  <2> QED
    BY <1>1, <1>5, <2>1 DEF IInv, TypeOK, FenceTypeOK, fenceVars
<1>7. Shape(blocks_, in_use_offset_, free_offset_)'
  <2>1. CASE moved = free_offset_
    <3>1. blocks_' = <<>> /\ in_use_offset_' = 0 /\ free_offset_' = 0 /\ Len(blocks_') = 0
      BY <2>1, <1>1, <1>4
    <3> QED
      BY <3>1 DEF Shape, Sound, Adjacent, Cyclic, Ends
  <2>2. CASE moved # free_offset_
    BY <2>2, <1>1, <1>4
  <2> QED
    BY <2>1, <2>2
<1>8. OnlyLastInUse'
  <2>1. \A i \in 1..Len(blocks_') : InUse(i)' => i = Len(blocks_')
    BY <1>5 DEF IInv, OnlyLastInUse, InUse
  <2>2. call \in {"Alloc", "delete"} /\ LastIsFreed
    BY <1>1 DEF IInv, OnlyLastInUse, MustFree
  <2>3. blocks_' # <<>> => ~InUse(Len(blocks_))'
    <3> SUFFICES ASSUME blocks_' # <<>> PROVE blocks_'[n - 1].state # "IN_USE"
      BY <1>5 DEF InUse
    <3>1. n - 1 \in 1..(n - 1)
      BY <1>5
    <3>2. blocks_'[n - 1] = blocks_[n]
      BY <3>1, <1>5
    <3> QED
      BY <3>2, <2>2, <1>2 DEF LastIsFreed, InUse
  <2> QED
    BY <1>1, <2>1, <2>3 DEF IInv, OnlyLastInUse, LastIsFreed
<1>9. Fenced'
  <2> SUFFICES ASSUME ~lost PROVE StreamRises /\ StreamHasBlocks'
    BY <1>1 DEF Fenced, StreamRises, fenceVars
  <2>1. StreamRises /\ StreamHasBlocks
    BY DEF IInv, Fenced
  <2>2. ASSUME NEW k \in 1..Len(stream)
        PROVE  \E i \in 1..Len(blocks_') : Waits(blocks_'[i], stream[k])
    <3>1. PICK i \in 1..n : Waits(blocks_[i], stream[k])
      BY <2>1, <2>2 DEF StreamHasBlocks
    <3>2. i # 1
      <4> SUFFICES ASSUME i = 1 PROVE FALSE
        OBVIOUS
      <4>1. TokenAwaited(stream[k].token)
        BY <1>1, <3>1 DEF Waits
      <4>2. executed < stream[k].token /\ stream[k].token <= token_ /\ last_token_read_ <= executed
        BY <2>1 DEF StreamRises
      <4>3. /\ token_ \in Nat /\ executed \in Nat /\ last_token_read_ \in Nat
            /\ stream \in Seq(Command)
        BY FenceAssumption DEF IInv, TypeOK, FenceTypeOK, Token
      <4>4. stream[k].token \in Nat
        <5>1. stream[k] \in Command
          BY <4>3
        <5> QED
          BY <5>1, FenceAssumption DEF Command, Token
      <4>5. stream[k].token > token_ \/ last_token_read_ >= stream[k].token
        BY <4>1 DEF TokenAwaited
      <4> QED
        BY <4>2, <4>3, <4>4, <4>5
    <3>3. i - 1 \in 1..(n - 1) /\ i - 1 \in 1..Len(blocks_') /\ blocks_'[i - 1] = blocks_[i]
      BY <3>2, <1>5
    <3> QED
      BY <3>1, <3>3
  <2>3. stream' = stream
    BY <1>1 DEF fenceVars
  <2> QED
    BY <2>1, <2>2, <2>3 DEF StreamHasBlocks
<1> QED
  BY <1>6, <1>7, <1>8, <1>9 DEF IInv

\* The space Alloc has found is free.
LEMMA AllocReturnsStep ==
    ASSUME IInv, AllocReturns
    PROVE  IInv'
<1> DEFINE n == Len(blocks_)
           use == in_use_offset_
           free == free_offset_
           padded == want + free > Size
           pad == NewBlock(free, Size - free, "PADDING")
           kept == IF padded THEN Append(blocks_, pad) ELSE blocks_
           new == NewBlock(IF padded THEN 0 ELSE free, want, "IN_USE")
<1>1. /\ UNCHANGED <<fenceVars, in_use_offset_>> /\ call = "Alloc" /\ ~MustFree
      /\ blocks_' = Append(kept, new)
      /\ free_offset_' = Wrap((IF padded THEN 0 ELSE free) + want)
      /\ call' = "none" /\ want' = 0
  BY DEF AllocReturns
<1>2. Size \in Nat \ {0} /\ MaxToken \in Nat \ {0}
  BY FenceAssumption
<1>3. /\ blocks_ \in Seq(Block) /\ use \in 0..(Size - 1) /\ free \in 0..(Size - 1)
      /\ want \in 1..Size /\ Shape(blocks_, use, free)
  BY <1>1, <1>2 DEF IInv, TypeOK, OnlyLastInUse
<1>4. want <= GetLargestFreeSizeNoWaiting
  <2>1. GetLargestFreeSizeNoWaiting \in 0..Size
    BY <1>2, <1>3 DEF GetLargestFreeSizeNoWaiting
  <2> QED
    BY <1>1, <1>3, <2>1 DEF MustFree
<1>5. \/ blocks_ = <<>> /\ use = 0 /\ free = 0
      \/ blocks_ # <<>> /\ free > use /\ (want <= Size - free \/ want <= use)
      \/ blocks_ # <<>> /\ free < use /\ want <= use - free
  BY <1>2, <1>3, <1>4 DEF GetLargestFreeSizeNoWaiting, Shape, Ends
<1>6. /\ new \in Block /\ new.offset = (IF padded THEN 0 ELSE free)
      /\ new.size = want /\ new.state = "IN_USE"
      /\ pad \in Block /\ pad.offset = free /\ pad.size = Size - free /\ pad.state = "PADDING"
  BY <1>2, <1>3 DEF NewBlock, Block, Token
<1>7. /\ kept \in Seq(Block) /\ blocks_' \in Seq(Block)
      /\ n \in Nat /\ Len(kept) \in Nat /\ Len(blocks_') = Len(kept) + 1
      /\ n <= Len(kept)
      /\ \A i \in 1..n : blocks_'[i] = blocks_[i]
      /\ \A i \in 1..Len(kept) : blocks_'[i].state = "IN_USE" => i \in 1..n
      /\ blocks_'[Len(kept) + 1] = new
  <2>1. CASE padded
    <3>1. kept = Append(blocks_, pad)
      BY <2>1
    <3>2. Len(kept) = n + 1 /\ n \in Nat /\ kept \in Seq(Block)
      BY <3>1, <1>3, <1>6
    <3>3. \A i \in 1..n : kept[i] = blocks_[i]
      BY <3>1, <1>3
    <3>4. kept[n + 1] = pad
      BY <3>1, <1>3
    <3>5. /\ blocks_' \in Seq(Block) /\ Len(blocks_') = Len(kept) + 1
          /\ \A i \in 1..Len(kept) : blocks_'[i] = kept[i]
          /\ blocks_'[Len(kept) + 1] = new
      BY <3>2, <1>1, <1>6
    <3> QED
      BY <3>2, <3>3, <3>4, <3>5, <1>6
  <2>2. CASE ~padded
    <3>1. kept = blocks_
      BY <2>2
    <3>2. /\ blocks_' \in Seq(Block) /\ Len(blocks_') = n + 1 /\ n \in Nat
          /\ \A i \in 1..n : blocks_'[i] = blocks_[i]
          /\ blocks_'[n + 1] = new
      BY <3>1, <1>1, <1>3, <1>6
    <3> QED
      BY <3>1, <3>2, <1>3
  <2> QED
    BY <2>1, <2>2
<1>8. Shape(blocks_, in_use_offset_, free_offset_)'
  <2>1. CASE padded
    <3>1. free > use /\ want <= use /\ use > 0
      BY <2>1, <1>2, <1>3, <1>5
    <3>2. pad.size > 0 /\ EndOf(pad) = Size /\ EndOf(pad) <= Size
      BY <1>2, <1>3, <1>6 DEF EndOf
    <3>3. Shape(kept, use, Wrap(EndOf(pad)))
      BY <2>1, <3>1, <3>2, <1>3, <1>6, AppendShape
    <3>4. Wrap(EndOf(pad)) = 0 /\ 0 \in 0..(Size - 1)
      BY <3>2, <1>2 DEF Wrap
    <3>5. new.offset = 0 /\ new.size > 0 /\ EndOf(new) = want
          /\ EndOf(new) <= Size /\ EndOf(new) <= use
      <4>1. new.offset = 0 /\ new.size = want /\ want \in 1..Size
        BY <2>1, <1>3, <1>6
      <4> HIDE DEF new
      <4>2. 0 + want = want /\ want > 0 /\ want <= Size
        BY <4>1, <1>2
      <4>3. EndOf(new) = want
        BY <4>1, <4>2 DEF EndOf
      <4> QED
        BY <4>1, <4>2, <4>3, <3>1
    <3>6. Shape(Append(kept, new), use, Wrap(EndOf(new)))
      <4>1. /\ Shape(kept, use, 0) /\ kept \in Seq(Block) /\ new \in Block
            /\ use \in 0..(Size - 1) /\ 0 \in 0..(Size - 1)
        BY <3>3, <3>4, <1>3, <1>6, <1>7
      <4> HIDE DEF kept, new, use
      <4> QED
        BY <4>1, <3>5, AppendShape
    <3>7. free_offset_' = Wrap(EndOf(new))
      BY <1>1, <1>3, <2>1, <3>5
    <3> QED
      BY <3>6, <3>7, <1>1
  <2>2. CASE ~padded
    <3>1. /\ new.offset = free /\ new.size > 0 /\ EndOf(new) = free + want
          /\ EndOf(new) <= Size
      BY <2>2, <1>2, <1>3, <1>6 DEF EndOf
    <3>2. blocks_ = <<>> \/ free > use \/ EndOf(new) <= use
      BY <3>1, <1>2, <1>3, <1>5
    <3>3. Shape(Append(blocks_, new), use, Wrap(EndOf(new)))
      BY <3>1, <3>2, <1>3, <1>6, AppendShape
    <3>4. free_offset_' = Wrap(EndOf(new))
      BY <1>1, <2>2, <3>1
    <3> QED
      BY <2>2, <3>3, <3>4, <1>1
  <2> QED
    BY <2>1, <2>2
<1>9. TypeOK'
  <2>1. free_offset_' \in 0..(Size - 1)
    BY <1>1, <1>2, <1>3 DEF Wrap
  <2> QED
    BY <1>1, <1>2, <1>7, <2>1 DEF IInv, TypeOK, FenceTypeOK, fenceVars
<1>10. OnlyLastInUse'
  <2>1. \A i \in 1..n : ~InUse(i)
    BY <1>1, <1>3 DEF IInv, OnlyLastInUse, LastIsFreed
  <2>2. \A i \in 1..Len(kept) : blocks_'[i].state # "IN_USE"
    BY <2>1, <1>7 DEF InUse
  <2>3. \A i \in 1..Len(blocks_') : blocks_'[i].state = "IN_USE" => i = Len(blocks_')
    BY <2>2, <1>7
  <2> QED
    BY <2>3, <1>1 DEF OnlyLastInUse, InUse
<1>11. Fenced'
  <2> SUFFICES ASSUME ~lost PROVE StreamRises /\ StreamHasBlocks'
    BY <1>1 DEF Fenced, StreamRises, fenceVars
  <2>1. StreamRises /\ StreamHasBlocks /\ stream' = stream
    BY <1>1 DEF IInv, Fenced, fenceVars
  <2>2. ASSUME NEW k \in 1..Len(stream)
        PROVE  \E i \in 1..Len(blocks_') : Waits(blocks_'[i], stream[k])
    <3>1. PICK i \in 1..n : Waits(blocks_[i], stream[k])
      BY <2>1 DEF StreamHasBlocks
    <3>2. i \in 1..Len(blocks_') /\ blocks_'[i] = blocks_[i]
      BY <1>7
    <3> QED
      BY <3>1, <3>2
  <2> QED
    BY <2>1, <2>2 DEF StreamHasBlocks
<1> QED
  BY <1>8, <1>9, <1>10, <1>11 DEF IInv

\* The block in use now waits for the token behind the commands that read it.
LEMMA FreePendingTokenStep ==
    ASSUME IInv, FreePendingToken
    PROVE  IInv'
<1> DEFINE n == Len(blocks_)
<1>1. PICK i \in 1..n :
        /\ call = "none" /\ InUse(i)
        /\ InsertToken(blocks_[i].offset, blocks_[i].size)
        /\ blocks_' = [blocks_ EXCEPT ![i] =
                         [@ EXCEPT !.state = "FREE_PENDING_TOKEN", !.token = NextToken]]
        /\ UNCHANGED <<free_offset_, in_use_offset_, call, want>>
  BY DEF FreePendingToken
<1>2. Size \in Nat \ {0} /\ MaxToken \in Nat \ {0}
  BY FenceAssumption
<1>3. /\ token_ \in Token /\ executed \in Token /\ last_token_read_ \in Token
      /\ stream \in Seq(Command) /\ lost \in BOOLEAN /\ blocks_ \in Seq(Block)
  BY DEF IInv, TypeOK, FenceTypeOK
<1>4. NextToken \in Token /\ (NextToken = 0 \/ NextToken = token_ + 1)
  <2>1. CASE token_ = MaxToken
    BY <2>1, <1>2 DEF NextToken, Token
  <2>2. CASE token_ \in 0..(MaxToken - 1)
    BY <2>2, <1>2 DEF NextToken, Token
  <2> QED
    BY <2>1, <2>2, <1>2, <1>3 DEF Token
<1>5. blocks_[i] \in Block /\ blocks_[i].offset \in 0..Size /\ blocks_[i].size \in 0..Size
  <2>1. blocks_[i] \in Block
    BY <1>3
  <2> QED
    BY <2>1 DEF Block
<1> DEFINE freed == [blocks_[i] EXCEPT !.state = "FREE_PENDING_TOKEN", !.token = NextToken]
<1>6. /\ freed \in Block /\ freed.offset = blocks_[i].offset /\ freed.size = blocks_[i].size
      /\ freed.state = "FREE_PENDING_TOKEN" /\ freed.token = NextToken
  BY <1>4, <1>5 DEF Block
<1>7. /\ blocks_' \in Seq(Block) /\ Len(blocks_') = n /\ n \in Nat
      /\ blocks_'[i] = freed
      /\ \A j \in 1..n : j # i => blocks_'[j] = blocks_[j]
  <2>1. blocks_' = [blocks_ EXCEPT ![i] = freed]
    BY <1>1
  <2> HIDE DEF freed
  <2> QED
    BY <2>1, <1>3, <1>6
<1> DEFINE item == [token |-> NextToken, offset |-> blocks_[i].offset, size |-> blocks_[i].size]
<1>8. item \in Command
  BY <1>4, <1>5 DEF Command
<1>9. /\ token_' = NextToken /\ lost' = lost
      /\ \/ lost /\ UNCHANGED <<stream, executed, last_token_read_>>
         \/ ~lost /\ NextToken = 0 /\ stream' = <<>> /\ executed' = 0 /\ last_token_read_' = 0
         \/ ~lost /\ NextToken # 0 /\ stream' = Append(stream, item)
                  /\ UNCHANGED <<executed, last_token_read_>>
  BY <1>1, <1>3 DEF InsertToken
<1>10. TypeOK'
  <2>1. 0 \in Token /\ <<>> \in Seq(Command)
    BY <1>2 DEF Token
  <2>2. stream' \in Seq(Command)
    <3>1. stream' = stream \/ stream' = <<>> \/ stream' = Append(stream, item)
      BY <1>9
    <3>2. Append(stream, item) \in Seq(Command)
      BY <1>3, <1>8
    <3> QED
      BY <3>1, <3>2, <1>3, <2>1
  <2>3. lost' \in BOOLEAN
    BY <1>3, <1>9
  <2>4. token_' \in Token /\ executed' \in Token /\ last_token_read_' \in Token
    BY <1>3, <1>4, <1>9, <2>1
  <2> QED
    BY <1>1, <1>7, <2>2, <2>3, <2>4 DEF IInv, TypeOK, FenceTypeOK
<1>11. Shape(blocks_, in_use_offset_, free_offset_)'
  <2>1. \A j \in 1..n : blocks_'[j].offset = blocks_[j].offset
                         /\ blocks_'[j].size = blocks_[j].size
    BY <1>6, <1>7
  <2>2. Shape(blocks_', in_use_offset_, free_offset_)
    BY <2>1, <1>3, <1>7, SameShape DEF IInv
  <2> QED
    BY <2>2, <1>1
<1>12. OnlyLastInUse'
  BY <1>1, <1>6, <1>7 DEF IInv, OnlyLastInUse, InUse
<1>13. Fenced'
  <2> SUFFICES ASSUME ~lost PROVE StreamRises' /\ StreamHasBlocks'
    BY <1>9 DEF Fenced
  <2>1. StreamRises /\ StreamHasBlocks
    BY DEF IInv, Fenced
  <2>2. CASE NextToken = 0
    <3>1. /\ Len(stream') = 0
          /\ executed' = 0 /\ last_token_read_' = 0 /\ token_' = 0
      BY <2>2, <1>9
    <3> QED
      BY <3>1 DEF StreamRises, StreamHasBlocks
  <2>3. CASE NextToken # 0
    <3> DEFINE m == Len(stream)
    <3>1. /\ stream' = Append(stream, item) /\ token_' = token_ + 1
          /\ executed' = executed /\ last_token_read_' = last_token_read_
      BY <2>3, <1>4, <1>9
    <3>2. /\ m \in Nat /\ Len(stream') = m + 1 /\ stream'[m + 1] = item
          /\ \A k \in 1..m : stream'[k] = stream[k] /\ stream[k].token \in Nat
      <4>1. m \in Nat /\ Len(stream') = m + 1 /\ stream'[m + 1] = item
        BY <3>1, <1>3, <1>8
      <4>2. \A k \in 1..m : stream'[k] = stream[k] /\ stream[k] \in Command
        BY <3>1, <1>3
      <4> QED
        BY <4>1, <4>2, <1>2 DEF Command, Token
    <3>3. item.token = token_ + 1 /\ token_ \in Nat /\ executed \in Nat /\ last_token_read_ \in Nat
      BY <2>3, <1>2, <1>3, <1>4 DEF Token
    <3>4. StreamRises'
      <4>1. last_token_read_' <= executed' /\ executed' <= token_'
        BY <2>1, <3>1, <3>3 DEF StreamRises
      <4>2. \A k \in 1..Len(stream') : executed' < stream'[k].token /\ stream'[k].token <= token_'
        <5>1. \A k \in 1..m : executed < stream[k].token /\ stream[k].token <= token_
          BY <2>1 DEF StreamRises
        <5>2. executed <= token_
          BY <2>1 DEF StreamRises
        <5> HIDE DEF item
        <5> QED
          BY <5>1, <5>2, <3>1, <3>2, <3>3
      <4>3. \A k, l \in 1..Len(stream') : k < l => stream'[k].token < stream'[l].token
        <5>1. /\ \A k \in 1..m : stream[k].token <= token_
              /\ \A k, l \in 1..m : k < l => stream[k].token < stream[l].token
          BY <2>1 DEF StreamRises
        <5> HIDE DEF item
        <5> SUFFICES ASSUME NEW k \in 1..(m + 1), NEW l \in 1..(m + 1), k < l
                     PROVE  stream'[k].token < stream'[l].token
          BY <3>2
        <5>2. k \in 1..m /\ stream'[k] = stream[k] /\ stream[k].token \in Nat
          BY <3>2
        <5>3. CASE l = m + 1
          BY <5>1, <5>2, <5>3, <3>2, <3>3
        <5>4. CASE l \in 1..m
          BY <5>1, <5>2, <5>4, <3>2
        <5>5. m \in Nat
          BY <3>2
        <5>6. l = m + 1 \/ l \in 1..m
          BY <5>5
        <5> QED
          BY <5>3, <5>4, <5>6
      <4> QED
        BY <4>1, <4>2, <4>3 DEF StreamRises
    <3>5. ASSUME NEW k \in 1..Len(stream')
          PROVE  \E j \in 1..Len(blocks_') : Waits(blocks_'[j], stream'[k])
      <4>1. CASE k = m + 1
        <5>1. Waits(freed, item)
          BY <1>6 DEF Waits
        <5> HIDE DEF item, freed
        <5> QED
          BY <5>1, <4>1, <3>2, <1>7
      <4>2. CASE k \in 1..m
        <5>1. PICK j \in 1..n : Waits(blocks_[j], stream[k])
          BY <4>2, <2>1 DEF StreamHasBlocks
        <5>2. j # i
          BY <5>1, <1>1 DEF Waits, InUse
        <5> HIDE DEF item, freed
        <5> QED
          BY <5>1, <5>2, <4>2, <3>2, <1>7
      <4> QED
        BY <4>1, <4>2, <3>2
    <3> QED
      BY <3>4, <3>5 DEF StreamHasBlocks
  <2> QED
    BY <2>2, <2>3
<1> QED
  BY <1>10, <1>11, <1>12, <1>13 DEF IInv

\* The service and the flushes move only along the stream.
LEMMA FenceStep ==
    ASSUME IInv, Fence
    PROVE  IInv'
<1>1. UNCHANGED <<blocks_, free_offset_, in_use_offset_, call, want>>
  BY DEF Fence
<1>2. /\ token_ \in Nat /\ executed \in Nat /\ last_token_read_ \in Nat
      /\ executed \in Token /\ stream \in Seq(Command) /\ lost \in BOOLEAN
  BY FenceAssumption DEF IInv, TypeOK, FenceTypeOK, Token
<1>3. \A k \in 1..Len(stream) : stream[k].token \in Token /\ stream[k].token \in Nat
  <2>1. \A k \in 1..Len(stream) : stream[k] \in Command
    BY <1>2
  <2> QED
    BY <2>1, FenceAssumption DEF Command, Token
<1>4. Shape(blocks_, in_use_offset_, free_offset_)' /\ OnlyLastInUse'
  BY <1>1 DEF IInv, Shape, Sound, Adjacent, Cyclic, Ends, OnlyLastInUse, LastIsFreed, InUse
<1>5. CASE SetToken
  <2> DEFINE m == Len(stream)
  <2>1. /\ stream # <<>> /\ ~lost /\ executed' = stream[1].token /\ stream' = Tail(stream)
        /\ UNCHANGED <<token_, last_token_read_, lost>>
    BY <1>5 DEF SetToken
  <2>2. m \in Nat \ {0} /\ stream' \in Seq(Command) /\ Len(stream') = m - 1
    BY <1>2, <2>1
  <2>3. \A k \in 1..(m - 1) : stream'[k] = stream[k + 1]
    BY <1>2, <2>1
  <2>4. 1 \in 1..m /\ stream[1].token \in Token
    BY <1>3, <2>2
  <2>5. TypeOK'
    BY <1>1, <2>1, <2>2, <2>4 DEF IInv, TypeOK, FenceTypeOK
  <2>6. StreamRises /\ StreamHasBlocks
    BY <2>1 DEF IInv, Fenced
  <2>7. StreamRises'
    <3>1. last_token_read_' <= executed' /\ executed' <= token_'
      BY <2>1, <2>4, <2>6, <1>2, <1>3 DEF StreamRises
    <3>2. \A k \in 1..Len(stream') : executed' < stream'[k].token /\ stream'[k].token <= token_'
      BY <2>1, <2>2, <2>3, <2>4, <2>6 DEF StreamRises
    <3>3. \A k, l \in 1..Len(stream') : k < l => stream'[k].token < stream'[l].token
      BY <2>2, <2>3, <2>6 DEF StreamRises
    <3> QED
      BY <3>1, <3>2, <3>3 DEF StreamRises
  <2>8. StreamHasBlocks'
    <3>1. \A k \in 1..Len(stream') : k + 1 \in 1..m /\ stream'[k] = stream[k + 1]
      BY <2>2, <2>3
    <3> QED
      BY <3>1, <2>6, <1>1 DEF StreamHasBlocks
  <2> QED
    BY <2>5, <2>7, <2>8, <1>4 DEF IInv, Fenced
<1>6. CASE SynchronizeState
  <2>1. last_token_read_' = executed /\ UNCHANGED <<token_, stream, executed, lost>>
    BY <1>6 DEF SynchronizeState
  <2>2. TypeOK'
    BY <1>1, <1>2, <2>1 DEF IInv, TypeOK, FenceTypeOK
  <2>3. Fenced'
    BY <1>1, <1>2, <2>1 DEF IInv, Fenced, StreamRises, StreamHasBlocks
  <2> QED
    BY <2>2, <2>3, <1>4 DEF IInv
<1>7. CASE LoseContext
  <2>1. lost' = TRUE /\ UNCHANGED <<token_, last_token_read_, stream, executed>>
    BY <1>7 DEF LoseContext
  <2>2. lost' \in BOOLEAN
    BY <2>1, Zenon
  <2>3. TypeOK'
    BY <1>1, <2>1, <2>2 DEF IInv, TypeOK, FenceTypeOK
  <2> QED
    BY <2>1, <2>3, <1>4 DEF IInv, Fenced
<1> QED
  BY <1>5, <1>6, <1>7 DEF Fence

-----------------------------------------------------------------------------
(* Theorems                                                                *)

\* The inductive invariant holds in every state of a RingBuffer.
THEOREM Invariance == Spec => []IInv
<1>1. ASSUME IInv, [Next]_vars
      PROVE  IInv'
  <2>1. CASE Next
    <3>1. ASSUME NEW size \in 0..Size, Alloc(size) PROVE IInv'
      BY <1>1, <3>1, CallStep
    <3>2. CASE FreeOldestBlock
      BY <1>1, <3>2, FreeOldestBlockStep
    <3>3. CASE AllocReturns
      BY <1>1, <3>3, AllocReturnsStep
    <3>4. CASE FreePendingToken
      BY <1>1, <3>4, FreePendingTokenStep
    <3>5. CASE Delete \/ DeleteReturns
      BY <1>1, <3>5, CallStep
    <3>6. CASE Fence
      BY <1>1, <3>6, FenceStep
    <3> QED
      BY <2>1, <3>1, <3>2, <3>3, <3>4, <3>5, <3>6 DEF Next
  <2>2. CASE UNCHANGED vars
    <3>1. UNCHANGED <<fenceVars, blocks_, free_offset_, in_use_offset_, call, want>>
      BY <2>2 DEF vars
    <3>2. TypeOK'
      BY <1>1, <3>1 DEF IInv, TypeOK, FenceTypeOK, fenceVars
    <3>3. Shape(blocks_, in_use_offset_, free_offset_)'
      BY <1>1, <3>1 DEF IInv, Shape, Sound, Adjacent, Cyclic, Ends
    <3>4. OnlyLastInUse'
      BY <1>1, <3>1 DEF IInv, OnlyLastInUse, LastIsFreed, InUse
    <3>5. Fenced'
      BY <1>1, <3>1 DEF IInv, Fenced, StreamRises, StreamHasBlocks, fenceVars
    <3> QED
      BY <3>2, <3>3, <3>4, <3>5 DEF IInv
  <2> QED
    BY <1>1, <2>1, <2>2
<1> QED
  BY InitIInv, <1>1, PTL DEF Spec

\* Two blocks of a ring in order share no byte.
LEMMA BlocksApart ==
    ASSUME IInv, NEW i \in 1..Len(blocks_), NEW j \in 1..Len(blocks_), i < j
    PROVE  End(i) <= blocks_[j].offset \/ End(j) <= blocks_[i].offset
<1>1. Before(blocks_[i], blocks_[j], in_use_offset_)
  BY DEF IInv, Shape, Cyclic
<1>2. blocks_[j].offset >= in_use_offset_ \/ EndOf(blocks_[j]) <= in_use_offset_
  BY DEF IInv, Shape, Sound
<1>3. blocks_[i] \in Block /\ blocks_[j] \in Block
  BY DEF IInv, TypeOK
<1>4. /\ blocks_[i].offset \in Nat /\ blocks_[j].offset \in Nat
      /\ blocks_[i].size \in Nat /\ blocks_[j].size \in Nat /\ in_use_offset_ \in Nat
  <2>1. /\ blocks_[i].offset \in 0..Size /\ blocks_[j].offset \in 0..Size
        /\ blocks_[i].size \in 0..Size /\ blocks_[j].size \in 0..Size
    BY <1>3 DEF Block
  <2>2. in_use_offset_ \in 0..(Size - 1) /\ Size \in Nat
    BY FenceAssumption DEF IInv, TypeOK
  <2> QED
    BY <2>1, <2>2
<1>5. CASE EndOf(blocks_[i]) <= blocks_[j].offset
  BY <1>5 DEF EndOf, End
<1>6. CASE blocks_[i].offset >= in_use_offset_ /\ blocks_[j].offset < in_use_offset_
  <2>1. EndOf(blocks_[j]) <= in_use_offset_
    BY <1>2, <1>4, <1>6
  <2>2. blocks_[j].offset + blocks_[j].size <= blocks_[i].offset
    BY <2>1, <1>4, <1>6 DEF EndOf
  <2> QED
    BY <2>2 DEF End
<1> QED
  BY <1>1, <1>5, <1>6 DEF Before

\* Alloc never hands out bytes of a block that is not freed: the blocks of
\* RingBuffer lie in order from in_use_offset_ to free_offset_.
THEOREM BlocksStayInOrder == Spec => []BlocksInOrder
<1>1. IInv => BlocksInOrder
  <2> SUFFICES ASSUME IInv PROVE BlocksInOrder
    OBVIOUS
  <2>1. /\ blocks_ = <<>> => in_use_offset_ = 0 /\ free_offset_ = 0
        /\ blocks_ # <<>> => /\ blocks_[1].offset = in_use_offset_
                             /\ Wrap(End(Len(blocks_))) = free_offset_
    BY DEF IInv, Shape, Ends, End, EndOf
  <2>2. \A i \in 1..Len(blocks_) : blocks_[i].size > 0 /\ End(i) <= Size
    BY DEF IInv, Shape, Sound, End, EndOf
  <2>3. \A i \in 1..(Len(blocks_) - 1) : blocks_[i + 1].offset = Wrap(End(i))
    BY DEF IInv, Shape, Adjacent, End, EndOf
  <2>4. \A i, j \in 1..Len(blocks_) : i < j =>
           End(i) <= blocks_[j].offset \/ End(j) <= blocks_[i].offset
    BY BlocksApart
  <2> QED
    BY <2>1, <2>2, <2>3, <2>4 DEF BlocksInOrder
<1> QED
  BY Invariance, <1>1, PTL

\* WaitForToken in FreeOldestBlock is enough: memory handed out by Alloc is not
\* read by commands of an earlier use, whatever the wraps of the token.
THEOREM MemoryNotOverwritten == Spec => []NoOverwrite
<1>1. IInv => NoOverwrite
  <2> SUFFICES ASSUME IInv, ~lost, NEW i \in 1..Len(blocks_), InUse(i),
                      NEW k \in 1..Len(stream)
               PROVE  \/ blocks_[i].offset + blocks_[i].size <= stream[k].offset
                      \/ stream[k].offset + stream[k].size <= blocks_[i].offset
    BY DEF NoOverwrite, Untouched
  <2>1. PICK j \in 1..Len(blocks_) : Waits(blocks_[j], stream[k])
    BY DEF IInv, Fenced, StreamHasBlocks
  <2>2. j # i /\ stream[k].offset = blocks_[j].offset /\ stream[k].size = blocks_[j].size
    BY <2>1 DEF Waits, InUse
  <2>3. i < j \/ j < i
    BY <2>2
  <2> QED
    BY <2>2, <2>3, BlocksApart DEF End
<1> QED
  BY Invariance, <1>1, PTL

\* The assertions of FreeOldestBlock never fail when callers free a block before
\* they ask for the next.
THEOREM OldestBlockIsFree == Spec => []OldestIsFreed
  BY Invariance, OldestFreed, PTL
=============================================================================
