----------------------------- MODULE HeapProofs -----------------------------
(***************************************************************************)
(* The kernel heap is correct for every header size, alignment, frame      *)
(* size, amount of memory and set of requests: the blocks tile the heap's  *)
(* frames, the used blocks are the live allocations, and kfree leaves no   *)
(* two free neighbours of one run unmerged.                                *)
(*                                                                         *)
(* The pass of kfree over the list is a recursive function.  That it is    *)
(* defined, and what it does to a list of any length, is shown by          *)
(* induction on the number of blocks it has passed, from the fact that     *)
(* every non-empty set of natural numbers has a least element.             *)
(***************************************************************************)
EXTENDS Heap, PmmProofs, SequenceTheorems, WellFoundedInduction

(***************************************************************************)
(* Part 1.  Induction and arithmetic                                       *)
(***************************************************************************)

(* Every non-empty set of natural numbers has a least element. *)
LEMMA LeastElement ==
    ASSUME NEW T \in SUBSET Nat, T # {}
    PROVE  \E m \in T : \A n \in T : m <= n
<1> DEFINE R == {ss \in Nat \X Nat : ss[1] < ss[2]}
<1>1. IsWellFoundedOn(R, Nat)
  BY NatLessThanWellFounded DEF OpToRel
<1>2. PICK x \in T : \A y \in T : ~ (<<y, x>> \in R)
  <2> HIDE DEF R
  <2> QED
    BY <1>1, WFMin
<1>3. ASSUME NEW y \in T
      PROVE  x <= y
  <2>1. y < x => <<y, x>> \in R
    OBVIOUS
  <2> QED
    BY <1>2, <2>1
<1> QED
  BY <1>3

(* Induction up to a bound, for a set in place of a predicate. *)
LEMMA InductionUpTo ==
    ASSUME NEW max \in Nat, NEW T, 0 \in T,
           \A n \in 0..(max - 1) : n \in T => n + 1 \in T
    PROVE  0..max \subseteq T
<1> DEFINE B == {n \in 0..max : n \notin T}
<1>1. CASE B # {}
  <2>1. B \in SUBSET Nat
    OBVIOUS
  <2>2. PICK m \in B : \A n \in B : m <= n
    <3> HIDE DEF B
    <3> QED
      BY <1>1, <2>1, LeastElement
  <2>3. m - 1 \in 0..(max - 1) /\ m - 1 \notin B
    BY <2>2
  <2>4. m - 1 \in T
    BY <2>3
  <2> QED
    BY <2>2, <2>3, <2>4
<1> QED
  BY <1>1

(* Division with remainder. *)
LEMMA DivMod ==
    ASSUME NEW a \in Nat, NEW d \in Nat \ {0}
    PROVE  /\ a \div d \in Nat
           /\ a % d \in 0..(d - 1)
           /\ a = d * (a \div d) + (a % d)
  OBVIOUS

(* The quotient is the only number with this property. *)
LEMMA QuotientUnique ==
    ASSUME NEW a \in Nat, NEW d \in Nat \ {0}, NEW q \in Nat,
           d * q <= a, a < d * (q + 1)
    PROVE  a \div d = q
<1>1. /\ a \div d \in Nat
      /\ d * (a \div d) <= a /\ a < d * (a \div d) + d
  BY DivMod
<1>2. CASE a \div d < q
  <2>1. d * ((a \div d) + 1) <= d * q
    BY <1>1, <1>2
  <2> QED
    BY <1>1, <2>1
<1>3. CASE q < a \div d
  <2>1. d * (q + 1) <= d * (a \div d)
    BY <1>1, <1>3
  <2> QED
    BY <1>1, <2>1
<1> QED
  BY <1>1, <1>2, <1>3

(* Rounding up to a multiple loses nothing: the aligned size of kmalloc.    *)
LEMMA RoundUp ==
    ASSUME NEW v \in Nat, NEW d \in Nat \ {0}
    PROVE  /\ (v + d - 1) \div d \in Nat
           /\ ((v + d - 1) \div d) * d \in Nat
           /\ ((v + d - 1) \div d) * d >= v
<1>1. v + d - 1 \in Nat
  OBVIOUS
<1>2. PICK q \in Nat, r \in 0..(d - 1) : /\ q = (v + d - 1) \div d
                                         /\ v + d - 1 = d * q + r
  BY <1>1, DivMod
<1>3. q * d \in Nat /\ q * d = d * q
  OBVIOUS
<1> QED
  BY <1>2, <1>3

(***************************************************************************)
(* Part 2.  The invariant                                                  *)
(***************************************************************************)

Block == [addr : Nat, size : Nat, free : BOOLEAN]

(* Word w is in the header or the bytes of block b *)
Inside(b, w) == b.addr <= w /\ w < End(b)

Covered(list, w) == \E i \in DOMAIN list : Inside(list[i], w)

(* No word belongs to two blocks. *)
Apart(list) ==
    \A i, j \in DOMAIN list : i # j =>
        \A w \in Nat : ~ (Inside(list[i], w) /\ Inside(list[j], w))

(* The words of the blocks are those of the heap's frames. *)
Tiles(list, frames) ==
    \A w \in Nat : Covered(list, w) <=> (w \div PMM_FRAME_SIZE) \in frames

RunStart(b) == b.addr % PMM_FRAME_SIZE = 0

(* Blocks that are neighbours in memory are neighbours in the list, but for *)
(* the last block of a run and the first block of the next one.             *)
InOrder(list) ==
    \A i, j \in DOMAIN list :
        End(list[i]) = list[j].addr /\ ~ RunStart(list[j]) => j = i + 1

(* Of two such neighbours one is in use. *)
NoFreePair(list) ==
    \A i, j \in DOMAIN list :
        list[i].free /\ list[j].free /\ End(list[i]) = list[j].addr => RunStart(list[j])

(* The used blocks and the live allocations correspond one to one. *)
Allocated(list, allocations) ==
    /\ \A a \in allocations : \E i \in DOMAIN list :
          /\ ~ list[i].free
          /\ list[i].addr + HEAP_HEADER_SIZE = a.ptr
          /\ list[i].size >= a.size
    /\ \A i \in DOMAIN list : ~ list[i].free =>
          \E a \in allocations : a.ptr = list[i].addr + HEAP_HEADER_SIZE
    /\ \A a, c \in allocations : a.ptr = c.ptr => a = c

GoodList(list) ==
    /\ list \in Seq(Block)
    /\ Apart(list)
    /\ InOrder(list)
    /\ NoFreePair(list)

HeapInv ==
    /\ IInv
    /\ GoodList(blocks)
    /\ owned \subseteq held
    /\ Tiles(blocks, owned)
    /\ live \subseteq [ptr : Nat, size : Nat]
    /\ IsFiniteSet(live)
    /\ Allocated(blocks, live)

(***************************************************************************)
(* Part 3.  kmalloc carves a block                                         *)
(***************************************************************************)

(* The rest of the block is large enough for a block of its own. *)
Splits(b, size) == b.size >= size + HEAP_HEADER_SIZE + HEAP_ALIGN

(* A block is its three fields, and what a write to some of them makes of it. *)
LEMMA BlockFields ==
    ASSUME NEW b \in Block
    PROVE  /\ b = [addr |-> b.addr, size |-> b.size, free |-> b.free]
           /\ b.addr \in Nat /\ b.size \in Nat /\ b.free \in BOOLEAN
  BY DEF Block

(* A write of the free flag leaves address and size alone. *)
LEMMA WriteFree ==
    ASSUME NEW b \in Block, NEW f1 \in BOOLEAN
    PROVE  [b EXCEPT !.free = f1] = [addr |-> b.addr, size |-> b.size, free |-> f1]
<1>1. \A a, s, f : [[addr |-> a, size |-> s, free |-> f] EXCEPT !.free = f1]
                      = [addr |-> a, size |-> s, free |-> f1]
  OBVIOUS
<1> QED
  BY <1>1, BlockFields

(* A write of the size leaves address and free flag alone. *)
LEMMA WriteSize ==
    ASSUME NEW b \in Block, NEW s1 \in Nat
    PROVE  [b EXCEPT !.size = s1] = [addr |-> b.addr, size |-> s1, free |-> b.free]
<1>1. \A a, s, f : [[addr |-> a, size |-> s, free |-> f] EXCEPT !.size = s1]
                      = [addr |-> a, size |-> s1, free |-> f]
  OBVIOUS
<1> QED
  BY <1>1, BlockFields

(* Two elements behind a sequence. *)
LEMMA AppendTwo ==
    ASSUME NEW S, NEW P \in Seq(S), NEW x \in S, NEW y \in S
    PROVE  /\ P \o <<x, y>> \in Seq(S)
           /\ Len(P \o <<x, y>>) = Len(P) + 2
           /\ \A k \in 1..Len(P) : (P \o <<x, y>>)[k] = P[k]
           /\ (P \o <<x, y>>)[Len(P) + 1] = x
           /\ (P \o <<x, y>>)[Len(P) + 2] = y
<1>1. /\ <<x, y>> \in Seq(S) /\ Len(<<x, y>>) = 2
      /\ <<x, y>>[1] = x /\ <<x, y>>[2] = y
  OBVIOUS
<1>2. PICK Q \in Seq(S) : Q = <<x, y>>
  BY <1>1
<1> QED
  BY <1>1, <1>2, ConcatProperties

(* A block is never empty: it has its header. *)
LEMMA BlockExtent ==
    ASSUME NEW b \in Block
    PROVE  /\ b.addr \in Nat /\ End(b) \in Nat /\ b.addr < End(b)
           /\ End(b) = b.addr + HEAP_HEADER_SIZE + b.size
           /\ End(b) - 1 \in Nat
           /\ Inside(b, b.addr) /\ Inside(b, End(b) - 1)
<1>1. PICK a \in Nat, z \in Nat : a = b.addr /\ z = b.size
  BY BlockFields
<1>2. End(b) = a + HEAP_HEADER_SIZE + z
  BY <1>1 DEF End
<1> QED
  BY <1>1, <1>2, HeapAssumption DEF Inside

(* The part of a carved block that is handed out, and the rest of it. *)
LEMMA CarvedParts ==
    ASSUME NEW b \in Block, NEW size \in Nat,
           Splits(b, size),
           NEW c \in Block, c.addr = b.addr, c.size = size, ~ c.free,
           NEW d \in Block, d.addr = b.addr + HEAP_HEADER_SIZE + size,
           d.size = b.size - size - HEAP_HEADER_SIZE, d.free
    PROVE  /\ c.addr = b.addr /\ End(c) = d.addr /\ End(d) = End(b)
           /\ ~ c.free /\ d.free /\ c.size = size
           /\ \A w \in Nat : Inside(b, w) <=> Inside(c, w) \/ Inside(d, w)
           /\ \A w \in Nat : ~ (Inside(c, w) /\ Inside(d, w))
<1>1. PICK a \in Nat, z \in Nat : a = b.addr /\ z = b.size
  BY BlockFields
<1>2. /\ c.addr = a /\ c.size = size /\ ~ c.free
      /\ d.addr = a + HEAP_HEADER_SIZE + size
      /\ d.size = z - size - HEAP_HEADER_SIZE
      /\ d.free
  BY <1>1
<1>3. z >= size + HEAP_HEADER_SIZE + HEAP_ALIGN
  BY <1>1 DEF Splits
<1>4. /\ End(b) = a + HEAP_HEADER_SIZE + z
      /\ End(c) = a + HEAP_HEADER_SIZE + size
      /\ End(d) = a + HEAP_HEADER_SIZE + z
  BY <1>1, <1>2, <1>3, HeapAssumption DEF End
<1>5. ASSUME NEW w \in Nat
      PROVE  /\ Inside(b, w) <=> Inside(c, w) \/ Inside(d, w)
             /\ ~ (Inside(c, w) /\ Inside(d, w))
  BY <1>1, <1>2, <1>3, <1>4, HeapAssumption DEF Inside
<1> QED
  BY <1>1, <1>2, <1>4, <1>5

(* The block is split: a used block and a free rest take its place. *)
LEMMA CarveSplits ==
    ASSUME NEW list \in Seq(Block), NEW i \in DOMAIN list, NEW size \in Nat,
           Splits(list[i], size),
           NEW N, N = Carve(list, i, size)
    PROVE  /\ N \in Seq(Block) /\ Len(N) = Len(list) + 1
           /\ \A k \in 1..(i - 1) : N[k] = list[k]
           /\ \A k \in (i + 2)..Len(N) : N[k] = list[k - 1]
           /\ N[i].addr = list[i].addr /\ End(N[i]) = N[i + 1].addr
           /\ End(N[i + 1]) = End(list[i])
           /\ ~ N[i].free /\ N[i + 1].free /\ N[i].size = size
           /\ \A w \in Nat : Inside(list[i], w) <=> Inside(N[i], w) \/ Inside(N[i + 1], w)
           /\ \A w \in Nat : ~ (Inside(N[i], w) /\ Inside(N[i + 1], w))
<1>1. PICK n \in Nat : n = Len(list)
  OBVIOUS
<1>2. list[i] \in Block /\ i \in Nat /\ 1 <= i /\ i <= n
  BY <1>1
<1>3. PICK cut \in Block : cut = [addr |-> list[i].addr, size |-> size, free |-> FALSE]
  BY <1>2 DEF Block
<1>4. PICK rest \in Block : rest = [addr |-> list[i].addr + HEAP_HEADER_SIZE + size,
                                    size |-> list[i].size - size - HEAP_HEADER_SIZE,
                                    free |-> TRUE]
  <2>1. /\ list[i].addr + HEAP_HEADER_SIZE + size \in Nat
        /\ list[i].size - size - HEAP_HEADER_SIZE \in Nat
    <3>1. PICK a \in Nat, z \in Nat : a = list[i].addr /\ z = list[i].size
      BY <1>2, BlockFields
    <3>2. PICK h \in Nat, g \in Nat : h = HEAP_HEADER_SIZE /\ g = HEAP_ALIGN
      BY HeapAssumption
    <3>3. z >= size + h + g
      BY <3>1, <3>2 DEF Splits
    <3>4. a + h + size \in Nat /\ z - size - h \in Nat
      BY <3>3
    <3> QED
      BY <3>1, <3>2, <3>4
  <2> QED
    BY <2>1 DEF Block
<1>5. PICK P \in Seq(Block) : /\ P = SubSeq(list, 1, i - 1)
                              /\ Len(P) = i - 1
                              /\ \A k \in 1..(i - 1) : P[k] = list[k]
  <2>1. /\ SubSeq(list, 1, i - 1) \in Seq(Block)
        /\ Len(SubSeq(list, 1, i - 1)) = i - 1
        /\ \A k \in 1..(i - 1) : SubSeq(list, 1, i - 1)[k] = list[k]
    BY <1>1, <1>2
  <2> QED
    BY <2>1
<1>6. PICK Q \in Seq(Block) : /\ Q = SubSeq(list, i + 1, n)
                              /\ Len(Q) = n - i
                              /\ \A k \in 1..(n - i) : Q[k] = list[k + i]
  <2>1. /\ SubSeq(list, i + 1, n) \in Seq(Block)
        /\ Len(SubSeq(list, i + 1, n)) = n - i
        /\ \A k \in 1..(n - i) : SubSeq(list, i + 1, n)[k] = list[k + i]
    BY <1>1, <1>2, SMTT(60)
  <2> QED
    BY <2>1
<1>7. PICK M \in Seq(Block) : /\ M = P \o <<cut, rest>>
                              /\ Len(M) = i + 1
                              /\ \A k \in 1..(i - 1) : M[k] = P[k]
                              /\ M[i] = cut /\ M[i + 1] = rest
  <2>1. /\ P \o <<cut, rest>> \in Seq(Block)
        /\ Len(P \o <<cut, rest>>) = Len(P) + 2
        /\ \A k \in 1..Len(P) : (P \o <<cut, rest>>)[k] = P[k]
        /\ (P \o <<cut, rest>>)[Len(P) + 1] = cut
        /\ (P \o <<cut, rest>>)[Len(P) + 2] = rest
    BY AppendTwo
  <2>2. Len(P) + 1 = i /\ Len(P) + 2 = i + 1
    BY <1>2, <1>5
  <2> QED
    BY <1>5, <2>1, <2>2
<1>8. N = M \o Q
  BY <1>1, <1>3, <1>4, <1>5, <1>6, <1>7 DEF Carve, Splits
<1>9. /\ N \in Seq(Block) /\ Len(N) = n + 1
      /\ \A k \in 1..(n + 1) : N[k] = IF k <= i + 1 THEN M[k] ELSE Q[k - (i + 1)]
  <2>1. /\ M \o Q \in Seq(Block) /\ Len(M \o Q) = Len(M) + Len(Q)
        /\ \A k \in 1..(Len(M) + Len(Q)) :
              (M \o Q)[k] = IF k <= Len(M) THEN M[k] ELSE Q[k - Len(M)]
    BY ConcatProperties
  <2>2. Len(M) + Len(Q) = n + 1
    <3>1. Len(M) = i + 1 /\ Len(Q) = n - i
      BY <1>6, <1>7
    <3> QED
      BY <1>2, <3>1
  <2> QED
    BY <1>7, <1>8, <2>1, <2>2
<1>10. ASSUME NEW k \in (i + 2)..Len(N)
       PROVE  N[k] = list[k - 1]
  <2>1. /\ k \in 1..(n + 1) /\ ~ (k <= i + 1)
        /\ k - (i + 1) \in 1..(n - i) /\ (k - (i + 1)) + i = k - 1
    <3>1. k \in (i + 2)..(n + 1)
      BY <1>9
    <3> QED
      BY <1>2, <3>1
  <2> QED
    BY <1>6, <1>9, <2>1
<1>11. ASSUME NEW k \in 1..(i - 1)
       PROVE  N[k] = list[k]
  <2>1. k \in 1..(n + 1) /\ k <= i + 1
    BY <1>2
  <2> QED
    BY <1>5, <1>7, <1>9, <2>1
<1>12. N[i] = cut /\ N[i + 1] = rest
  BY <1>2, <1>7, <1>9, SMTT(60)
<1>13. /\ cut.addr = list[i].addr /\ End(cut) = rest.addr
       /\ End(rest) = End(list[i])
       /\ ~ cut.free /\ rest.free /\ cut.size = size
       /\ \A w \in Nat : Inside(list[i], w) <=> Inside(cut, w) \/ Inside(rest, w)
       /\ \A w \in Nat : ~ (Inside(cut, w) /\ Inside(rest, w))
  <2>1. /\ cut.addr = list[i].addr /\ cut.size = size /\ ~ cut.free
        /\ rest.addr = list[i].addr + HEAP_HEADER_SIZE + size
        /\ rest.size = list[i].size - size - HEAP_HEADER_SIZE /\ rest.free
    BY <1>3, <1>4
  <2> QED
    BY <1>2, <2>1, CarvedParts
<1> QED
  BY <1>1, <1>9, <1>10, <1>11, <1>12, <1>13

(* The block is taken whole. *)
LEMMA CarveTakes ==
    ASSUME NEW list \in Seq(Block), NEW i \in DOMAIN list, NEW size \in Nat,
           ~ Splits(list[i], size),
           NEW N, N = Carve(list, i, size)
    PROVE  /\ N \in Seq(Block) /\ Len(N) = Len(list)
           /\ \A k \in DOMAIN list : k # i => N[k] = list[k]
           /\ N[i] = [addr |-> list[i].addr, size |-> list[i].size, free |-> FALSE]
<1>1. N = [list EXCEPT ![i] = [list[i] EXCEPT !.free = FALSE]]
  BY DEF Carve, Splits
<1>2. list[i] \in Block
  OBVIOUS
<1>3. [list[i] EXCEPT !.free = FALSE]
        = [addr |-> list[i].addr, size |-> list[i].size, free |-> FALSE]
  BY <1>2, WriteFree
<1>4. [list[i] EXCEPT !.free = FALSE] \in Block
  BY <1>2, <1>3 DEF Block
<1> QED
  BY <1>1, <1>3, <1>4

(* Carving keeps the list good and the words it covers.  What is in use is  *)
(* the block that is handed out and what was in use before.                 *)
LEMMA CarveKeeps ==
    ASSUME NEW list, GoodList(list), NEW i \in DOMAIN list, NEW size \in Nat,
           list[i].free, list[i].size >= size,
           NEW N, N = Carve(list, i, size)
    PROVE  /\ GoodList(N)
           /\ \A w \in Nat : Covered(N, w) <=> Covered(list, w)
           /\ \E k \in DOMAIN N : /\ ~ N[k].free /\ N[k].addr = list[i].addr
                                  /\ N[k].size >= size
           /\ \A k \in DOMAIN N : ~ N[k].free =>
                \/ N[k].addr = list[i].addr
                \/ \E j \in DOMAIN list : N[k] = list[j]
           /\ \A j \in DOMAIN list : ~ list[j].free => \E k \in DOMAIN N : N[k] = list[j]
<1>1. list \in Seq(Block) /\ Apart(list) /\ InOrder(list) /\ NoFreePair(list)
  BY DEF GoodList
<1>2. PICK n \in Nat : n = Len(list) /\ DOMAIN list = 1..n
  BY <1>1
<1>3. /\ \A j \in 1..n : list[j] \in Block
      /\ i \in Nat /\ 1 <= i /\ i <= n
  BY <1>1, <1>2
<1>4. CASE Splits(list[i], size)
  <2> DEFINE src(k) == IF k <= i THEN k ELSE k - 1
  <2>1. /\ N \in Seq(Block) /\ Len(N) = n + 1
        /\ \A k \in 1..(i - 1) : N[k] = list[k]
        /\ \A k \in (i + 2)..Len(N) : N[k] = list[k - 1]
    <3>1. Len(N) = Len(list) + 1
      BY <1>1, <1>4, CarveSplits
    <3>2. Len(N) = n + 1
      BY <1>2, <3>1
    <3>3. /\ N \in Seq(Block)
          /\ \A k \in 1..(i - 1) : N[k] = list[k]
          /\ \A k \in (i + 2)..Len(N) : N[k] = list[k - 1]
      BY <1>1, <1>4, CarveSplits
    <3> QED
      BY <3>2, <3>3
  <2>2. /\ DOMAIN N = 1..(n + 1)
        /\ \A k \in 1..(n + 1) : N[k] \in Block
    BY <2>1
  <2>3. /\ i \in 1..(n + 1) /\ i + 1 \in 1..(n + 1)
        /\ N[i] \in Block /\ N[i + 1] \in Block /\ list[i] \in Block
    BY <1>3, <2>2
  <2>4. /\ N[i].addr = list[i].addr /\ End(N[i]) = N[i + 1].addr
        /\ End(N[i + 1]) = End(list[i])
        /\ ~ N[i].free /\ N[i + 1].free /\ N[i].size = size
        /\ \A w \in Nat : Inside(list[i], w) <=> Inside(N[i], w) \/ Inside(N[i + 1], w)
        /\ \A w \in Nat : ~ (Inside(N[i], w) /\ Inside(N[i + 1], w))
    BY <1>1, <1>4, CarveSplits
  <2>5. ASSUME NEW k \in 1..(n + 1)
        PROVE  /\ src(k) \in 1..n
               /\ (k # i /\ k # i + 1) => N[k] = list[src(k)] /\ src(k) # i
               /\ (k = i \/ k = i + 1) => src(k) = i
    <3>1. CASE k < i
      BY <1>3, <2>1, <3>1
    <3>2. CASE k = i \/ k = i + 1
      BY <1>3, <3>2
    <3>3. CASE k > i + 1
      BY <1>3, <2>1, <3>3
    <3> QED
      BY <1>3, <3>1, <3>2, <3>3
  <2>6. ASSUME NEW j \in 1..n, j # i
        PROVE  \E k \in 1..(n + 1) : k # i /\ k # i + 1 /\ src(k) = j
    <3>1. CASE j < i
      BY <1>3, <3>1
    <3>2. CASE j > i
      <4>1. j + 1 \in 1..(n + 1) /\ j + 1 > i + 1 /\ src(j + 1) = j
        BY <1>3, <3>2
      <4> QED
        BY <1>3, <4>1
    <3> QED
      BY <1>3, <2>6, <3>1, <3>2
  <2>7. ASSUME NEW j \in 1..(n + 1), NEW k \in 1..(n + 1), src(j) = src(k), j # k
        PROVE  (j = i /\ k = i + 1) \/ (j = i + 1 /\ k = i)
    BY <1>3, <2>7
  <2>8. ASSUME NEW j \in 1..(n + 1), NEW k \in 1..(n + 1),
               j # i, k # i + 1, src(k) = src(j) + 1
        PROVE  k = j + 1
    BY <1>3, <2>8
  <2> HIDE DEF src
  <2>9. ASSUME NEW k \in 1..(n + 1), NEW w \in Nat, Inside(N[k], w)
        PROVE  Inside(list[src(k)], w)
    BY <2>4, <2>5, <2>9
  <2>10. Apart(N)
    <3> SUFFICES ASSUME NEW j \in 1..(n + 1), NEW k \in 1..(n + 1), j # k,
                        NEW w \in Nat, Inside(N[j], w), Inside(N[k], w)
                 PROVE  FALSE
      BY <2>2 DEF Apart
    <3>1. Inside(list[src(j)], w) /\ Inside(list[src(k)], w)
      BY <2>9
    <3>2. src(j) = src(k)
      BY <1>1, <1>2, <2>5, <3>1 DEF Apart
    <3> QED
      BY <2>4, <2>7, <3>2
  <2>11. ASSUME NEW j \in 1..(n + 1), NEW k \in 1..(n + 1), End(N[j]) = N[k].addr
         PROVE  IF k = i + 1 THEN j = i
                ELSE /\ j # i
                     /\ End(list[src(j)]) = list[src(k)].addr
                     /\ N[k].addr = list[src(k)].addr
    <3>1. CASE k = i + 1
      <4>1. Inside(N[j], End(N[j]) - 1) /\ Inside(N[i], End(N[i]) - 1)
        BY <2>2, <2>3, BlockExtent
      <4>2. End(N[j]) - 1 = End(N[i]) - 1 /\ End(N[i]) - 1 \in Nat
        BY <2>3, <2>4, <2>11, <3>1, BlockExtent
      <4>3. j = i
        BY <2>2, <2>3, <2>10, <4>1, <4>2 DEF Apart
      <4> QED
        BY <3>1, <4>3
    <3>2. CASE k # i + 1
      <4>1. N[k].addr = list[src(k)].addr
        BY <2>4, <2>5, <3>2
      <4>2. j # i
        <5>1. SUFFICES ASSUME j = i PROVE FALSE
          OBVIOUS
        <5>2. N[k].addr = N[i + 1].addr
          BY <2>4, <2>11, <5>1
        <5>3. Inside(N[k], N[k].addr) /\ Inside(N[i + 1], N[i + 1].addr) /\ N[k].addr \in Nat
          BY <2>2, <2>3, BlockExtent
        <5> QED
          BY <2>2, <2>3, <2>10, <3>2, <5>2, <5>3 DEF Apart
      <4>3. End(N[j]) = End(list[src(j)])
        BY <2>4, <2>5, <4>2
      <4> QED
        BY <2>11, <3>2, <4>1, <4>2, <4>3
    <3> QED
      BY <3>1, <3>2
  <2>12. InOrder(N)
    <3> SUFFICES ASSUME NEW j \in 1..(n + 1), NEW k \in 1..(n + 1),
                        End(N[j]) = N[k].addr, ~ RunStart(N[k])
                 PROVE  k = j + 1
      BY <2>2 DEF InOrder
    <3>1. CASE k = i + 1
      BY <2>11, <3>1
    <3>2. CASE k # i + 1
      <4>1. /\ j # i /\ End(list[src(j)]) = list[src(k)].addr
            /\ ~ RunStart(list[src(k)])
        BY <2>11, <3>2 DEF RunStart
      <4>2. src(k) = src(j) + 1
        BY <1>1, <1>2, <2>5, <4>1 DEF InOrder
      <4> QED
        BY <2>8, <3>2, <4>1, <4>2
    <3> QED
      BY <3>1, <3>2
  <2>13. NoFreePair(N)
    <3> SUFFICES ASSUME NEW j \in 1..(n + 1), NEW k \in 1..(n + 1),
                        N[j].free, N[k].free, End(N[j]) = N[k].addr
                 PROVE  RunStart(N[k])
      BY <2>2 DEF NoFreePair
    <3>1. j # i /\ k # i
      BY <2>4
    <3>2. k # i + 1 /\ End(list[src(j)]) = list[src(k)].addr /\ N[k].addr = list[src(k)].addr
      BY <2>11, <3>1
    <3>3. list[src(k)].free
      BY <2>5, <3>1, <3>2
    <3>4. list[src(j)].free
      BY <2>5, <3>1
    <3>5. RunStart(list[src(k)])
      BY <1>1, <1>2, <2>5, <3>2, <3>3, <3>4 DEF NoFreePair
    <3> QED
      BY <3>2, <3>5 DEF RunStart
  <2>14. ASSUME NEW w \in Nat
         PROVE  Covered(N, w) <=> Covered(list, w)
    <3>1. ASSUME NEW j \in 1..n, Inside(list[j], w)
          PROVE  \E k \in 1..(n + 1) : Inside(N[k], w)
      <4>1. CASE j = i
        BY <2>3, <2>4, <3>1, <4>1
      <4>2. CASE j # i
        BY <2>5, <2>6, <3>1, <4>2
      <4> QED
        BY <4>1, <4>2
    <3> QED
      BY <1>2, <2>2, <2>5, <2>9, <3>1 DEF Covered
  <2>15. ASSUME NEW k \in 1..(n + 1), ~ N[k].free
         PROVE  N[k].addr = list[i].addr \/ \E j \in 1..n : N[k] = list[j]
    BY <2>4, <2>5, <2>15
  <2>16. ASSUME NEW j \in 1..n, ~ list[j].free
         PROVE  \E k \in 1..(n + 1) : N[k] = list[j]
    BY <2>5, <2>6, <2>16
  <2>17. GoodList(N)
    BY <2>1, <2>10, <2>12, <2>13 DEF GoodList
  <2>18. \E k \in 1..(n + 1) : /\ ~ N[k].free /\ N[k].addr = list[i].addr
                               /\ N[k].size >= size
    <3>1. N[i].size >= size
      BY <2>4
    <3> QED
      BY <2>3, <2>4, <3>1
  <2>19. /\ \E k \in DOMAIN N : /\ ~ N[k].free /\ N[k].addr = list[i].addr
                                /\ N[k].size >= size
         /\ \A k \in DOMAIN N : ~ N[k].free =>
                \/ N[k].addr = list[i].addr
                \/ \E j \in DOMAIN list : N[k] = list[j]
         /\ \A j \in DOMAIN list : ~ list[j].free => \E k \in DOMAIN N : N[k] = list[j]
    <3>1. \E k \in DOMAIN N : /\ ~ N[k].free /\ N[k].addr = list[i].addr
                              /\ N[k].size >= size
      BY <2>2, <2>18
    <3>2. ASSUME NEW k \in DOMAIN N, ~ N[k].free
          PROVE  N[k].addr = list[i].addr \/ \E j \in DOMAIN list : N[k] = list[j]
      BY <1>2, <2>2, <2>15, <3>2
    <3>3. ASSUME NEW j \in DOMAIN list, ~ list[j].free
          PROVE  \E k \in DOMAIN N : N[k] = list[j]
      BY <1>2, <2>2, <2>16, <3>3
    <3> QED
      BY <3>1, <3>2, <3>3
  <2> QED
    BY <2>14, <2>17, <2>19, Zenon
<1>5. CASE ~ Splits(list[i], size)
  <2>1. /\ N \in Seq(Block) /\ Len(N) = n
        /\ \A k \in 1..n : k # i => N[k] = list[k]
        /\ N[i] = [addr |-> list[i].addr, size |-> list[i].size, free |-> FALSE]
    BY <1>1, <1>2, <1>5, CarveTakes
  <2>2. DOMAIN N = 1..n /\ \A k \in 1..n : N[k] \in Block
    BY <2>1
  <2>3. ASSUME NEW k \in 1..n
        PROVE  /\ N[k].addr = list[k].addr /\ End(N[k]) = End(list[k])
               /\ N[k].size = list[k].size
               /\ N[k].free => k # i /\ list[k].free
               /\ ~ N[k].free => k = i \/ N[k] = list[k]
               /\ \A w \in Nat : Inside(N[k], w) <=> Inside(list[k], w)
    <3>1. CASE k = i
      BY <2>1, <3>1 DEF End, Inside
    <3>2. CASE k # i
      BY <2>1, <3>2
    <3> QED
      BY <3>1, <3>2
  <2>4. Apart(N)
    BY <1>1, <1>2, <2>2, <2>3 DEF Apart
  <2>5. InOrder(N)
    BY <1>1, <1>2, <2>2, <2>3 DEF InOrder, RunStart
  <2>6. NoFreePair(N)
    BY <1>1, <1>2, <2>2, <2>3 DEF NoFreePair, RunStart
  <2>7. \A w \in Nat : Covered(N, w) <=> Covered(list, w)
    BY <1>2, <2>2, <2>3 DEF Covered
  <2>8. /\ i \in 1..n /\ ~ N[i].free /\ N[i].addr = list[i].addr
        /\ N[i].size >= size
    BY <1>3, <2>1
  <2>9. \A j \in 1..n : ~ list[j].free => N[j] = list[j]
    BY <2>1
  <2>10. GoodList(N)
    BY <2>1, <2>4, <2>5, <2>6 DEF GoodList
  <2>11. ASSUME NEW k \in 1..n, ~ N[k].free
         PROVE  N[k].addr = list[i].addr \/ \E j \in 1..n : N[k] = list[j]
    BY <2>3, <2>11
  <2>12. ASSUME NEW j \in 1..n, ~ list[j].free
         PROVE  \E k \in 1..n : N[k] = list[j]
    BY <2>9, <2>12
  <2>13. \E k \in 1..n : ~ N[k].free /\ N[k].addr = list[i].addr /\ N[k].size >= size
    BY <2>8
  <2>14. /\ \E k \in DOMAIN N : /\ ~ N[k].free /\ N[k].addr = list[i].addr
                                /\ N[k].size >= size
         /\ \A k \in DOMAIN N : ~ N[k].free =>
                \/ N[k].addr = list[i].addr
                \/ \E j \in DOMAIN list : N[k] = list[j]
         /\ \A j \in DOMAIN list : ~ list[j].free => \E k \in DOMAIN N : N[k] = list[j]
    <3>1. \E k \in DOMAIN N : /\ ~ N[k].free /\ N[k].addr = list[i].addr
                              /\ N[k].size >= size
      BY <2>2, <2>13
    <3>2. ASSUME NEW k \in DOMAIN N, ~ N[k].free
          PROVE  N[k].addr = list[i].addr \/ \E j \in DOMAIN list : N[k] = list[j]
      BY <1>2, <2>2, <2>11, <3>2
    <3>3. ASSUME NEW j \in DOMAIN list, ~ list[j].free
          PROVE  \E k \in DOMAIN N : N[k] = list[j]
      BY <1>2, <2>2, <2>12, <3>3
    <3> QED
      BY <3>1, <3>2, <3>3
  <2> QED
    BY <2>7, <2>10, <2>14, Zenon
<1> QED
  BY <1>4, <1>5

(***************************************************************************)
(* Part 4.  kmalloc grows the heap                                         *)
(***************************************************************************)

(* The frames of a run hold the header and the bytes that are asked for. *)
LEMMA EnoughFrames ==
    ASSUME NEW size \in Nat
    PROVE  /\ FrameCount(size) \in Nat \ {0}
           /\ FrameCount(size) * PMM_FRAME_SIZE \in Nat
           /\ FrameCount(size) * PMM_FRAME_SIZE >= HEAP_HEADER_SIZE + size
<1>1. PICK F \in Nat \ {0}, h \in Nat \ {0} : F = PMM_FRAME_SIZE /\ h = HEAP_HEADER_SIZE
  BY HeapAssumption
<1>2. PICK v \in Nat : v = h + size /\ v > 0
  BY <1>1
<1>3. /\ (v + F - 1) \div F \in Nat
      /\ ((v + F - 1) \div F) * F \in Nat
      /\ ((v + F - 1) \div F) * F >= v
  BY <1>1, RoundUp
<1>4. FrameCount(size) = (v + F - 1) \div F
  BY <1>1, <1>2 DEF FrameCount
<1>5. PICK q \in Nat : q = FrameCount(size) /\ q * F >= v
  BY <1>3, <1>4
<1>6. q # 0
  BY <1>2, <1>5
<1> QED
  BY <1>1, <1>2, <1>3, <1>4, <1>5, <1>6

(* A word lies in the frames of a run if it lies between the first word of  *)
(* the first and the last word of the last frame.                           *)
LEMMA WordsOfRun ==
    ASSUME NEW first \in Nat, NEW n \in Nat, NEW w \in Nat
    PROVE  (w \div PMM_FRAME_SIZE) \in Run(first, n) <=>
              first * PMM_FRAME_SIZE <= w /\ w < (first + n) * PMM_FRAME_SIZE
<1>1. PICK F \in Nat \ {0} : F = PMM_FRAME_SIZE
  BY HeapAssumption
<1>2. PICK q \in Nat, r \in 0..(F - 1) : q = w \div F /\ w = F * q + r
  BY DivMod
<1>3. ASSUME NEW m \in Nat
      PROVE  m <= q <=> m * F <= w
  <2>1. CASE m <= q
    <3>1. m * F <= F * q
      BY <2>1
    <3> QED
      BY <1>2, <2>1, <3>1
  <2>2. CASE q < m
    <3>1. F * (q + 1) <= m * F
      BY <2>2
    <3>2. w < F * (q + 1)
      BY <1>2
    <3> QED
      BY <2>2, <3>1, <3>2
  <2> QED
    BY <2>1, <2>2
<1>4. first <= q <=> first * F <= w
  BY <1>3
<1>5. first + n <= q <=> (first + n) * F <= w
  BY <1>3
<1>6. (first + n) * F \in Nat /\ first * F \in Nat
  OBVIOUS
<1> QED
  BY <1>1, <1>2, <1>4, <1>5, <1>6 DEF Run

(* grow_heap puts one free block over the new run at the head of the list. *)
LEMMA GrownKeeps ==
    ASSUME GoodList(blocks), Tiles(blocks, owned),
           NEW first \in Nat, NEW n \in Nat \ {0},
           n * PMM_FRAME_SIZE \in Nat, n * PMM_FRAME_SIZE >= HEAP_HEADER_SIZE,
           Run(first, n) \cap owned = {},
           NEW N, N = Grown(first, n)
    PROVE  /\ GoodList(N)
           /\ Tiles(N, owned \cup Run(first, n))
           /\ 1 \in DOMAIN N
           /\ N[1].free /\ N[1].addr = first * PMM_FRAME_SIZE
           /\ N[1].size = n * PMM_FRAME_SIZE - HEAP_HEADER_SIZE
           /\ \A k \in DOMAIN N : k # 1 => \E j \in DOMAIN blocks : N[k] = blocks[j]
           /\ \A j \in DOMAIN blocks : \E k \in DOMAIN N : N[k] = blocks[j]
<1>1. /\ blocks \in Seq(Block) /\ Apart(blocks)
      /\ InOrder(blocks) /\ NoFreePair(blocks)
  BY DEF GoodList
<1>2. PICK F \in Nat \ {0}, h \in Nat \ {0} : F = PMM_FRAME_SIZE /\ h = HEAP_HEADER_SIZE
  BY HeapAssumption
<1>3. first * F \in Nat /\ n * F \in Nat /\ n * F - h \in Nat
  BY <1>2
<1>4. PICK new \in Block : new = [addr |-> first * PMM_FRAME_SIZE,
                                  size |-> n * PMM_FRAME_SIZE - HEAP_HEADER_SIZE,
                                  free |-> TRUE]
  BY <1>2, <1>3 DEF Block
<1>5. /\ new.addr = first * F /\ new.size = n * F - h /\ new.free
      /\ End(new) = (first + n) * F
  <2>1. new.addr = first * F /\ new.size = n * F - h /\ new.free
    BY <1>2, <1>4
  <2>2. End(new) = first * F + h + (n * F - h)
    BY <1>2, <2>1 DEF End
  <2>3. first * F + h + (n * F - h) = (first + n) * F
    BY <1>3
  <2> QED
    BY <2>1, <2>2, <2>3
<1>6. ASSUME NEW w \in Nat
      PROVE  Inside(new, w) <=> (w \div PMM_FRAME_SIZE) \in Run(first, n)
  BY <1>2, <1>5, WordsOfRun, ZenonT(60) DEF Inside
<1>7. PICK m \in Nat : m = Len(blocks) /\ DOMAIN blocks = 1..m
  BY <1>1
<1>8. N = <<new>> \o blocks
  BY <1>4 DEF Grown
<1>9. /\ N \in Seq(Block) /\ Len(N) = m + 1
      /\ N[1] = new
      /\ \A k \in 2..(m + 1) : N[k] = blocks[k - 1]
  <2>1. PICK Q \in Seq(Block) : Q = <<new>> /\ Len(Q) = 1 /\ Q[1] = new
    <3>1. <<new>> \in Seq(Block) /\ Len(<<new>>) = 1 /\ <<new>>[1] = new
      OBVIOUS
    <3> QED
      BY <3>1
  <2>2. /\ Q \o blocks \in Seq(Block) /\ Len(Q \o blocks) = Len(Q) + Len(blocks)
        /\ \A k \in 1..(Len(Q) + Len(blocks)) :
              (Q \o blocks)[k] = IF k <= Len(Q) THEN Q[k] ELSE blocks[k - Len(Q)]
    BY <1>1, ConcatProperties
  <2> QED
    BY <1>7, <1>8, <2>1, <2>2
<1>10. DOMAIN N = 1..(m + 1) /\ \A k \in 1..(m + 1) : N[k] \in Block
  BY <1>9
<1>11. ASSUME NEW w \in Nat
       PROVE  Covered(N, w) <=> Covered(blocks, w) \/ Inside(new, w)
  <2>1. ASSUME NEW j \in 1..m, Inside(blocks[j], w)
        PROVE  \E k \in 1..(m + 1) : Inside(N[k], w)
    <3>1. j + 1 \in 2..(m + 1) /\ (j + 1) - 1 = j
      OBVIOUS
    <3>2. N[j + 1] = blocks[j]
      BY <1>9, <3>1
    <3> QED
      BY <2>1, <3>1, <3>2
  <2>2. ASSUME NEW k \in 1..(m + 1), Inside(N[k], w), k # 1
        PROVE  \E j \in 1..m : Inside(blocks[j], w)
    <3>1. k \in 2..(m + 1) /\ k - 1 \in 1..m
      BY <2>2
    <3> QED
      BY <1>9, <2>2, <3>1
  <2>3. 1 \in 1..(m + 1)
    OBVIOUS
  <2> QED
    BY <1>7, <1>9, <1>10, <2>1, <2>2, <2>3 DEF Covered
<1>12. Tiles(N, owned \cup Run(first, n))
  BY <1>6, <1>11 DEF Tiles
<1>13. ASSUME NEW w \in Nat
       PROVE  ~ (Covered(blocks, w) /\ Inside(new, w))
  BY <1>6 DEF Tiles
<1>14. ASSUME NEW k \in 2..(m + 1)
       PROVE  k - 1 \in 1..m /\ N[k] = blocks[k - 1]
  BY <1>9
<1>15. Apart(N)
  <2> SUFFICES ASSUME NEW j \in 1..(m + 1), NEW k \in 1..(m + 1), j # k,
                      NEW w \in Nat, Inside(N[j], w), Inside(N[k], w)
               PROVE  FALSE
    BY <1>10 DEF Apart
  <2>1. CASE j = 1 \/ k = 1
    <3>1. ASSUME NEW p \in 1..(m + 1), p # 1, Inside(N[p], w)
          PROVE  Covered(blocks, w)
      <4>1. p \in 2..(m + 1)
        BY <3>1
      <4>2. p - 1 \in 1..m /\ Inside(blocks[p - 1], w)
        BY <1>14, <3>1, <4>1
      <4> QED
        BY <1>7, <4>2 DEF Covered
    <3>2. Inside(new, w) /\ Covered(blocks, w)
      BY <1>9, <2>1, <3>1
    <3> QED
      BY <1>13, <3>2
  <2>2. CASE j # 1 /\ k # 1
    <3>1. /\ j - 1 \in 1..m /\ k - 1 \in 1..m /\ j - 1 # k - 1
          /\ N[j] = blocks[j - 1] /\ N[k] = blocks[k - 1]
      BY <1>14, <2>2
    <3> QED
      BY <1>1, <1>7, <3>1 DEF Apart
  <2> QED
    BY <2>1, <2>2
<1>16. RunStart(new)
  <2>1. (first * F) % F = 0
    OBVIOUS
  <2> QED
    BY <1>2, <1>5, <2>1 DEF RunStart
<1>17. ASSUME NEW b \in Block, b.addr = End(new)
       PROVE  RunStart(b)
  <2>1. ((first + n) * F) % F = 0
    OBVIOUS
  <2> QED
    BY <1>2, <1>5, <1>17, <2>1 DEF RunStart
<1>18. ASSUME NEW j \in 1..(m + 1), NEW k \in 1..(m + 1),
              End(N[j]) = N[k].addr, ~ RunStart(N[k])
       PROVE  /\ j - 1 \in 1..m /\ k - 1 \in 1..m
              /\ N[j] = blocks[j - 1] /\ N[k] = blocks[k - 1]
  <2>1. k # 1
    BY <1>9, <1>16, <1>18
  <2>2. j # 1
    BY <1>9, <1>10, <1>17, <1>18
  <2> QED
    BY <1>14, <2>1, <2>2
<1>19. InOrder(N)
  <2> SUFFICES ASSUME NEW j \in 1..(m + 1), NEW k \in 1..(m + 1),
                      End(N[j]) = N[k].addr, ~ RunStart(N[k])
               PROVE  k = j + 1
    BY <1>10 DEF InOrder
  <2>1. k - 1 = (j - 1) + 1
    <3>1. PICK p \in 1..m, q \in 1..m : /\ p = j - 1 /\ q = k - 1
                                        /\ N[j] = blocks[p] /\ N[k] = blocks[q]
      BY <1>18
    <3>2. q = p + 1
      BY <1>1, <1>7, <3>1 DEF InOrder
    <3> QED
      BY <3>1, <3>2
  <2> QED
    BY <2>1
<1>20. NoFreePair(N)
  <2> SUFFICES ASSUME NEW j \in 1..(m + 1), NEW k \in 1..(m + 1),
                      N[j].free, N[k].free, End(N[j]) = N[k].addr, ~ RunStart(N[k])
               PROVE  FALSE
    BY <1>10 DEF NoFreePair
  <2> QED
    BY <1>1, <1>7, <1>18, SMTT(60) DEF NoFreePair
<1>21. GoodList(N)
  BY <1>9, <1>15, <1>19, <1>20 DEF GoodList
<1>22. ASSUME NEW j \in 1..m
       PROVE  \E k \in 1..(m + 1) : N[k] = blocks[j]
  <2>1. j + 1 \in 2..(m + 1) /\ (j + 1) - 1 = j
    OBVIOUS
  <2> QED
    BY <1>14, <2>1
<1>23. ASSUME NEW k \in 1..(m + 1), k # 1
       PROVE  \E j \in 1..m : N[k] = blocks[j]
  BY <1>14, <1>23
<1>24. 1 \in 1..(m + 1)
  OBVIOUS
<1> QED
  BY <1>2, <1>5, <1>7, <1>9, <1>10, <1>12, <1>21, <1>22, <1>23, <1>24, ZenonT(60)

(***************************************************************************)
(* Part 5.  kfree's pass over the list                                     *)
(***************************************************************************)

(* Of two neighbours in the list that are both free the second does not     *)
(* begin where the first ends.                                              *)
Swallowed(list) ==
    \A k \in DOMAIN list : k + 1 \in DOMAIN list /\ list[k].free /\ list[k + 1].free =>
        End(list[k]) # list[k + 1].addr

(* What holds when the first n blocks have become the list `done`: the same *)
(* words are covered, the blocks begin and end where blocks did before, the *)
(* last one ends where the n-th did, and the used blocks are untouched.     *)
PassInv(list, n, done) ==
    /\ done \in Seq(Block)
    /\ \A w \in Nat : Covered(done, w) <=> \E i \in 1..n : Inside(list[i], w)
    /\ Apart(done)
    /\ \A k \in DOMAIN done : /\ \E i \in 1..n : done[k].addr = list[i].addr
                              /\ \E i \in 1..n : End(done[k]) = End(list[i])
    /\ IF n = 0 THEN Len(done) = 0
       ELSE Len(done) > 0 /\ End(done[Len(done)]) = End(list[n])
    /\ \A k \in DOMAIN done : ~ done[k].free => \E i \in 1..n : done[k] = list[i]
    /\ \A i \in 1..n : ~ list[i].free => \E k \in DOMAIN done : done[k] = list[i]
    /\ InOrder(done)
    /\ Swallowed(done)

(* Blocks that are apart differ in their first and in their last word. *)
LEMMA ApartDiffer ==
    ASSUME NEW list \in Seq(Block), Apart(list),
           NEW i \in DOMAIN list, NEW j \in DOMAIN list, i # j
    PROVE  list[i].addr # list[j].addr /\ End(list[i]) # End(list[j])
<1>1. list[i] \in Block /\ list[j] \in Block
  OBVIOUS
<1>2. /\ list[i].addr \in Nat /\ End(list[i]) - 1 \in Nat
      /\ Inside(list[i], list[i].addr) /\ Inside(list[i], End(list[i]) - 1)
      /\ Inside(list[j], list[j].addr) /\ Inside(list[j], End(list[j]) - 1)
  BY <1>1, BlockExtent
<1> QED
  BY <1>2 DEF Apart

(* Appending a block that is apart from all before. *)
LEMMA AppendPass ==
    ASSUME NEW list \in Seq(Block), Apart(list), InOrder(list),
           NEW n \in Nat, n + 1 \in DOMAIN list,
           NEW done, PassInv(list, n, done),
           NEW D, D = Append(done, list[n + 1]),
           Len(done) > 0 /\ done[Len(done)].free /\ list[n + 1].free
              => End(done[Len(done)]) # list[n + 1].addr
    PROVE  PassInv(list, n + 1, D)
<1>1. PICK b \in Block : b = list[n + 1]
  OBVIOUS
<1>2. PICK m \in Nat : done \in Seq(Block) /\ m = Len(done) /\ DOMAIN done = 1..m
  BY DEF PassInv
<1>3. /\ D \in Seq(Block) /\ DOMAIN D = 1..(m + 1) /\ Len(D) = m + 1
      /\ \A k \in 1..m : D[k] = done[k]
      /\ D[m + 1] = b
  BY <1>1, <1>2
<1>4. /\ \A i \in 1..n : list[i] \in Block /\ i \in DOMAIN list /\ i # n + 1
      /\ \A i \in 1..(n + 1) : i \in 1..n \/ i = n + 1
      /\ 1..n \subseteq 1..(n + 1) /\ n + 1 \in 1..(n + 1)
  OBVIOUS
<1>5. /\ \A k \in 1..(m + 1) : k \in 1..m \/ k = m + 1
      /\ 1..m \subseteq 1..(m + 1) /\ m + 1 \in 1..(m + 1)
      /\ \A k \in 1..(m + 1) : D[k] \in Block
  BY <1>3
<1>6. ASSUME NEW w \in Nat
      PROVE  Covered(D, w) <=> \E i \in 1..(n + 1) : Inside(list[i], w)
  <2>1. Covered(D, w) <=> Covered(done, w) \/ Inside(b, w)
    BY <1>2, <1>3, <1>5 DEF Covered
  <2>2. Covered(done, w) <=> \E i \in 1..n : Inside(list[i], w)
    BY DEF PassInv
  <2> QED
    BY <1>1, <1>4, <2>1, <2>2
<1>7. ASSUME NEW k \in 1..m, NEW w \in Nat
      PROVE  ~ (Inside(done[k], w) /\ Inside(b, w))
  <2> SUFFICES ASSUME Inside(done[k], w), Inside(b, w) PROVE FALSE
    OBVIOUS
  <2>1. PICK i \in 1..n : Inside(list[i], w)
    BY <1>2 DEF PassInv, Covered
  <2> QED
    BY <1>1, <1>4, <2>1 DEF Apart
<1>8. Apart(D)
  <2> SUFFICES ASSUME NEW j \in 1..(m + 1), NEW k \in 1..(m + 1), j # k,
                      NEW w \in Nat, Inside(D[j], w), Inside(D[k], w)
               PROVE  FALSE
    BY <1>3 DEF Apart
  <2>1. CASE j \in 1..m /\ k \in 1..m
    BY <1>2, <1>3, <2>1 DEF PassInv, Apart
  <2>2. CASE j = m + 1 \/ k = m + 1
    BY <1>3, <1>5, <1>7, <2>2
  <2> QED
    BY <1>5, <2>1, <2>2
<1>9. ASSUME NEW k \in 1..(m + 1)
      PROVE  /\ \E i \in 1..(n + 1) : D[k].addr = list[i].addr
             /\ \E i \in 1..(n + 1) : End(D[k]) = End(list[i])
             /\ ~ D[k].free => \E i \in 1..(n + 1) : D[k] = list[i]
  <2>1. CASE k \in 1..m
    <3>1. /\ \E i \in 1..n : done[k].addr = list[i].addr
          /\ \E i \in 1..n : End(done[k]) = End(list[i])
          /\ ~ done[k].free => \E i \in 1..n : done[k] = list[i]
      BY <1>2, <2>1 DEF PassInv
    <3> QED
      BY <1>3, <1>4, <2>1, <3>1
  <2>2. CASE k = m + 1
    BY <1>1, <1>3, <1>4, <2>2
  <2> QED
    BY <1>5, <2>1, <2>2
<1>10. ASSUME NEW i \in 1..(n + 1), ~ list[i].free
       PROVE  \E k \in 1..(m + 1) : D[k] = list[i]
  <2>1. CASE i \in 1..n
    <3>1. \E k \in 1..m : done[k] = list[i]
      BY <1>2, <1>10, <2>1 DEF PassInv
    <3> QED
      BY <1>3, <1>5, <3>1
  <2>2. CASE i = n + 1
    BY <1>1, <1>3, <1>5, <2>2
  <2> QED
    BY <1>4, <2>1, <2>2
<1>11. InOrder(D)
  <2> SUFFICES ASSUME NEW j \in 1..(m + 1), NEW k \in 1..(m + 1),
                      End(D[j]) = D[k].addr, ~ RunStart(D[k])
               PROVE  k = j + 1
    BY <1>3 DEF InOrder
  <2>1. CASE j \in 1..m /\ k \in 1..m
    <3>1. InOrder(done)
      BY DEF PassInv
    <3>2. D[j] = done[j] /\ D[k] = done[k]
      BY <1>3, <2>1
    <3> QED
      BY <1>2, <2>1, <3>1, <3>2 DEF InOrder
  <2>2. CASE j \in 1..m /\ k = m + 1
    <3>1. PICK i \in 1..n : End(done[j]) = End(list[i])
      BY <1>2, <2>2 DEF PassInv
    <3>2. End(list[i]) = list[n + 1].addr /\ ~ RunStart(list[n + 1])
      BY <1>1, <1>3, <2>2, <3>1
    <3>3. n + 1 = i + 1
      BY <1>4, <3>2 DEF InOrder
    <3>4. i = n /\ n # 0
      BY <3>3
    <3>5. m > 0 /\ End(done[m]) = End(list[n])
      BY <1>2, <3>4 DEF PassInv
    <3>6. m \in 1..m /\ Apart(done)
      BY <1>2, <3>5 DEF PassInv
    <3>7. j = m
      BY <1>2, <2>2, <3>1, <3>4, <3>5, <3>6, ApartDiffer, SMTT(60)
    <3> QED
      BY <2>2, <3>7
  <2>3. CASE j = m + 1 /\ k \in 1..m
    <3>1. PICK i \in 1..n : done[k].addr = list[i].addr
      BY <1>2, <2>3 DEF PassInv
    <3>2. End(list[n + 1]) = list[i].addr /\ ~ RunStart(list[i])
      BY <1>1, <1>3, <2>3, <3>1 DEF RunStart
    <3>3. i = (n + 1) + 1
      BY <1>4, <3>2 DEF InOrder
    <3> QED
      BY <3>3
  <2>4. CASE j = m + 1 /\ k = m + 1
    <3>1. b.addr < End(b) /\ b.addr \in Nat
      BY BlockExtent
    <3> QED
      BY <1>3, <2>4, <3>1
  <2> QED
    BY <1>5, <2>1, <2>2, <2>3, <2>4
<1>12. Swallowed(D)
  <2> SUFFICES ASSUME NEW k \in 1..m, D[k].free, D[k + 1].free
               PROVE  End(D[k]) # D[k + 1].addr
    BY <1>3 DEF Swallowed
  <2>1. CASE k = m
    BY <1>1, <1>2, <1>3, <2>1
  <2>2. CASE k # m
    <3>1. k + 1 \in 1..m
      BY <2>2
    <3> QED
      BY <1>2, <1>3, <3>1 DEF PassInv, Swallowed
  <2> QED
    BY <2>1, <2>2
<1>13. /\ n + 1 # 0 /\ Len(D) > 0
       /\ End(D[Len(D)]) = End(list[n + 1])
  BY <1>1, <1>3
<1> QED
  BY <1>3, <1>6, <1>8, <1>9, <1>10, <1>11, <1>12, <1>13, ZenonT(60) DEF PassInv

(* A block that swallows the one behind it has the words of both. *)
LEMMA MergedSize ==
    ASSUME NEW c \in Block, NEW b \in Block
    PROVE  /\ c.size + HEAP_HEADER_SIZE + b.size \in Nat
           /\ \A d \in Block :
                 /\ d.addr = c.addr
                 /\ d.size = c.size + HEAP_HEADER_SIZE + b.size
                 /\ End(c) = b.addr
                 => /\ End(d) = End(b)
                    /\ \A w \in Nat : Inside(d, w) <=> Inside(c, w) \/ Inside(b, w)
<1>1. PICK ca \in Nat, cs \in Nat, ba \in Nat, bs \in Nat, h \in Nat :
        /\ ca = c.addr /\ cs = c.size /\ ba = b.addr /\ bs = b.size
        /\ h = HEAP_HEADER_SIZE
  BY BlockFields, HeapAssumption
<1>2. c.size + HEAP_HEADER_SIZE + b.size = cs + h + bs
  BY <1>1
<1>3. ASSUME NEW d \in Block, d.addr = c.addr,
             d.size = c.size + HEAP_HEADER_SIZE + b.size, End(c) = b.addr
      PROVE  /\ End(d) = End(b)
             /\ \A w \in Nat : Inside(d, w) <=> Inside(c, w) \/ Inside(b, w)
  <2>1. d.addr = ca /\ d.size = cs + h + bs
    BY <1>1, <1>2, <1>3
  <2>2. End(c) = ca + h + cs /\ End(b) = ba + h + bs /\ End(d) = ca + h + (cs + h + bs)
    BY <1>1, <2>1 DEF End
  <2>3. ba = ca + h + cs
    BY <1>1, <1>3, <2>2
  <2>4. End(d) = End(b)
    BY <2>2, <2>3
  <2>5. ASSUME NEW w \in Nat
        PROVE  Inside(d, w) <=> Inside(c, w) \/ Inside(b, w)
    BY <1>1, <2>1, <2>2, <2>3 DEF Inside
  <2> QED
    BY <2>4, <2>5
<1> QED
  BY <1>1, <1>2, <1>3

(* The last block swallows the next one. *)
LEMMA MergePass ==
    ASSUME NEW list \in Seq(Block), Apart(list), InOrder(list),
           NEW n \in Nat, n + 1 \in DOMAIN list,
           NEW done \in Seq(Block), PassInv(list, n, done),
           Len(done) # 0, done[Len(done)].free, list[n + 1].free,
           End(done[Len(done)]) = list[n + 1].addr,
           NEW D, D = [done EXCEPT ![Len(done)].size =
                                       @ + HEAP_HEADER_SIZE + list[n + 1].size]
    PROVE  PassInv(list, n + 1, D)
<1>1. PICK b \in Block : b = list[n + 1]
  OBVIOUS
<1>2. PICK m \in Nat : m = Len(done) /\ DOMAIN done = 1..m /\ m # 0 /\ m \in 1..m
  OBVIOUS
<1>3. PICK c \in Block : c = done[m]
  BY <1>2
<1>4. c.free /\ b.free /\ End(c) = b.addr
  BY <1>1, <1>2, <1>3
<1>5. PICK d \in Block : d = [addr |-> c.addr, size |-> c.size + HEAP_HEADER_SIZE + b.size,
                              free |-> c.free]
  BY MergedSize, BlockFields DEF Block
<1>6. /\ D \in Seq(Block) /\ DOMAIN D = 1..m /\ Len(D) = m
      /\ \A k \in 1..m : k # m => D[k] = done[k]
      /\ D[m] = d
  <2>1. D = [done EXCEPT ![m] = [done[m] EXCEPT !.size =
                                    done[m].size + HEAP_HEADER_SIZE + list[n + 1].size]]
    BY <1>2
  <2>2. c.size + HEAP_HEADER_SIZE + b.size \in Nat
    BY MergedSize
  <2>3. [c EXCEPT !.size = c.size + HEAP_HEADER_SIZE + b.size] = d
    BY <1>5, <2>2, WriteSize
  <2>4. D = [done EXCEPT ![m] = d]
    BY <1>1, <1>3, <2>1, <2>3
  <2> QED
    BY <1>2, <2>4
<1>7. /\ d.addr = c.addr /\ End(d) = End(b) /\ d.free
      /\ \A w \in Nat : Inside(d, w) <=> Inside(c, w) \/ Inside(b, w)
  <2>1. d.addr = c.addr /\ d.size = c.size + HEAP_HEADER_SIZE + b.size /\ d.free
    BY <1>4, <1>5
  <2> QED
    BY <1>4, <2>1, MergedSize
<1>8. /\ \A i \in 1..n : list[i] \in Block /\ i \in DOMAIN list /\ i # n + 1
      /\ \A i \in 1..(n + 1) : i \in 1..n \/ i = n + 1
      /\ 1..n \subseteq 1..(n + 1) /\ n + 1 \in 1..(n + 1)
  OBVIOUS
<1>9. ASSUME NEW w \in Nat
      PROVE  Covered(D, w) <=> \E i \in 1..(n + 1) : Inside(list[i], w)
  <2>1. Covered(D, w) <=> Covered(done, w) \/ Inside(b, w)
    BY <1>2, <1>3, <1>6, <1>7 DEF Covered
  <2>2. Covered(done, w) <=> \E i \in 1..n : Inside(list[i], w)
    BY DEF PassInv
  <2> QED
    BY <1>1, <1>8, <2>1, <2>2
<1>10. ASSUME NEW k \in 1..m, NEW w \in Nat
       PROVE  ~ (Inside(done[k], w) /\ Inside(b, w))
  <2> SUFFICES ASSUME Inside(done[k], w), Inside(b, w) PROVE FALSE
    OBVIOUS
  <2>1. PICK i \in 1..n : Inside(list[i], w)
    BY <1>2 DEF PassInv, Covered
  <2> QED
    BY <1>1, <1>8, <2>1 DEF Apart
<1>11. Apart(D)
  <2>0. DOMAIN D = 1..m
    BY <1>6
  <2> SUFFICES ASSUME NEW j \in 1..m, NEW k \in 1..m, j # k,
                      NEW w \in Nat, Inside(D[j], w), Inside(D[k], w)
               PROVE  FALSE
    BY <2>0, SMTT(60) DEF Apart
  <2>1. Apart(done)
    BY DEF PassInv
  <2>2. ASSUME NEW p \in 1..m, p # m, Inside(done[p], w), Inside(d, w)
        PROVE  FALSE
    BY <1>2, <1>3, <1>7, <1>10, <2>1, <2>2 DEF Apart
  <2>3. CASE j # m /\ k # m
    BY <1>2, <1>6, <2>1, <2>3 DEF Apart
  <2>4. CASE j = m \/ k = m
    BY <1>6, <2>2, <2>4
  <2> QED
    BY <2>3, <2>4
<1>12. ASSUME NEW k \in 1..m
       PROVE  /\ \E i \in 1..(n + 1) : D[k].addr = list[i].addr
              /\ \E i \in 1..(n + 1) : End(D[k]) = End(list[i])
              /\ ~ D[k].free => \E i \in 1..(n + 1) : D[k] = list[i]
  <2>1. /\ \E i \in 1..n : done[k].addr = list[i].addr
        /\ \E i \in 1..n : End(done[k]) = End(list[i])
        /\ ~ done[k].free => \E i \in 1..n : done[k] = list[i]
    BY <1>2 DEF PassInv
  <2>2. CASE k # m
    BY <1>6, <1>8, <2>1, <2>2
  <2>3. CASE k = m
    BY <1>1, <1>3, <1>6, <1>7, <1>8, <2>1, <2>3, ZenonT(60)
  <2> QED
    BY <2>2, <2>3
<1>13. ASSUME NEW i \in 1..(n + 1), ~ list[i].free
       PROVE  \E k \in 1..m : D[k] = list[i]
  <2>1. i \in 1..n
    BY <1>8, <1>13
  <2>2. PICK k \in 1..m : done[k] = list[i]
    BY <1>2, <1>13, <2>1 DEF PassInv
  <2>3. k # m
    BY <1>3, <1>4, <1>13, <2>2
  <2> QED
    BY <1>6, <2>2, <2>3
<1>14. InOrder(D)
  <2> SUFFICES ASSUME NEW j \in 1..m, NEW k \in 1..m,
                      End(D[j]) = D[k].addr, ~ RunStart(D[k])
               PROVE  k = j + 1
    BY <1>6 DEF InOrder
  <2>1. D[k].addr = done[k].addr /\ ~ RunStart(done[k])
    BY <1>3, <1>6, <1>7 DEF RunStart
  <2>2. CASE j # m
    <3>1. End(done[j]) = done[k].addr /\ InOrder(done)
      BY <1>6, <2>1, <2>2 DEF PassInv
    <3> QED
      BY <1>2, <2>1, <3>1 DEF InOrder
  <2>3. CASE j = m
    <3>1. PICK i \in 1..n : done[k].addr = list[i].addr
      BY <1>2 DEF PassInv
    <3>2. End(list[n + 1]) = list[i].addr /\ ~ RunStart(list[i])
      BY <1>1, <1>6, <1>7, <2>1, <2>3, <3>1 DEF RunStart
    <3>3. i = (n + 1) + 1
      BY <1>8, <3>2 DEF InOrder
    <3> QED
      BY <3>3
  <2> QED
    BY <2>2, <2>3
<1>15. Swallowed(D)
  <2> SUFFICES ASSUME NEW k \in 1..m, k + 1 \in 1..m, D[k].free, D[k + 1].free
               PROVE  End(D[k]) # D[k + 1].addr
    BY <1>6 DEF Swallowed
  <2>1. k # m /\ D[k] = done[k] /\ D[k + 1].addr = done[k + 1].addr /\ done[k + 1].free
    BY <1>3, <1>4, <1>6, <1>7
  <2> QED
    BY <1>2, <2>1 DEF PassInv, Swallowed
<1>16. /\ n + 1 # 0 /\ Len(D) > 0
       /\ End(D[Len(D)]) = End(list[n + 1])
  BY <1>1, <1>6, <1>7, SMTT(60)
<1> QED
  BY <1>6, <1>9, <1>11, <1>12, <1>13, <1>14, <1>15, <1>16 DEF PassInv

(* One step of the pass. *)
LEMMA SwallowPass ==
    ASSUME NEW list \in Seq(Block), Apart(list), InOrder(list),
           NEW n \in Nat, n + 1 \in DOMAIN list,
           NEW done, PassInv(list, n, done)
    PROVE  PassInv(list, n + 1, Swallow(done, list[n + 1]))
<1>1. done \in Seq(Block) /\ Len(done) \in Nat
  BY DEF PassInv
<1>2. Len(done) > 0 <=> Len(done) # 0
  BY <1>1
<1>3. CASE /\ Len(done) # 0 /\ done[Len(done)].free /\ list[n + 1].free
           /\ End(done[Len(done)]) = list[n + 1].addr
  <2>1. Swallow(done, list[n + 1])
          = [done EXCEPT ![Len(done)].size = @ + HEAP_HEADER_SIZE + list[n + 1].size]
    BY <1>2, <1>3 DEF Swallow
  <2> QED
    BY <1>1, <1>3, <2>1, MergePass
<1>4. CASE ~ (/\ Len(done) # 0 /\ done[Len(done)].free /\ list[n + 1].free
              /\ End(done[Len(done)]) = list[n + 1].addr)
  <2>1. Swallow(done, list[n + 1]) = Append(done, list[n + 1])
    BY <1>2, <1>4 DEF Swallow
  <2> QED
    BY <1>2, <1>4, <2>1, AppendPass
<1> QED
  BY <1>3, <1>4

(* The pass is defined for lists of every length. *)
LEMMA PassedIsDefined ==
    ASSUME NEW list \in Seq(Block)
    PROVE  Passed(list) = [n \in 0..Len(list) |->
                IF n = 0 THEN <<>> ELSE Swallow(Passed(list)[n - 1], list[n])]
<1> DEFINE T == {m \in Nat : \E f : f = [n \in 0..m |->
                    IF n = 0 THEN <<>> ELSE Swallow(f[n - 1], list[n])]}
<1>1. 0 \in T
  <2> DEFINE f == [n \in 0..0 |-> <<>>]
  <2>1. f = [n \in 0..0 |-> IF n = 0 THEN <<>> ELSE Swallow(f[n - 1], list[n])]
    OBVIOUS
  <2> HIDE DEF f
  <2> QED
    BY <2>1
<1>2. ASSUME NEW m \in Nat, m \in T
      PROVE  m + 1 \in T
  <2>1. PICK f : f = [n \in 0..m |->
                        IF n = 0 THEN <<>> ELSE Swallow(f[n - 1], list[n])]
    BY <1>2
  <2>2. /\ f[0] = <<>>
        /\ \A n \in 1..m : f[n] = Swallow(f[n - 1], list[n])
    <3>1. 0 \in 0..m /\ \A n \in 1..m : n \in 0..m /\ n # 0
      OBVIOUS
    <3> QED
      BY <2>1, <3>1
  <2> DEFINE g == [n \in 0..(m + 1) |-> IF n <= m THEN f[n] ELSE Swallow(f[m], list[m + 1])]
  <2>3. ASSUME NEW n \in 0..(m + 1)
        PROVE  g[n] = IF n = 0 THEN <<>> ELSE Swallow(g[n - 1], list[n])
    <3>1. CASE n = 0
      BY <2>2, <3>1
    <3>2. CASE n \in 1..m
      <4>1. n - 1 \in 0..(m + 1) /\ n - 1 <= m /\ n <= m
        BY <3>2
      <4>2. g[n - 1] = f[n - 1] /\ g[n] = f[n]
        BY <4>1
      <4> QED
        BY <2>2, <3>2, <4>2
    <3>3. CASE n = m + 1
      <4>1. g[m] = f[m] /\ g[m + 1] = Swallow(f[m], list[m + 1]) /\ n - 1 = m /\ n # 0
        BY <3>3
      <4> HIDE DEF g
      <4> QED
        BY <3>3, <4>1
    <3> QED
      BY <3>1, <3>2, <3>3
  <2>4. g = [n \in 0..(m + 1) |-> g[n]]
    OBVIOUS
  <2> HIDE DEF g
  <2>5. g = [n \in 0..(m + 1) |-> IF n = 0 THEN <<>> ELSE Swallow(g[n - 1], list[n])]
    BY <2>3, <2>4
  <2> QED
    BY <2>5
<1>3. Len(list) \in Nat
  OBVIOUS
<1>4. \A n \in 0..(Len(list) - 1) : n \in T => n + 1 \in T
  <2> HIDE DEF T
  <2> QED
    BY <1>2, <1>3
<1>5. Len(list) \in T
  <2>1. 0..Len(list) \subseteq T
    <3> HIDE DEF T
    <3> QED
      BY <1>1, <1>3, <1>4, InductionUpTo
  <2> HIDE DEF T
  <2> QED
    BY <1>3, <2>1
<1>6. PICK f : f = [n \in 0..Len(list) |->
                      IF n = 0 THEN <<>> ELSE Swallow(f[n - 1], list[n])]
  BY <1>5
<1> QED
  BY <1>6, Zenon DEF Passed

(* What the pass makes of a list of any length. *)
LEMMA CoalescePass ==
    ASSUME NEW list \in Seq(Block), Apart(list), InOrder(list)
    PROVE  PassInv(list, Len(list), Coalesce(list))
<1>1. PICK m \in Nat : m = Len(list) /\ DOMAIN list = 1..m
  OBVIOUS
<1>2. /\ Passed(list)[0] = <<>>
      /\ \A n \in 0..(m - 1) : Passed(list)[n + 1] = Swallow(Passed(list)[n], list[n + 1])
  <2>1. PICK p : /\ p = Passed(list)
                 /\ p = [n \in 0..m |-> IF n = 0 THEN <<>> ELSE Swallow(p[n - 1], list[n])]
    BY <1>1, PassedIsDefined
  <2>2. 0 \in 0..m /\ \A n \in 0..(m - 1) : n + 1 \in 0..m /\ n + 1 # 0 /\ (n + 1) - 1 = n
    OBVIOUS
  <2>3. p[0] = <<>>
    BY <2>1, <2>2
  <2>4. ASSUME NEW n \in 0..(m - 1)
        PROVE  p[n + 1] = Swallow(p[n], list[n + 1])
    <3>1. p[n + 1] = Swallow(p[(n + 1) - 1], list[n + 1])
      BY <2>1, <2>2
    <3> QED
      BY <2>2, <3>1
  <2> QED
    BY <2>1, <2>3, <2>4
<1> DEFINE T == {n \in 0..m : PassInv(list, n, Passed(list)[n])}
<1>3. 0 \in T
  <2>1. PassInv(list, 0, <<>>)
    <3>1. <<>> \in Seq(Block) /\ DOMAIN <<>> = {} /\ Len(<<>>) = 0 /\ 1..0 = {}
      OBVIOUS
    <3> QED
      BY <3>1 DEF PassInv, Covered, Apart, InOrder, Swallowed
  <2> QED
    BY <1>2, <2>1
<1>4. ASSUME NEW n \in 0..(m - 1), n \in T
      PROVE  n + 1 \in T
  <2>1. n + 1 \in DOMAIN list /\ n + 1 \in 0..m /\ n \in Nat
    BY <1>1
  <2>2. PassInv(list, n, Passed(list)[n])
    BY <1>4
  <2>3. PassInv(list, n + 1, Swallow(Passed(list)[n], list[n + 1]))
    BY <2>1, <2>2, SwallowPass
  <2> QED
    BY <1>2, <2>1, <2>3
<1>5. m \in T
  <2> HIDE DEF T
  <2>1. 0..m \subseteq T
    BY <1>3, <1>4, InductionUpTo
  <2> QED
    BY <2>1
<1> QED
  BY <1>1, <1>5 DEF Coalesce

(***************************************************************************)
(* Part 6.  The operations keep the invariant                              *)
(***************************************************************************)

(* The block that is handed out is a new allocation: nobody holds it yet. *)
LEMMA CarveAllocates ==
    ASSUME NEW list, GoodList(list), NEW i \in DOMAIN list, NEW size \in Nat,
           list[i].free, list[i].size >= size,
           NEW lv, Allocated(list, lv),
           NEW a, a.ptr = list[i].addr + HEAP_HEADER_SIZE, a.size \in Nat, size >= a.size,
           NEW N, N = Carve(list, i, size)
    PROVE  Allocated(N, lv \cup {a})
<1>1. /\ GoodList(N)
      /\ \E k \in DOMAIN N : /\ ~ N[k].free /\ N[k].addr = list[i].addr
                             /\ N[k].size >= size
      /\ \A k \in DOMAIN N : ~ N[k].free =>
                \/ N[k].addr = list[i].addr
                \/ \E j \in DOMAIN list : N[k] = list[j]
      /\ \A j \in DOMAIN list : ~ list[j].free => \E k \in DOMAIN N : N[k] = list[j]
  BY CarveKeeps
<1>2. list \in Seq(Block) /\ Apart(list)
  BY DEF GoodList
<1>3. /\ \A c \in lv : \E j \in DOMAIN list :
            /\ ~ list[j].free
            /\ list[j].addr + HEAP_HEADER_SIZE = c.ptr
            /\ list[j].size >= c.size
      /\ \A j \in DOMAIN list : ~ list[j].free =>
            \E c \in lv : c.ptr = list[j].addr + HEAP_HEADER_SIZE
      /\ \A c, d \in lv : c.ptr = d.ptr => c = d
  BY DEF Allocated
<1>4. ASSUME NEW c \in lv
      PROVE  c.ptr # a.ptr
  <2>1. PICK j \in DOMAIN list : /\ ~ list[j].free
                                 /\ list[j].addr + HEAP_HEADER_SIZE = c.ptr
    BY <1>3
  <2>2. list[j].addr # list[i].addr
    BY <1>2, <2>1, ApartDiffer
  <2>3. list[j].addr \in Nat /\ list[i].addr \in Nat
    BY <1>2, BlockFields
  <2> QED
    BY <2>1, <2>2, <2>3, HeapAssumption
<1>5. ASSUME NEW c \in lv \cup {a}
      PROVE  \E k \in DOMAIN N : /\ ~ N[k].free
                                 /\ N[k].addr + HEAP_HEADER_SIZE = c.ptr
                                 /\ N[k].size >= c.size
  <2>1. CASE c \in lv
    BY <1>1, <1>3, <2>1
  <2>2. CASE c = a
    <3>1. PICK k \in DOMAIN N : /\ ~ N[k].free /\ N[k].addr = list[i].addr
                                /\ N[k].size >= size
      BY <1>1
    <3>2. N[k].size \in Nat
      BY <1>1, BlockFields DEF GoodList
    <3>3. N[k].size >= a.size
      BY <3>1, <3>2
    <3> QED
      BY <2>2, <3>1, <3>3
  <2> QED
    BY <2>1, <2>2
<1>6. ASSUME NEW k \in DOMAIN N, ~ N[k].free
      PROVE  \E c \in lv \cup {a} : c.ptr = N[k].addr + HEAP_HEADER_SIZE
  BY <1>1, <1>3, <1>6
<1>7. ASSUME NEW c \in lv \cup {a}, NEW d \in lv \cup {a}, c.ptr = d.ptr
      PROVE  c = d
  BY <1>3, <1>4, <1>7
<1> QED
  BY <1>5, <1>6, <1>7 DEF Allocated

(* kmalloc: the size it asks the list for is as large as the request. *)
LEMMA AlignedSize ==
    ASSUME NEW request \in Requests
    PROVE  /\ request \in Nat
           /\ align_up(request, HEAP_ALIGN) \in Nat
           /\ align_up(request, HEAP_ALIGN) >= request
  BY HeapAssumption, RoundUp DEF align_up

(* kmalloc from a free block. *)
LEMMA FitInv ==
    ASSUME HeapInv, NEW request \in Requests,
           NEW size, size = align_up(request, HEAP_ALIGN),
           NEW i \in DOMAIN blocks, Fits(blocks[i], size),
           blocks' = Carve(blocks, i, size),
           Hand(blocks[i].addr + HEAP_HEADER_SIZE, request),
           UNCHANGED <<owned, pmmVars>>
    PROVE  HeapInv'
<1>1. request \in Nat /\ size \in Nat /\ size >= request
  BY AlignedSize
<1>2. /\ GoodList(blocks) /\ blocks[i].free /\ blocks[i].size >= size
      /\ Allocated(blocks, live)
  BY DEF HeapInv, Fits
<1>3. /\ GoodList(blocks')
      /\ \A w \in Nat : Covered(blocks', w) <=> Covered(blocks, w)
  BY <1>1, <1>2, CarveKeeps
<1>4. PICK a : a = [ptr |-> blocks[i].addr + HEAP_HEADER_SIZE, size |-> request]
  OBVIOUS
<1>5. /\ a.ptr = blocks[i].addr + HEAP_HEADER_SIZE /\ a.size = request
      /\ live' = live \cup {a}
  BY <1>4 DEF Hand
<1>6. a \in [ptr : Nat, size : Nat]
  <2>1. blocks[i].addr + HEAP_HEADER_SIZE \in Nat
    BY <1>2, BlockFields, HeapAssumption DEF GoodList
  <2> QED
    BY <1>1, <1>4, <2>1
<1>7. Allocated(blocks', live')
  BY <1>1, <1>2, <1>5, CarveAllocates
<1>8. Tiles(blocks', owned')
  BY <1>3 DEF HeapInv, Tiles
<1>9. IInv' /\ owned' \subseteq held'
  BY DEF HeapInv, IInv, pmmVars, PmmTypeOK, FreeCount, BitmapExact
<1>10. live' \subseteq [ptr : Nat, size : Nat] /\ IsFiniteSet(live')
  BY <1>5, <1>6, FS_AddElement DEF HeapInv
<1> QED
  BY <1>3, <1>7, <1>8, <1>9, <1>10 DEF HeapInv

(* kmalloc from a new run of frames. *)
LEMMA GrowInv ==
    ASSUME HeapInv, NEW request \in Requests,
           NEW size, size = align_up(request, HEAP_ALIGN),
           NEW n, n = FrameCount(size), NEW first \in Frames,
           TakeRun(first, n),
           blocks' = Carve(Grown(first, n), 1, size),
           Hand(first * PMM_FRAME_SIZE + HEAP_HEADER_SIZE, request),
           owned' = owned \cup Run(first, n)
    PROVE  HeapInv'
<1>1. request \in Nat /\ size \in Nat /\ size >= request
  BY AlignedSize
<1>2. /\ n \in Nat \ {0} /\ n * PMM_FRAME_SIZE \in Nat
      /\ n * PMM_FRAME_SIZE >= HEAP_HEADER_SIZE + size
  BY <1>1, EnoughFrames
<1>3. /\ Run(first, n) \subseteq Frames \ used
      /\ set_used(Run(first, n))
      /\ held' = held \cup Run(first, n)
      /\ UNCHANGED search_hint
  BY DEF TakeRun, IsFreeRun, is_used
<1>4. IInv'
  BY <1>3, TakeInv DEF HeapInv, IInv, PmmTypeOK
<1>5. Run(first, n) \cap owned = {}
  BY <1>3 DEF HeapInv, IInv, BitmapExact
<1>6. PICK G : G = Grown(first, n)
  OBVIOUS
<1>7. first \in Nat /\ n * PMM_FRAME_SIZE >= HEAP_HEADER_SIZE
  <2>1. first \in Nat
    BY PmmAssumption DEF Frames
  <2> QED
    BY <1>1, <1>2, <2>1, HeapAssumption
<1>8. /\ GoodList(G)
      /\ Tiles(G, owned')
      /\ 1 \in DOMAIN G
      /\ G[1].free /\ G[1].addr = first * PMM_FRAME_SIZE
      /\ G[1].size = n * PMM_FRAME_SIZE - HEAP_HEADER_SIZE
      /\ \A k \in DOMAIN G : k # 1 => \E j \in DOMAIN blocks : G[k] = blocks[j]
      /\ \A j \in DOMAIN blocks : \E k \in DOMAIN G : G[k] = blocks[j]
  BY <1>2, <1>5, <1>6, <1>7, GrownKeeps DEF HeapInv
<1>9. G[1].size >= size
  <2>1. G[1].size = n * PMM_FRAME_SIZE - HEAP_HEADER_SIZE
    BY <1>8
  <2> QED
    BY <1>1, <1>2, <2>1, HeapAssumption
<1>10. Allocated(G, live)
  <2>1. Allocated(blocks, live)
    BY DEF HeapInv
  <2>2. ASSUME NEW a \in live
        PROVE  \E k \in DOMAIN G : /\ ~ G[k].free
                                   /\ G[k].addr + HEAP_HEADER_SIZE = a.ptr
                                   /\ G[k].size >= a.size
    BY <1>8, <2>1 DEF Allocated
  <2>3. ASSUME NEW k \in DOMAIN G, ~ G[k].free
        PROVE  \E a \in live : a.ptr = G[k].addr + HEAP_HEADER_SIZE
    BY <1>8, <2>1, <2>3 DEF Allocated
  <2> QED
    BY <2>1, <2>2, <2>3 DEF Allocated
<1>11. /\ GoodList(blocks')
       /\ \A w \in Nat : Covered(blocks', w) <=> Covered(G, w)
  BY <1>1, <1>6, <1>8, <1>9, CarveKeeps
<1>12. PICK a : a = [ptr |-> first * PMM_FRAME_SIZE + HEAP_HEADER_SIZE, size |-> request]
  OBVIOUS
<1>13. /\ a.ptr = G[1].addr + HEAP_HEADER_SIZE /\ a.size = request
       /\ live' = live \cup {a}
  BY <1>8, <1>12 DEF Hand
<1>14. a \in [ptr : Nat, size : Nat]
  <2>1. G[1].addr + HEAP_HEADER_SIZE \in Nat
    BY <1>8, BlockFields, HeapAssumption DEF GoodList
  <2> QED
    BY <1>1, <1>8, <1>12, <2>1
<1>15. Allocated(blocks', live')
  BY <1>1, <1>6, <1>8, <1>9, <1>10, <1>13, CarveAllocates
<1>16. Tiles(blocks', owned')
  BY <1>8, <1>11 DEF Tiles
<1>17. owned' \subseteq held'
  BY <1>3 DEF HeapInv
<1>18. live' \subseteq [ptr : Nat, size : Nat] /\ IsFiniteSet(live')
  BY <1>13, <1>14, FS_AddElement DEF HeapInv
<1> QED
  BY <1>4, <1>11, <1>15, <1>16, <1>17, <1>18 DEF HeapInv

(* kfree. *)
LEMMA FreeInv ==
    ASSUME HeapInv, NEW ptr, kfree(ptr)
    PROVE  HeapInv'
<1>1. PICK i \in DOMAIN blocks :
        /\ blocks[i].addr + HEAP_HEADER_SIZE = ptr
        /\ ~ blocks[i].free
        /\ blocks' = Coalesce([blocks EXCEPT ![i].free = TRUE])
        /\ live' = {a \in live : a.ptr # ptr}
        /\ UNCHANGED <<owned, pmmVars>>
  BY DEF kfree
<1>2. /\ blocks \in Seq(Block) /\ Apart(blocks) /\ InOrder(blocks)
      /\ Tiles(blocks, owned) /\ Allocated(blocks, live)
  BY DEF HeapInv, GoodList
<1>3. PICK m \in Nat : m = Len(blocks) /\ DOMAIN blocks = 1..m
  BY <1>2
<1>4. PICK c \in Block : /\ c = [addr |-> blocks[i].addr, size |-> blocks[i].size, free |-> TRUE]
                         /\ c = [blocks[i] EXCEPT !.free = TRUE]
  <2>1. blocks[i] \in Block
    BY <1>2
  <2>2. [blocks[i] EXCEPT !.free = TRUE]
          = [addr |-> blocks[i].addr, size |-> blocks[i].size, free |-> TRUE]
    BY <2>1, WriteFree
  <2>3. [addr |-> blocks[i].addr, size |-> blocks[i].size, free |-> TRUE] \in Block
    BY <2>1 DEF Block
  <2> QED
    BY <2>2, <2>3
<1>5. PICK list \in Seq(Block) :
        /\ list = [blocks EXCEPT ![i].free = TRUE]
        /\ DOMAIN list = 1..m /\ Len(list) = m
        /\ \A k \in 1..m : k # i => list[k] = blocks[k]
        /\ list[i] = c
  <2>1. [blocks EXCEPT ![i].free = TRUE] = [blocks EXCEPT ![i] = c]
    BY <1>4
  <2>2. /\ [blocks EXCEPT ![i] = c] \in Seq(Block)
        /\ DOMAIN [blocks EXCEPT ![i] = c] = 1..m
        /\ Len([blocks EXCEPT ![i] = c]) = m
        /\ \A k \in 1..m : k # i => [blocks EXCEPT ![i] = c][k] = blocks[k]
        /\ [blocks EXCEPT ![i] = c][i] = c
    BY <1>2, <1>3
  <2> QED
    BY <2>1, <2>2
<1>6. ASSUME NEW k \in 1..m
      PROVE  /\ list[k].addr = blocks[k].addr /\ End(list[k]) = End(blocks[k])
             /\ \A w \in Nat : Inside(list[k], w) <=> Inside(blocks[k], w)
             /\ ~ list[k].free => k # i /\ list[k] = blocks[k]
  <2>1. CASE k = i
    BY <1>4, <1>5, <2>1 DEF End, Inside
  <2>2. CASE k # i
    BY <1>5, <2>2
  <2> QED
    BY <2>1, <2>2
<1>7. Apart(list)
  <2>1. DOMAIN list = 1..m
    BY <1>5
  <2> SUFFICES ASSUME NEW j \in 1..m, NEW k \in 1..m, j # k, NEW w \in Nat,
                      Inside(list[j], w), Inside(list[k], w)
               PROVE  FALSE
    BY <2>1 DEF Apart
  <2> QED
    BY <1>2, <1>3, <1>6 DEF Apart
<1>8. InOrder(list)
  <2>1. DOMAIN list = 1..m
    BY <1>5
  <2> SUFFICES ASSUME NEW j \in 1..m, NEW k \in 1..m,
                      End(list[j]) = list[k].addr, ~ RunStart(list[k])
               PROVE  k = j + 1
    BY <2>1 DEF InOrder
  <2> QED
    BY <1>2, <1>3, <1>6 DEF InOrder, RunStart
<1>9. PassInv(list, m, blocks')
  BY <1>1, <1>5, <1>7, <1>8, CoalescePass
<1>10. /\ blocks' \in Seq(Block) /\ Apart(blocks') /\ InOrder(blocks') /\ Swallowed(blocks')
       /\ \A w \in Nat : Covered(blocks', w) <=> \E k \in 1..m : Inside(list[k], w)
       /\ \A k \in DOMAIN blocks' : ~ blocks'[k].free => \E j \in 1..m : blocks'[k] = list[j]
       /\ \A j \in 1..m : ~ list[j].free => \E k \in DOMAIN blocks' : blocks'[k] = list[j]
  BY <1>9 DEF PassInv
<1>11. NoFreePair(blocks')
  BY <1>10 DEF NoFreePair, InOrder, Swallowed
<1>12. Tiles(blocks', owned')
  <2>1. ASSUME NEW w \in Nat
        PROVE  Covered(blocks', w) <=> Covered(blocks, w)
    BY <1>3, <1>6, <1>10 DEF Covered
  <2> QED
    BY <1>1, <1>2, <2>1 DEF Tiles
<1>13. Allocated(blocks', live')
  <2>1. ASSUME NEW a \in live'
        PROVE  \E k \in DOMAIN blocks' : /\ ~ blocks'[k].free
                                         /\ blocks'[k].addr + HEAP_HEADER_SIZE = a.ptr
                                         /\ blocks'[k].size >= a.size
    <3>1. a \in live /\ a.ptr # ptr
      BY <1>1
    <3>2. PICK j \in 1..m : /\ ~ blocks[j].free
                            /\ blocks[j].addr + HEAP_HEADER_SIZE = a.ptr
                            /\ blocks[j].size >= a.size
      BY <1>2, <1>3, <3>1 DEF Allocated
    <3>3. j # i /\ list[j] = blocks[j]
      BY <1>1, <1>5, <3>1, <3>2
    <3> QED
      BY <1>10, <3>2, <3>3, SMTT(60)
  <2>2. ASSUME NEW k \in DOMAIN blocks', ~ blocks'[k].free
        PROVE  \E a \in live' : a.ptr = blocks'[k].addr + HEAP_HEADER_SIZE
    <3>1. PICK j \in 1..m : blocks'[k] = list[j]
      BY <1>10, <2>2
    <3>2. j # i /\ blocks'[k] = blocks[j] /\ ~ blocks[j].free
      BY <1>6, <2>2, <3>1
    <3>3. PICK a \in live : a.ptr = blocks[j].addr + HEAP_HEADER_SIZE
      BY <1>2, <1>3, <3>2 DEF Allocated
    <3>4. blocks[j].addr # blocks[i].addr
      BY <1>2, <1>3, <3>2, ApartDiffer
    <3>5. blocks[j].addr \in Nat /\ blocks[i].addr \in Nat
      BY <1>2, <1>3, BlockFields
    <3>6. a.ptr # ptr
      BY <1>1, <3>3, <3>4, <3>5, HeapAssumption
    <3> QED
      BY <1>1, <3>2, <3>3, <3>6
  <2>3. ASSUME NEW a \in live', NEW c1 \in live', a.ptr = c1.ptr
        PROVE  a = c1
    BY <1>1, <1>2, <2>3 DEF Allocated
  <2> QED
    BY <2>1, <2>2, <2>3 DEF Allocated
<1>14. IInv' /\ owned' \subseteq held'
  BY <1>1 DEF HeapInv, IInv, pmmVars, PmmTypeOK, FreeCount, BitmapExact
<1>15. live' \subseteq live
  BY <1>1
<1>16. live' \subseteq [ptr : Nat, size : Nat] /\ IsFiniteSet(live')
  BY <1>15, FS_Subset DEF HeapInv
<1> QED
  BY <1>10, <1>11, <1>12, <1>13, <1>14, <1>16 DEF HeapInv, GoodList

(* The other users of frames leave the heap's alone. *)
LEMMA OtherInv ==
    ASSUME HeapInv, OtherStep
    PROVE  HeapInv'
<1>1. held \subseteq Frames
  BY DEF HeapInv, IInv, PmmTypeOK
<1>2. PmmNext
  BY <1>1 DEF OtherStep, PmmNext
<1>3. IInv'
  BY <1>2, NextInv DEF HeapInv
<1>4. owned' \subseteq held'
  BY DEF HeapInv, OtherStep, heapVars, pmm_alloc_frame, pmm_alloc_contiguous,
         TakeRun, pmm_free_frame
<1> QED
  BY <1>3, <1>4 DEF HeapInv, OtherStep, heapVars

(* Before the first kmalloc the list is empty and the frames are as pmm.c    *)
(* set them up.                                                             *)
LEMMA HeapInitInv == Init => HeapInv
<1> SUFFICES ASSUME Init PROVE HeapInv
  OBVIOUS
<1>1. IInv
  BY InitInv DEF Init
<1>2. blocks = <<>> /\ owned = {} /\ live = {}
  BY DEF Init
<1>3. blocks \in Seq(Block) /\ DOMAIN blocks = {}
  BY <1>2
<1>4. IsFiniteSet(live)
  BY <1>2, FS_EmptySet
<1> QED
  BY <1>1, <1>2, <1>3, <1>4
     DEF HeapInv, GoodList, Apart, InOrder, NoFreePair, Tiles, Covered, Allocated

(* kmalloc, kfree and the other owners of frames all preserve HeapInv. *)
LEMMA HeapNextInv == HeapInv /\ [Next]_vars => HeapInv'
<1> SUFFICES ASSUME HeapInv, [Next]_vars PROVE HeapInv'
  OBVIOUS
<1>1. ASSUME NEW request \in Requests, kmalloc(request)
      PROVE  HeapInv'
  <2> DEFINE size == align_up(request, HEAP_ALIGN)
             n == FrameCount(size)
             fit == {i \in DOMAIN blocks : Fits(blocks[i], size)}
  <2>1. \/ \E i \in fit :
             /\ blocks' = Carve(blocks, i, size)
             /\ Hand(blocks[i].addr + HEAP_HEADER_SIZE, request)
             /\ UNCHANGED <<owned, pmmVars>>
        \/ \E first \in Frames :
             /\ TakeRun(first, n)
             /\ blocks' = Carve(Grown(first, n), 1, size)
             /\ Hand(first * PMM_FRAME_SIZE + HEAP_HEADER_SIZE, request)
             /\ owned' = owned \cup Run(first, n)
    BY <1>1 DEF kmalloc
  <2>2. CASE \E i \in fit :
               /\ blocks' = Carve(blocks, i, size)
               /\ Hand(blocks[i].addr + HEAP_HEADER_SIZE, request)
               /\ UNCHANGED <<owned, pmmVars>>
    <3>1. PICK i \in DOMAIN blocks :
            /\ Fits(blocks[i], size)
            /\ blocks' = Carve(blocks, i, size)
            /\ Hand(blocks[i].addr + HEAP_HEADER_SIZE, request)
            /\ UNCHANGED <<owned, pmmVars>>
      BY <2>2
    <3> HIDE DEF size
    <3> QED
      BY <3>1, FitInv DEF size
  <2>3. CASE \E first \in Frames :
               /\ TakeRun(first, n)
               /\ blocks' = Carve(Grown(first, n), 1, size)
               /\ Hand(first * PMM_FRAME_SIZE + HEAP_HEADER_SIZE, request)
               /\ owned' = owned \cup Run(first, n)
    BY <2>3, GrowInv
  <2> QED
    BY <2>1, <2>2, <2>3
<1>2. ASSUME NEW a \in live, kfree(a.ptr)
      PROVE  HeapInv'
  BY <1>2, FreeInv
<1>3. CASE OtherStep
  BY <1>3, OtherInv
<1>4. CASE UNCHANGED vars
  BY <1>4 DEF HeapInv, IInv, PmmTypeOK, FreeCount, BitmapExact, vars, pmmVars, heapVars
<1> QED
  BY <1>1, <1>2, <1>3, <1>4 DEF Next, HeapStep

(***************************************************************************)
(* Part 7.  The theorems                                                   *)
(***************************************************************************)

(* The inductive invariant of the heap over its frame allocator holds in    *)
(* every reachable state.                                                   *)
THEOREM HeapInvariant == Spec => []HeapInv
  BY HeapInitInv, HeapNextInv, PTL DEF Spec

(* A word of a block is a word of the set that module Heap calls its        *)
(* extent, and a word of a frame one of the frame's range of words.         *)
LEMMA ExtentWords ==
    ASSUME NEW b \in Block, NEW w
    PROVE  w \in Extent(b) <=> w \in Nat /\ Inside(b, w)
<1>1. PICK a \in Nat, e \in Nat : a = b.addr /\ e = End(b)
  BY BlockExtent
<1> QED
  BY <1>1 DEF Extent, Inside

(* A word lies in the frame that is its address over the frame size. *)
LEMMA FrameWords ==
    ASSUME NEW f \in Nat, NEW w
    PROVE  w \in (f * PMM_FRAME_SIZE)..((f + 1) * PMM_FRAME_SIZE - 1) <=>
              w \in Nat /\ w \div PMM_FRAME_SIZE = f
<1>1. PICK F \in Nat \ {0} : F = PMM_FRAME_SIZE
  BY HeapAssumption
<1>2. f * F \in Nat /\ (f + 1) * F \in Nat /\ f * F = F * f /\ (f + 1) * F = F * (f + 1)
  OBVIOUS
<1>3. ASSUME w \in (f * F)..((f + 1) * F - 1)
      PROVE  w \in Nat /\ w \div F = f
  <2>1. w \in Nat /\ F * f <= w /\ w < F * (f + 1)
    BY <1>2, <1>3
  <2> QED
    BY <2>1, QuotientUnique
<1>4. ASSUME w \in Nat, w \div F = f
      PROVE  w \in (f * F)..((f + 1) * F - 1)
  <2>1. PICK r \in 0..(F - 1) : w = F * f + r
    BY <1>4, DivMod
  <2>2. F * (f + 1) = F * f + F
    OBVIOUS
  <2> QED
    BY <1>2, <2>1, <2>2
<1> QED
  BY <1>1, <1>3, <1>4

(* Splitting in kmalloc, growing the heap and merging in kfree never make   *)
(* two blocks overlap, lose a word of the heap's frames or claim one of     *)
(* somebody else's: for every size of header, frame and request.            *)
THEOREM BlocksAlwaysTile == Spec => []BlocksTile
<1>1. HeapInv => BlocksTile
  <2> SUFFICES ASSUME HeapInv PROVE BlocksTile
    OBVIOUS
  <2>1. /\ blocks \in Seq(Block) /\ Apart(blocks) /\ Tiles(blocks, owned)
        /\ owned \subseteq held /\ held \subseteq Frames /\ Frames \subseteq Nat
    BY PmmAssumption DEF HeapInv, GoodList, IInv, PmmTypeOK, Frames
  <2>2. TypeOK
    BY <2>1 DEF HeapInv, IInv, TypeOK, Block
  <2>3. \A i \in DOMAIN blocks : blocks[i] \in Block
    BY <2>1
  <2>4. ASSUME NEW i \in DOMAIN blocks, NEW j \in DOMAIN blocks, i # j
        PROVE  Extent(blocks[i]) \cap Extent(blocks[j]) = {}
    <3> SUFFICES ASSUME NEW w, w \in Extent(blocks[i]), w \in Extent(blocks[j])
                 PROVE  FALSE
      OBVIOUS
    <3>1. w \in Nat /\ Inside(blocks[i], w) /\ Inside(blocks[j], w)
      BY <2>3, ExtentWords
    <3> QED
      BY <2>1, <2>4, <3>1 DEF Apart
  <2>5. ASSUME NEW w
        PROVE  w \in UNION {Extent(blocks[i]) : i \in DOMAIN blocks} <=>
                  w \in UNION {(f * PMM_FRAME_SIZE)..((f + 1) * PMM_FRAME_SIZE - 1) : f \in owned}
    <3>1. w \in UNION {Extent(blocks[i]) : i \in DOMAIN blocks}
            <=> w \in Nat /\ Covered(blocks, w)
      BY <2>3, ExtentWords DEF Covered
    <3>2. ASSUME NEW f \in owned
          PROVE  w \in (f * PMM_FRAME_SIZE)..((f + 1) * PMM_FRAME_SIZE - 1) <=>
                    w \in Nat /\ w \div PMM_FRAME_SIZE = f
      BY <2>1, FrameWords
    <3>3. w \in UNION {(f * PMM_FRAME_SIZE)..((f + 1) * PMM_FRAME_SIZE - 1) : f \in owned}
            <=> \E f \in owned : w \in (f * PMM_FRAME_SIZE)..((f + 1) * PMM_FRAME_SIZE - 1)
      OBVIOUS
    <3>4. (\E f \in owned : w \in (f * PMM_FRAME_SIZE)..((f + 1) * PMM_FRAME_SIZE - 1))
            <=> w \in Nat /\ w \div PMM_FRAME_SIZE \in owned
      BY <3>2
    <3>5. w \in Nat => (Covered(blocks, w) <=> w \div PMM_FRAME_SIZE \in owned)
      BY <2>1 DEF Tiles
    <3> QED
      BY <3>1, <3>3, <3>4, <3>5
  <2>6. UNION {Extent(blocks[i]) : i \in DOMAIN blocks}
          = UNION {(f * PMM_FRAME_SIZE)..((f + 1) * PMM_FRAME_SIZE - 1) : f \in owned}
    BY <2>5
  <2> QED
    BY <2>1, <2>2, <2>4, <2>6 DEF BlocksTile
<1> QED
  BY <1>1, HeapInvariant, PTL

(* Every pointer that kmalloc has returned and nobody has freed points to a *)
(* block of its own that is large enough, and no other block is in use,     *)
(* whatever the order of kmalloc, kfree and kfree of stale pointers.        *)
THEOREM AllocationsStayIntact == Spec => []AllocationsIntact
<1>1. HeapInv => AllocationsIntact
  <2> SUFFICES ASSUME HeapInv PROVE AllocationsIntact
    OBVIOUS
  <2>1. /\ blocks \in Seq(Block) /\ Apart(blocks)
        /\ Allocated(blocks, live) /\ IsFiniteSet(live)
    BY DEF HeapInv, GoodList
  <2> DEFINE U == {i \in DOMAIN blocks : ~ blocks[i].free}
             holder == [i \in U |-> CHOOSE a \in live : a.ptr = blocks[i].addr + HEAP_HEADER_SIZE]
  <2>2. ASSUME NEW i \in U
        PROVE  /\ holder[i] \in live
               /\ holder[i].ptr = blocks[i].addr + HEAP_HEADER_SIZE
    BY <2>1 DEF Allocated
  <2>3. holder \in [U -> live]
    BY <2>2
  <2>4. ASSUME NEW i \in U, NEW j \in U, holder[i] = holder[j]
        PROVE  i = j
    <3>1. blocks[i].addr + HEAP_HEADER_SIZE = blocks[j].addr + HEAP_HEADER_SIZE
      BY <2>2, <2>4
    <3>2. blocks[i].addr \in Nat /\ blocks[j].addr \in Nat
      BY <2>1, BlockFields
    <3>3. blocks[i].addr = blocks[j].addr
      BY <3>1, <3>2, HeapAssumption
    <3> QED
      BY <2>1, <3>3, ApartDiffer
  <2>5. ASSUME NEW a \in live
        PROVE  \E i \in U : holder[i] = a
    <3>1. PICK i \in U : blocks[i].addr + HEAP_HEADER_SIZE = a.ptr
      BY <2>1 DEF Allocated
    <3>2. holder[i].ptr = a.ptr /\ holder[i] \in live
      BY <2>2, <3>1
    <3>3. holder[i] = a
      BY <2>1, <3>2 DEF Allocated
    <3> QED
      BY <3>3
  <2>6. Cardinality(U) = Cardinality(live)
    <3> HIDE DEF U, holder
    <3>1. holder \in Bijection(U, live)
      BY <2>3, <2>4, <2>5, Zenon DEF Bijection, Injection, Surjection, IsInjective
    <3>2. ExistsBijection(U, live)
      BY <3>1 DEF ExistsBijection
    <3>3. IsFiniteSet(U)
      <4>1. U \subseteq 1..Len(blocks) /\ Len(blocks) \in Nat
        BY <2>1 DEF U
      <4>2. IsFiniteSet(1..Len(blocks))
        BY <4>1, FS_Interval
      <4> QED
        BY <4>1, <4>2, FS_Subset
    <3> QED
      BY <3>2, <3>3, FS_Bijection
  <2> QED
    BY <2>1, <2>6 DEF AllocationsIntact, Allocated
<1> QED
  BY <1>1, HeapInvariant, PTL

(* One pass over the list, in list order, merges every pair of adjacent     *)
(* free blocks of a run: kfree leaves none behind and no later step makes   *)
(* one.                                                                     *)
THEOREM FreeLeavesNoPair == Spec => FreeMergesNeighbours
<1>1. HeapInv' =>
        (\A i, j \in DOMAIN blocks' :
            (blocks'[i].free /\ blocks'[j].free /\ End(blocks'[i]) = blocks'[j].addr) =>
               blocks'[j].addr % PMM_FRAME_SIZE = 0)
  BY DEF HeapInv, GoodList, NoFreePair, RunStart
<1> QED
  BY <1>1, HeapInvariant, PTL DEF FreeMergesNeighbours

(* The frame allocator below the heap keeps its bitmap and its counter      *)
(* exact while the heap grows and others take and return frames.            *)
THEOREM FramesBelowHeapExact == Spec => [](FreeCount /\ BitmapExact)
<1>1. HeapInv => FreeCount /\ BitmapExact
  BY DEF HeapInv, IInv
<1> QED
  BY <1>1, HeapInvariant, PTL

=============================================================================
