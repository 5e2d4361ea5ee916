----------------------------- MODULE VmmProofs ------------------------------
(***************************************************************************)
(* Address spaces are sound for every size of the tables, every amount of  *)
(* memory and every number of threads and programs: the properties of      *)
(* module Vmm are invariants.                                              *)
(***************************************************************************)
EXTENDS Vmm, PmmProofs, SequenceTheorems

(***************************************************************************)
(* Part 1.  Addresses                                                      *)
(***************************************************************************)

(* A set of numbers has a least element. *)
LEMMA LeastElement ==
    ASSUME NEW T \in SUBSET Nat, T # {}
    PROVE  \E m \in T : \A n \in T : m <= n
<1> DEFINE R == {ss \in Nat \X Nat : ss[1] < ss[2]}
<1>1. IsWellFoundedOn(R, Nat)
  BY NatLessThanWellFounded DEF OpToRel
<1>2. PICK x \in T : \A y \in T : ~ (<<y, x>> \in R)
  <2> HIDE DEF R
  <2> QED
    BY <1>1, WFMin
<1>3. ASSUME NEW y \in T
      PROVE  x <= y
  <2>1. y < x => <<y, x>> \in R
    OBVIOUS
  <2> QED
    BY <1>2, <2>1
<1> QED
  BY <1>3

(* A bounded one has a greatest. *)
LEMMA GreatestElement ==
    ASSUME NEW n \in Nat, NEW S, S \subseteq 1..n, S # {}
    PROVE  \E m \in S : \A j \in S : j <= m
<1> DEFINE T == {x \in Nat : \E y \in S : x = n - y}
<1>1. \A y \in S : n - y \in T
  OBVIOUS
<1>2. T \in SUBSET Nat /\ T # {}
  BY <1>1
<1>3. PICK x \in T : \A z \in T : x <= z
  <2> HIDE DEF T
  <2> QED
    BY <1>2, LeastElement
<1>4. PICK m \in S : x = n - m
  OBVIOUS
<1>5. \A j \in S : x <= n - j
  BY <1>1, <1>3
<1>6. \A j \in S : j <= m
  BY <1>4, <1>5
<1> QED
  BY <1>6

(* Division with remainder. *)
LEMMA DivMod ==
    ASSUME NEW a \in Nat, NEW d \in Nat \ {0}
    PROVE  /\ a \div d \in Nat
           /\ a % d \in 0..(d - 1)
           /\ a = d * (a \div d) + (a % d)
  OBVIOUS

(* The quotient is the only number with this property. *)
LEMMA QuotientUnique ==
    ASSUME NEW a \in Nat, NEW d \in Nat \ {0}, NEW q \in Nat,
           d * q <= a, a < d * (q + 1)
    PROVE  a \div d = q
<1>1. /\ a \div d \in Nat
      /\ d * (a \div d) <= a /\ a < d * (a \div d) + d
  BY DivMod
<1>2. CASE a \div d < q
  <2>1. d * ((a \div d) + 1) <= d * q
    BY <1>1, <1>2
  <2> QED
    BY <1>1, <2>1
<1>3. CASE q < a \div d
  <2>1. d * (q + 1) <= d * (a \div d)
    BY <1>1, <1>3
  <2> QED
    BY <1>1, <2>1
<1> QED
  BY <1>1, <1>2, <1>3

(* A larger factor is at least as large a product. *)
LEMMA TimesMonotone ==
    ASSUME NEW d \in Nat, NEW x \in Nat, NEW y \in Nat, x <= y
    PROVE  d * x <= d * y
<1>1. PICK z \in Nat : y = x + z
  <2>1. y - x \in Nat /\ y = x + (y - x)
    OBVIOUS
  <2> QED
    BY <2>1
<1>2. d * y = d * x + d * z /\ d * z \in Nat /\ d * x \in Nat
  BY <1>1
<1> QED
  BY <1>2

(* Dividing twice is dividing by the product. *)
LEMMA DivTwice ==
    ASSUME NEW a \in Nat, NEW d \in Nat \ {0}, NEW m \in Nat \ {0}
    PROVE  /\ d * m \in Nat \ {0}
           /\ a \div (d * m) = (a \div d) \div m
<1>1. PICK b \in Nat, r \in 0..(d - 1) : b = a \div d /\ a = d * b + r
  BY DivMod
<1>2. PICK c \in Nat, s \in 0..(m - 1) : c = b \div m /\ b = m * c + s
  BY DivMod
<1>3. d * m \in Nat \ {0}
  OBVIOUS
<1>4. /\ (d * m) * c = d * (m * c)
      /\ (d * m) * (c + 1) = d * (m * (c + 1))
      /\ m * c \in Nat /\ m * (c + 1) \in Nat
  OBVIOUS
<1>5. m * c <= b /\ b + 1 <= m * (c + 1)
  <2>1. m * (c + 1) = m * c + m
    OBVIOUS
  <2> QED
    BY <1>2, <2>1
<1>6. d * (m * c) <= d * b /\ d * (b + 1) <= d * (m * (c + 1))
  BY <1>4, <1>5, TimesMonotone
<1>7. d * (b + 1) = d * b + d /\ d * b \in Nat
  OBVIOUS
<1>8. (d * m) * c <= a /\ a < (d * m) * (c + 1)
  BY <1>1, <1>4, <1>6, <1>7
<1>9. a \div (d * m) = c
  BY <1>3, <1>8, QuotientUnique
<1> QED
  BY <1>1, <1>2, <1>3, <1>9

(* What is below d * m has a quotient below m. *)
LEMMA DivBelow ==
    ASSUME NEW x \in Nat, NEW d \in Nat \ {0}, NEW m \in Nat, x < d * m
    PROVE  x \div d < m
<1>1. PICK q \in Nat : q = x \div d /\ d * q <= x
  BY DivMod
<1>2. CASE m <= q
  <2>1. d * m <= d * q /\ d * m \in Nat /\ d * q \in Nat
    BY <1>2, TimesMonotone
  <2> QED
    BY <1>1, <2>1
<1> QED
  BY <1>1, <1>2

(* The same for two divisions *)
LEMMA DivBelowTwice ==
    ASSUME NEW x \in Nat, NEW d \in Nat \ {0}, NEW m \in Nat, x < d * (d * m)
    PROVE  (x \div d) \div d < m
<1>1. PICK y \in Nat : y = d * m /\ x < d * y
  <2>1. d * m \in Nat
    OBVIOUS
  <2> QED
    BY <2>1
<1>2. PICK q \in Nat : q = x \div d
  BY DivMod
<1>3. q < d * m
  BY <1>1, <1>2, DivBelow
<1>4. q \div d < m
  BY <1>3, DivBelow
<1> QED
  BY <1>2, <1>4

(* A multiple has no remainder. *)
LEMMA Multiple ==
    ASSUME NEW d \in Nat \ {0}, NEW x \in Nat
    PROVE  d * x \in Nat /\ (d * x) \div d = x /\ (d * x) % d = 0
<1>1. d * x \in Nat /\ d * (x + 1) = d * x + d
  OBVIOUS
<1>2. (d * x) \div d = x
  BY <1>1, QuotientUnique
<1>3. PICK z \in Nat : z = d * x
  BY <1>1
<1>4. z = d * (z \div d) + (z % d) /\ z % d \in Nat
  BY DivMod
<1> QED
  BY <1>1, <1>2, <1>3, <1>4

(* The number of the page, large page, ... around address a *)
V1(a) == a \div PAGE_SIZE
V2(a) == V1(a) \div ENTRIES
V3(a) == V2(a) \div ENTRIES
V4(a) == V3(a) \div ENTRIES

(* Entries of a table and bytes of a page are at least one. *)
LEMMA Sizes ==
    /\ ENTRIES \in Nat \ {0} /\ ENTRIES > 2 /\ PAGE_SIZE \in Nat \ {0}
    /\ Span(1) = PAGE_SIZE /\ Span(2) = PAGE_SIZE * ENTRIES
    /\ Span(3) = PAGE_SIZE * ENTRIES * ENTRIES
    /\ Span(4) = PAGE_SIZE * ENTRIES * ENTRIES * ENTRIES
    /\ Span(4) \in Nat \ {0}
    /\ WORD = Span(4) * ENTRIES
    /\ 0 \in Index /\ 1 \in Index
<1>1. ENTRIES \in Nat \ {0} /\ ENTRIES > 2 /\ PAGE_SIZE \in Nat \ {0}
  BY VmmAssumption, ElfAssumption
<1>2. /\ Span(1) = PAGE_SIZE /\ Span(2) = PAGE_SIZE * ENTRIES
      /\ Span(3) = PAGE_SIZE * ENTRIES * ENTRIES
      /\ Span(4) = PAGE_SIZE * ENTRIES * ENTRIES * ENTRIES
  BY DEF Span
<1>3. PAGE_SIZE * ENTRIES \in Nat \ {0}
  BY <1>1
<1>4. PAGE_SIZE * ENTRIES * ENTRIES \in Nat \ {0}
  BY <1>1, <1>3
<1>5. Span(4) \in Nat \ {0}
  BY <1>1, <1>2, <1>4
<1>6. WORD = Span(4) * ENTRIES
  BY <1>2, VmmAssumption
<1> QED
  BY <1>1, <1>2, <1>5, <1>6 DEF Index

(* The indices of an address are the digits of its page number. *)
LEMMA Indices ==
    ASSUME NEW a \in Nat
    PROVE  /\ V1(a) \in Nat /\ V2(a) \in Nat /\ V3(a) \in Nat /\ V4(a) \in Nat
           /\ pt_index(a) = V1(a) % ENTRIES /\ pd_index(a) = V2(a) % ENTRIES
           /\ pdpt_index(a) = V3(a) % ENTRIES /\ pml4_index(a) = V4(a) % ENTRIES
           /\ V2(a) = a \div Span(2) /\ V4(a) = a \div Span(4)
           /\ pt_index(a) \in Index /\ pd_index(a) \in Index
           /\ pdpt_index(a) \in Index /\ pml4_index(a) \in Index
<1>1. PICK E \in Nat \ {0}, P \in Nat \ {0} : E = ENTRIES /\ P = PAGE_SIZE
  BY Sizes
<1>2. /\ V1(a) = a \div P /\ V2(a) = V1(a) \div E /\ V3(a) = V2(a) \div E
      /\ V4(a) = V3(a) \div E
  BY <1>1 DEF V1, V2, V3, V4
<1>3. V1(a) \in Nat
  BY <1>2, DivMod
<1>4. V2(a) \in Nat
  BY <1>2, <1>3, DivMod
<1>5. V3(a) \in Nat
  BY <1>2, <1>4, DivMod
<1>6. V4(a) \in Nat
  BY <1>2, <1>5, DivMod
<1>7. P * E \in Nat \ {0} /\ a \div (P * E) = V2(a)
  BY <1>2, DivTwice
<1>8. P * E * E \in Nat \ {0} /\ a \div (P * E * E) = V3(a)
  <2> DEFINE Q == P * E
  <2>1. Q * E \in Nat \ {0} /\ a \div (Q * E) = (a \div Q) \div E
    <3> HIDE DEF Q
    <3>1. Q \in Nat \ {0}
      BY <1>7 DEF Q
    <3> QED
      BY <3>1, DivTwice
  <2> QED
    BY <1>2, <1>7, <2>1
<1>9. P * E * E * E \in Nat \ {0} /\ a \div (P * E * E * E) = V4(a)
  <2> DEFINE Q == P * E * E
  <2>1. Q * E \in Nat \ {0} /\ a \div (Q * E) = (a \div Q) \div E
    <3> HIDE DEF Q
    <3>1. Q \in Nat \ {0}
      BY <1>8 DEF Q
    <3> QED
      BY <3>1, DivTwice
  <2> QED
    BY <1>2, <1>8, <2>1
<1>10. /\ Span(1) = P /\ Span(2) = P * E /\ Span(3) = P * E * E /\ Span(4) = P * E * E * E
  BY <1>1, Sizes
<1>11. /\ pt_index(a) = V1(a) % E /\ pd_index(a) = V2(a) % E
       /\ pdpt_index(a) = V3(a) % E /\ pml4_index(a) = V4(a) % E
  BY <1>1, <1>2, <1>7, <1>8, <1>9, <1>10 DEF pt_index, pd_index, pdpt_index, pml4_index
<1>12. \A n \in Nat : n % E \in Index
  BY <1>1, DivMod DEF Index
<1> QED
  BY <1>1, <1>3, <1>4, <1>5, <1>6, <1>7, <1>9, <1>10, <1>11, <1>12

(* A number is its quotient and its last digit. *)
LEMMA DigitsDetermine ==
    ASSUME NEW x \in Nat, NEW y \in Nat, x \div ENTRIES = y \div ENTRIES,
           x % ENTRIES = y % ENTRIES
    PROVE  x = y
<1>1. PICK E \in Nat \ {0} : E = ENTRIES
  BY Sizes
<1>2. /\ x = E * (x \div E) + (x % E)
      /\ y = E * (y \div E) + (y % E)
  BY DivMod
<1> QED
  BY <1>1, <1>2

(* The first address of a page, and the pages of frames *)
LEMMA Pages ==
    /\ \A a \in Nat : /\ PageOf(a) \in Nat /\ PageOf(a) = PAGE_SIZE * V1(a)
                      /\ PageOf(a) <= a /\ a < PageOf(a) + PAGE_SIZE
                      /\ PageOf(a) % PAGE_SIZE = 0
                      /\ V1(PageOf(a)) = V1(a)
                      /\ a % PAGE_SIZE = 0 => PageOf(a) = a
    /\ \A x \in Nat : Addr(x) \in Nat /\ V1(Addr(x)) = x
<1>1. PICK P \in Nat \ {0} : P = PAGE_SIZE
  BY Sizes
<1>2. ASSUME NEW x \in Nat
      PROVE  P * x \in Nat /\ (P * x) \div P = x /\ (P * x) % P = 0
  BY Multiple
<1>3. ASSUME NEW a \in Nat
      PROVE  /\ PageOf(a) \in Nat /\ PageOf(a) = P * V1(a)
             /\ PageOf(a) <= a /\ a < PageOf(a) + P
             /\ PageOf(a) % P = 0
             /\ V1(PageOf(a)) = V1(a)
             /\ a % P = 0 => PageOf(a) = a
  <2>1. PICK q \in Nat, r \in 0..(P - 1) : /\ q = V1(a) /\ a % P = r /\ a = P * q + r
    <3>1. /\ a \div P \in Nat
          /\ a % P \in 0..(P - 1)
          /\ a = P * (a \div P) + (a % P)
      BY DivMod
    <3> QED
      BY <1>1, <3>1, Zenon DEF V1
  <2>2. P * q \in Nat /\ PageOf(a) = P * q
    <3>1. P * q \in Nat
      OBVIOUS
    <3>2. PageOf(a) = a - r
      BY <1>1, <2>1, Zenon DEF PageOf
    <3> QED
      BY <2>1, <3>1, <3>2
  <2>3. (P * q) \div P = q /\ (P * q) % P = 0
    BY <1>2
  <2> QED
    BY <1>1, <2>1, <2>2, <2>3 DEF V1
<1>4. ASSUME NEW x \in Nat
      PROVE  Addr(x) \in Nat /\ V1(Addr(x)) = x
  <2>1. Addr(x) = P * x
    BY <1>1 DEF Addr
  <2> QED
    BY <1>1, <1>2, <2>1 DEF V1
<1> QED
  BY <1>1, <1>3, <1>4

(* All the hardware looks at is the page of an address. *)
LEMMA SamePage ==
    ASSUME NEW a \in Nat, NEW b \in Nat, V1(a) = V1(b)
    PROVE  /\ pt_index(a) = pt_index(b) /\ pd_index(a) = pd_index(b)
           /\ pdpt_index(a) = pdpt_index(b) /\ pml4_index(a) = pml4_index(b)
<1>1. V2(a) = V2(b) /\ V3(a) = V3(b) /\ V4(a) = V4(b)
  BY DEF V2, V3, V4
<1> QED
  BY <1>1, Indices

(***************************************************************************)
(* Part 2.  Buffers of system calls                                        *)
(***************************************************************************)

(* Whether ring 3 reaches an address depends on its page. *)
LEMMA AccessibleByPage ==
    ASSUME NEW s, NEW a \in Nat, NEW b \in Nat, V1(a) = V1(b),
           vmm_is_user_accessible_in(s, a)
    PROVE  vmm_is_user_accessible_in(s, b)
<1>1. /\ pt_index(a) = pt_index(b) /\ pd_index(a) = pd_index(b)
      /\ pdpt_index(a) = pdpt_index(b) /\ pml4_index(a) = pml4_index(b)
  BY SamePage
<1>2. L4(s, a) = L4(s, b)
  BY <1>1 DEF L4
<1>3. L3(s, a) = L3(s, b)
  BY <1>1, <1>2 DEF L3
<1>4. L2(s, a) = L2(s, b)
  BY <1>1, <1>3 DEF L2
<1>5. L1(s, a) = L1(s, b)
  BY <1>1, <1>4 DEF L1
<1> QED
  BY <1>2, <1>3, <1>4, <1>5 DEF vmm_is_user_accessible_in

(* A buffer that user_range_ok accepts does not wrap, and the page of each  *)
(* of its bytes is one of those that it has looked at.                      *)
LEMMA AcceptedBuffer ==
    ASSUME NEW t \in Tids, NEW vaddr \in 0..(WORD - 1), NEW len \in Nat,
           user_range_ok(t, vaddr, len), NEW i \in 0..(len - 1)
    PROVE  vmm_is_user_accessible_in(th[t].space, Plus(vaddr, i))
<1>1. PICK W \in Nat \ {0} : W = WORD
  BY ElfAssumption
<1>2. /\ len - 1 <= (W - 1) - vaddr
      /\ \A page \in PageOf(vaddr)..PageOf(vaddr + len - 1) :
            page % PAGE_SIZE = 0 => vmm_is_user_accessible_in(th[t].space, page)
  BY <1>1 DEF user_range_ok
<1>3. PICK a \in Nat, z \in Nat : /\ a = vaddr + i /\ z = vaddr + len - 1 /\ a <= z /\ a < W
                                  /\ vaddr <= a /\ vaddr \in Nat
  BY <1>1, <1>2
<1>4. Plus(vaddr, i) = a
  BY <1>1, <1>3 DEF Plus
<1>5. /\ PageOf(a) \in Nat /\ PageOf(a) % PAGE_SIZE = 0 /\ V1(PageOf(a)) = V1(a)
      /\ PageOf(vaddr) \in Nat /\ PageOf(z) \in Nat
  BY <1>3, Pages
<1>6. PageOf(vaddr) <= PageOf(a) /\ PageOf(a) <= PageOf(z)
  <2>1. ASSUME NEW x \in Nat, NEW y \in Nat, x <= y
        PROVE  PageOf(x) <= PageOf(y)
    <3>1. PICK P \in Nat \ {0} : P = PAGE_SIZE
      BY Sizes
    <3>2. PICK p \in Nat, q \in Nat : p = V1(x) /\ q = V1(y)
      BY Indices
    <3>3. P * p <= x /\ y < P * q + P /\ PageOf(x) = P * p /\ PageOf(y) = P * q
      BY <3>1, <3>2, Pages
    <3>4. CASE q < p
      <4>1. P * (q + 1) <= P * p
        BY <3>4, TimesMonotone
      <4>2. P * (q + 1) = P * q + P /\ P * q \in Nat /\ P * p \in Nat
        OBVIOUS
      <4> QED
        BY <2>1, <3>3, <4>1, <4>2
    <3>5. CASE p <= q
      BY <3>3, <3>5, TimesMonotone
    <3> QED
      BY <3>4, <3>5
  <2> QED
    BY <1>3, <2>1
<1>7. vmm_is_user_accessible_in(th[t].space, PageOf(a))
  BY <1>2, <1>3, <1>5, <1>6
<1> QED
  BY <1>3, <1>4, <1>5, <1>7, AccessibleByPage

(* Every state of the model, reachable or not, has this property: a buffer  *)
(* that user_range_ok accepts is accessible to its last byte, for every     *)
(* address, length, page size and page table.                               *)
LEMMA RangeCheckIsExact == BuffersAccessible
<1> SUFFICES ASSUME NEW t \in Tids, NEW b \in Buffers,
                    user_range_ok(t, BufferStart(t, b), b.len), NEW i \in 0..(b.len - 1)
             PROVE  vmm_is_user_accessible_in(th[t].space, Plus(BufferStart(t, b), i))
  BY DEF BuffersAccessible
<1>1. b.len \in Nat /\ b.offset \in Nat
  BY VmmAssumption
<1>2. image_base(t) \in Nat
  <2>1. t \in Nat /\ USER_PROCESS_SLOT_SIZE \in Nat
    BY VmmAssumption
  <2>2. t * USER_PROCESS_SLOT_SIZE \in Nat
    BY <2>1
  <2> QED
    BY <2>2, Sizes DEF image_base
<1>3. BufferStart(t, b) \in 0..(WORD - 1)
  BY <1>1, <1>2, ElfAssumption DEF BufferStart, Plus
<1> QED
  BY <1>1, <1>3, AcceptedBuffer

(***************************************************************************)
(* Part 3.  Where frames and programs are                                  *)
(***************************************************************************)

(* Digits of a frame number: large page, and entry of the shared PDPT *)
X2(x) == x \div ENTRIES
X3(x) == X2(x) \div ENTRIES

(* All of memory lies below entry 1 of the top level; the large page of a   *)
(* frame starts X2 large pages from the beginning.                          *)
LEMMA IdentityIndices ==
    ASSUME NEW x \in Frames
    PROVE  /\ x \in Nat /\ X2(x) \in Nat /\ X3(x) \in Index
           /\ pml4_index(Addr(x)) = 0 /\ pdpt_index(Addr(x)) = X3(x)
           /\ pd_index(Addr(x)) = X2(x) % ENTRIES /\ pt_index(Addr(x)) = x % ENTRIES
           /\ X2(x) % ENTRIES \in Index /\ x % ENTRIES \in Index
           /\ RegionOf(Addr(x)) = X2(x) * ENTRIES
           /\ X2(x) * ENTRIES + (x % ENTRIES) = x
<1>1. PICK E \in Nat \ {0} : E = ENTRIES
  BY Sizes
<1>2. x \in Nat /\ PMM_MAX_FRAMES \in Nat /\ x < PMM_MAX_FRAMES
      /\ PMM_MAX_FRAMES <= E * E * E
  BY <1>1, PmmAssumption, VmmAssumption DEF Frames
<1>3. Addr(x) \in Nat /\ V1(Addr(x)) = x
  BY <1>2, Pages
<1>4. /\ V2(Addr(x)) = X2(x) /\ V3(Addr(x)) = X3(x) /\ V4(Addr(x)) = X3(x) \div E
      /\ X2(x) \in Nat /\ X3(x) \in Nat
  BY <1>1, <1>3, Indices DEF V2, V3, V4, X2, X3
<1>5. PICK q \in Nat : q = X3(x)
  BY <1>4
<1>6. q < E
  <2>1. x < E * (E * E)
    BY <1>2
  <2>2. (x \div E) \div E < E
    BY <1>2, <2>1, DivBelowTwice
  <2> QED
    BY <1>1, <1>5, <2>2 DEF X2, X3
<1>7. q % E = q /\ q \div E = 0 /\ 0 % E = 0
  BY <1>6
<1>8. /\ pml4_index(Addr(x)) = 0 /\ pdpt_index(Addr(x)) = X3(x)
      /\ pd_index(Addr(x)) = X2(x) % ENTRIES /\ pt_index(Addr(x)) = x % ENTRIES
  BY <1>1, <1>3, <1>4, <1>5, <1>7, Indices
<1>9. X3(x) \in Index /\ X2(x) % ENTRIES \in Index /\ x % ENTRIES \in Index
  <2>1. pd_index(Addr(x)) \in Index /\ pt_index(Addr(x)) \in Index
    BY <1>3, Indices
  <2> QED
    BY <1>1, <1>5, <1>6, <1>8, <2>1 DEF Index
<1>10. RegionOf(Addr(x)) = X2(x) * ENTRIES
  BY <1>3, <1>4, Indices DEF RegionOf
<1>11. X2(x) * ENTRIES + (x % ENTRIES) = x
  <2>1. x = E * (x \div E) + (x % E) /\ x \div E \in Nat
    BY <1>2, DivMod
  <2>2. PICK y \in Nat : y = x \div E
    BY <2>1
  <2>3. E * y = y * E
    OBVIOUS
  <2> QED
    BY <1>1, <2>1, <2>2, <2>3 DEF X2
<1> QED
  BY <1>2, <1>4, <1>8, <1>9, <1>10, <1>11

(* Frames of one page table are told apart by their last digit. *)
LEMMA FrameDigits ==
    ASSUME NEW x \in Frames, NEW y \in Frames, X3(x) = X3(y),
           X2(x) % ENTRIES = X2(y) % ENTRIES
    PROVE  /\ X2(x) = X2(y)
           /\ x % ENTRIES = y % ENTRIES => x = y
<1>1. x \in Nat /\ y \in Nat /\ X2(x) \in Nat /\ X2(y) \in Nat
  BY IdentityIndices
<1>2. X2(x) = X2(y)
  BY <1>1, DigitsDetermine DEF X3
<1> QED
  BY <1>1, <1>2, DigitsDetermine DEF X2

(* The PD of usable memory is one of the boot tables. *)
LEMMA UsablePd ==
    ASSUME NEW x \in Usable
    PROVE  x \in Frames /\ X3(x) \in 0..(Len(BootTables) - 3)
<1>1. x \in Frames
  BY PmmAssumption
<1>2. PICK E \in Nat \ {0}, n \in Nat : E = ENTRIES /\ n = Len(BootTables) - 2
  <2>1. ENTRIES \in Nat \ {0}
    BY Sizes
  <2>2. Len(BootTables) \in 3..(ENTRIES + 2)
    BY VmmAssumption
  <2>3. Len(BootTables) - 2 \in Nat
    BY <2>1, <2>2
  <2> QED
    BY <2>1, <2>3
<1>3. x \in Nat /\ x < n * E * E
  BY <1>2, VmmAssumption
<1>4. PICK q \in Nat : q = X3(x)
  BY <1>1, <1>2, IdentityIndices DEF Index
<1>5. q < n
  <2>1. x < E * (E * n)
    BY <1>3
  <2>2. (x \div E) \div E < n
    BY <1>3, <2>1, DivBelowTwice
  <2> QED
    BY <1>2, <1>4, <2>2 DEF X2, X3
<1> QED
  BY <1>1, <1>2, <1>4, <1>5

(* The addresses of a slot are numbers of the branches after entry 0. *)
LEMMA SlotBounds ==
    ASSUME NEW t \in Tids
    PROVE  /\ image_base(t) \in Nat /\ stack_ceiling(t) \in Nat
           /\ Span(4) <= image_base(t) /\ image_base(t) < stack_ceiling(t)
           /\ stack_ceiling(t) = image_base(t) + USER_PROCESS_SLOT_SIZE
           /\ stack_ceiling(t) <= WORD
           /\ image_base(t) % PAGE_SIZE = 0 /\ stack_ceiling(t) % PAGE_SIZE = 0
           /\ LayoutOk(t) => stack_ceiling(t) <= 2 * Span(4)
<1>1. PICK u \in Nat \ {0}, z \in Nat \ {0}, S \in Nat \ {0}, P \in Nat \ {0} :
         u = t /\ z = USER_PROCESS_SLOT_SIZE /\ S = Span(4) /\ P = PAGE_SIZE
  BY VmmAssumption, Sizes
<1>2. /\ image_base(t) = S + u * z /\ stack_ceiling(t) = S + u * z + z
      /\ u * z \in Nat /\ (u + 1) * z = u * z + z
  BY <1>1 DEF image_base, stack_ceiling
<1>3. S + (u + 1) * z <= WORD
  BY <1>1, Sizes, VmmAssumption
<1>4. LayoutOk(t) => u * z <= S - z
  BY <1>1 DEF LayoutOk
<1>5. image_base(t) % P = 0 /\ stack_ceiling(t) % P = 0
  <2>1. z % P = 0
    BY <1>1, VmmAssumption
  <2>2. PICK y \in Nat : z = P * y
    <3>1. PICK y \in Nat : y = z \div P
      BY DivMod
    <3>2. z = P * y + 0
      BY <2>1, <3>1, DivMod
    <3>3. P * y \in Nat
      OBVIOUS
    <3> QED
      BY <3>2, <3>3
  <2>3. PICK k \in Nat : S = P * k
    <3>1. PICK E \in Nat \ {0} : E = ENTRIES
      BY Sizes
    <3>2. S = P * (E * E * E) /\ E * E * E \in Nat
      BY <1>1, <3>1, Sizes
    <3> QED
      BY <3>2
  <2>4. /\ S + u * z = P * (k + u * y) /\ k + u * y \in Nat
        /\ S + u * z + z = P * (k + u * y + y) /\ k + u * y + y \in Nat
    BY <2>2, <2>3
  <2>5. \A m \in Nat : (P * m) % P = 0
    BY Multiple
  <2> QED
    BY <1>2, <2>4, <2>5
<1> QED
  BY <1>1, <1>2, <1>3, <1>4, <1>5

(* Programs live in entry 1, and a page of a slot is known by its indices. *)
LEMMA SlotIndices ==
    ASSUME NEW t \in Tids, NEW va \in SlotPages(t)
    PROVE  /\ va \in Nat /\ va % PAGE_SIZE = 0
           /\ pml4_index(va) \in Index \ {0}
           /\ LayoutOk(t) => V4(va) = 1 /\ pml4_index(va) = 1
<1>1. PICK E \in Nat \ {0}, S \in Nat \ {0} : E = ENTRIES /\ S = Span(4) /\ WORD = S * E /\ E > 2
  BY Sizes
<1>2. /\ va \in Nat /\ va % PAGE_SIZE = 0 /\ S <= va /\ va < S * E
      /\ LayoutOk(t) => va < 2 * S
  BY <1>1, SlotBounds DEF SlotPages
<1>3. PICK q \in Nat : q = V4(va) /\ q = va \div S /\ pml4_index(va) = q % E
                       /\ pml4_index(va) \in Index
  BY <1>1, <1>2, Indices
<1>4. S * q <= va /\ va < S * (q + 1)
  <2>1. va = S * q + (va % S) /\ va % S \in 0..(S - 1)
    BY <1>2, <1>3, DivMod
  <2>2. S * q \in Nat /\ S * (q + 1) = S * q + S
    OBVIOUS
  <2> QED
    BY <1>2, <2>1, <2>2
<1>5. q # 0
  BY <1>2, <1>4
<1>6. q < E
  <2>1. CASE E <= q
    <3>1. S * E <= S * q
      BY <2>1, TimesMonotone
    <3>2. S * E \in Nat /\ S * q \in Nat
      OBVIOUS
    <3> QED
      BY <1>2, <1>4, <3>1, <3>2
  <2> QED
    BY <2>1
<1>7. q % E = q
  BY <1>6
<1>8. LayoutOk(t) => q = 1
  <2>1. CASE LayoutOk(t) /\ 2 <= q
    <3>1. S * 2 <= S * q
      BY <2>1, TimesMonotone
    <3>2. S * 2 = 2 * S /\ S * q \in Nat
      OBVIOUS
    <3> QED
      BY <1>2, <1>4, <2>1, <3>1, <3>2
  <2> QED
    BY <1>5, <2>1
<1> QED
  BY <1>2, <1>3, <1>5, <1>7, <1>8

(* Two pages with the same indices are the same page. *)
LEMMA PageDigits ==
    ASSUME NEW a \in Nat, NEW b \in Nat, a % PAGE_SIZE = 0, b % PAGE_SIZE = 0,
           V4(a) = V4(b), pdpt_index(a) = pdpt_index(b), pd_index(a) = pd_index(b),
           pt_index(a) = pt_index(b)
    PROVE  a = b
<1>1. /\ V1(a) \in Nat /\ V2(a) \in Nat /\ V3(a) \in Nat
      /\ V1(b) \in Nat /\ V2(b) \in Nat /\ V3(b) \in Nat
      /\ V3(a) % ENTRIES = V3(b) % ENTRIES
      /\ V2(a) % ENTRIES = V2(b) % ENTRIES
      /\ V1(a) % ENTRIES = V1(b) % ENTRIES
  BY Indices
<1>2. V3(a) = V3(b)
  BY <1>1, DigitsDetermine DEF V4
<1>3. V2(a) = V2(b)
  BY <1>1, <1>2, DigitsDetermine DEF V3
<1>4. V1(a) = V1(b)
  BY <1>1, <1>3, DigitsDetermine DEF V2
<1> QED
  BY <1>4, Pages

(* The stack starts in the last page of the slot. *)
LEMMA StackPageInSlot ==
    ASSUME NEW t \in Tids
    PROVE  StackPage(t) \in SlotPages(t) /\ StackPage(t) = stack_ceiling(t) - PAGE_SIZE
<1>1. PICK P \in Nat \ {0}, c \in Nat, b \in Nat, z \in Nat \ {0} :
         /\ P = PAGE_SIZE /\ c = stack_ceiling(t) /\ b = image_base(t)
         /\ z = USER_PROCESS_SLOT_SIZE /\ c = b + z /\ z % P = 0 /\ c % P = 0
  BY SlotBounds, Sizes, VmmAssumption
<1>2. P <= z
  BY <1>1
<1>3. c - P \in Nat /\ (c - P) % P = 0
  BY <1>1, <1>2
<1>4. StackPage(t) = c - P
  <2>1. PICK a \in Nat : a = c - P
    BY <1>3
  <2>2. PageOf(a) = a
    BY <1>1, <1>3, <2>1, Pages
  <2> QED
    BY <1>1, <2>1, <2>2 DEF StackPage
<1> QED
  BY <1>1, <1>2, <1>3, <1>4 DEF SlotPages

(***************************************************************************)
(* Part 4.  What the loader puts into a page                               *)
(***************************************************************************)

(* The remainder is the number below the modulus at a multiple's distance. *)
LEMMA ModIs ==
    ASSUME NEW W \in Nat \ {0}, NEW x \in 0..(W - 1), NEW n \in Int, NEW y \in Int,
           y = x + W * n
    PROVE  y % W = x
<1>1. PICK q \in Int, r \in 0..(W - 1) : y = W * q + r /\ r = y % W
  <2>1. /\ y \div W \in Int /\ y % W \in 0..(W - 1)
        /\ y = W * (y \div W) + (y % W)
    OBVIOUS
  <2> QED
    BY <2>1
<1>2. PICK m \in Int : m = n - q
  OBVIOUS
<1>3. W * m = W * n - W * q /\ W * n \in Int /\ W * q \in Int
  BY <1>2
<1>4. r - x = W * m
  BY <1>1, <1>3
<1>5. CASE m > 0
  <2>1. W * 1 <= W * m
    BY <1>5, TimesMonotone
  <2> QED
    BY <1>1, <1>4, <2>1
<1>6. CASE m < 0
  <2>1. W * 1 <= W * (-m)
    BY <1>6, TimesMonotone
  <2>2. W * (-m) = - (W * m) /\ W * m \in Int
    OBVIOUS
  <2> QED
    BY <1>1, <1>4, <2>1, <2>2
<1>7. CASE m = 0
  <2>1. W * 0 = 0
    OBVIOUS
  <2> QED
    <3>1. W * m = 0
      BY <1>7, <2>1, Zenon
    <3>2. r = x
      BY <1>4, <3>1
    <3> QED
      BY <1>1, <3>2, Zenon
<1> QED
  BY <1>5, <1>6, <1>7

(* A number with the same remainder. *)
LEMMA ModSplits ==
    ASSUME NEW W \in Nat \ {0}, NEW y \in Int
    PROVE  \E n \in Int : y = (y % W) + W * n /\ y % W \in 0..(W - 1)
<1>1. /\ y \div W \in Int /\ y % W \in 0..(W - 1)
      /\ y = W * (y \div W) + (y % W)
  OBVIOUS
<1>2. PICK n \in Int, r \in 0..(W - 1) : n = y \div W /\ r = y % W
  BY <1>1
<1>3. W * n \in Int /\ y = r + W * n
  BY <1>1, <1>2
<1> QED
  BY <1>2, <1>3

(* The segments of a program are relocated from the link base to the slot, *)
(* and no sum of the loader wraps.                                         *)
LEMMA SegmentPlace ==
    ASSUME NEW t \in Tids, LayoutOk(t), NEW p \in Program, NEW i \in Loads(p)
    PROVE  LET ph == p.phdrs[i]
               sv == segment_vaddr(ph, load_bias(t))
           IN  /\ ph.vaddr \in Nat /\ ph.memsz \in Nat /\ ph.filesz \in Nat
               /\ ph.offset \in Nat
               /\ sv \in Nat /\ sv = ph.vaddr - USER_IMAGE_LINK_BASE + image_base(t)
               /\ image_base(t) <= sv /\ sv + ph.memsz <= stack_ceiling(t)
               /\ stack_ceiling(t) + PAGE_SIZE <= WORD
               /\ vaddr_end(ph, load_bias(t)) = PageOf(sv + ph.memsz + PAGE_SIZE - 1)
               /\ vaddr_end(ph, load_bias(t)) \in Nat
<1>1. PICK S \in Nat \ {0}, E \in Nat \ {0}, P \in Nat \ {0}, W \in Nat \ {0},
           b \in Nat, c \in Nat, z \in Nat, L \in Nat :
         /\ S = Span(4) /\ E = ENTRIES /\ P = PAGE_SIZE /\ W = WORD
         /\ b = image_base(t) /\ c = stack_ceiling(t) /\ z = USER_PROCESS_SLOT_SIZE
         /\ L = USER_IMAGE_LINK_BASE
  BY Sizes, SlotBounds, VmmAssumption, ElfAssumption
<1>2. /\ c = b + z /\ c <= 2 * S /\ W = S * E /\ E > 2 /\ S <= b
  BY <1>1, SlotBounds, Sizes
<1>3. P <= S
  <2>1. S = P * (E * E * E) /\ E * E * E \in Nat \ {0}
    BY <1>1, Sizes
  <2>2. P * 1 <= P * (E * E * E)
    BY <2>1, TimesMonotone
  <2> QED
    BY <2>1, <2>2
<1>4. c + P <= W
  <2>1. S * 3 <= S * E
    BY <1>2, TimesMonotone
  <2> QED
    BY <1>2, <1>3, <2>1
<1>5. PICK v \in Nat, m \in Nat, f \in Nat, o \in Nat :
         /\ v = p.phdrs[i].vaddr /\ m = p.phdrs[i].memsz
         /\ f = p.phdrs[i].filesz /\ o = p.phdrs[i].offset
         /\ L <= v /\ v + m <= L + z
  <2>1. i \in DOMAIN p.phdrs
    BY DEF Loads
  <2>2. p.phdrs[i] \in [type : STRING, x : BOOLEAN, offset : Nat, vaddr : Nat,
                        filesz : Nat, memsz : Nat]
    <3>1. p.phdrs \in Seq([type : STRING, x : BOOLEAN, offset : Nat, vaddr : Nat,
                           filesz : Nat, memsz : Nat])
      BY ProgramAssumption
    <3>2. i \in 1..Len(p.phdrs)
      BY <2>1, <3>1, LenProperties
    <3> QED
      BY <3>1, <3>2, ElementOfSeq
  <2>3. /\ p.phdrs[i].vaddr >= L
        /\ p.phdrs[i].vaddr + p.phdrs[i].memsz <= L + z
    BY <1>1, ProgramAssumption
  <2> QED
    BY <2>2, <2>3
<1>6. PICK sv \in Nat : sv = v - L + b /\ b <= sv /\ sv + m <= c /\ sv < W
  <2>1. v - L + b \in Nat
    BY <1>5
  <2> QED
    BY <1>1, <1>2, <1>4, <1>5, <2>1
<1>7. PICK n \in Int, bias \in 0..(W - 1) : bias = load_bias(t) /\ b - L = bias + W * n
  <2>1. b - L \in Int
    OBVIOUS
  <2>2. PICK n \in Int : b - L = ((b - L) % W) + W * n /\ (b - L) % W \in 0..(W - 1)
    BY <2>1, ModSplits
  <2> QED
    BY <1>1, <2>2 DEF load_bias
<1>8. segment_vaddr(p.phdrs[i], load_bias(t)) = sv
  <2>1. v + bias = sv + W * (-n)
    <3>1. W * (-n) = - (W * n) /\ W * n \in Int
      OBVIOUS
    <3> QED
      BY <1>6, <1>7, <3>1
  <2>2. (v + bias) % W = sv
    <3>1. PICK y \in Int, k \in Int : y = v + bias /\ k = -n
      OBVIOUS
    <3>2. sv \in 0..(W - 1) /\ y = sv + W * k
      BY <1>6, <2>1, <3>1
    <3> QED
      BY <3>1, <3>2, ModIs, ZenonT(60)
  <2> QED
    BY <1>1, <1>5, <1>7, <2>2 DEF segment_vaddr, Plus
<1>9. vaddr_end(p.phdrs[i], load_bias(t)) = PageOf(sv + m + P - 1)
  <2>1. (sv + m) % W = sv + m /\ (sv + m + (P - 1)) % W = sv + m + (P - 1)
    BY <1>4, <1>6
  <2>2. Plus(sv, m) = sv + m /\ Plus(sv + m, P - 1) = sv + m + P - 1
    BY <1>1, <2>1 DEF Plus
  <2> QED
    BY <1>1, <1>5, <1>8, <2>2 DEF vaddr_end
<1>10. PageOf(sv + m + P - 1) \in Nat
  BY Pages
<1> QED
  BY <1>1, <1>4, <1>5, <1>6, <1>8, <1>9, <1>10

(* From one page to another is at least a page. *)
LEMMA NextPage ==
    ASSUME NEW P \in Nat \ {0}, NEW x \in Nat, NEW y \in Nat, x % P = 0, y % P = 0, x < y
    PROVE  x + P <= y
<1>1. PICK j \in Nat, k \in Nat : x = P * j /\ y = P * k
  <2>1. PICK j \in Nat, k \in Nat : j = x \div P /\ k = y \div P
    BY DivMod
  <2>2. x = P * j + 0 /\ y = P * k + 0
    BY <2>1, DivMod
  <2>3. P * j \in Nat /\ P * k \in Nat
    OBVIOUS
  <2> QED
    BY <2>2, <2>3
<1>2. CASE j + 1 <= k
  <2>1. P * (j + 1) <= P * k
    BY <1>2, TimesMonotone
  <2>2. P * (j + 1) = P * j + P
    OBVIOUS
  <2> QED
    BY <1>1, <2>1, <2>2
<1>3. CASE k <= j
  <2>1. P * k <= P * j
    BY <1>3, TimesMonotone
  <2> QED
    BY <1>1, <2>1
<1> QED
  BY <1>2, <1>3

(* The pages of a segment are those with one of its bytes. *)
LEMMA SegmentPagesAre ==
    ASSUME NEW t \in Tids, LayoutOk(t), NEW p \in Program, NEW i \in Loads(p)
    PROVE  LET ph == p.phdrs[i]
               sv == segment_vaddr(ph, load_bias(t))
           IN  /\ SegmentPages(ph, load_bias(t)) =
                     {va \in Nat : /\ va % PAGE_SIZE = 0 /\ PageOf(sv) <= va
                                   /\ va < sv + ph.memsz /\ ph.memsz # 0}
               /\ SegmentPages(ph, load_bias(t)) \subseteq SlotPages(t)
<1>1. PICK m \in Nat, sv \in Nat, e \in Nat :
              /\ m = p.phdrs[i].memsz
              /\ sv = segment_vaddr(p.phdrs[i], load_bias(t))
              /\ e = vaddr_end(p.phdrs[i], load_bias(t))
              /\ image_base(t) <= sv /\ sv + m <= stack_ceiling(t)
              /\ e = PageOf(sv + m + PAGE_SIZE - 1)
  <2> DEFINE ph == p.phdrs[i]
             sv == segment_vaddr(ph, load_bias(t))
             e  == vaddr_end(ph, load_bias(t))
  <2>1. /\ ph.memsz \in Nat /\ sv \in Nat /\ e \in Nat
        /\ image_base(t) <= sv /\ sv + ph.memsz <= stack_ceiling(t)
        /\ e = PageOf(sv + ph.memsz + PAGE_SIZE - 1)
    BY SegmentPlace
  <2> HIDE DEF ph, sv, e
  <2>2. PICK m \in Nat : m = ph.memsz
    BY <2>1
  <2> QED
    BY <2>1, <2>2 DEF ph, sv, e
<1>2. PICK P \in Nat \ {0}, b \in Nat, c \in Nat, s0 \in Nat, z \in Nat :
         /\ P = PAGE_SIZE /\ b = image_base(t) /\ c = stack_ceiling(t) /\ s0 = PageOf(sv)
         /\ b % P = 0 /\ z = sv + m + P - 1
  <2>1. sv + m + PAGE_SIZE - 1 \in Nat
    BY Sizes
  <2> QED
    BY <2>1, Sizes, SlotBounds, Pages
<1>3. /\ s0 <= sv /\ sv < s0 + P /\ s0 % P = 0
      /\ e <= z /\ z < e + P /\ e % P = 0
  <2>1. e = PageOf(z)
    BY <1>1, <1>2
  <2> QED
    BY <1>2, <2>1, Pages
<1>4. ASSUME NEW x \in Nat, NEW y \in Nat, x % P = 0, y % P = 0, x < y
      PROVE  x + P <= y
  BY <1>4, NextPage
<1>5. ASSUME NEW va \in Nat, va % P = 0
      PROVE  va <= e - 1 <=> va < sv + m
  <2>1. CASE va < e
    <3>1. va + P <= e
      BY <1>3, <1>4, <1>5, <2>1
    <3> QED
      BY <1>2, <1>3, <2>1, <3>1
  <2>2. CASE e <= va
    BY <1>2, <1>3, <2>2
  <2> QED
    BY <2>1, <2>2
<1>6. SegmentPages(p.phdrs[i], load_bias(t)) =
         {va \in Nat : va % P = 0 /\ s0 <= va /\ va < sv + m /\ m # 0}
  <2>1. CASE m = 0
    BY <1>1, <2>1 DEF SegmentPages
  <2>2. CASE m # 0
    <3>1. SegmentPages(p.phdrs[i], load_bias(t)) = {va \in s0..(e - 1) : va % P = 0}
      BY <1>1, <1>2, <2>2 DEF SegmentPages
    <3> QED
      BY <1>5, <2>2, <3>1
  <2> QED
    BY <2>1, <2>2
<1>7. b <= s0
  <2>1. CASE s0 < b
    <3>1. s0 + P <= b
      BY <1>2, <1>3, <1>4, <2>1
    <3> QED
      BY <1>1, <1>2, <1>3, <3>1
  <2> QED
    BY <2>1
<1>8. SegmentPages(p.phdrs[i], load_bias(t)) \subseteq SlotPages(t)
  BY <1>1, <1>2, <1>6, <1>7 DEF SlotPages
<1> QED
  BY <1>1, <1>2, <1>6, <1>8

(***************************************************************************)
(* Part 5.  The loader stays in the file                                   *)
(***************************************************************************)

(* What a byte of memory may hold: an origin, or a byte of a program file   *)
(* that is before the end of the file *)
Byte ==
    {<<"zero">>, <<"junk">>, <<"argv">>} \cup {<<"by", t>> : t \in Tids}
    \cup UNION {{DataByte(p, o) : o \in 0..(p.size - 1)} : p \in Program}

Page     == [0..(PAGE_SIZE - 1) -> Byte]
Contents == [Frames -> Page]

Thread == [pc : PC, prog : Program \cup {Demo}, space : Frames, seg : Nat,
           va : Nat, frame : Frames, table : Frames, guard : Frames]

(* A thread that loads its program is at one of its headers, and when it    *)
(* maps a page, load_segment has accepted that header.                      *)
Loading(t, r) ==
    /\ r.pc \in {"segment", "page"} => r.prog \in Program /\ r.seg \in DOMAIN r.prog.phdrs
    /\ r.pc = "page" => /\ r.prog.phdrs[r.seg].type = "LOAD"
                        /\ SegmentOk(r.prog, r.prog.phdrs[r.seg], load_bias(t))

(* The inductive invariant behind LoaderStaysInFile.  Two actions separate  *)
(* the check of a header from the copy that relies on it, with any number   *)
(* of steps of other threads in between.                                    *)
LoaderInv ==
    /\ mem \in Contents
    /\ th \in [Tids -> Thread]
    /\ \A t \in Tids : Loading(t, th[t])

(* Frames are numbers, and frame 0 and the top level table are among them. *)
LEMMA FrameFacts ==
    /\ Frames \subseteq Nat /\ 0 \in Frames /\ kernel_pml4 \in Frames
    /\ NextFree \subseteq Frames
<1>1. Frames \subseteq Nat /\ 0 \in Frames
  BY PmmAssumption DEF Frames
<1>2. kernel_pml4 \in Frames
  <2>1. BootTables \in Seq(Reserved) /\ 1 \in 1..Len(BootTables)
    BY VmmAssumption
  <2>2. BootTables[1] \in Reserved
    BY <2>1, ElementOfSeq
  <2> QED
    BY <2>2, PmmAssumption DEF kernel_pml4
<1> QED
  BY <1>1, <1>2 DEF NextFree

(* The fields of a program header are numbers. *)
LEMMA HeaderTypes ==
    ASSUME NEW p \in Program, NEW i \in DOMAIN p.phdrs
    PROVE  /\ p.phdrs[i] \in [type : STRING, x : BOOLEAN, offset : Nat, vaddr : Nat,
                              filesz : Nat, memsz : Nat]
           /\ i \in 1..Len(p.phdrs) /\ Len(p.phdrs) \in Nat
           /\ DOMAIN p.phdrs = 1..Len(p.phdrs)
<1>1. p.phdrs \in Seq([type : STRING, x : BOOLEAN, offset : Nat, vaddr : Nat,
                       filesz : Nat, memsz : Nat])
  BY ProgramAssumption
<1>2. DOMAIN p.phdrs = 1..Len(p.phdrs) /\ Len(p.phdrs) \in Nat
  BY <1>1, LenProperties
<1> QED
  BY <1>1, <1>2, ElementOfSeq

(* The start of a program at its place is an address. *)
LEMMA BiasIsNat ==
    \A t \in Tids : load_bias(t) \in Nat
<1> SUFFICES ASSUME NEW t \in Tids PROVE load_bias(t) \in Nat
  OBVIOUS
<1>1. PICK W \in Nat \ {0}, y \in Int : W = WORD /\ y = image_base(t) - USER_IMAGE_LINK_BASE
  <2>1. PICK b \in Nat, L \in Nat : b = image_base(t) /\ L = USER_IMAGE_LINK_BASE
    BY SlotBounds, VmmAssumption
  <2>2. b - L \in Int
    OBVIOUS
  <2> QED
    BY <2>1, <2>2, ElfAssumption
<1>2. y % W \in 0..(W - 1)
  OBVIOUS
<1> QED
  BY <1>1, <1>2 DEF load_bias

(* The page at which the mapping of a segment starts is an address. *)
LEMMA FirstPageIsNat ==
    ASSUME NEW t \in Tids, NEW p \in Program, NEW i \in DOMAIN p.phdrs
    PROVE  /\ segment_vaddr(p.phdrs[i], load_bias(t)) \in Nat
           /\ PageOf(segment_vaddr(p.phdrs[i], load_bias(t))) \in Nat
<1>1. PICK v \in Nat, b \in Nat, W \in Nat \ {0} :
         v = p.phdrs[i].vaddr /\ b = load_bias(t) /\ W = WORD
  <2>1. p.phdrs[i].vaddr \in Nat
    BY HeaderTypes
  <2> QED
    BY <2>1, BiasIsNat, ElfAssumption
<1>2. (v + b) % W \in Nat
  OBVIOUS
<1>3. segment_vaddr(p.phdrs[i], load_bias(t)) \in Nat
  BY <1>1, <1>2 DEF segment_vaddr, Plus
<1> QED
  BY <1>3, Pages

(* A page that load_segment fills from a header that it has accepted holds  *)
(* bytes of the file and zeros.                                             *)
LEMMA PageOfFile ==
    ASSUME NEW t \in Tids, NEW p \in Program, NEW i \in DOMAIN p.phdrs, NEW va \in Nat,
           SegmentOk(p, p.phdrs[i], load_bias(t))
    PROVE  PageBytes(p, p.phdrs[i], load_bias(t), va) \in Page
<1> DEFINE ph == p.phdrs[i]
           sv == segment_vaddr(ph, load_bias(t))
           de == Plus(sv, ph.filesz)
           cs == IF va > sv THEN va ELSE sv
           ce == IF va + PAGE_SIZE < de THEN va + PAGE_SIZE ELSE de
<1>1. PICK f \in Nat, o \in Nat, z \in Nat, s \in Nat, W \in Nat \ {0} :
         /\ f = ph.filesz /\ o = ph.offset /\ z = p.size /\ s = sv /\ W = WORD
         /\ o + f <= z
  <2>1. ph.filesz \in Nat /\ ph.offset \in Nat
    BY HeaderTypes
  <2>2. p.size \in Nat /\ sv \in Nat
    BY ProgramAssumption, FirstPageIsNat
  <2>3. ph.offset <= p.size /\ ph.filesz <= p.size - ph.offset
    BY DEF SegmentOk
  <2> HIDE DEF ph, sv
  <2> QED
    BY <2>1, <2>2, <2>3, ElfAssumption
<1>2. de \in Nat /\ de <= s + f
  <2>1. (s + f) % W \in Nat /\ (s + f) % W <= s + f
    OBVIOUS
  <2>2. de = (s + f) % W
    BY <1>1 DEF Plus
  <2> QED
    BY <2>1, <2>2
<1> HIDE DEF sv, de, ph
<1>3. ASSUME NEW k \in 0..(PAGE_SIZE - 1), va + k >= cs, va + k < ce
      PROVE  DataByte(p, o + (va + k - s)) \in Byte
  <2>1. PICK P \in Nat \ {0} : P = PAGE_SIZE
    BY Sizes
  <2>2. va + k >= s /\ va + k < s + f
    BY <1>1, <1>2, <1>3, <2>1
  <2>3. o + (va + k - s) \in 0..(z - 1)
    BY <1>1, <2>1, <2>2
  <2> QED
    BY <1>1, <2>3 DEF Byte
<1>4. Zero \in Byte
  BY DEF Byte, Zero
<1>5. PageBytes(p, ph, load_bias(t), va) =
        [k \in 0..(PAGE_SIZE - 1) |-> IF va + k >= cs /\ va + k < ce
                                      THEN DataByte(p, o + (va + k - s)) ELSE Zero]
  BY <1>1, Zenon DEF PageBytes, sv, de
<1>6. PageBytes(p, ph, load_bias(t), va) \in Page
  <2> HIDE DEF cs, ce
  <2> QED
    BY <1>3, <1>4, <1>5 DEF Page
<1> QED
  BY <1>6 DEF ph

(* The constant pages *)
LEMMA PagesAreTyped ==
    ZeroPage \in Page /\ Junk \in Page /\ ArgvBytes \in Page
<1>1. ZeroPage \in Page /\ Junk \in Page
  BY DEF ZeroPage, Junk, Page, Byte, Zero
<1>2. <<"argv">> \in Byte
  BY DEF Byte
<1> QED
  BY <1>1, <1>2 DEF ArgvBytes, Page

(* Memory in which every byte has an origin has no byte from behind a file. *)
LEMMA OriginsSuffice == mem \in Contents => LoaderStaysInFile
<1> SUFFICES ASSUME mem \in Contents, NEW f \in Frames, NEW k \in 0..(PAGE_SIZE - 1),
                    NEW p \in Program, mem[f][k][1] = p.id
             PROVE  mem[f][k][2] < p.size
  BY DEF LoaderStaysInFile
<1>1. mem[f][k] \in Byte
  BY DEF Contents, Page
<1>2. p.id \notin {"zero", "junk", "argv", "by"}
  BY ProgramAssumption
<1>3. PICK b : b = mem[f][k]
  OBVIOUS
<1>4. b \in Byte /\ b[1] \notin {"zero", "junk", "argv", "by"} /\ b[1] = p.id
  BY <1>1, <1>2, <1>3
<1>5. PICK q \in Program : \E o \in 0..(q.size - 1) : b = <<q.id, o>>
  BY <1>4 DEF Byte, DataByte
<1>6. PICK o \in 0..(q.size - 1) : b = <<q.id, o>>
  BY <1>5
<1>7. q = p
  BY <1>4, <1>6, ProgramAssumption
<1>8. q.size \in Nat
  BY ProgramAssumption
<1> QED
  BY <1>3, <1>6, <1>7, <1>8

(* A thread changes to a record of the right kind. *)
LEMMA BecomeTyped ==
    ASSUME LoaderInv, NEW t \in Tids, NEW r \in Thread, Loading(t, r), Become(t, r),
           mem' \in Contents
    PROVE  LoaderInv'
<1>1. th' \in [Tids -> Thread]
  BY DEF LoaderInv, Become
<1>2. ASSUME NEW u \in Tids
      PROVE  Loading(u, th'[u])
  <2>1. th'[u] = IF u = t THEN r ELSE th[u]
    BY DEF LoaderInv, Become
  <2>2. CASE u = t
    BY <2>1, <2>2
  <2>3. CASE u # t
    BY <2>1, <2>3 DEF LoaderInv
  <2> QED
    BY <2>2, <2>3
<1>3. mem' \in Contents /\ th' \in [Tids -> Thread] /\ \A u \in Tids : Loading(u, th'[u])
  BY <1>1, <1>2
<1> QED
  BY <1>3 DEF LoaderInv, Loading, load_bias, image_base

(* One frame gets a new content. *)
LEMMA FrameFilled ==
    ASSUME mem \in Contents, NEW f, NEW c \in Page, mem' = [mem EXCEPT ![f] = c]
    PROVE  mem' \in Contents
  BY DEF Contents

(* The fields of a thread have their types. *)
LEMMA ThreadTypes ==
    ASSUME LoaderInv, NEW t \in Tids
    PROVE  /\ th[t] \in Thread /\ Loading(t, th[t])
           /\ th[t].pc \in PC /\ th[t].prog \in Program \cup {Demo} /\ th[t].space \in Frames
           /\ th[t].seg \in Nat /\ th[t].va \in Nat /\ th[t].frame \in Frames
           /\ th[t].table \in Frames /\ th[t].guard \in Frames
  BY DEF LoaderInv, Thread

(* A thread dies. *)
LEMMA DiesTyped ==
    ASSUME LoaderInv, NEW t \in Tids, Dies(t), mem' \in Contents
    PROVE  LoaderInv'
<1> DEFINE r == [th[t] EXCEPT !.pc = "zombie", !.frame = 0, !.table = 0]
<1>1. r \in Thread /\ r.pc = "zombie"
  BY ThreadTypes, FrameFacts DEF Thread, PC
<1>2. Loading(t, r)
  BY <1>1 DEF Loading
<1> QED
  BY <1>1, <1>2, BecomeTyped DEF Dies

(* A thread slot is free again. *)
LEMMA UnusedTyped ==
    ASSUME LoaderInv, NEW t \in Tids, Become(t, NoThread), mem' \in Contents
    PROVE  LoaderInv'
<1>1. NoThread \in Thread /\ NoThread.pc = "unused"
  BY FrameFacts DEF Thread, PC, NoThread
<1>2. Loading(t, NoThread)
  BY <1>1 DEF Loading
<1> QED
  BY <1>1, <1>2, BecomeTyped

(* A table is added, or a frame is taken, and the threads stay as they are. *)
LEMMA SameThreads ==
    ASSUME LoaderInv, UNCHANGED th, mem' \in Contents
    PROVE  LoaderInv'
<1>1. \A t \in Tids : Loading(t, th'[t])
  BY DEF LoaderInv
<1>2. mem' \in Contents /\ th' \in [Tids -> Thread]
  BY DEF LoaderInv
<1> QED
  BY <1>1, <1>2 DEF LoaderInv, Loading, load_bias, image_base

(* What the allocating operations leave in memory *)
LEMMA TakenTyped ==
    ASSUME mem \in Contents, NEW f
    PROVE  /\ TookZeroed(f) => mem' \in Contents
           /\ vmm_create_address_space(f) => mem' \in Contents
           /\ \A s, a : AddTable(s, a, f) => mem' \in Contents
<1>1. TookZeroed(f) => mem' \in Contents
  BY PagesAreTyped, FrameFilled DEF TookZeroed
<1>2. vmm_create_address_space(f) => mem' \in Contents
  BY PagesAreTyped, FrameFilled DEF vmm_create_address_space
<1>3. ASSUME NEW s, NEW a, AddTable(s, a, f)
      PROVE  mem' \in Contents
  BY <1>3, PagesAreTyped, FrameFilled DEF AddTable
<1> QED
  BY <1>1, <1>2, <1>3

(* Guarded kernel stacks: no step of their set-up touches a program. *)
LEMMA LoaderSpawn ==
    ASSUME LoaderInv, NEW t \in Tids, NEW p \in Program \cup {Demo}, SpawnStack(t, p)
    PROVE  LoaderInv'
<1>1. PICK g \in Frames : Become(t, [NoThread EXCEPT !.pc = "guard", !.prog = p, !.guard = g])
  BY DEF SpawnStack
<1> DEFINE r == [NoThread EXCEPT !.pc = "guard", !.prog = p, !.guard = g]
<1>2. r \in Thread /\ r.pc = "guard"
  BY FrameFacts DEF Thread, PC, NoThread
<1>3. Loading(t, r)
  BY <1>2 DEF Loading
<1>4. mem' \in Contents
  BY PagesAreTyped DEF SpawnStack, LoaderInv, Contents
<1> QED
  BY <1>1, <1>2, <1>3, <1>4, BecomeTyped

(* A thread takes a table to split a large page. *)
LEMMA LoaderTakeTable ==
    ASSUME LoaderInv, NEW t \in Tids, NEW pc \in PC \ {"segment", "page"}, TakeTable(t, pc)
    PROVE  LoaderInv'
<1>1. PICK n \in NextFree : /\ Become(t, [th[t] EXCEPT !.pc = pc, !.table = n])
                            /\ mem' = [mem EXCEPT ![n] = Junk]
  BY DEF TakeTable
<1> DEFINE r == [th[t] EXCEPT !.pc = pc, !.table = n]
<1>2. r \in Thread /\ r.pc = pc
  BY FrameFacts, ThreadTypes DEF Thread
<1>3. Loading(t, r)
  BY <1>2 DEF Loading
<1>4. mem' \in Contents
  BY <1>1, PagesAreTyped, FrameFilled DEF LoaderInv
<1> QED
  BY <1>1, <1>2, <1>3, <1>4, BecomeTyped

(* The guard page of a new kernel stack. *)
LEMMA LoaderGuard ==
    ASSUME LoaderInv, NEW t \in Tids, GuardPage(t) \/ GuardSplit(t)
    PROVE  LoaderInv'
<1>1. CASE \E n \in NextFree : AddTable(kernel_pml4, Addr(th[t].guard), n) /\ UNCHANGED th
  BY <1>1, TakenTyped, SameThreads DEF LoaderInv
<1>2. CASE TakeTable(t, "guardsplit")
  BY <1>2, LoaderTakeTable DEF PC
<1>3. CASE Become(t, [th[t] EXCEPT !.pc = "new"]) /\ UNCHANGED mem
  <2> DEFINE r == [th[t] EXCEPT !.pc = "new"]
  <2>1. r \in Thread /\ r.pc = "new"
    BY ThreadTypes DEF Thread, PC
  <2> QED
    BY <1>3, <2>1, BecomeTyped DEF Loading, LoaderInv
<1>4. CASE Become(t, NoThread) /\ UNCHANGED mem
  BY <1>4, UnusedTyped DEF LoaderInv
<1>5. CASE Become(t, [th[t] EXCEPT !.pc = "new", !.table = 0]) /\ UNCHANGED mem
  <2> DEFINE r == [th[t] EXCEPT !.pc = "new", !.table = 0]
  <2>1. r \in Thread /\ r.pc = "new"
    BY ThreadTypes, FrameFacts DEF Thread, PC
  <2> QED
    BY <1>5, <2>1, BecomeTyped DEF Loading, LoaderInv
<1> QED
  BY <1>1, <1>2, <1>3, <1>4, <1>5 DEF GuardPage, GuardSplit

(* elf_load has checked the header of the file and starts with the first    *)
(* program header.                                                          *)
LEMMA LoaderCreate ==
    ASSUME LoaderInv, NEW t \in Tids, CreateSpace(t)
    PROVE  LoaderInv'
<1>1. th[t].prog \in Program
  BY ThreadTypes DEF CreateSpace
<1>2. CASE OutOfFrames /\ Dies(t) /\ UNCHANGED mem
  BY <1>2, DiesTyped DEF LoaderInv
<1>3. ASSUME NEW f \in NextFree, vmm_create_address_space(f),
             LayoutOk(t), HeaderOk(th[t].prog),
             Become(t, [th[t] EXCEPT !.pc = "segment", !.space = f, !.seg = 1,
                                     !.va = FirstPage(t, 1)])
      PROVE  LoaderInv'
  <2> DEFINE r == [th[t] EXCEPT !.pc = "segment", !.space = f, !.seg = 1,
                                !.va = FirstPage(t, 1)]
  <2>1. 1 \in DOMAIN th[t].prog.phdrs
    <3>1. PICK i : i \in DOMAIN th[t].prog.phdrs
      BY <1>3 DEF HeaderOk, entry_is_executable
    <3> QED
      BY <1>1, <3>1, HeaderTypes
  <2>2. FirstPage(t, 1) \in Nat
    BY <1>1, <2>1, FirstPageIsNat DEF FirstPage
  <2>3. r \in Thread /\ r.pc = "segment" /\ r.seg = 1 /\ r.prog = th[t].prog
    BY <2>2, FrameFacts, ThreadTypes DEF Thread, PC
  <2>4. Loading(t, r)
    BY <1>1, <2>1, <2>3 DEF Loading
  <2>5. mem' \in Contents
    BY <1>3, TakenTyped DEF LoaderInv
  <2> QED
    BY <1>3, <2>3, <2>4, <2>5, BecomeTyped
<1>4. ASSUME NEW f \in NextFree, vmm_create_address_space(f),
             Become(t, [th[t] EXCEPT !.pc = "zombie", !.space = f])
      PROVE  LoaderInv'
  <2> DEFINE r == [th[t] EXCEPT !.pc = "zombie", !.space = f]
  <2>1. r \in Thread /\ r.pc = "zombie"
    BY FrameFacts, ThreadTypes DEF Thread, PC
  <2>2. mem' \in Contents
    BY <1>4, TakenTyped DEF LoaderInv
  <2> QED
    BY <1>4, <2>1, <2>2, BecomeTyped DEF Loading
<1> QED
  BY <1>2, <1>3, <1>4 DEF CreateSpace

(* Between two pages: load_segment accepts the header before it maps one. *)
LEMMA LoaderSegment ==
    ASSUME LoaderInv, NEW t \in Tids, LoadSegment(t)
    PROVE  LoaderInv'
<1> DEFINE p  == th[t].prog
           i  == th[t].seg
           ph == p.phdrs[i]
<1>1. th[t].pc = "segment" /\ p \in Program /\ i \in DOMAIN p.phdrs
  BY ThreadTypes DEF LoadSegment, Loading
<1>2. ASSUME ph.type = "LOAD", SegmentOk(p, ph, load_bias(t)),
             NEW f \in NextFree, TookZeroed(f),
             Become(t, [th[t] EXCEPT !.pc = "page", !.frame = f])
      PROVE  LoaderInv'
  <2> DEFINE r == [th[t] EXCEPT !.pc = "page", !.frame = f]
  <2>1. r \in Thread /\ r.pc = "page" /\ r.seg = i /\ r.prog = p
    BY FrameFacts, ThreadTypes DEF Thread, PC
  <2>2. Loading(t, r)
    BY <1>1, <1>2, <2>1 DEF Loading
  <2>3. mem' \in Contents
    BY <1>2, TakenTyped DEF LoaderInv
  <2> QED
    BY <1>2, <2>1, <2>2, <2>3, BecomeTyped
<1>3. CASE Dies(t) /\ UNCHANGED mem
  BY <1>3, DiesTyped DEF LoaderInv
<1>4. CASE NextSegment(t) /\ UNCHANGED mem
  <2>1. CASE i < Len(p.phdrs)
    <3> DEFINE r == [th[t] EXCEPT !.seg = i + 1, !.va = FirstPage(t, i + 1)]
    <3>1. i + 1 \in DOMAIN p.phdrs
      <4>1. i \in 1..Len(p.phdrs) /\ DOMAIN p.phdrs = 1..Len(p.phdrs) /\ Len(p.phdrs) \in Nat
        BY <1>1, HeaderTypes
      <4> QED
        BY <2>1, <4>1
    <3>2. FirstPage(t, i + 1) \in Nat
      BY <1>1, <3>1, FirstPageIsNat DEF FirstPage
    <3>3. i + 1 \in Nat
      BY ThreadTypes
    <3>4. r \in Thread /\ r.pc = "segment" /\ r.seg = i + 1 /\ r.prog = p
      BY <1>1, <3>2, <3>3, ThreadTypes DEF Thread, PC
    <3>5. Loading(t, r)
      BY <1>1, <3>1, <3>4 DEF Loading
    <3>6. Become(t, r)
      BY <1>4, <2>1 DEF NextSegment
    <3> QED
      BY <1>4, <3>4, <3>5, <3>6, BecomeTyped DEF LoaderInv
  <2>2. CASE ~ (i < Len(p.phdrs))
    <3> DEFINE r == [th[t] EXCEPT !.pc = "stack"]
    <3>1. r \in Thread /\ r.pc = "stack"
      BY ThreadTypes DEF Thread, PC
    <3>2. Become(t, r)
      BY <1>4, <2>2 DEF NextSegment
    <3> QED
      BY <1>4, <3>1, <3>2, BecomeTyped DEF Loading, LoaderInv
  <2> QED
    BY <2>1, <2>2
<1> QED
  BY <1>2, <1>3, <1>4 DEF LoadSegment

(* The page is mapped and filled from the header that was accepted. *)
LEMMA LoaderMapPage ==
    ASSUME LoaderInv, NEW t \in Tids, MapSegmentPage(t)
    PROVE  LoaderInv'
<1> DEFINE p == th[t].prog
           i == th[t].seg
           a == th[t].va
<1>1. /\ p \in Program /\ i \in DOMAIN p.phdrs /\ a \in Nat
      /\ SegmentOk(p, p.phdrs[i], load_bias(t))
  BY ThreadTypes DEF MapSegmentPage, Loading
<1>2. CASE \E n \in NextFree : AddTable(th[t].space, a, n) /\ UNCHANGED th
  BY <1>2, TakenTyped, SameThreads DEF LoaderInv
<1>3. CASE DiesWithFrames(t) /\ UNCHANGED mem
  BY <1>3, DiesTyped DEF LoaderInv, DiesWithFrames
<1>4. CASE /\ mem' = [mem EXCEPT ![th[t].frame] = PageBytes(p, p.phdrs[i], load_bias(t), a)]
           /\ Become(t, [th[t] EXCEPT !.pc = "segment", !.frame = 0, !.va = Plus(a, PAGE_SIZE)])
  <2> DEFINE r == [th[t] EXCEPT !.pc = "segment", !.frame = 0, !.va = Plus(a, PAGE_SIZE)]
  <2>1. PageBytes(p, p.phdrs[i], load_bias(t), a) \in Page
    BY <1>1, PageOfFile
  <2>2. mem' \in Contents
    BY <1>4, <2>1, FrameFilled DEF LoaderInv
  <2>3. Plus(a, PAGE_SIZE) \in Nat
    <3>1. PICK W \in Nat \ {0}, P \in Nat, b \in Nat : W = WORD /\ P = PAGE_SIZE /\ b = a
      BY <1>1, ElfAssumption
    <3>2. (b + P) % W \in Nat
      OBVIOUS
    <3> QED
      BY <3>1, <3>2 DEF Plus
  <2>4. r \in Thread /\ r.pc = "segment" /\ r.seg = i /\ r.prog = p
    BY <2>3, FrameFacts, ThreadTypes DEF Thread, PC
  <2>5. Loading(t, r)
    BY <1>1, <2>4 DEF Loading
  <2> QED
    BY <1>4, <2>2, <2>4, <2>5, BecomeTyped
<1> QED
  BY <1>2, <1>3, <1>4 DEF MapSegmentPage

(* The first page of the stack. *)
LEMMA LoaderStack ==
    ASSUME LoaderInv, NEW t \in Tids, AllocStack(t) \/ MapStackPage(t)
    PROVE  LoaderInv'
<1>1. ASSUME NEW f \in NextFree, TookZeroed(f),
             Become(t, [th[t] EXCEPT !.pc = "stackpage", !.frame = f])
      PROVE  LoaderInv'
  <2> DEFINE r == [th[t] EXCEPT !.pc = "stackpage", !.frame = f]
  <2>1. r \in Thread /\ r.pc = "stackpage"
    BY FrameFacts, ThreadTypes DEF Thread, PC
  <2>2. mem' \in Contents
    BY <1>1, TakenTyped DEF LoaderInv
  <2> QED
    BY <1>1, <2>1, <2>2, BecomeTyped DEF Loading
<1>2. CASE Dies(t) /\ UNCHANGED mem
  BY <1>2, DiesTyped DEF LoaderInv
<1>3. CASE \E n \in NextFree : AddTable(th[t].space, StackPage(t), n) /\ UNCHANGED th
  BY <1>3, TakenTyped, SameThreads DEF LoaderInv
<1>4. ASSUME mem' = [mem EXCEPT ![th[t].frame] = ArgvBytes], NEW pc \in {"register", "user"},
             Become(t, [th[t] EXCEPT !.pc = pc, !.frame = 0])
      PROVE  LoaderInv'
  <2> DEFINE r == [th[t] EXCEPT !.pc = pc, !.frame = 0]
  <2>1. r \in Thread /\ r.pc = pc
    BY FrameFacts, ThreadTypes DEF Thread, PC
  <2>2. mem' \in Contents
    BY <1>4, PagesAreTyped, FrameFilled DEF LoaderInv
  <2> QED
    BY <1>4, <2>1, <2>2, BecomeTyped DEF Loading
<1> QED
  BY <1>1, <1>2, <1>3, <1>4 DEF AllocStack, MapStackPage, vmm_register_growable_stack

(* The stack of a program is registered. *)
LEMMA LoaderStoreHead ==
    ASSUME LoaderInv, NEW t \in Tids, StoreHead(t)
    PROVE  LoaderInv'
<1> DEFINE r == [th[t] EXCEPT !.pc = "user"]
<1>1. r \in Thread /\ r.pc = "user"
  BY FrameFacts, ThreadTypes DEF Thread, PC
<1>2. Loading(t, r)
  BY <1>1 DEF Loading
<1> QED
  BY <1>1, <1>2, BecomeTyped DEF StoreHead, LoaderInv

(* The program stores a byte, and its stack grows. *)
LEMMA LoaderUser ==
    ASSUME LoaderInv, NEW t \in Tids, NEW va \in Nat,
           UserStore(t, va) \/ PageFault(t, va) \/ MapFaultPage(t)
    PROVE  LoaderInv'
<1>1. CASE UserStore(t, va)
  <2>1. <<"by", t>> \in Byte
    BY DEF Byte
  <2>2. mem' = [mem EXCEPT ![L1(th[t].space, va).frame][0] = <<"by", t>>] /\ UNCHANGED th
    BY <1>1 DEF UserStore, StoreByte
  <2>3. mem' \in Contents
    <3>1. PICK f : f = L1(th[t].space, va).frame
      OBVIOUS
    <3>2. ASSUME f \in Frames PROVE [mem[f] EXCEPT ![0] = <<"by", t>>] \in Page
      BY <2>1, <3>2 DEF Page, Contents, LoaderInv
    <3>3. mem' = [mem EXCEPT ![f] = [mem[f] EXCEPT ![0] = <<"by", t>>]]
      BY <2>2, <3>1
    <3> QED
      BY <3>2, <3>3 DEF Contents, LoaderInv
  <2> QED
    BY <2>2, <2>3, SameThreads
<1>2. CASE Dies(t) /\ UNCHANGED mem
  BY <1>2, DiesTyped DEF LoaderInv
<1>3. ASSUME NEW f \in NextFree, TookZeroed(f),
             Become(t, [th[t] EXCEPT !.pc = "fault", !.va = va, !.frame = f])
      PROVE  LoaderInv'
  <2> DEFINE r == [th[t] EXCEPT !.pc = "fault", !.va = va, !.frame = f]
  <2>1. r \in Thread /\ r.pc = "fault"
    BY FrameFacts, ThreadTypes DEF Thread, PC
  <2>2. mem' \in Contents
    BY <1>3, TakenTyped DEF LoaderInv
  <2> QED
    BY <1>3, <2>1, <2>2, BecomeTyped DEF Loading
<1>4. CASE \E n \in NextFree : AddTable(th[t].space, th[t].va, n) /\ UNCHANGED th
  BY <1>4, TakenTyped, SameThreads DEF LoaderInv
<1>5. CASE Become(t, [th[t] EXCEPT !.pc = "user", !.frame = 0]) /\ UNCHANGED mem
  <2> DEFINE r == [th[t] EXCEPT !.pc = "user", !.frame = 0]
  <2>1. r \in Thread /\ r.pc = "user"
    BY FrameFacts, ThreadTypes DEF Thread, PC
  <2> QED
    BY <1>5, <2>1, BecomeTyped DEF Loading, LoaderInv
<1>6. CASE PageFault(t, va)
  BY <1>2, <1>3, <1>6 DEF PageFault
<1>7. CASE MapFaultPage(t)
  BY <1>2, <1>4, <1>5, <1>7 DEF MapFaultPage
<1> QED
  BY <1>1, <1>6, <1>7

(* The demo of the command usermodetest. *)
LEMMA LoaderDemo ==
    ASSUME LoaderInv, NEW t \in Tids,
           DemoStart(t) \/ DemoSpace(t) \/ DemoMark(t) \/ DemoSplit(t)
    PROVE  LoaderInv'
<1>1. ASSUME NEW f \in NextFree, TookZeroed(f),
             Become(t, [th[t] EXCEPT !.pc = "demospace", !.frame = f])
      PROVE  LoaderInv'
  <2> DEFINE r == [th[t] EXCEPT !.pc = "demospace", !.frame = f]
  <2>1. r \in Thread /\ r.pc = "demospace"
    BY FrameFacts, ThreadTypes DEF Thread, PC
  <2>2. mem' \in Contents
    BY <1>1, TakenTyped DEF LoaderInv
  <2> QED
    BY <1>1, <2>1, <2>2, BecomeTyped DEF Loading
<1>2. CASE Dies(t) /\ UNCHANGED mem
  BY <1>2, DiesTyped DEF LoaderInv
<1>3. ASSUME NEW f \in NextFree, vmm_create_address_space(f),
             Become(t, [th[t] EXCEPT !.pc = "demomark", !.space = f, !.seg = 1])
      PROVE  LoaderInv'
  <2> DEFINE r == [th[t] EXCEPT !.pc = "demomark", !.space = f, !.seg = 1]
  <2>1. r \in Thread /\ r.pc = "demomark"
    BY FrameFacts, ThreadTypes DEF Thread, PC
  <2>2. mem' \in Contents
    BY <1>3, TakenTyped DEF LoaderInv
  <2> QED
    BY <1>3, <2>1, <2>2, BecomeTyped DEF Loading
<1>4. CASE DemoNext(t) /\ UNCHANGED mem
  <2>1. PICK r : /\ Become(t, r) /\ r \in Thread /\ r.pc \in {"demomark", "user"}
    <3>1. CASE th[t].seg < 3
      <4> DEFINE r == [th[t] EXCEPT !.pc = "demomark", !.seg = th[t].seg + 1, !.table = 0]
      <4>1. PICK n \in Nat : n = th[t].seg + 1
        BY ThreadTypes
      <4>2. r \in Thread /\ r.pc = "demomark"
        BY <4>1, FrameFacts, ThreadTypes DEF Thread, PC
      <4>3. Become(t, r)
        BY <1>4, <3>1 DEF DemoNext
      <4> QED
        BY <4>2, <4>3
    <3>2. CASE ~ (th[t].seg < 3)
      <4> DEFINE r == [th[t] EXCEPT !.pc = "user", !.table = 0]
      <4>1. r \in Thread /\ r.pc = "user"
        BY FrameFacts, ThreadTypes DEF Thread, PC
      <4>2. Become(t, r)
        BY <1>4, <3>2 DEF DemoNext
      <4> QED
        BY <4>1, <4>2
    <3> QED
      BY <3>1, <3>2
  <2>2. Loading(t, r)
    BY <2>1 DEF Loading
  <2> QED
    BY <1>4, <2>1, <2>2, BecomeTyped DEF LoaderInv
<1>5. CASE TakeTable(t, "demosplit")
  BY <1>5, LoaderTakeTable DEF PC
<1> QED
  BY <1>1, <1>2, <1>3, <1>4, <1>5
     DEF DemoStart, DemoSpace, DemoMark, DemoSplit, DiesWithFrames

(* Every step keeps the invariant. *)
LEMMA LoaderNext == LoaderInv /\ [Next]_vars => LoaderInv'
<1> SUFFICES ASSUME LoaderInv, [Next]_vars PROVE LoaderInv'
  OBVIOUS
<1>1. CASE UNCHANGED vars
  BY <1>1, SameThreads DEF vars, vmmVars, LoaderInv
<1>2. ASSUME NEW t \in Tids, Step(t) PROVE LoaderInv'
  <2>1. ASSUME NEW o \in StoreOffsets PROVE image_base(t) + o \in Nat
    <3>1. image_base(t) \in Nat /\ o \in Nat
      BY SlotBounds, VmmAssumption
    <3> QED
      BY <3>1
  <2>2. SlotPages(t) \subseteq Nat
    BY SlotBounds DEF SlotPages
  <2>3. 0 \in Nat
    OBVIOUS
  <2>4. ASSUME NEW o \in StoreOffsets, UserStore(t, image_base(t) + o) PROVE LoaderInv'
    BY <2>1, <2>4, LoaderUser
  <2>5. ASSUME NEW va \in SlotPages(t), PageFault(t, va) PROVE LoaderInv'
    BY <2>2, <2>5, LoaderUser
  <2>6. ASSUME MapFaultPage(t) PROVE LoaderInv'
    BY <2>3, <2>6, LoaderUser
  <2> QED
    BY <1>2, <2>4, <2>5, <2>6, LoaderGuard, LoaderCreate, LoaderSegment, LoaderMapPage,
       LoaderStack, LoaderStoreHead, LoaderDemo DEF Step
<1>3. ASSUME NEW t \in Tids, NEW p \in Program \cup {Demo}, SpawnStack(t, p)
      PROVE  LoaderInv'
  BY <1>3, LoaderSpawn
<1>4. ASSUME NEW t \in Tids, GuardPage(t) PROVE LoaderInv'
  BY <1>4, LoaderGuard
<1>5. ASSUME NEW t \in Tids, sched_kill(t) PROVE LoaderInv'
  BY <1>5, DiesTyped DEF sched_kill, DiesWithFrames, LoaderInv
<1>6. ASSUME NEW t \in Tids, reap_zombie(t) PROVE LoaderInv'
  BY <1>6, UnusedTyped DEF reap_zombie, LoaderInv
<1>7. ASSUME NEW count \in HeapSizes, grow_heap(count) PROVE LoaderInv'
  BY <1>7, SameThreads DEF grow_heap, LoaderInv
<1>8. ASSUME NEW t \in Tids, KillInAllocation(t) PROVE LoaderInv'
  <2>1. mem' \in Contents
    BY <1>8, PagesAreTyped, FrameFilled DEF KillInAllocation, LoaderInv
  <2> QED
    BY <1>8, <2>1, DiesTyped DEF KillInAllocation
<1> QED
  BY <1>1, <1>2, <1>3, <1>4, <1>5, <1>6, <1>7, <1>8 DEF Next

(* Whatever program file is loaded, whole, cut off or with headers that lie *)
(* about it, and whatever else runs between the check of a header and the   *)
(* copy, load_segment takes no byte from behind the end of the file.        *)
THEOREM LoaderNeverLeavesFile == Spec => []LoaderStaysInFile
<1>1. Init => LoaderInv
  <2> SUFFICES ASSUME Init PROVE LoaderInv
    OBVIOUS
  <2>1. NoThread \in Thread /\ NoThread.pc = "unused"
    BY FrameFacts DEF Thread, PC, NoThread
  <2>2. \A t \in Tids : Loading(t, NoThread)
    BY <2>1 DEF Loading
  <2> QED
    BY <2>1, <2>2, PagesAreTyped DEF Init, LoaderInv, Contents
<1>2. LoaderInv => LoaderStaysInFile
  BY OriginsSuffice DEF LoaderInv
<1> QED
  BY <1>1, <1>2, LoaderNext, PTL DEF Spec

(* user_range_ok never lets a buffer through that has a byte ring 3 cannot  *)
(* reach: not one that ends in the first byte of a page, not one at the     *)
(* very end of the address space, and not one that wraps around it.         *)
THEOREM AcceptedBuffersAccessible == Spec => []BuffersAccessible
<1>1. BuffersAccessible
  BY RangeCheckIsExact
<1> QED
  BY <1>1, PTL

(***************************************************************************)
(* Part 6.  The role of every frame.  kd tells what a frame is used for,   *)
(* wh for which thread; a frame of an address space has a level lv, 4 for  *)
(* its PML4 down to 0 for a page, and is found in entry at of table up.    *)
(* A page table of the shared branch has the number of its large page in   *)
(* up.  None of this is stored in the kernel: the invariant says that such *)
(* roles exist.                                                            *)
(***************************************************************************)

Kinds == {"none", "boot", "stack", "hand", "heap", "lost", "shared", "space"}

RoleTypes(kd, wh, lv, up, at) ==
    /\ kd \in [Frames -> Kinds] /\ wh \in [Frames -> Tids \cup {NoTid}]
    /\ lv \in [Frames -> 0..4] /\ up \in [Frames -> Nat] /\ at \in [Frames -> Index]
    /\ \A f \in Frames : kd[f] \in {"stack", "hand", "space"} => wh[f] \in Tids
    /\ \A f \in Frames : kd[f] = "boot" <=> f \in BootFrames

IsTable(kd, lv, f) ==
    kd[f] \in {"boot", "shared"} \/ (kd[f] = "space" /\ lv[f] > 0)

(* The frames with the contents of tables are the ones with that role. *)
TablesAre(T, kd, lv) ==
    /\ DOMAIN T = {f \in Frames : IsTable(kd, lv, f)}
    /\ \A f \in DOMAIN T : T[f] \in [Index -> Entry]

(* Entry i of table f is one of the branch that all spaces share. *)
SharedBranch(lv, f, i) == lv[f] = 4 /\ i = 0

(* Every frame of a space but its PML4 hangs below a table of that space. *)
UpLinks(T, kd, wh, lv, up, at) ==
    \A f \in Frames : kd[f] = "space" /\ lv[f] < 4 =>
        /\ up[f] \in Frames /\ kd[up[f]] = "space" /\ wh[up[f]] = wh[f]
        /\ lv[up[f]] = lv[f] + 1 /\ ~ SharedBranch(lv, up[f], at[f])
        /\ T[up[f]][at[f]].present /\ T[up[f]][at[f]].frame = f

(* Outside the shared branch a table of a space has tables and pages of     *)
(* that space below it, each one once.                                      *)
DownLinks(T, kd, wh, lv, up, at) ==
    \A f \in Frames, i \in Index :
        kd[f] = "space" /\ lv[f] > 0 /\ ~ SharedBranch(lv, f, i) /\ T[f][i].present =>
            LET c == T[f][i].frame
            IN  /\ c \in Frames /\ kd[c] = "space" /\ wh[c] = wh[f]
                /\ lv[c] = lv[f] - 1 /\ up[c] = f /\ at[c] = i
                /\ T[f][i].user /\ ~ T[f][i].large

(* Every space has the shared branch. *)
TopLinks(T, kd, lv) ==
    \A f \in Frames : kd[f] = "space" /\ lv[f] = 4 => T[f][0] = TableEntry(BootTables[2])

Links(T, kd, wh, lv, up, at) ==
    /\ UpLinks(T, kd, wh, lv, up, at)
    /\ DownLinks(T, kd, wh, lv, up, at)
    /\ TopLinks(T, kd, lv)

(* The fields of the kinds of entries *)
LEMMA EntryFields ==
    /\ \A f : /\ TableEntry(f).frame = f /\ TableEntry(f).present
              /\ TableEntry(f).user /\ ~ TableEntry(f).large
              /\ LargeEntry(f).frame = f /\ LargeEntry(f).present
              /\ ~ LargeEntry(f).user /\ LargeEntry(f).large
    /\ \A f, b : /\ PageEntry(f, b).frame = f /\ PageEntry(f, b).present
                 /\ PageEntry(f, b).user = b /\ ~ PageEntry(f, b).large
    /\ ~ NotPresent.present /\ ~ NotPresent.user /\ ~ NotPresent.large
    /\ NotPresent \in Entry
    /\ \A f \in Nat : /\ TableEntry(f) \in Entry /\ LargeEntry(f) \in Entry
                      /\ \A b \in BOOLEAN : PageEntry(f, b) \in Entry
    /\ NewTable \in [Index -> Entry]
    /\ \A i \in Index : ~ NewTable[i].present
<1>1. NotPresent \in Entry /\ ~ NotPresent.present /\ ~ NotPresent.user /\ ~ NotPresent.large
  BY DEF NotPresent, Entry
<1>2. NewTable \in [Index -> Entry] /\ \A i \in Index : ~ NewTable[i].present
  BY <1>1 DEF NewTable
<1>3. \A f \in Nat : /\ TableEntry(f) \in Entry /\ LargeEntry(f) \in Entry
                     /\ \A b \in BOOLEAN : PageEntry(f, b) \in Entry
  BY DEF TableEntry, LargeEntry, PageEntry, Entry
<1>4. \A f : /\ TableEntry(f).frame = f /\ TableEntry(f).present
             /\ TableEntry(f).user /\ ~ TableEntry(f).large
             /\ LargeEntry(f).frame = f /\ LargeEntry(f).present
             /\ ~ LargeEntry(f).user /\ LargeEntry(f).large
  BY DEF TableEntry, LargeEntry
<1>5. \A f, b : /\ PageEntry(f, b).frame = f /\ PageEntry(f, b).present
                /\ PageEntry(f, b).user = b /\ ~ PageEntry(f, b).large
  BY DEF PageEntry
<1> QED
  BY <1>1, <1>2, <1>3, <1>4, <1>5

(* A frame becomes a table or a page of a space: it is entered in entry j   *)
(* of table p, where there was nothing or a page that is displaced.         *)
NewChild(T, kd, p, j, f, l) ==
    /\ p \in Frames /\ kd[p] = "space"
    /\ j \in Index /\ l \in 0..3
    /\ T[p][j].present => l = 0
    /\ f \in Frames /\ kd[f] \in {"none", "hand"}

(* The roles after it *)
ChildKind(T, kd, p, j, f) ==
    [g \in Frames |-> IF g = f THEN "space"
                      ELSE IF T[p][j].present /\ g = T[p][j].frame THEN "lost"
                      ELSE kd[g]]

(* The tables after it *)
ChildTables(T, p, j, e, f, l, T2) ==
    /\ DOMAIN T2 = DOMAIN T \cup (IF l = 0 THEN {} ELSE {f})
    /\ \A g \in DOMAIN T : T2[g] = IF g = p THEN [T[p] EXCEPT ![j] = e] ELSE T[g]
    /\ l > 0 => T2[f] = NewTable

(* The frames of all spaces hang together as before. *)
LEMMA ChildLinks ==
    ASSUME NEW T, NEW kd, NEW wh, NEW lv, NEW up, NEW at,
           RoleTypes(kd, wh, lv, up, at), TablesAre(T, kd, lv), Links(T, kd, wh, lv, up, at),
           NEW p, NEW j, NEW f, NEW l, NewChild(T, kd, p, j, f, l),
           lv[p] = l + 1, ~ SharedBranch(lv, p, j),
           NEW e \in Entry, e.frame = f, e.present, e.user, ~ e.large,
           NEW T2, ChildTables(T, p, j, e, f, l, T2)
    PROVE  LET kd2 == ChildKind(T, kd, p, j, f)
               wh2 == [wh EXCEPT ![f] = wh[p]]
               lv2 == [lv EXCEPT ![f] = l]
               up2 == [up EXCEPT ![f] = p]
               at2 == [at EXCEPT ![f] = j]
           IN  /\ RoleTypes(kd2, wh2, lv2, up2, at2)
               /\ TablesAre(T2, kd2, lv2)
               /\ Links(T2, kd2, wh2, lv2, up2, at2)
<1> DEFINE kd2 == ChildKind(T, kd, p, j, f)
           wh2 == [wh EXCEPT ![f] = wh[p]]
           lv2 == [lv EXCEPT ![f] = l]
           up2 == [up EXCEPT ![f] = p]
           at2 == [at EXCEPT ![f] = j]
           old(g) == T[p][j].present /\ g = T[p][j].frame
<1>1. /\ Frames \subseteq Nat /\ f \in Frames /\ p \in Frames /\ f # p
      /\ kd[p] = "space" /\ kd[f] \in {"none", "hand"} /\ l \in 0..3 /\ j \in Index
      /\ wh[p] \in Tids
  BY FrameFacts DEF NewChild, RoleTypes
<1>2. ASSUME NEW g, old(g)
      PROVE  g \in Frames /\ kd[g] = "space" /\ lv[g] = 0 /\ l = 0 /\ g # f /\ g # p
             /\ up[g] = p /\ at[g] = j
  BY <1>1, <1>2 DEF NewChild, Links, DownLinks
<1>3. ASSUME NEW g \in Frames
      PROVE  /\ kd2[g] = IF g = f THEN "space" ELSE IF old(g) THEN "lost" ELSE kd[g]
             /\ wh2[g] = IF g = f THEN wh[p] ELSE wh[g]
             /\ lv2[g] = IF g = f THEN l ELSE lv[g]
             /\ up2[g] = IF g = f THEN p ELSE up[g]
             /\ at2[g] = IF g = f THEN j ELSE at[g]
  BY <1>1 DEF ChildKind, RoleTypes
<1>4. RoleTypes(kd2, wh2, lv2, up2, at2)
  <2>1. /\ kd2 \in [Frames -> Kinds] /\ wh2 \in [Frames -> Tids \cup {NoTid}]
        /\ lv2 \in [Frames -> 0..4] /\ up2 \in [Frames -> Nat] /\ at2 \in [Frames -> Index]
    BY <1>1 DEF RoleTypes, ChildKind, Kinds
  <2>2. ASSUME NEW g \in Frames, kd2[g] \in {"stack", "hand", "space"}
        PROVE  wh2[g] \in Tids
    BY <1>1, <1>3, <2>2 DEF RoleTypes
  <2>3. ASSUME NEW g \in Frames PROVE kd2[g] = "boot" <=> g \in BootFrames
    BY <1>1, <1>2, <1>3 DEF RoleTypes
  <2> QED
    BY <2>1, <2>2, <2>3 DEF RoleTypes
<1>5. p \in DOMAIN T /\ f \notin DOMAIN T
  BY <1>1 DEF TablesAre, IsTable
<1> HIDE DEF kd2, wh2, lv2, up2, at2
<1>6. TablesAre(T2, kd2, lv2)
  <2>1. ASSUME NEW g \in Frames
        PROVE  g \in DOMAIN T2 <=> IsTable(kd2, lv2, g)
    <3>1. g \in DOMAIN T <=> IsTable(kd, lv, g)
      BY DEF TablesAre
    <3>2. g \in DOMAIN T2 <=> (g \in DOMAIN T \/ (l # 0 /\ g = f))
      BY DEF ChildTables
    <3> QED
      BY <1>1, <1>2, <1>3, <3>1, <3>2 DEF IsTable
  <2>2. DOMAIN T2 \subseteq Frames
    BY <1>1 DEF ChildTables, TablesAre
  <2>3. ASSUME NEW g \in DOMAIN T2 PROVE T2[g] \in [Index -> Entry]
    BY <1>1, <1>5, EntryFields DEF ChildTables, TablesAre
  <2> QED
    BY <2>1, <2>2, <2>3 DEF TablesAre
<1>7. ASSUME NEW g \in Frames, NEW i \in Index, kd2[g] = "space", lv2[g] > 0
      PROVE  T2[g][i] = IF g = f THEN NewTable[i] ELSE IF g = p /\ i = j THEN e ELSE T[g][i]
  <2>1. CASE g = f
    BY <1>3, <1>7, <2>1, <1>1 DEF ChildTables
  <2>2. CASE g # f
    <3>1. g \in DOMAIN T
      BY <1>3, <1>7, <2>2, <1>2 DEF TablesAre, IsTable
    <3> QED
      BY <1>5, <2>2, <3>1 DEF ChildTables, TablesAre
  <2> QED
    BY <2>1, <2>2
<1>8. UpLinks(T2, kd2, wh2, lv2, up2, at2)
  <2> SUFFICES ASSUME NEW g \in Frames, kd2[g] = "space", lv2[g] < 4
               PROVE  /\ up2[g] \in Frames /\ kd2[up2[g]] = "space" /\ wh2[up2[g]] = wh2[g]
                      /\ lv2[up2[g]] = lv2[g] + 1 /\ ~ SharedBranch(lv2, up2[g], at2[g])
                      /\ T2[up2[g]][at2[g]].present /\ T2[up2[g]][at2[g]].frame = g
    BY DEF UpLinks
  <2>1. CASE g = f
    <3>1. /\ up2[g] = p /\ at2[g] = j /\ lv2[g] = l /\ wh2[g] = wh[p] /\ kd2[p] = "space"
          /\ lv2[p] = l + 1 /\ wh2[p] = wh[p]
      BY <1>1, <1>2, <1>3, <2>1
    <3>2. T2[p][j] = e
      <4>1. lv2[p] > 0
        BY <1>1, <3>1
      <4> QED
        BY <1>1, <1>7, <3>1, <4>1
    <3> QED
      BY <1>1, <2>1, <3>1, <3>2 DEF SharedBranch
  <2>2. CASE g # f
    <3>1. kd[g] = "space" /\ lv[g] < 4 /\ ~ old(g) /\ up2[g] = up[g] /\ at2[g] = at[g]
          /\ lv2[g] = lv[g] /\ wh2[g] = wh[g] /\ lv[g] \in 0..4
      BY <1>1, <1>2, <1>3, <2>2 DEF RoleTypes
    <3>2. /\ up[g] \in Frames /\ kd[up[g]] = "space" /\ wh[up[g]] = wh[g]
          /\ lv[up[g]] = lv[g] + 1 /\ ~ SharedBranch(lv, up[g], at[g])
          /\ T[up[g]][at[g]].present /\ T[up[g]][at[g]].frame = g
      BY <3>1 DEF Links, UpLinks
    <3>3. up[g] # f /\ ~ old(up[g])
      BY <1>1, <1>2, <3>1, <3>2
    <3>4. /\ kd2[up[g]] = "space" /\ lv2[up[g]] = lv[up[g]] /\ wh2[up[g]] = wh[up[g]]
      BY <1>3, <3>2, <3>3
    <3>5. ~ (up[g] = p /\ at[g] = j)
      BY <3>1, <3>2
    <3>6. at[g] \in Index
      BY DEF RoleTypes
    <3>7. T2[up[g]][at[g]] = T[up[g]][at[g]]
      BY <1>7, <3>1, <3>2, <3>3, <3>4, <3>5, <3>6
    <3> QED
      BY <3>1, <3>2, <3>4, <3>7 DEF SharedBranch
  <2> QED
    BY <2>1, <2>2
<1>9. DownLinks(T2, kd2, wh2, lv2, up2, at2)
  <2> SUFFICES ASSUME NEW g \in Frames, NEW i \in Index, kd2[g] = "space", lv2[g] > 0,
                      ~ SharedBranch(lv2, g, i), T2[g][i].present
               PROVE  LET c == T2[g][i].frame
                      IN  /\ c \in Frames /\ kd2[c] = "space" /\ wh2[c] = wh2[g]
                          /\ lv2[c] = lv2[g] - 1 /\ up2[c] = g /\ at2[c] = i
                          /\ T2[g][i].user /\ ~ T2[g][i].large
    BY DEF DownLinks
  <2>1. g # f
    BY <1>7, EntryFields
  <2>2. kd[g] = "space" /\ lv2[g] = lv[g] /\ wh2[g] = wh[g] /\ lv[g] > 0 /\ ~ SharedBranch(lv, g, i)
    BY <1>2, <1>3, <2>1 DEF SharedBranch
  <2>3. CASE g = p /\ i = j
    BY <1>1, <1>3, <1>7, <2>1, <2>2, <2>3
  <2>4. CASE ~ (g = p /\ i = j)
    <3>1. T2[g][i] = T[g][i]
      BY <1>7, <2>1, <2>4
    <3>2. PICK c : c = T[g][i].frame
      OBVIOUS
    <3>3. /\ c \in Frames /\ kd[c] = "space" /\ wh[c] = wh[g]
          /\ lv[c] = lv[g] - 1 /\ up[c] = g /\ at[c] = i
          /\ T[g][i].user /\ ~ T[g][i].large
      BY <2>2, <3>1, <3>2 DEF Links, DownLinks
    <3>4. c # f /\ ~ old(c)
      BY <1>1, <1>2, <2>4, <3>3
    <3> QED
      BY <1>3, <2>2, <3>1, <3>2, <3>3, <3>4
  <2> QED
    BY <2>3, <2>4
<1>10. TopLinks(T2, kd2, lv2)
  <2> SUFFICES ASSUME NEW g \in Frames, kd2[g] = "space", lv2[g] = 4
               PROVE  T2[g][0] = TableEntry(BootTables[2])
    BY DEF TopLinks
  <2>1. g # f /\ kd[g] = "space" /\ lv[g] = 4
    BY <1>1, <1>2, <1>3
  <2>2. ~ (g = p /\ j = 0)
    BY <2>1 DEF SharedBranch
  <2>3. T2[g][0] = T[g][0]
    BY <1>7, <2>1, <2>2, Sizes
  <2> QED
    BY <2>1, <2>3 DEF Links, TopLinks
<1> QED
  BY <1>4, <1>6, <1>8, <1>9, <1>10 DEF Links, kd2, wh2, lv2, up2, at2

(* Frames of spaces keep their roles and tables of spaces their contents,   *)
(* except that whole spaces, those of the threads in gone, may go.          *)
SpacesKept(T, kd, wh, lv, up, at, T2, kd2, wh2, lv2, up2, at2, gone) ==
    \A f \in Frames :
        /\ kd2[f] = "space" <=> kd[f] = "space" /\ wh[f] \notin gone
        /\ kd2[f] = "space" =>
               /\ wh2[f] = wh[f] /\ lv2[f] = lv[f] /\ up2[f] = up[f] /\ at2[f] = at[f]
               /\ lv[f] > 0 => T2[f] = T[f]

(* Then what is left hangs together as before. *)
LEMMA LinksKept ==
    ASSUME NEW T, NEW kd, NEW wh, NEW lv, NEW up, NEW at, Links(T, kd, wh, lv, up, at),
           RoleTypes(kd, wh, lv, up, at),
           NEW T2, NEW kd2, NEW wh2, NEW lv2, NEW up2, NEW at2, NEW gone,
           SpacesKept(T, kd, wh, lv, up, at, T2, kd2, wh2, lv2, up2, at2, gone)
    PROVE  Links(T2, kd2, wh2, lv2, up2, at2)
<1>1. UpLinks(T2, kd2, wh2, lv2, up2, at2)
  <2> SUFFICES ASSUME NEW g \in Frames, kd2[g] = "space", lv2[g] < 4
               PROVE  /\ up2[g] \in Frames /\ kd2[up2[g]] = "space" /\ wh2[up2[g]] = wh2[g]
                      /\ lv2[up2[g]] = lv2[g] + 1 /\ ~ SharedBranch(lv2, up2[g], at2[g])
                      /\ T2[up2[g]][at2[g]].present /\ T2[up2[g]][at2[g]].frame = g
    BY DEF UpLinks
  <2>1. /\ kd[g] = "space" /\ wh[g] \notin gone /\ lv[g] < 4 /\ lv[g] \in 0..4
        /\ wh2[g] = wh[g] /\ lv2[g] = lv[g] /\ up2[g] = up[g] /\ at2[g] = at[g]
    BY DEF RoleTypes, SpacesKept
  <2>2. /\ up[g] \in Frames /\ kd[up[g]] = "space" /\ wh[up[g]] = wh[g]
        /\ lv[up[g]] = lv[g] + 1 /\ ~ SharedBranch(lv, up[g], at[g])
        /\ T[up[g]][at[g]].present /\ T[up[g]][at[g]].frame = g
    BY <2>1 DEF Links, UpLinks
  <2>3. kd2[up[g]] = "space" /\ wh2[up[g]] = wh[up[g]] /\ lv2[up[g]] = lv[up[g]]
        /\ T2[up[g]] = T[up[g]]
    BY <2>1, <2>2 DEF SpacesKept
  <2> QED
    BY <2>1, <2>2, <2>3 DEF SharedBranch
<1>2. DownLinks(T2, kd2, wh2, lv2, up2, at2)
  <2> SUFFICES ASSUME NEW g \in Frames, NEW i \in Index, kd2[g] = "space", lv2[g] > 0,
                      ~ SharedBranch(lv2, g, i), T2[g][i].present
               PROVE  LET c == T2[g][i].frame
                      IN  /\ c \in Frames /\ kd2[c] = "space" /\ wh2[c] = wh2[g]
                          /\ lv2[c] = lv2[g] - 1 /\ up2[c] = g /\ at2[c] = i
                          /\ T2[g][i].user /\ ~ T2[g][i].large
    BY DEF DownLinks
  <2>1. /\ kd[g] = "space" /\ wh[g] \notin gone /\ wh2[g] = wh[g] /\ lv2[g] = lv[g]
        /\ lv[g] > 0 /\ T2[g] = T[g] /\ ~ SharedBranch(lv, g, i)
    BY DEF SharedBranch, SpacesKept
  <2>2. PICK c : c = T[g][i].frame
    OBVIOUS
  <2>3. /\ c \in Frames /\ kd[c] = "space" /\ wh[c] = wh[g]
        /\ lv[c] = lv[g] - 1 /\ up[c] = g /\ at[c] = i
        /\ T[g][i].user /\ ~ T[g][i].large
    BY <2>1, <2>2 DEF Links, DownLinks
  <2>4. kd2[c] = "space" /\ wh2[c] = wh[c] /\ lv2[c] = lv[c] /\ up2[c] = up[c] /\ at2[c] = at[c]
    BY <2>1, <2>3 DEF SpacesKept
  <2> QED
    BY <2>1, <2>2, <2>3, <2>4
<1>3. TopLinks(T2, kd2, lv2)
  <2> SUFFICES ASSUME NEW g \in Frames, kd2[g] = "space", lv2[g] = 4
               PROVE  T2[g][0] = TableEntry(BootTables[2])
    BY DEF TopLinks
  <2>1. kd[g] = "space" /\ lv[g] = 4 /\ T2[g] = T[g]
    BY DEF SpacesKept
  <2> QED
    BY <2>1 DEF Links, TopLinks
<1> QED
  BY <1>1, <1>2, <1>3 DEF Links

(* The content of a new PML4: nothing but the shared branch *)
EmptyTop(table) ==
    /\ table \in [Index -> Entry]
    /\ table[0] = TableEntry(BootTables[2])
    /\ \A i \in Index \ {0} : ~ table[i].present

(* A free frame becomes the PML4 of thread t. *)
LEMMA SpaceLinks ==
    ASSUME NEW T, NEW kd, NEW wh, NEW lv, NEW up, NEW at,
           RoleTypes(kd, wh, lv, up, at), TablesAre(T, kd, lv), Links(T, kd, wh, lv, up, at),
           NEW f \in Frames, kd[f] = "none", NEW t \in Tids, NEW table, EmptyTop(table)
    PROVE  LET kd2 == [kd EXCEPT ![f] = "space"]
               wh2 == [wh EXCEPT ![f] = t]
               lv2 == [lv EXCEPT ![f] = 4]
               T2  == With(T, f, table)
           IN  /\ RoleTypes(kd2, wh2, lv2, up, at)
               /\ TablesAre(T2, kd2, lv2)
               /\ Links(T2, kd2, wh2, lv2, up, at)
<1> DEFINE kd2 == [kd EXCEPT ![f] = "space"]
           wh2 == [wh EXCEPT ![f] = t]
           lv2 == [lv EXCEPT ![f] = 4]
           T2  == With(T, f, table)
<1>1. ASSUME NEW g \in Frames
      PROVE  /\ kd2[g] = IF g = f THEN "space" ELSE kd[g]
             /\ wh2[g] = IF g = f THEN t ELSE wh[g]
             /\ lv2[g] = IF g = f THEN 4 ELSE lv[g]
  BY DEF RoleTypes
<1>2. RoleTypes(kd2, wh2, lv2, up, at)
  <2>1. /\ kd2 \in [Frames -> Kinds] /\ wh2 \in [Frames -> Tids \cup {NoTid}]
        /\ lv2 \in [Frames -> 0..4] /\ up \in [Frames -> Nat] /\ at \in [Frames -> Index]
    BY DEF RoleTypes, Kinds
  <2>2. ASSUME NEW g \in Frames, kd2[g] \in {"stack", "hand", "space"}
        PROVE  wh2[g] \in Tids
    BY <1>1, <2>2 DEF RoleTypes
  <2>3. ASSUME NEW g \in Frames PROVE kd2[g] = "boot" <=> g \in BootFrames
    BY <1>1 DEF RoleTypes
  <2> QED
    BY <2>1, <2>2, <2>3 DEF RoleTypes
<1>3. f \notin DOMAIN T /\ DOMAIN T \subseteq Frames
  BY DEF TablesAre, IsTable
<1>4. /\ DOMAIN T2 = DOMAIN T \cup {f} /\ T2[f] = table
      /\ \A g \in DOMAIN T : T2[g] = T[g]
  BY <1>3 DEF With
<1> HIDE DEF kd2, wh2, lv2, T2
<1>5. TablesAre(T2, kd2, lv2)
  <2>1. ASSUME NEW g \in Frames
        PROVE  g \in DOMAIN T2 <=> IsTable(kd2, lv2, g)
    BY <1>1, <1>4 DEF TablesAre, IsTable
  <2>2. ASSUME NEW g \in DOMAIN T2 PROVE T2[g] \in [Index -> Entry]
    BY <1>4 DEF TablesAre, EmptyTop
  <2> QED
    BY <1>3, <1>4, <2>1, <2>2 DEF TablesAre
<1>6. ASSUME NEW g \in Frames, kd[g] = "space", lv[g] > 0
      PROVE  T2[g] = T[g] /\ g # f
  BY <1>4, <1>6 DEF TablesAre, IsTable
<1>7. UpLinks(T2, kd2, wh2, lv2, up, at)
  <2> SUFFICES ASSUME NEW g \in Frames, kd2[g] = "space", lv2[g] < 4
               PROVE  /\ up[g] \in Frames /\ kd2[up[g]] = "space" /\ wh2[up[g]] = wh2[g]
                      /\ lv2[up[g]] = lv2[g] + 1 /\ ~ SharedBranch(lv2, up[g], at[g])
                      /\ T2[up[g]][at[g]].present /\ T2[up[g]][at[g]].frame = g
    BY DEF UpLinks
  <2>1. g # f /\ kd[g] = "space" /\ lv[g] < 4 /\ lv2[g] = lv[g] /\ wh2[g] = wh[g] /\ lv[g] \in 0..4
    BY <1>1 DEF RoleTypes
  <2>2. /\ up[g] \in Frames /\ kd[up[g]] = "space" /\ wh[up[g]] = wh[g]
        /\ lv[up[g]] = lv[g] + 1 /\ ~ SharedBranch(lv, up[g], at[g])
        /\ T[up[g]][at[g]].present /\ T[up[g]][at[g]].frame = g
    BY <2>1 DEF Links, UpLinks
  <2> QED
    BY <1>1, <1>6, <2>1, <2>2 DEF SharedBranch
<1>8. DownLinks(T2, kd2, wh2, lv2, up, at)
  <2> SUFFICES ASSUME NEW g \in Frames, NEW i \in Index, kd2[g] = "space", lv2[g] > 0,
                      ~ SharedBranch(lv2, g, i), T2[g][i].present
               PROVE  LET c == T2[g][i].frame
                      IN  /\ c \in Frames /\ kd2[c] = "space" /\ wh2[c] = wh2[g]
                          /\ lv2[c] = lv2[g] - 1 /\ up[c] = g /\ at[c] = i
                          /\ T2[g][i].user /\ ~ T2[g][i].large
    BY DEF DownLinks
  <2>1. g # f
    BY <1>1, <1>4 DEF SharedBranch, EmptyTop
  <2>2. kd[g] = "space" /\ lv2[g] = lv[g] /\ lv[g] > 0 /\ T2[g] = T[g] /\ wh2[g] = wh[g]
        /\ ~ SharedBranch(lv, g, i)
    BY <1>1, <1>6, <2>1 DEF SharedBranch
  <2>3. PICK c : c = T[g][i].frame
    OBVIOUS
  <2>4. /\ c \in Frames /\ kd[c] = "space" /\ wh[c] = wh[g]
        /\ lv[c] = lv[g] - 1 /\ up[c] = g /\ at[c] = i
        /\ T[g][i].user /\ ~ T[g][i].large
    BY <2>2, <2>3 DEF Links, DownLinks
  <2> QED
    BY <1>1, <2>2, <2>3, <2>4
<1>9. TopLinks(T2, kd2, lv2)
  <2> SUFFICES ASSUME NEW g \in Frames, kd2[g] = "space", lv2[g] = 4
               PROVE  T2[g][0] = TableEntry(BootTables[2])
    BY DEF TopLinks
  <2>1. CASE g = f
    BY <1>4, <2>1 DEF EmptyTop
  <2>2. CASE g # f
    BY <1>1, <1>6, <2>2 DEF Links, TopLinks
  <2> QED
    BY <2>1, <2>2
<1> QED
  BY <1>2, <1>5, <1>7, <1>8, <1>9 DEF Links, kd2, wh2, lv2, T2

(***************************************************************************)
(* Part 7.  The shared branch.  Large page r is entry r % ENTRIES of the   *)
(* PD with number r \div ENTRIES.                                          *)
(***************************************************************************)

LargePages == {r \in Nat : r \div ENTRIES \in 0..(Len(BootTables) - 3)}

PdOf(r) == BootTables[3 + (r \div ENTRIES)]

PdEntry(T, r) == T[PdOf(r)][r % ENTRIES]

(* The top level and the level below it are as vmm_init left them. *)
BootTop(T) ==
    /\ EmptyTop(T[BootTables[1]])
    /\ \A i \in Index : IF i \in 0..(Len(BootTables) - 3)
                        THEN T[BootTables[2]][i] = TableEntry(BootTables[3 + i])
                        ELSE ~ T[BootTables[2]][i].present

(* A large page of usable memory is mapped or split, and the page tables of *)
(* the shared branch are those of the large pages that are split.           *)
BootPages(T, kd, up) ==
    /\ \A r \in LargePages :
        \/ ~ PdEntry(T, r).present /\ \A x \in Usable : X2(x) # r
        \/ PdEntry(T, r) = LargeEntry(r * ENTRIES)
        \/ \E n \in Frames : kd[n] = "shared" /\ up[n] = r /\ PdEntry(T, r) = TableEntry(n)
    /\ \A n \in Frames : kd[n] = "shared" =>
        up[n] \in LargePages /\ PdEntry(T, up[n]) = TableEntry(n)

(* The boot tables are distinct frames. *)
LEMMA BootDistinct ==
    /\ Len(BootTables) \in Nat /\ Len(BootTables) >= 3
    /\ DOMAIN BootTables = 1..Len(BootTables)
    /\ BootTables[1] \in BootFrames /\ BootTables[2] \in BootFrames
    /\ BootTables[1] # BootTables[2] /\ kernel_pml4 = BootTables[1]
    /\ BootFrames \subseteq Reserved /\ BootFrames \subseteq Frames
    /\ \A i \in 0..(Len(BootTables) - 3) :
        /\ BootTables[3 + i] \in BootFrames
        /\ BootTables[3 + i] # BootTables[1] /\ BootTables[3 + i] # BootTables[2]
        /\ \A k \in 0..(Len(BootTables) - 3) : BootTables[3 + i] = BootTables[3 + k] => i = k
    /\ \A f \in BootFrames : f = BootTables[1] \/ f = BootTables[2]
                             \/ \E i \in 0..(Len(BootTables) - 3) : f = BootTables[3 + i]
<1>1. /\ BootTables \in Seq(Reserved) /\ Len(BootTables) \in Nat /\ Len(BootTables) >= 3
      /\ DOMAIN BootTables = 1..Len(BootTables)
  BY VmmAssumption, LenProperties
<1>2. PICK n \in Nat : n = Len(BootTables) /\ n >= 3
  BY <1>1
<1>3. \A i \in 1..n : BootTables[i] \in BootFrames /\ BootTables[i] \in Reserved
  BY <1>1, <1>2, ElementOfSeq DEF BootFrames
<1>4. \A i, j \in 1..n : BootTables[i] = BootTables[j] => i = j
  BY <1>1, <1>2, VmmAssumption
<1>5. BootFrames \subseteq Reserved /\ BootFrames \subseteq Frames
  BY <1>1, <1>2, <1>3, PmmAssumption DEF BootFrames
<1>6. 1 \in 1..n /\ 2 \in 1..n /\ \A i \in 0..(n - 3) : 3 + i \in 1..n /\ 3 + i # 1 /\ 3 + i # 2
  BY <1>2
<1>7. ASSUME NEW i \in 0..(n - 3)
      PROVE  /\ BootTables[3 + i] \in BootFrames
             /\ BootTables[3 + i] # BootTables[1] /\ BootTables[3 + i] # BootTables[2]
             /\ \A k \in 0..(n - 3) : BootTables[3 + i] = BootTables[3 + k] => i = k
  BY <1>3, <1>4, <1>6
<1>8. ASSUME NEW f \in BootFrames
      PROVE  f = BootTables[1] \/ f = BootTables[2]
             \/ \E i \in 0..(n - 3) : f = BootTables[3 + i]
  <2>1. PICK k \in 1..n : f = BootTables[k]
    BY <1>1, <1>2 DEF BootFrames
  <2>2. CASE k >= 3
    <3>1. k - 3 \in 0..(n - 3) /\ 3 + (k - 3) = k
      BY <1>2, <2>2
    <3> QED
      BY <2>1, <3>1
  <2> QED
    BY <2>1, <2>2
<1>9. BootTables[1] # BootTables[2]
  BY <1>4, <1>6
<1> QED
  BY <1>1, <1>2, <1>3, <1>5, <1>6, <1>7, <1>8, <1>9 DEF kernel_pml4

(* The place of the entry of a large page tells which large page it is. *)
LEMMA PdPlace ==
    ASSUME NEW r \in LargePages
    PROVE  /\ PdOf(r) \in BootFrames /\ PdOf(r) # BootTables[1] /\ PdOf(r) # BootTables[2]
           /\ r % ENTRIES \in Index /\ r \in Nat
           /\ \A q \in LargePages : PdOf(q) = PdOf(r) /\ q % ENTRIES = r % ENTRIES => q = r
<1>1. r \in Nat /\ r % ENTRIES \in Index
  BY Sizes DEF LargePages, Index
<1>2. PICK i : i = r \div ENTRIES /\ i \in 0..(Len(BootTables) - 3)
  BY DEF LargePages
<1>3. ASSUME NEW q \in LargePages, PdOf(q) = PdOf(r), q % ENTRIES = r % ENTRIES
      PROVE  q = r
  <2>1. PICK k : k = q \div ENTRIES /\ k \in 0..(Len(BootTables) - 3)
    BY DEF LargePages
  <2>2. i = k
    BY <1>2, <1>3, <2>1, BootDistinct DEF PdOf
  <2>3. q \in Nat
    BY DEF LargePages
  <2> QED
    BY <1>1, <1>2, <1>3, <2>1, <2>2, <2>3, DigitsDetermine
<1> QED
  BY <1>1, <1>2, <1>3, BootDistinct DEF PdOf

(* One page table of the shared branch becomes the table of large page r,   *)
(* in the place of a large mapping or of an older table, which is lost.     *)
OldTable(T, r) == IF PdEntry(T, r).large THEN {} ELSE {PdEntry(T, r).frame}

NewShared(T, kd, r, n) ==
    /\ r \in LargePages /\ PdEntry(T, r).present
    /\ n \in Frames /\ kd[n] \in {"none", "hand"}

SharedKind(T, kd, r, n) ==
    [g \in Frames |-> IF g = n THEN "shared" ELSE IF g \in OldTable(T, r) THEN "lost"
                      ELSE kd[g]]

SharedTables(T, r, n, T2) ==
    /\ DOMAIN T2 = (DOMAIN T \ OldTable(T, r)) \cup {n}
    /\ \A g \in DOMAIN T \ OldTable(T, r) :
          T2[g] = IF g = PdOf(r) THEN [T[g] EXCEPT ![r % ENTRIES] = TableEntry(n)] ELSE T[g]
    /\ T2[n] \in [Index -> Entry]

(* The branch is sound after it, and the spaces are what they were. *)
LEMMA SharedLinks ==
    ASSUME NEW T, NEW kd, NEW wh, NEW lv, NEW up, NEW at,
           RoleTypes(kd, wh, lv, up, at), TablesAre(T, kd, lv), Links(T, kd, wh, lv, up, at),
           BootTop(T), BootPages(T, kd, up),
           NEW r, NEW n, NewShared(T, kd, r, n), NEW T2, SharedTables(T, r, n, T2)
    PROVE  LET kd2 == SharedKind(T, kd, r, n)
               up2 == [up EXCEPT ![n] = r]
           IN  /\ RoleTypes(kd2, wh, lv, up2, at)
               /\ TablesAre(T2, kd2, lv)
               /\ Links(T2, kd2, wh, lv, up2, at)
               /\ BootTop(T2) /\ BootPages(T2, kd2, up2)
<1> DEFINE kd2 == SharedKind(T, kd, r, n)
           up2 == [up EXCEPT ![n] = r]
<1>1. /\ r \in LargePages /\ r \in Nat /\ n \in Frames /\ n \in Nat
      /\ kd[n] \in {"none", "hand"} /\ PdEntry(T, r).present
  BY FrameFacts DEF NewShared, LargePages
<1>2. ASSUME NEW g \in OldTable(T, r)
      PROVE  g \in Frames /\ kd[g] = "shared" /\ up[g] = r /\ g # n
  <2>1. g = PdEntry(T, r).frame /\ ~ PdEntry(T, r).large
    BY DEF OldTable
  <2>2. PICK m \in Frames : kd[m] = "shared" /\ up[m] = r /\ PdEntry(T, r) = TableEntry(m)
    BY <1>1, <2>1, EntryFields DEF BootPages
  <2> QED
    BY <1>1, <2>1, <2>2, EntryFields
<1>3. ASSUME NEW g \in Frames
      PROVE  /\ kd2[g] = IF g = n THEN "shared" ELSE IF g \in OldTable(T, r) THEN "lost" ELSE kd[g]
             /\ up2[g] = IF g = n THEN r ELSE up[g]
  BY DEF SharedKind, RoleTypes
<1>4. RoleTypes(kd2, wh, lv, up2, at)
  <2>1. kd2 \in [Frames -> Kinds] /\ up2 \in [Frames -> Nat]
    BY <1>1 DEF RoleTypes, SharedKind, Kinds
  <2>2. ASSUME NEW g \in Frames, kd2[g] \in {"stack", "hand", "space"}
        PROVE  wh[g] \in Tids
    BY <1>3, <2>2 DEF RoleTypes
  <2>3. ASSUME NEW g \in Frames PROVE kd2[g] = "boot" <=> g \in BootFrames
    BY <1>1, <1>2, <1>3 DEF RoleTypes
  <2> QED
    BY <2>1, <2>2, <2>3 DEF RoleTypes
<1> HIDE DEF kd2, up2
<1>5. n \notin DOMAIN T /\ DOMAIN T \subseteq Frames
  BY <1>1 DEF TablesAre, IsTable
<1>6. /\ PdOf(r) \in DOMAIN T /\ PdOf(r) \notin OldTable(T, r) /\ r % ENTRIES \in Index
      /\ BootFrames \subseteq DOMAIN T /\ BootFrames \cap OldTable(T, r) = {}
      /\ n \notin BootFrames
  <2>1. BootFrames \subseteq DOMAIN T /\ BootFrames \cap OldTable(T, r) = {} /\ n \notin BootFrames
    BY <1>1, <1>2, BootDistinct DEF TablesAre, IsTable, RoleTypes
  <2> QED
    BY <1>1, <2>1, PdPlace
<1>7. ASSUME NEW g \in Frames
      PROVE  g \in DOMAIN T2 <=> IsTable(kd2, lv, g)
  <2>1. g \in DOMAIN T <=> IsTable(kd, lv, g)
    BY DEF TablesAre
  <2>2. g \in DOMAIN T2 <=> ((g \in DOMAIN T /\ g \notin OldTable(T, r)) \/ g = n)
    BY DEF SharedTables
  <2> QED
    BY <1>1, <1>2, <1>3, <2>1, <2>2 DEF IsTable
<1>8. TablesAre(T2, kd2, lv)
  <2>1. DOMAIN T2 \subseteq Frames
    BY <1>1, <1>5 DEF SharedTables
  <2>2. ASSUME NEW g \in DOMAIN T2 PROVE T2[g] \in [Index -> Entry]
    <3>1. CASE g = n
      BY <3>1 DEF SharedTables
    <3>2. CASE g # n
      <4>1. g \in DOMAIN T \ OldTable(T, r) /\ T[g] \in [Index -> Entry]
        BY <3>2 DEF SharedTables, TablesAre
      <4>2. TableEntry(n) \in Entry
        BY <1>1, EntryFields
      <4> QED
        BY <4>1, <4>2 DEF SharedTables
    <3> QED
      BY <3>1, <3>2
  <2> QED
    BY <1>7, <2>1, <2>2 DEF TablesAre
<1>9. ASSUME NEW g \in Frames, kd[g] \in {"boot", "space"}, IsTable(kd, lv, g), g # PdOf(r)
      PROVE  T2[g] = T[g]
  <2>1. g \in DOMAIN T /\ g \notin OldTable(T, r)
    BY <1>2, <1>9 DEF TablesAre
  <2> QED
    BY <1>9, <2>1 DEF SharedTables
<1>10. kd[PdOf(r)] = "boot" /\ PdOf(r) \in Frames
  BY <1>1, PdPlace, BootDistinct DEF RoleTypes
<1>11. Links(T2, kd2, wh, lv, up2, at)
  <2>1. SpacesKept(T, kd, wh, lv, up, at, T2, kd2, wh, lv, up2, at, {})
    BY <1>1, <1>2, <1>3, <1>9, <1>10 DEF IsTable, SpacesKept
  <2> QED
    BY <2>1, LinksKept
<1>12. BootTop(T2)
  <2>1. T2[BootTables[1]] = T[BootTables[1]] /\ T2[BootTables[2]] = T[BootTables[2]]
    <3>1. \A g \in {BootTables[1], BootTables[2]} :
             g \in Frames /\ kd[g] = "boot" /\ IsTable(kd, lv, g) /\ g # PdOf(r)
      BY <1>1, PdPlace, BootDistinct DEF RoleTypes, IsTable
    <3> QED
      BY <1>9, <3>1
  <2> QED
    BY <2>1 DEF BootTop
<1>13. ASSUME NEW q \in LargePages
       PROVE  PdEntry(T2, q) = IF q = r THEN TableEntry(n) ELSE PdEntry(T, q)
  <2>1. /\ PdOf(q) \in DOMAIN T \ OldTable(T, r) /\ q % ENTRIES \in Index
        /\ PdOf(q) = PdOf(r) /\ q % ENTRIES = r % ENTRIES => q = r
    BY <1>1, <1>6, PdPlace
  <2>2. T[PdOf(q)] \in [Index -> Entry]
    BY <2>1 DEF TablesAre
  <2> QED
    BY <2>1, <2>2 DEF SharedTables, PdEntry
<1>14. BootPages(T2, kd2, up2)
  <2>1. ASSUME NEW q \in LargePages
        PROVE  \/ ~ PdEntry(T2, q).present /\ \A x \in Usable : X2(x) # q
               \/ PdEntry(T2, q) = LargeEntry(q * ENTRIES)
               \/ \E m \in Frames : kd2[m] = "shared" /\ up2[m] = q
                                    /\ PdEntry(T2, q) = TableEntry(m)
    <3>1. CASE q = r
      BY <1>1, <1>3, <1>13, <3>1
    <3>2. CASE q # r
      <4>1. PdEntry(T2, q) = PdEntry(T, q)
        BY <1>13, <3>2
      <4>2. CASE \E m \in Frames : kd[m] = "shared" /\ up[m] = q /\ PdEntry(T, q) = TableEntry(m)
        <5>1. PICK m \in Frames : kd[m] = "shared" /\ up[m] = q /\ PdEntry(T, q) = TableEntry(m)
          BY <4>2
        <5>2. m # n /\ m \notin OldTable(T, r)
          BY <1>1, <1>2, <3>2, <5>1
        <5> QED
          BY <1>3, <4>1, <5>1, <5>2
      <4> QED
        BY <4>1, <4>2 DEF BootPages
    <3> QED
      BY <3>1, <3>2
  <2>2. ASSUME NEW m \in Frames, kd2[m] = "shared"
        PROVE  up2[m] \in LargePages /\ PdEntry(T2, up2[m]) = TableEntry(m)
    <3>1. CASE m = n
      BY <1>1, <1>3, <1>13, <3>1
    <3>2. CASE m # n
      <4>1. kd[m] = "shared" /\ m \notin OldTable(T, r) /\ up2[m] = up[m]
        BY <1>3, <2>2, <3>2
      <4>2. up[m] \in LargePages /\ PdEntry(T, up[m]) = TableEntry(m)
        BY <4>1 DEF BootPages
      <4>3. up[m] # r
        BY <4>1, <4>2, EntryFields DEF OldTable
      <4> QED
        BY <1>13, <4>1, <4>2, <4>3
    <3> QED
      BY <3>1, <3>2
  <2> QED
    BY <2>1, <2>2 DEF BootPages
<1> QED
  BY <1>4, <1>8, <1>11, <1>12, <1>14 DEF kd2, up2

(* The tables of the shared branch keep their roles, and those of the boot  *)
(* code their contents.                                                     *)
BootKept(T, kd, up, T2, kd2, up2) ==
    \A f \in Frames : /\ kd2[f] = "shared" <=> kd[f] = "shared"
                      /\ kd2[f] = "shared" => up2[f] = up[f]
                      /\ f \in BootFrames => T2[f] = T[f]

(* Then the shared branch leads to the same page tables. *)
LEMMA BranchKept ==
    ASSUME NEW T, NEW kd, NEW up, NEW T2, NEW kd2, NEW up2,
           BootTop(T), BootPages(T, kd, up), BootKept(T, kd, up, T2, kd2, up2)
    PROVE  BootTop(T2) /\ BootPages(T2, kd2, up2)
<1>1. BootTop(T2)
  <2>1. T2[BootTables[1]] = T[BootTables[1]] /\ T2[BootTables[2]] = T[BootTables[2]]
    BY BootDistinct DEF BootKept
  <2> QED
    BY <2>1 DEF BootTop
<1>2. ASSUME NEW q \in LargePages PROVE PdEntry(T2, q) = PdEntry(T, q)
  <2>1. PdOf(q) \in BootFrames /\ PdOf(q) \in Frames
    BY PdPlace, BootDistinct
  <2> QED
    BY <2>1 DEF BootKept, PdEntry
<1>3. ASSUME NEW q \in LargePages
      PROVE  \/ ~ PdEntry(T2, q).present /\ \A x \in Usable : X2(x) # q
             \/ PdEntry(T2, q) = LargeEntry(q * ENTRIES)
             \/ \E m \in Frames : kd2[m] = "shared" /\ up2[m] = q
                                  /\ PdEntry(T2, q) = TableEntry(m)
  <2>1. CASE \E m \in Frames : kd[m] = "shared" /\ up[m] = q /\ PdEntry(T, q) = TableEntry(m)
    BY <1>2, <2>1 DEF BootKept
  <2> QED
    BY <1>2, <2>1 DEF BootPages
<1>4. ASSUME NEW m \in Frames, kd2[m] = "shared"
      PROVE  up2[m] \in LargePages /\ PdEntry(T2, up2[m]) = TableEntry(m)
  BY <1>2, <1>4 DEF BootPages, BootKept
<1> QED
  BY <1>1, <1>3, <1>4 DEF BootPages

(* All there is to say about the tables *)
Tree(T, kd, wh, lv, up, at) ==
    /\ RoleTypes(kd, wh, lv, up, at)
    /\ TablesAre(T, kd, lv)
    /\ Links(T, kd, wh, lv, up, at)
    /\ BootTop(T)
    /\ BootPages(T, kd, up)

(* Frames of S that are no tables and no pages get kind k and thread t. *)
NewRole(S, k, kd) == [f \in Frames |-> IF f \in S THEN k ELSE kd[f]]
NewUser(S, t, wh) == [f \in Frames |-> IF f \in S THEN t ELSE wh[f]]

Loose == {"none", "stack", "hand", "heap", "lost"}

(* That leaves the tables alone. *)
LEMMA Relabel ==
    ASSUME NEW T, NEW kd, NEW wh, NEW lv, NEW up, NEW at, Tree(T, kd, wh, lv, up, at),
           NEW S, \A f \in S \cap Frames : kd[f] \in Loose, NEW k \in Loose, NEW t \in Tids
    PROVE  Tree(T, NewRole(S, k, kd), NewUser(S, t, wh), lv, up, at)
<1> DEFINE kd2 == NewRole(S, k, kd)
           wh2 == NewUser(S, t, wh)
<1>1. ASSUME NEW g \in Frames
      PROVE  /\ kd2[g] = IF g \in S THEN k ELSE kd[g]
             /\ wh2[g] = IF g \in S THEN t ELSE wh[g]
             /\ kd[g] \in Kinds
  BY DEF NewRole, NewUser, Tree, RoleTypes
<1>2. RoleTypes(kd2, wh2, lv, up, at)
  <2>1. /\ kd2 \in [Frames -> Kinds] /\ wh2 \in [Frames -> Tids \cup {NoTid}]
        /\ lv \in [Frames -> 0..4] /\ up \in [Frames -> Nat] /\ at \in [Frames -> Index]
    BY DEF Tree, RoleTypes, Kinds, Loose, NewRole, NewUser
  <2>2. ASSUME NEW g \in Frames, kd2[g] \in {"stack", "hand", "space"}
        PROVE  wh2[g] \in Tids
    BY <1>1, <2>2 DEF Tree, RoleTypes
  <2>3. ASSUME NEW g \in Frames PROVE kd2[g] = "boot" <=> g \in BootFrames
    BY <1>1 DEF Tree, RoleTypes, Loose
  <2> QED
    BY <2>1, <2>2, <2>3 DEF RoleTypes
<1> HIDE DEF kd2, wh2
<1>3. TablesAre(T, kd2, lv)
  <2>1. \A g \in Frames : IsTable(kd2, lv, g) <=> IsTable(kd, lv, g)
    BY <1>1 DEF IsTable, Loose
  <2> QED
    BY <2>1 DEF TablesAre, Tree
<1>4. Links(T, kd2, wh2, lv, up, at)
  <2>1. SpacesKept(T, kd, wh, lv, up, at, T, kd2, wh2, lv, up, at, {})
    BY <1>1 DEF SpacesKept, Loose
  <2> QED
    BY <2>1, LinksKept DEF Tree
<1>5. BootTop(T) /\ BootPages(T, kd2, up)
  <2>1. BootKept(T, kd, up, T, kd2, up)
    BY <1>1 DEF BootKept, Loose
  <2> QED
    BY <2>1, BranchKept DEF Tree
<1> QED
  BY <1>2, <1>3, <1>4, <1>5 DEF Tree, kd2, wh2

(* A frame becomes a table or a page of a space. *)
LEMMA ChildTree ==
    ASSUME NEW T, NEW kd, NEW wh, NEW lv, NEW up, NEW at, Tree(T, kd, wh, lv, up, at),
           NEW p, NEW j, NEW f, NEW l, NewChild(T, kd, p, j, f, l),
           lv[p] = l + 1, ~ SharedBranch(lv, p, j),
           NEW e \in Entry, e.frame = f, e.present, e.user, ~ e.large,
           NEW T2, ChildTables(T, p, j, e, f, l, T2)
    PROVE  Tree(T2, ChildKind(T, kd, p, j, f), [wh EXCEPT ![f] = wh[p]],
                [lv EXCEPT ![f] = l], [up EXCEPT ![f] = p], [at EXCEPT ![f] = j])
<1> DEFINE kd2 == ChildKind(T, kd, p, j, f)
           up2 == [up EXCEPT ![f] = p]
<1>1. /\ RoleTypes(kd, wh, lv, up, at) /\ TablesAre(T, kd, lv) /\ Links(T, kd, wh, lv, up, at)
      /\ BootTop(T) /\ BootPages(T, kd, up)
  BY DEF Tree
<1>2. /\ RoleTypes(kd2, [wh EXCEPT ![f] = wh[p]], [lv EXCEPT ![f] = l], up2, [at EXCEPT ![f] = j])
      /\ TablesAre(T2, kd2, [lv EXCEPT ![f] = l])
      /\ Links(T2, kd2, [wh EXCEPT ![f] = wh[p]], [lv EXCEPT ![f] = l], up2, [at EXCEPT ![f] = j])
  BY <1>1, ChildLinks
<1>3. BootKept(T, kd, up, T2, kd2, up2)
  <2>1. /\ p \in Frames /\ kd[p] = "space" /\ f \in Frames /\ kd[f] \in {"none", "hand"}
        /\ kd \in [Frames -> Kinds] /\ up \in [Frames -> Nat]
    BY <1>1 DEF NewChild, RoleTypes
  <2>2. ASSUME NEW g, T[p][j].present, g = T[p][j].frame
        PROVE  kd[g] = "space"
    BY <1>1, <2>1, <2>2 DEF NewChild, Links, DownLinks
  <2>3. ASSUME NEW g \in Frames
        PROVE  /\ kd2[g] = "shared" <=> kd[g] = "shared"
               /\ kd2[g] = "shared" => up2[g] = up[g]
    BY <2>1, <2>2 DEF ChildKind
  <2>4. ASSUME NEW g \in BootFrames, g \in Frames PROVE T2[g] = T[g]
    <3>1. kd[g] = "boot" /\ g \in DOMAIN T
      BY <1>1, <2>4 DEF RoleTypes, TablesAre, IsTable
    <3> QED
      BY <2>1, <3>1 DEF ChildTables
  <2> QED
    BY <2>3, <2>4 DEF BootKept
<1>4. BootTop(T2) /\ BootPages(T2, kd2, up2)
  BY <1>1, <1>3, BranchKept
<1> QED
  BY <1>2, <1>4 DEF Tree

(* A free frame becomes the PML4 of thread t. *)
LEMMA SpaceTree ==
    ASSUME NEW T, NEW kd, NEW wh, NEW lv, NEW up, NEW at, Tree(T, kd, wh, lv, up, at),
           NEW f \in Frames, kd[f] = "none", NEW t \in Tids, NEW table, EmptyTop(table)
    PROVE  Tree(With(T, f, table), [kd EXCEPT ![f] = "space"], [wh EXCEPT ![f] = t],
                [lv EXCEPT ![f] = 4], up, at)
<1> DEFINE kd2 == [kd EXCEPT ![f] = "space"]
           T2  == With(T, f, table)
<1>1. /\ RoleTypes(kd, wh, lv, up, at) /\ TablesAre(T, kd, lv) /\ Links(T, kd, wh, lv, up, at)
      /\ BootTop(T) /\ BootPages(T, kd, up)
  BY DEF Tree
<1>2. /\ RoleTypes(kd2, [wh EXCEPT ![f] = t], [lv EXCEPT ![f] = 4], up, at)
      /\ TablesAre(T2, kd2, [lv EXCEPT ![f] = 4])
      /\ Links(T2, kd2, [wh EXCEPT ![f] = t], [lv EXCEPT ![f] = 4], up, at)
  BY <1>1, SpaceLinks
<1>3. BootKept(T, kd, up, T2, kd2, up)
  <2>1. kd \in [Frames -> Kinds]
    BY <1>1 DEF RoleTypes
  <2>2. ASSUME NEW g \in BootFrames, g \in Frames PROVE T2[g] = T[g]
    <3>1. kd[g] = "boot" /\ g \in DOMAIN T
      BY <1>1, <2>2 DEF RoleTypes, TablesAre, IsTable
    <3> QED
      BY <3>1 DEF With
  <2> QED
    BY <2>1, <2>2 DEF BootKept
<1>4. BootTop(T2) /\ BootPages(T2, kd2, up)
  BY <1>1, <1>3, BranchKept
<1> QED
  BY <1>2, <1>4 DEF Tree

(* The shared branch gets a page table. *)
LEMMA SharedTree ==
    ASSUME NEW T, NEW kd, NEW wh, NEW lv, NEW up, NEW at, Tree(T, kd, wh, lv, up, at),
           NEW r, NEW n, NewShared(T, kd, r, n), NEW T2, SharedTables(T, r, n, T2)
    PROVE  Tree(T2, SharedKind(T, kd, r, n), wh, lv, [up EXCEPT ![n] = r], at)
<1>1. /\ RoleTypes(kd, wh, lv, up, at) /\ TablesAre(T, kd, lv) /\ Links(T, kd, wh, lv, up, at)
      /\ BootTop(T) /\ BootPages(T, kd, up)
  BY DEF Tree
<1> QED
  BY <1>1, SharedLinks DEF Tree

(* An entry of a page table of the shared branch is written. *)
LEMMA PteTree ==
    ASSUME NEW T, NEW kd, NEW wh, NEW lv, NEW up, NEW at, Tree(T, kd, wh, lv, up, at),
           NEW n \in Frames, kd[n] = "shared", NEW j \in Index, NEW e \in Entry
    PROVE  Tree([T EXCEPT ![n][j] = e], kd, wh, lv, up, at)
<1> DEFINE T2 == [T EXCEPT ![n][j] = e]
<1>1. /\ RoleTypes(kd, wh, lv, up, at) /\ TablesAre(T, kd, lv) /\ Links(T, kd, wh, lv, up, at)
      /\ BootTop(T) /\ BootPages(T, kd, up)
  BY DEF Tree
<1>2. n \in DOMAIN T /\ T[n] \in [Index -> Entry]
  BY <1>1 DEF TablesAre, IsTable
<1>3. /\ DOMAIN T2 = DOMAIN T
      /\ \A g \in DOMAIN T : T2[g] = IF g = n THEN [T[n] EXCEPT ![j] = e] ELSE T[g]
  OBVIOUS
<1> HIDE DEF T2
<1>4. TablesAre(T2, kd, lv)
  BY <1>1, <1>2, <1>3 DEF TablesAre
<1>5. \A g \in Frames : kd[g] \in {"boot", "space"} /\ IsTable(kd, lv, g) => T2[g] = T[g]
  BY <1>1, <1>3 DEF TablesAre
<1>6. Links(T2, kd, wh, lv, up, at)
  <2>1. SpacesKept(T, kd, wh, lv, up, at, T2, kd, wh, lv, up, at, {})
    BY <1>5 DEF SpacesKept, IsTable
  <2> QED
    BY <1>1, <2>1, LinksKept
<1>7. BootTop(T2) /\ BootPages(T2, kd, up)
  <2>1. BootKept(T, kd, up, T2, kd, up)
    BY <1>1, <1>5 DEF BootKept, RoleTypes, IsTable
  <2> QED
    BY <1>1, <2>1, BranchKept
<1> QED
  BY <1>1, <1>4, <1>6, <1>7 DEF Tree, T2

(* The frames of thread t: its kernel stack, and its address space *)
Leaving(kd, wh, t, f) == wh[f] = t /\ kd[f] \in {"stack", "space"}

(* All of them are given back. *)
LEMMA ReapTree ==
    ASSUME NEW T, NEW kd, NEW wh, NEW lv, NEW up, NEW at, Tree(T, kd, wh, lv, up, at),
           NEW t \in Tids, NEW T2,
           DOMAIN T2 = {f \in DOMAIN T : ~ Leaving(kd, wh, t, f)},
           \A f \in DOMAIN T2 : T2[f] = T[f]
    PROVE  Tree(T2, NewRole({f \in Frames : Leaving(kd, wh, t, f)}, "none", kd), wh, lv, up, at)
<1> DEFINE kd2 == NewRole({f \in Frames : Leaving(kd, wh, t, f)}, "none", kd)
<1>1. /\ RoleTypes(kd, wh, lv, up, at) /\ TablesAre(T, kd, lv) /\ Links(T, kd, wh, lv, up, at)
      /\ BootTop(T) /\ BootPages(T, kd, up)
  BY DEF Tree
<1>2. \A g \in Frames : kd2[g] = IF Leaving(kd, wh, t, g) THEN "none" ELSE kd[g]
  BY DEF NewRole
<1>3. RoleTypes(kd2, wh, lv, up, at)
  <2>1. kd2 \in [Frames -> Kinds]
    BY <1>1 DEF RoleTypes, NewRole, Kinds
  <2> HIDE DEF kd2
  <2>2. \A g \in Frames : kd2[g] \in {"stack", "hand", "space"} => wh[g] \in Tids
    BY <1>1, <1>2 DEF RoleTypes
  <2>3. \A g \in Frames : kd2[g] = "boot" <=> g \in BootFrames
    BY <1>1, <1>2 DEF RoleTypes, Leaving
  <2> QED
    BY <1>1, <2>1, <2>2, <2>3 DEF RoleTypes
<1> HIDE DEF kd2
<1>4. TablesAre(T2, kd2, lv)
  <2>1. \A g \in Frames : IsTable(kd2, lv, g) <=> IsTable(kd, lv, g) /\ ~ Leaving(kd, wh, t, g)
    BY <1>2 DEF IsTable, Leaving
  <2>2. \A g : g \in DOMAIN T <=> g \in Frames /\ IsTable(kd, lv, g)
    BY <1>1 DEF TablesAre
  <2>3. DOMAIN T2 = {g \in Frames : IsTable(kd2, lv, g)}
    BY <2>1, <2>2
  <2> QED
    BY <1>1, <2>3 DEF TablesAre
<1>5. \A g \in Frames : IsTable(kd, lv, g) /\ ~ Leaving(kd, wh, t, g) => T2[g] = T[g]
  BY <1>1 DEF TablesAre
<1>6. Links(T2, kd2, wh, lv, up, at)
  <2>1. SpacesKept(T, kd, wh, lv, up, at, T2, kd2, wh, lv, up, at, {t})
    BY <1>2, <1>5 DEF SpacesKept, IsTable, Leaving
  <2> QED
    BY <1>1, <2>1, LinksKept
<1>7. BootTop(T2) /\ BootPages(T2, kd2, up)
  <2>1. BootKept(T, kd, up, T2, kd2, up)
    BY <1>1, <1>2, <1>5 DEF BootKept, RoleTypes, IsTable, Leaving
  <2> QED
    BY <1>1, <2>1, BranchKept
<1> QED
  BY <1>3, <1>4, <1>6, <1>7 DEF Tree, kd2

(***************************************************************************)
(* Part 8.  What a walk through the tables finds                           *)
(***************************************************************************)

(* The entries on the way to address a, in tables T *)
At4(T, s, a) == T[s][pml4_index(a)]
At3(T, s, a) == T[At4(T, s, a).frame][pdpt_index(a)]
At2(T, s, a) == T[At3(T, s, a).frame][pd_index(a)]
At1(T, s, a) == T[At2(T, s, a).frame][pt_index(a)]

(* The functions of vmm.c look at these entries of the tables. *)
LEMMA WalkIs ==
    ASSUME NEW s, NEW a
    PROVE  /\ L4(s, a) = At4(tables, s, a) /\ L3(s, a) = At3(tables, s, a)
           /\ L2(s, a) = At2(tables, s, a) /\ L1(s, a) = At1(tables, s, a)
<1>1. L4(s, a) = At4(tables, s, a)
  BY DEF L4, At4
<1>2. L3(s, a) = At3(tables, s, a)
  BY <1>1, Zenon DEF L3, At3
<1>3. L2(s, a) = At2(tables, s, a)
  BY <1>2, Zenon DEF L2, At2
<1>4. L1(s, a) = At1(tables, s, a)
  BY <1>3, Zenon DEF L1, At1
<1> QED
  BY <1>1, <1>2, <1>3, <1>4

(* A space of tables T: it has the shared branch. *)
IsTop(T, s) == T[s][0] = TableEntry(BootTables[2])

(* In a space the address of a frame leads to the entry of its large page. *)
LEMMA IdentityWalk ==
    ASSUME NEW T, BootTop(T), NEW s, IsTop(T, s), NEW x \in Frames
    PROVE  /\ At4(T, s, Addr(x)) = TableEntry(BootTables[2])
           /\ X2(x) \in LargePages <=> X3(x) \in 0..(Len(BootTables) - 3)
           /\ X2(x) \notin LargePages => ~ At3(T, s, Addr(x)).present
           /\ X2(x) \in LargePages =>
                /\ At3(T, s, Addr(x)) = TableEntry(PdOf(X2(x)))
                /\ At2(T, s, Addr(x)) = PdEntry(T, X2(x))
                /\ At1(T, s, Addr(x)) = T[PdEntry(T, X2(x)).frame][x % ENTRIES]
           /\ x \in Usable => X2(x) \in LargePages
<1>1. /\ X2(x) \in Nat /\ X3(x) \in Index
      /\ pml4_index(Addr(x)) = 0 /\ pdpt_index(Addr(x)) = X3(x)
      /\ pd_index(Addr(x)) = X2(x) % ENTRIES /\ pt_index(Addr(x)) = x % ENTRIES
  BY IdentityIndices
<1>2. At4(T, s, Addr(x)) = TableEntry(BootTables[2])
  BY <1>1, Zenon DEF At4, IsTop
<1>3. At3(T, s, Addr(x)) = T[BootTables[2]][X3(x)]
  BY <1>1, <1>2, EntryFields DEF At3
<1>4. X2(x) \in LargePages <=> X3(x) \in 0..(Len(BootTables) - 3)
  BY <1>1 DEF LargePages, X3
<1>5. X2(x) \notin LargePages => ~ At3(T, s, Addr(x)).present
  BY <1>1, <1>3, <1>4 DEF BootTop
<1>6. ASSUME X2(x) \in LargePages
      PROVE  /\ At3(T, s, Addr(x)) = TableEntry(PdOf(X2(x)))
             /\ At2(T, s, Addr(x)) = PdEntry(T, X2(x))
             /\ At1(T, s, Addr(x)) = T[PdEntry(T, X2(x)).frame][x % ENTRIES]
  <2>1. At3(T, s, Addr(x)) = TableEntry(PdOf(X2(x)))
    <3>1. T[BootTables[2]][X3(x)] = TableEntry(BootTables[3 + X3(x)])
      BY <1>1, <1>4, <1>6 DEF BootTop
    <3> QED
      BY <1>3, <3>1, Zenon DEF PdOf, X3
  <2>2. At2(T, s, Addr(x)) = PdEntry(T, X2(x))
    BY <1>1, <2>1, EntryFields DEF At2, PdEntry
  <2> QED
    BY <1>1, <2>1, <2>2, Zenon DEF At1
<1>7. x \in Usable => X2(x) \in LargePages
  BY <1>4, UsablePd
<1> QED
  BY <1>2, <1>4, <1>5, <1>6, <1>7

(* The top levels of all spaces have the shared branch. *)
LEMMA Tops ==
    ASSUME NEW T, NEW kd, NEW wh, NEW lv, NEW up, NEW at, Tree(T, kd, wh, lv, up, at)
    PROVE  /\ IsTop(T, kernel_pml4)
           /\ \A s \in Frames : kd[s] = "space" /\ lv[s] = 4 => IsTop(T, s)
  BY BootDistinct DEF Tree, BootTop, EmptyTop, Links, TopLinks, IsTop

(* Frame f is part of the space of thread t, at level l. *)
SpaceFrame(kd, wh, lv, t, l, f) == f \in Frames /\ kd[f] = "space" /\ wh[f] = t /\ lv[f] = l

(* In the private part of a space a walk finds tables and pages of that     *)
(* space, one level after the other.                                        *)
LEMMA PrivateWalk ==
    ASSUME NEW T, NEW kd, NEW wh, NEW lv, NEW up, NEW at, Tree(T, kd, wh, lv, up, at),
           NEW t, NEW s, SpaceFrame(kd, wh, lv, t, 4, s), NEW a \in Nat, pml4_index(a) # 0
    PROVE  /\ At4(T, s, a).present =>
                /\ SpaceFrame(kd, wh, lv, t, 3, At4(T, s, a).frame)
                /\ up[At4(T, s, a).frame] = s /\ at[At4(T, s, a).frame] = pml4_index(a)
                /\ At4(T, s, a).user /\ ~ At4(T, s, a).large
           /\ At4(T, s, a).present /\ At3(T, s, a).present =>
                /\ SpaceFrame(kd, wh, lv, t, 2, At3(T, s, a).frame)
                /\ up[At3(T, s, a).frame] = At4(T, s, a).frame
                /\ at[At3(T, s, a).frame] = pdpt_index(a)
                /\ At3(T, s, a).user /\ ~ At3(T, s, a).large
           /\ At4(T, s, a).present /\ At3(T, s, a).present /\ At2(T, s, a).present =>
                /\ SpaceFrame(kd, wh, lv, t, 1, At2(T, s, a).frame)
                /\ up[At2(T, s, a).frame] = At3(T, s, a).frame
                /\ at[At2(T, s, a).frame] = pd_index(a)
                /\ At2(T, s, a).user /\ ~ At2(T, s, a).large
           /\ At4(T, s, a).present /\ At3(T, s, a).present /\ At2(T, s, a).present
              /\ At1(T, s, a).present =>
                /\ SpaceFrame(kd, wh, lv, t, 0, At1(T, s, a).frame)
                /\ up[At1(T, s, a).frame] = At2(T, s, a).frame
                /\ at[At1(T, s, a).frame] = pt_index(a)
                /\ At1(T, s, a).user /\ ~ At1(T, s, a).large
<1>1. /\ pml4_index(a) \in Index /\ pdpt_index(a) \in Index
      /\ pd_index(a) \in Index /\ pt_index(a) \in Index
  BY Indices
<1>2. ASSUME NEW f, NEW l \in 1..4, SpaceFrame(kd, wh, lv, t, l, f), NEW i \in Index,
             l = 4 => i # 0, T[f][i].present
      PROVE  /\ SpaceFrame(kd, wh, lv, t, l - 1, T[f][i].frame)
             /\ up[T[f][i].frame] = f /\ at[T[f][i].frame] = i
             /\ T[f][i].user /\ ~ T[f][i].large
  <2>1. DownLinks(T, kd, wh, lv, up, at)
    BY DEF Tree, Links
  <2> QED
    BY <1>2, <2>1 DEF DownLinks, SpaceFrame, SharedBranch
<1>3. ASSUME At4(T, s, a).present
      PROVE  /\ SpaceFrame(kd, wh, lv, t, 3, At4(T, s, a).frame)
             /\ up[At4(T, s, a).frame] = s /\ at[At4(T, s, a).frame] = pml4_index(a)
             /\ At4(T, s, a).user /\ ~ At4(T, s, a).large
  BY <1>1, <1>2, <1>3 DEF At4
<1>4. ASSUME At4(T, s, a).present, At3(T, s, a).present
      PROVE  /\ SpaceFrame(kd, wh, lv, t, 2, At3(T, s, a).frame)
             /\ up[At3(T, s, a).frame] = At4(T, s, a).frame
             /\ at[At3(T, s, a).frame] = pdpt_index(a)
             /\ At3(T, s, a).user /\ ~ At3(T, s, a).large
  BY <1>1, <1>2, <1>3, <1>4 DEF At3
<1>5. ASSUME At4(T, s, a).present, At3(T, s, a).present, At2(T, s, a).present
      PROVE  /\ SpaceFrame(kd, wh, lv, t, 1, At2(T, s, a).frame)
             /\ up[At2(T, s, a).frame] = At3(T, s, a).frame
             /\ at[At2(T, s, a).frame] = pd_index(a)
             /\ At2(T, s, a).user /\ ~ At2(T, s, a).large
  BY <1>1, <1>2, <1>4, <1>5 DEF At2
<1>6. ASSUME At4(T, s, a).present, At3(T, s, a).present, At2(T, s, a).present,
             At1(T, s, a).present
      PROVE  /\ SpaceFrame(kd, wh, lv, t, 0, At1(T, s, a).frame)
             /\ up[At1(T, s, a).frame] = At2(T, s, a).frame
             /\ at[At1(T, s, a).frame] = pt_index(a)
             /\ At1(T, s, a).user /\ ~ At1(T, s, a).large
  BY <1>1, <1>2, <1>5, <1>6 DEF At1
<1> QED
  BY <1>3, <1>4, <1>5, <1>6

(***************************************************************************)
(* Part 9.  The frames that vmm_destroy_address_space finds                *)
(***************************************************************************)

(* The frames of the space of thread t at level l *)
Level(kd, wh, lv, t, l) == {f \in Frames : SpaceFrame(kd, wh, lv, t, l, f)}

(* A frame of a space has the PML4 of its thread above it. *)
LEMMA HasTop ==
    ASSUME NEW T, NEW kd, NEW wh, NEW lv, NEW up, NEW at, Tree(T, kd, wh, lv, up, at),
           NEW f \in Frames, kd[f] = "space"
    PROVE  \E s \in Frames : SpaceFrame(kd, wh, lv, wh[f], 4, s)
<1>1. ASSUME NEW g \in Frames, kd[g] = "space", wh[g] = wh[f], lv[g] # 4
      PROVE  /\ up[g] \in Frames /\ kd[up[g]] = "space" /\ wh[up[g]] = wh[f]
             /\ lv[up[g]] = lv[g] + 1 /\ lv[g] \in 0..3
  <2>1. lv[g] \in 0..4 /\ lv[g] < 4
    BY <1>1 DEF Tree, RoleTypes
  <2> QED
    BY <1>1, <2>1 DEF Tree, Links, UpLinks
<1>2. ASSUME NEW g \in Frames, kd[g] = "space", wh[g] = wh[f], lv[g] = 4
      PROVE  \E s \in Frames : SpaceFrame(kd, wh, lv, wh[f], 4, s)
  BY <1>2 DEF SpaceFrame
<1>3. ASSUME NEW g \in Frames, kd[g] = "space", wh[g] = wh[f], lv[g] >= 3
      PROVE  \E s \in Frames : SpaceFrame(kd, wh, lv, wh[f], 4, s)
  <2>1. lv[g] \in 3..4
    BY <1>3 DEF Tree, RoleTypes
  <2> QED
    BY <1>1, <1>2, <1>3, <2>1
<1>4. ASSUME NEW g \in Frames, kd[g] = "space", wh[g] = wh[f], lv[g] >= 2
      PROVE  \E s \in Frames : SpaceFrame(kd, wh, lv, wh[f], 4, s)
  <2>1. lv[g] \in 2..4
    BY <1>4 DEF Tree, RoleTypes
  <2> QED
    BY <1>1, <1>3, <1>4, <2>1
<1>5. ASSUME NEW g \in Frames, kd[g] = "space", wh[g] = wh[f], lv[g] >= 1
      PROVE  \E s \in Frames : SpaceFrame(kd, wh, lv, wh[f], 4, s)
  <2>1. lv[g] \in 1..4
    BY <1>5 DEF Tree, RoleTypes
  <2> QED
    BY <1>1, <1>4, <1>5, <2>1
<1>6. lv[f] \in 0..4
  BY DEF Tree, RoleTypes
<1>7. CASE lv[f] = 0
  BY <1>1, <1>5, <1>7
<1> QED
  BY <1>5, <1>6, <1>7

(* Below the tables of one level are the frames of the next. *)
LEMMA NextLevel ==
    ASSUME NEW kd, NEW wh, NEW lv, NEW up, NEW at, Tree(tables, kd, wh, lv, up, at),
           NEW t, NEW l \in 0..2
    PROVE  /\ {e.frame : e \in PresentIn(Level(kd, wh, lv, t, l + 1))} = Level(kd, wh, lv, t, l)
           /\ \A e \in PresentIn(Level(kd, wh, lv, t, l + 1)) : e.user /\ ~ e.large
<1> DEFINE S == Level(kd, wh, lv, t, l + 1)
<1>1. ASSUME NEW e \in PresentIn(S)
      PROVE  e.frame \in Level(kd, wh, lv, t, l) /\ e.user /\ ~ e.large
  <2>1. PICK f \in S, i \in Index : e = tables[f][i] /\ e.present
    BY DEF PresentIn
  <2>2. f \in Frames /\ kd[f] = "space" /\ wh[f] = t /\ lv[f] = l + 1
    BY DEF Level, SpaceFrame
  <2>3. lv[f] > 0 /\ ~ SharedBranch(lv, f, i)
    BY <2>2 DEF SharedBranch
  <2>4. LET c == tables[f][i].frame
        IN  /\ c \in Frames /\ kd[c] = "space" /\ wh[c] = wh[f] /\ lv[c] = lv[f] - 1
            /\ tables[f][i].user /\ ~ tables[f][i].large
    BY <2>1, <2>2, <2>3 DEF Tree, Links, DownLinks
  <2> QED
    BY <2>1, <2>2, <2>4 DEF Level, SpaceFrame
<1>2. ASSUME NEW c \in Level(kd, wh, lv, t, l)
      PROVE  \E e \in PresentIn(S) : c = e.frame
  <2>1. c \in Frames /\ kd[c] = "space" /\ wh[c] = t /\ lv[c] = l /\ at[c] \in Index
    BY DEF Level, SpaceFrame, Tree, RoleTypes
  <2>2. /\ up[c] \in Frames /\ kd[up[c]] = "space" /\ wh[up[c]] = t /\ lv[up[c]] = l + 1
        /\ tables[up[c]][at[c]].present /\ tables[up[c]][at[c]].frame = c
    BY <2>1 DEF Tree, Links, UpLinks
  <2>3. up[c] \in S
    BY <2>2 DEF Level, SpaceFrame
  <2>4. tables[up[c]][at[c]] \in PresentIn(S)
    BY <2>1, <2>2, <2>3 DEF PresentIn
  <2> QED
    BY <2>2, <2>4
<1> QED
  BY <1>1, <1>2

(* vmm_destroy_address_space finds all tables and all pages of the space,   *)
(* and nothing else: the shared branch is the one of the kernel.            *)
LEMMA WholeSpace ==
    ASSUME NEW kd, NEW wh, NEW lv, NEW up, NEW at, Tree(tables, kd, wh, lv, up, at),
           NEW t, NEW s, Level(kd, wh, lv, t, 4) = {s}
    PROVE  /\ PrivateFrames(s).tables = {f \in Frames : kd[f] = "space" /\ wh[f] = t /\ lv[f] > 0}
           /\ PrivateFrames(s).pages = {f \in Frames : kd[f] = "space" /\ wh[f] = t /\ lv[f] = 0}
<1> DEFINE pdpts == {tables[s][i].frame : i \in PrivateBranches(s)}
           pds   == {e.frame : e \in PresentIn(pdpts)}
           pts   == {e.frame : e \in {x \in PresentIn(pds) : ~ x.large}}
           pages == {e.frame : e \in {x \in PresentIn(pts) : IsOwnPage(x)}}
<1>1. s \in Frames /\ kd[s] = "space" /\ wh[s] = t /\ lv[s] = 4
  BY DEF Level, SpaceFrame
<1>2. pdpts = Level(kd, wh, lv, t, 3)
  <2>1. \A i \in Index : i \in PrivateBranches(s) <=> i # 0 /\ tables[s][i].present
    <3>1. tables[s][0] = TableEntry(BootTables[2])
      BY <1>1 DEF Tree, Links, TopLinks
    <3>2. /\ tables[kernel_pml4][0] = TableEntry(BootTables[2])
          /\ \A i \in Index \ {0} : ~ tables[kernel_pml4][i].present
      BY DEF kernel_pml4, Tree, BootTop, EmptyTop
    <3> QED
      BY <3>1, <3>2 DEF PrivateBranches
  <2>2. PrivateBranches(s) \subseteq Index
    BY DEF PrivateBranches
  <2>3. ASSUME NEW i \in PrivateBranches(s)
        PROVE  tables[s][i].frame \in Level(kd, wh, lv, t, 3)
    <3>1. i \in Index /\ i # 0 /\ tables[s][i].present
      BY <2>1, <2>2
    <3>2. ~ SharedBranch(lv, s, i)
      BY <3>1 DEF SharedBranch
    <3>3. LET c == tables[s][i].frame
          IN  c \in Frames /\ kd[c] = "space" /\ wh[c] = wh[s] /\ lv[c] = lv[s] - 1
      BY <1>1, <3>1, <3>2 DEF Tree, Links, DownLinks
    <3> QED
      BY <1>1, <3>3 DEF Level, SpaceFrame
  <2>4. ASSUME NEW c \in Level(kd, wh, lv, t, 3)
        PROVE  \E i \in PrivateBranches(s) : c = tables[s][i].frame
    <3>1. c \in Frames /\ kd[c] = "space" /\ wh[c] = t /\ lv[c] = 3 /\ at[c] \in Index
      BY DEF Level, SpaceFrame, Tree, RoleTypes
    <3>2. /\ up[c] \in Frames /\ kd[up[c]] = "space" /\ wh[up[c]] = t /\ lv[up[c]] = 3 + 1
          /\ ~ SharedBranch(lv, up[c], at[c])
          /\ tables[up[c]][at[c]].present /\ tables[up[c]][at[c]].frame = c
      BY <3>1 DEF Tree, Links, UpLinks
    <3>3. up[c] = s
      BY <3>2 DEF Level, SpaceFrame
    <3> QED
      BY <1>1, <2>1, <3>1, <3>2, <3>3 DEF SharedBranch
  <2> QED
    BY <2>3, <2>4
<1> HIDE DEF pdpts
<1>3. pds = Level(kd, wh, lv, t, 2)
  BY <1>2, NextLevel
<1> HIDE DEF pds
<1>4. pts = Level(kd, wh, lv, t, 1)
  <2>1. /\ {e.frame : e \in PresentIn(pds)} = Level(kd, wh, lv, t, 1)
        /\ \A e \in PresentIn(pds) : ~ e.large
    BY <1>3, NextLevel
  <2> QED
    BY <2>1
<1> HIDE DEF pts
<1>5. pages = Level(kd, wh, lv, t, 0)
  <2>1. /\ {e.frame : e \in PresentIn(pts)} = Level(kd, wh, lv, t, 0)
        /\ \A e \in PresentIn(pts) : e.user
    BY <1>4, NextLevel
  <2> QED
    BY <2>1 DEF IsOwnPage
<1> HIDE DEF pages
<1>6. PrivateFrames(s) = [tables |-> {s} \cup pdpts \cup pds \cup pts, pages |-> pages]
  BY Zenon DEF PrivateFrames, pdpts, pds, pts, pages
<1>7. PrivateFrames(s).tables = {s} \cup pdpts \cup pds \cup pts /\ PrivateFrames(s).pages = pages
  BY <1>6
<1>8. {s} \cup pdpts \cup pds \cup pts = {f \in Frames : kd[f] = "space" /\ wh[f] = t /\ lv[f] > 0}
  <2>1. \A f \in Frames : lv[f] \in 0..4
    BY DEF Tree, RoleTypes
  <2>2. \A f \in Frames : lv[f] > 0 <=> lv[f] = 4 \/ lv[f] = 3 \/ lv[f] = 2 \/ lv[f] = 1
    BY <2>1
  <2>3. {s} \cup pdpts \cup pds \cup pts =
           Level(kd, wh, lv, t, 4) \cup Level(kd, wh, lv, t, 3)
             \cup Level(kd, wh, lv, t, 2) \cup Level(kd, wh, lv, t, 1)
    BY <1>2, <1>3, <1>4
  <2> QED
    BY <2>2, <2>3 DEF Level, SpaceFrame
<1> QED
  BY <1>5, <1>7, <1>8 DEF Level, SpaceFrame

(* The page tables below the PDs of the boot code are those of the large    *)
(* pages that are split.                                                    *)
LEMMA SharedAre ==
    ASSUME NEW kd, NEW wh, NEW lv, NEW up, NEW at, Tree(tables, kd, wh, lv, up, at)
    PROVE  SharedPts = {f \in Frames : kd[f] = "shared"}
<1>1. ASSUME NEW f \in Frames, kd[f] = "shared"
      PROVE  \E e \in PresentIn(BootPds) : ~ e.large /\ e.frame = f
  <2>1. PICK r \in LargePages : r = up[f] /\ PdEntry(tables, r) = TableEntry(f)
    BY <1>1 DEF Tree, BootPages
  <2>2. PdOf(r) \in BootPds
    <3>1. PICK i \in 0..(Len(BootTables) - 3) : i = r \div ENTRIES
      BY DEF LargePages
    <3>2. 3 + i \in 3..Len(BootTables)
      BY BootDistinct
    <3>3. PdOf(r) = BootTables[3 + i]
      BY <3>1 DEF PdOf
    <3> QED
      BY <3>2, <3>3 DEF BootPds
  <2>3. r % ENTRIES \in Index
    BY PdPlace
  <2>4. tables[PdOf(r)][r % ENTRIES] \in PresentIn(BootPds)
    BY <2>1, <2>2, <2>3, EntryFields DEF PresentIn, PdEntry
  <2> QED
    BY <2>1, <2>4, EntryFields DEF PdEntry
<1>2. ASSUME NEW e \in PresentIn(BootPds), ~ e.large
      PROVE  e.frame \in Frames /\ kd[e.frame] = "shared"
  <2>1. PICK f \in BootPds, i \in Index : e = tables[f][i] /\ e.present
    BY DEF PresentIn
  <2>2. PICK m \in 3..Len(BootTables) : f = BootTables[m]
    BY DEF BootPds
  <2>3. PICK E \in Nat \ {0}, k \in Nat, j \in Nat :
           /\ E = ENTRIES /\ k = m - 3 /\ j = i /\ j < E
           /\ k \in 0..(Len(BootTables) - 3) /\ f = BootTables[3 + k]
    <3>1. m - 3 \in 0..(Len(BootTables) - 3) /\ m = 3 + (m - 3)
      BY BootDistinct
    <3> QED
      BY <2>2, <3>1, Sizes DEF Index
  <2>4. PICK r \in Nat : r = E * k + j
    <3>1. E * k \in Nat
      OBVIOUS
    <3> QED
      BY <3>1
  <2>5. r \div E = k /\ r % E = j
    <3>1. E * k <= r /\ r < E * (k + 1) /\ E * k \in Nat
      <4>1. E * k \in Nat /\ E * (k + 1) = E * k + E
        OBVIOUS
      <4> QED
        BY <2>3, <2>4, <4>1
    <3>2. r \div E = k
      BY <3>1, QuotientUnique
    <3>3. r = E * (r \div E) + (r % E) /\ r % E \in 0..(E - 1)
      BY DivMod
    <3>4. PICK y \in Nat : y = r % E
      BY <3>3
    <3>5. r = E * k + y
      BY <3>2, <3>3, <3>4
    <3>6. y = j
      BY <2>4, <3>1, <3>5
    <3> QED
      BY <3>2, <3>4, <3>6
  <2>6. r \in LargePages /\ PdEntry(tables, r) = e
    BY <2>1, <2>3, <2>5 DEF LargePages, PdEntry, PdOf
  <2>7. PICK n \in Frames : kd[n] = "shared" /\ PdEntry(tables, r) = TableEntry(n)
    BY <1>2, <2>1, <2>6, EntryFields DEF Tree, BootPages
  <2> QED
    BY <2>6, <2>7, EntryFields
<1> QED
  BY <1>1, <1>2 DEF SharedPts

(***************************************************************************)
(* Part 10.  The invariant, and what follows from it                       *)
(***************************************************************************)

(* The guard of the kernel stack of a thread is unmapped from then on. *)
Late(r) == r.pc \notin {"unused", "guard", "guardsplit"}

LateGuard(thr, x) == \E t \in Tids : Late(thr[t]) /\ thr[t].guard = x

(* The demo has made the page of frame x accessible, or may do so. *)
Opens(r, x) ==
    r.prog = Demo /\ r.pc \in {"demomark", "demosplit", "user"} /\ r.frame = x

Opened(thr, ls, x) ==
    x \in {CodePage, CodePage + 1} \cup ls \/ \E t \in Tids : Opens(thr[t], x)

(* Entry e of the shared branch for frame x *)
PteOk(e, x, thr, ls) ==
    /\ e.present => e.frame = x
    /\ ~ e.present => LateGuard(thr, x)
    /\ e.present /\ e.user => Opened(thr, ls, x)

(* A page of the shared branch is mapped unless it is a guard, and          *)
(* accessible only if the demo opened it.                                   *)
Ptes(T, kd, up, thr, ls) ==
    \A n \in Frames, j \in Index :
        kd[n] = "shared" => PteOk(T[n][j], up[n] * ENTRIES + j, thr, ls)

(* The large page around a guard is split; the guard itself is unmapped,    *)
(* or the large page was split twice.                                       *)
GuardOut(T, kd, up, rs, x) ==
    \E n \in Frames : /\ kd[n] = "shared" /\ up[n] = X2(x)
                      /\ \/ ~ T[n][x % ENTRIES].present
                         \/ X2(x) * ENTRIES \in rs

Guards(T, kd, up, thr, rs) ==
    \A t \in Tids : Late(thr[t]) => GuardOut(T, kd, up, rs, thr[t].guard)

Stack(r) == r.guard..(r.guard + THREAD_STACK_PAGES)

(* The roles of the frames that a thread refers to *)
Uses(t, r, kd, wh, lv) ==
    /\ r.pc # "unused" => Stack(r) \subseteq Frames
    /\ \A f \in Frames :
        /\ kd[f] = "stack" /\ wh[f] = t <=> r.pc # "unused" /\ f \in Stack(r)
        /\ kd[f] = "hand" /\ wh[f] = t <=> f # 0 /\ f \in {r.frame, r.table}
        /\ SpaceFrame(kd, wh, lv, t, 4, f) <=> f = r.space /\ f # kernel_pml4

Threads(thr, kd, wh, lv) == \A t \in Tids : Uses(t, thr[t], kd, wh, lv)

Holdings(hl, hp, ls, kd) ==
    \A f \in Frames : /\ f \in hl <=> kd[f] \notin {"none", "boot"}
                      /\ f \in hp <=> kd[f] = "heap"
                      /\ f \in ls <=> kd[f] = "lost"

(* Frame g is the page of thread t at address a. *)
Maps(kd, wh, lv, up, at, t, g, a) ==
    /\ SpaceFrame(kd, wh, lv, t, 0, g)
    /\ at[g] = pt_index(a) /\ at[up[g]] = pd_index(a)
    /\ at[up[up[g]]] = pdpt_index(a) /\ at[up[up[up[g]]]] = pml4_index(a)

(* Thread t finds page c at address a. *)
Finds(kd, wh, lv, up, at, M, t, a, c) ==
    \E g \in Frames : Maps(kd, wh, lv, up, at, t, g, a) /\ M[g] = c

(* What segment i of program p puts into its page at va *)
Image(t, p, i, va) ==
    [k \in 0..(PAGE_SIZE - 1) |-> SegmentByte(p, i, (va + k - load_bias(t)) % WORD)]

(* elf_load has been at page va of segment i, *)
Loaded(t, r, i, va) ==
    /\ va \in SegmentPages(r.prog.phdrs[i], load_bias(t))
    /\ i < r.seg \/ (i = r.seg /\ va < r.va) \/ r.pc \in {"stack", "stackpage"}

(* and at that page for no later segment. *)
Latest(t, r, i, va) ==
    /\ Loaded(t, r, i, va)
    /\ \A j \in Loads(r.prog) : Loaded(t, r, j, va) => j <= i

(* What thread t finds in its memory, M, where v is what it must find: what *)
(* elf_load has loaded so far, then v.  A stack grows by a zeroed page      *)
(* where there is none.                                                     *)
Memory(t, r, M, v, kd, wh, lv, up, at) ==
    /\ r.pc \in {"segment", "page", "stack", "stackpage"} =>
          \A i \in Loads(r.prog) : \A va : Latest(t, r, i, va) =>
              Finds(kd, wh, lv, up, at, M, t, va, Image(t, r.prog, i, va))
    /\ r.pc \notin {"register", "user", "fault"} => DOMAIN v = {}
    /\ \A va \in DOMAIN v : /\ va \in SlotPages(t)
                            /\ Finds(kd, wh, lv, up, at, M, t, va, v[va])
    /\ r.pc = "fault" => /\ M[r.frame] = ZeroPage
                         /\ \A g \in Frames : ~ Maps(kd, wh, lv, up, at, t, g, r.va)

Roles(kd, wh, lv, up, at) ==
    /\ Tree(tables, kd, wh, lv, up, at)
    /\ Ptes(tables, kd, up, th, lost)
    /\ Guards(tables, kd, up, th, resplit)
    /\ Threads(th, kd, wh, lv)
    /\ Holdings(held, heap, lost, kd)
    /\ \A t \in Tids : Memory(t, th[t], mem, view[t], kd, wh, lv, up, at)

FrameInv ==
    /\ heap \subseteq Frames /\ lost \subseteq Frames
    /\ \E kd, wh, lv, up, at : Roles(kd, wh, lv, up, at)

(* What a thread has at each place *)
HasFrame(r) ==
    \/ r.pc \in {"page", "stackpage", "fault", "demospace", "demomark", "demosplit"}
    \/ r.pc = "user" /\ r.prog = Demo

SpacelessPc == {"unused", "guard", "guardsplit", "new", "demospace"}

Fields(t, r) ==
    /\ r.frame # 0 <=> HasFrame(r)
    /\ r.table # 0 <=> r.pc \in {"guardsplit", "demosplit"}
    /\ r.table # 0 => r.table # r.frame
    /\ r.pc \in SpacelessPc => r.space = kernel_pml4
    /\ r.pc \notin SpacelessPc \cup {"zombie"} => r.space # kernel_pml4
    /\ r.pc \in {"guardsplit", "demospace", "demomark", "demosplit"} => r.prog = Demo
    /\ r.pc \in {"segment", "page", "stack", "stackpage", "register", "fault"}
          => r.prog \in Program
    /\ r.pc \in {"segment", "page", "stack", "stackpage", "register", "fault", "user"}
          /\ r.prog # Demo => LayoutOk(t)
    /\ r.pc \in {"segment", "page"} /\ r.prog.phdrs[r.seg].type = "LOAD" =>
          /\ r.va % PAGE_SIZE = 0
          /\ r.va >= PageOf(segment_vaddr(r.prog.phdrs[r.seg], load_bias(t)))
    /\ r.pc = "page" => r.va \in SegmentPages(r.prog.phdrs[r.seg], load_bias(t))
    /\ r.pc = "fault" => r.va \in SlotPages(t)
    /\ r.pc \in {"demomark", "demosplit"} => r.seg \in 1..3

(* A region of stack_regions belongs to a program that has its stack, or    *)
(* was put back; and so does all but the first region of an address space,  *)
(* in the list and in what a push has read of it.                           *)
Region == [space : Frames, top : Span(4)..(2 * Span(4)), limit : Span(4)..(2 * Span(4))]

HasStack(r, s) == r.space = s /\ s # kernel_pml4 /\ r.pc \in {"user", "fault", "zombie"}

Unique(list, K) ==
    \A i, j \in DOMAIN list : i < j /\ list[i].space = list[j].space => list[j] \in K

RegionsInv ==
    /\ regions \in [list : Seq(Region), read : [Tids -> Seq(Region)], relinked : SUBSET Region]
    /\ \A i \in DOMAIN regions.list : \/ regions.list[i] \in regions.relinked
                                      \/ \E t \in Tids : HasStack(th[t], regions.list[i].space)
    /\ Unique(regions.list, regions.relinked)
    /\ \A u \in Tids : Unique(regions.read[u], regions.relinked)

(* The counters, and the time before the first spawn *)
Counters ==
    /\ irqs_off \in Tids \cup {NoTid} /\ spawns \in 0..MaxSpawns
    /\ spawns = 0 => held = heap /\ \A t \in Tids : th[t].pc = "unused"

SchedOk == current \in Tids \cup {NoTid} /\ switches \in 0..MaxSwitches

SpaceInv ==
    /\ IInv
    /\ LoaderInv /\ DOMAIN view = Tids
    /\ FrameInv
    /\ \A t \in Tids : Fields(t, th[t])
    /\ RegionsInv
    /\ Counters

(* The roles are those of the owners that FramesAccounted speaks of. *)
LEMMA OwnersAre ==
    ASSUME SpaceInv, NEW kd, NEW wh, NEW lv, NEW up, NEW at, Roles(kd, wh, lv, up, at),
           NEW o \in Owners
    PROVE  /\ OwnedBy(o) = {f \in Frames : kd[f] = o[1]
                               /\ (o[1] \in {"stack", "hand", "space"} => wh[f] = o[2])}
           /\ o[1] \in {"shared", "heap", "lost"} => o[2] = NoTid
           /\ o = <<o[1], o[2]>>
<1>1. ASSUME NEW t \in Alive
      PROVE  /\ KernelStack(t) = {f \in Frames : kd[f] = "stack" /\ wh[f] = t}
             /\ InHand(t) = {f \in Frames : kd[f] = "hand" /\ wh[f] = t}
  <2>1. /\ t \in Tids /\ th[t].pc # "unused" /\ Uses(t, th[t], kd, wh, lv)
        /\ th[t].frame \in Frames /\ th[t].table \in Frames /\ th[t].guard \in Nat
    BY ThreadTypes, FrameFacts DEF Alive, SpaceInv, Roles, Threads
  <2>2. KernelStack(t) = Stack(th[t])
    <3>1. PICK g \in Nat, n \in Nat : g = th[t].guard /\ n = THREAD_STACK_PAGES
      BY <2>1, VmmAssumption
    <3>2. {g + i : i \in 0..n} = g..(g + n)
      <4>1. ASSUME NEW x \in g..(g + n) PROVE \E i \in 0..n : x = g + i
        <5>1. x - g \in 0..n /\ x = g + (x - g)
          OBVIOUS
        <5> QED
          BY <5>1
      <4> QED
        BY <4>1
    <3> QED
      BY <3>1, <3>2 DEF KernelStack, Stack
  <2> QED
    BY <2>1, <2>2 DEF Uses, InHand
<1>2. ASSUME NEW t \in WithSpace
      PROVE  LET own == PrivateFrames(th[t].space)
             IN  own.tables \cup own.pages = {f \in Frames : kd[f] = "space" /\ wh[f] = t}
  <2>1. t \in Tids /\ th[t].space # kernel_pml4 /\ Uses(t, th[t], kd, wh, lv)
        /\ th[t].space \in Frames
    BY ThreadTypes DEF WithSpace, SpaceInv, Roles, Threads
  <2>2. Level(kd, wh, lv, t, 4) = {th[t].space}
    BY <2>1 DEF Level, Uses
  <2>3. /\ PrivateFrames(th[t].space).tables =
               {f \in Frames : kd[f] = "space" /\ wh[f] = t /\ lv[f] > 0}
        /\ PrivateFrames(th[t].space).pages =
               {f \in Frames : kd[f] = "space" /\ wh[f] = t /\ lv[f] = 0}
    BY <2>2, WholeSpace DEF Roles
  <2>4. \A f \in Frames : lv[f] > 0 \/ lv[f] = 0
    BY DEF Roles, Tree, RoleTypes
  <2> QED
    BY <2>3, <2>4
<1>3. SharedPts = {f \in Frames : kd[f] = "shared"}
  BY SharedAre DEF Roles
<1>4. /\ heap = {f \in Frames : kd[f] = "heap"} /\ lost = {f \in Frames : kd[f] = "lost"}
  BY DEF Roles, Holdings, SpaceInv, FrameInv
<1>5. CASE o \in {<<"stack", t>> : t \in Alive}
  <2>1. PICK t \in Alive : o = <<"stack", t>>
    BY <1>5
  <2>2. o[1] = "stack" /\ o[2] = t
    BY <2>1
  <2>3. OwnedBy(o) = KernelStack(t)
    BY <2>2 DEF OwnedBy
  <2> QED
    BY <1>1, <2>1, <2>2, <2>3
<1>6. CASE o \in {<<"hand", t>> : t \in Alive}
  <2>1. PICK t \in Alive : o = <<"hand", t>>
    BY <1>6
  <2>2. o[1] = "hand" /\ o[2] = t
    BY <2>1
  <2>3. OwnedBy(o) = InHand(t)
    BY <2>2 DEF OwnedBy
  <2> QED
    BY <1>1, <2>1, <2>2, <2>3
<1>7. CASE o \in {<<"space", t>> : t \in WithSpace}
  <2>1. PICK t \in WithSpace : o = <<"space", t>>
    BY <1>7
  <2>2. o[1] = "space" /\ o[2] = t
    BY <2>1
  <2>3. OwnedBy(o) = LET own == PrivateFrames(th[t].space) IN own.tables \cup own.pages
    BY <2>2 DEF OwnedBy
  <2> QED
    BY <1>2, <2>1, <2>2, <2>3
<1>8. CASE o \in {<<k, NoTid>> : k \in {"shared", "heap", "lost"}}
  <2>1. PICK k \in {"shared", "heap", "lost"} : o = <<k, NoTid>>
    BY <1>8
  <2>2. o[1] = k /\ o[2] = NoTid
    BY <2>1
  <2>3. OwnedBy(o) = IF k = "shared" THEN SharedPts ELSE IF k = "heap" THEN heap ELSE lost
    BY <2>1, <2>2 DEF OwnedBy
  <2> QED
    BY <1>3, <1>4, <2>1, <2>2, <2>3
<1> QED
  BY <1>5, <1>6, <1>7, <1>8 DEF Owners

(* Every frame that was handed out has one owner. *)
LEMMA AccountedFrom == SpaceInv /\ SchedOk => FramesAccounted
<1> SUFFICES ASSUME SpaceInv, SchedOk PROVE FramesAccounted
  OBVIOUS
<1>1. PICK kd, wh, lv, up, at : Roles(kd, wh, lv, up, at)
  BY DEF SpaceInv, FrameInv
<1> DEFINE owned == [o \in Owners |-> OwnedBy(o)]
           Of(o) == {f \in Frames : kd[f] = o[1]
                               /\ (o[1] \in {"stack", "hand", "space"} => wh[f] = o[2])}
<1>2. \A o \in Owners : /\ owned[o] = Of(o) /\ o = <<o[1], o[2]>>
                        /\ o[1] \in {"shared", "heap", "lost"} => o[2] = NoTid
  BY <1>1, OwnersAre
<1>3. \A o \in Owners : o[1] \in {"stack", "hand", "space", "shared", "heap", "lost"}
  BY DEF Owners
<1> HIDE DEF owned
<1>4. TypeOK
  <2>1. PmmTypeOK
    BY DEF SpaceInv, IInv
  <2>2. /\ DOMAIN tables \subseteq Frames
        /\ \A f \in DOMAIN tables : tables[f] \in [Index -> Entry]
    BY <1>1 DEF Roles, Tree, TablesAre
  <2>3. \A t \in Tids : /\ th[t].pc \in PC
                        /\ {th[t].space, th[t].frame, th[t].table, th[t].guard} \subseteq Frames
    BY ThreadTypes DEF SpaceInv
  <2>4. \A n \in Nodes(regions.list) :
            n.space \in Frames /\ {n.limit, n.top} \subseteq Span(4)..(2 * Span(4))
    <3>1. \A i \in DOMAIN regions.list : regions.list[i] \in Region
      <4>1. regions.list \in Seq(Region)
        BY DEF SpaceInv, RegionsInv
      <4> QED
        BY <4>1, LenProperties, ElementOfSeq
    <3> QED
      BY <3>1 DEF Region, Nodes
  <2> QED
    BY <2>1, <2>2, <2>3, <2>4 DEF TypeOK, SpaceInv, Counters, SchedOk, FrameInv
<1>5. ASSUME NEW f \in held
      PROVE  \E o \in Owners : f \in owned[o]
  <2>1. f \in Frames /\ kd[f] \in Kinds /\ kd[f] \notin {"none", "boot"}
    BY <1>1 DEF SpaceInv, IInv, PmmTypeOK, Roles, Holdings, Tree, RoleTypes
  <2>2. kd[f] \in {"stack", "hand", "space"} => wh[f] \in Tids
    BY <1>1, <2>1 DEF Roles, Tree, RoleTypes
  <2>3. CASE kd[f] \in {"shared", "heap", "lost"}
    <3>1. PICK o : o = <<kd[f], NoTid>>
      OBVIOUS
    <3>2. o \in Owners
      BY <2>3, <3>1 DEF Owners
    <3>3. f \in Of(o)
      BY <2>1, <2>3, <3>1
    <3> QED
      BY <1>2, <3>2, <3>3
  <2>4. CASE kd[f] \in {"stack", "hand", "space"}
    <3>1. PICK t \in Tids : t = wh[f]
      BY <2>2, <2>4
    <3>2. Uses(t, th[t], kd, wh, lv) /\ Fields(t, th[t])
      BY <1>1 DEF Roles, Threads, SpaceInv
    <3>3. PICK o : o = <<kd[f], t>>
      OBVIOUS
    <3>4. o[1] = kd[f] /\ o[2] = t
      BY <3>3
    <3>5. CASE kd[f] = "stack"
      <4>1. t \in Alive
        BY <2>1, <3>1, <3>2, <3>5 DEF Alive, Uses
      <4>2. o \in Owners
        BY <3>3, <3>5, <4>1 DEF Owners
      <4> QED
        BY <1>2, <2>1, <3>1, <3>4, <4>2
    <3>6. CASE kd[f] = "hand"
      <4>1. t \in Alive
        BY <2>1, <3>1, <3>2, <3>6 DEF Alive, Uses, Fields, HasFrame
      <4>2. o \in Owners
        BY <3>3, <3>6, <4>1 DEF Owners
      <4> QED
        BY <1>2, <2>1, <3>1, <3>4, <4>2
    <3>7. CASE kd[f] = "space"
      <4>1. PICK s \in Frames : SpaceFrame(kd, wh, lv, t, 4, s)
        BY <1>1, <2>1, <3>1, <3>7, HasTop DEF Roles
      <4>2. t \in WithSpace
        BY <3>2, <4>1 DEF Uses, WithSpace
      <4>3. o \in Owners
        BY <3>3, <3>7, <4>2 DEF Owners
      <4> QED
        BY <1>2, <2>1, <3>1, <3>4, <4>3
    <3> QED
      BY <2>4, <3>5, <3>6, <3>7
  <2> QED
    BY <2>1, <2>3, <2>4 DEF Kinds
<1>6. ASSUME NEW o \in Owners, NEW f \in owned[o] PROVE f \in held
  <2>1. f \in Frames /\ kd[f] \notin {"none", "boot"}
    BY <1>2, <1>3
  <2> QED
    BY <1>1, <2>1 DEF Roles, Holdings
<1>7. held = UNION {owned[o] : o \in Owners}
  BY <1>5, <1>6
<1>8. ASSUME NEW o1 \in Owners, NEW o2 \in Owners, o1 # o2
      PROVE  owned[o1] \cap owned[o2] = {}
  <2>1. ASSUME NEW f \in owned[o1], f \in owned[o2] PROVE FALSE
    <3>1. kd[f] = o1[1] /\ kd[f] = o2[1]
      BY <1>2, <2>1
    <3>2. o1[2] = o2[2]
      BY <1>2, <1>3, <2>1, <3>1
    <3> QED
      BY <1>2, <1>8, <3>1, <3>2
  <2> QED
    BY <2>1
<1> QED
  BY <1>4, <1>7, <1>8 DEF FramesAccounted, owned

(* The space of a thread is one PML4. *)
LEMMA SpaceOf ==
    ASSUME SpaceInv, NEW kd, NEW wh, NEW lv, NEW up, NEW at, Roles(kd, wh, lv, up, at),
           NEW t \in Tids, th[t].space # kernel_pml4
    PROVE  /\ th[t].space \in Frames /\ SpaceFrame(kd, wh, lv, t, 4, th[t].space)
           /\ Level(kd, wh, lv, t, 4) = {th[t].space}
<1>1. Uses(t, th[t], kd, wh, lv) /\ th[t].space \in Frames
  BY ThreadTypes DEF SpaceInv, Roles, Threads
<1> QED
  BY <1>1 DEF Level, Uses

(* The page at an address is what a walk to the address finds. *)
LEMMA MapsWalk ==
    ASSUME NEW T, NEW kd, NEW wh, NEW lv, NEW up, NEW at, Tree(T, kd, wh, lv, up, at),
           NEW t, NEW s, Level(kd, wh, lv, t, 4) = {s},
           NEW g, NEW a, Maps(kd, wh, lv, up, at, t, g, a)
    PROVE  /\ At4(T, s, a).present /\ At4(T, s, a).user
           /\ At3(T, s, a).present /\ At3(T, s, a).user
           /\ At2(T, s, a).present /\ At2(T, s, a).user /\ ~ At2(T, s, a).large
           /\ At1(T, s, a).present /\ At1(T, s, a).user /\ At1(T, s, a).frame = g
<1>1. ASSUME NEW f \in Frames, NEW l \in 0..3, SpaceFrame(kd, wh, lv, t, l, f)
      PROVE  /\ SpaceFrame(kd, wh, lv, t, l + 1, up[f])
             /\ T[up[f]][at[f]].present /\ T[up[f]][at[f]].user
             /\ ~ T[up[f]][at[f]].large /\ T[up[f]][at[f]].frame = f
  <2>1. l < 4
    OBVIOUS
  <2>2. /\ up[f] \in Frames /\ kd[up[f]] = "space" /\ wh[up[f]] = wh[f]
        /\ lv[up[f]] = lv[f] + 1 /\ ~ SharedBranch(lv, up[f], at[f])
        /\ T[up[f]][at[f]].present /\ T[up[f]][at[f]].frame = f
    BY <1>1, <2>1 DEF Tree, Links, UpLinks, SpaceFrame
  <2>3. at[f] \in Index /\ lv[up[f]] > 0
    BY <1>1, <2>2 DEF Tree, RoleTypes, SpaceFrame
  <2>4. T[up[f]][at[f]].user /\ ~ T[up[f]][at[f]].large
    BY <2>2, <2>3 DEF Tree, Links, DownLinks
  <2> QED
    BY <1>1, <2>2, <2>4 DEF SpaceFrame
<1>2. g \in Frames /\ SpaceFrame(kd, wh, lv, t, 0, g)
  BY DEF Maps, SpaceFrame
<1>3. /\ SpaceFrame(kd, wh, lv, t, 1, up[g]) /\ up[g] \in Frames
      /\ T[up[g]][at[g]].present /\ T[up[g]][at[g]].user /\ T[up[g]][at[g]].frame = g
  <2>1. SpaceFrame(kd, wh, lv, t, 0 + 1, up[g])
    BY <1>1, <1>2
  <2> QED
    BY <1>1, <1>2, <2>1 DEF SpaceFrame
<1> DEFINE g1 == up[g]
           g2 == up[g1]
           g3 == up[g2]
<1>4. /\ SpaceFrame(kd, wh, lv, t, 2, g2) /\ g2 \in Frames
      /\ T[g2][at[g1]].present /\ T[g2][at[g1]].user
      /\ ~ T[g2][at[g1]].large /\ T[g2][at[g1]].frame = g1
  <2>1. SpaceFrame(kd, wh, lv, t, 1 + 1, g2)
    BY <1>1, <1>3
  <2> QED
    BY <1>1, <1>3, <2>1 DEF SpaceFrame
<1> HIDE DEF g1, g2, g3
<1>5. /\ SpaceFrame(kd, wh, lv, t, 3, g3) /\ g3 \in Frames
      /\ T[g3][at[g2]].present /\ T[g3][at[g2]].user /\ T[g3][at[g2]].frame = g2
  <2>1. SpaceFrame(kd, wh, lv, t, 2 + 1, g3)
    BY <1>1, <1>4 DEF g3
  <2> QED
    BY <1>1, <1>4, <2>1 DEF SpaceFrame, g3
<1>6. /\ SpaceFrame(kd, wh, lv, t, 4, up[g3]) /\ up[g3] \in Frames
      /\ T[up[g3]][at[g3]].present /\ T[up[g3]][at[g3]].user /\ T[up[g3]][at[g3]].frame = g3
  <2>1. SpaceFrame(kd, wh, lv, t, 3 + 1, up[g3])
    BY <1>1, <1>5
  <2> QED
    BY <1>1, <1>5, <2>1 DEF SpaceFrame
<1>7. up[g3] = s
  BY <1>6 DEF Level
<1>8. /\ at[g] = pt_index(a) /\ at[g1] = pd_index(a)
      /\ at[g2] = pdpt_index(a) /\ at[g3] = pml4_index(a)
  BY DEF Maps, g1, g2, g3
<1>9. At4(T, s, a) = T[up[g3]][at[g3]]
  BY <1>7, <1>8 DEF At4
<1>10. At3(T, s, a) = T[g3][at[g2]]
  BY <1>6, <1>8, <1>9 DEF At3
<1>11. At2(T, s, a) = T[g2][at[g1]]
  BY <1>5, <1>8, <1>10 DEF At2
<1>12. At1(T, s, a) = T[g1][at[g]]
  BY <1>4, <1>8, <1>11 DEF At1
<1> QED
  BY <1>3, <1>4, <1>5, <1>6, <1>9, <1>10, <1>11, <1>12 DEF g1

(* And the walk finds the page at the address. *)
LEMMA WalkMaps ==
    ASSUME NEW T, NEW kd, NEW wh, NEW lv, NEW up, NEW at, Tree(T, kd, wh, lv, up, at),
           NEW t, NEW s, SpaceFrame(kd, wh, lv, t, 4, s), NEW a \in Nat, pml4_index(a) # 0,
           At4(T, s, a).present, At3(T, s, a).present, At2(T, s, a).present,
           At1(T, s, a).present
    PROVE  Maps(kd, wh, lv, up, at, t, At1(T, s, a).frame, a)
BY PrivateWalk DEF Maps

(* A program finds in its memory what it must find there. *)
LEMMA MemoryFrom == SpaceInv => MemoryPrivate
<1> SUFFICES ASSUME SpaceInv, NEW t \in Tids, th[t].pc \in {"user", "fault"},
                    NEW va \in DOMAIN view[t]
             PROVE  /\ vmm_is_user_accessible_in(th[t].space, va)
                    /\ mem[L1(th[t].space, va).frame] = view[t][va]
  BY DEF MemoryPrivate
<1>1. PICK kd, wh, lv, up, at : Roles(kd, wh, lv, up, at)
  BY DEF SpaceInv, FrameInv
<1>2. th[t].space # kernel_pml4
  BY DEF SpaceInv, Fields, SpacelessPc
<1>3. Level(kd, wh, lv, t, 4) = {th[t].space}
  BY <1>1, <1>2, SpaceOf
<1>4. PICK g \in Frames : Maps(kd, wh, lv, up, at, t, g, va) /\ mem[g] = view[t][va]
  BY <1>1 DEF Roles, Memory, Finds
<1>5. Tree(tables, kd, wh, lv, up, at)
  BY <1>1 DEF Roles
<1> DEFINE s == th[t].space
<1>6. /\ At4(tables, s, va).present /\ At4(tables, s, va).user
      /\ At3(tables, s, va).present /\ At3(tables, s, va).user
      /\ At2(tables, s, va).present /\ At2(tables, s, va).user /\ ~ At2(tables, s, va).large
      /\ At1(tables, s, va).present /\ At1(tables, s, va).user /\ At1(tables, s, va).frame = g
  BY <1>3, <1>4, <1>5, MapsWalk
<1> HIDE DEF s
<1>7. vmm_is_user_accessible_in(s, va) /\ L1(s, va).frame = g
  BY <1>6, WalkIs DEF vmm_is_user_accessible_in
<1> QED
  BY <1>4, <1>7 DEF s

(* What the shared branch has for a frame of usable memory. *)
LEMMA UsableEntry ==
    ASSUME NEW T, NEW kd, NEW wh, NEW lv, NEW up, NEW at, Tree(T, kd, wh, lv, up, at),
           NEW x \in Usable
    PROVE  /\ x \in Frames /\ X2(x) \in LargePages
           /\ \/ PdEntry(T, X2(x)) = LargeEntry(X2(x) * ENTRIES)
              \/ \E n \in Frames : kd[n] = "shared" /\ up[n] = X2(x)
                                   /\ PdEntry(T, X2(x)) = TableEntry(n)
<1>1. x \in Frames
  BY PmmAssumption
<1>2. X2(x) \in LargePages
  BY <1>1, IdentityWalk, Tops DEF Tree
<1>3. PICK r \in LargePages : r = X2(x)
  BY <1>2
<1>4. \/ PdEntry(T, r) = LargeEntry(r * ENTRIES)
      \/ \E n \in Frames : kd[n] = "shared" /\ up[n] = r /\ PdEntry(T, r) = TableEntry(n)
  BY <1>3 DEF Tree, BootPages
<1> QED
  BY <1>1, <1>3, <1>4

(* A frame that is no guard is mapped at its own address. *)
LEMMA IdentityMapped ==
    ASSUME NEW kd, NEW wh, NEW lv, NEW up, NEW at, Roles(kd, wh, lv, up, at),
           NEW x \in Usable, ~ LateGuard(th, x)
    PROVE  vmm_is_mapped_in(kernel_pml4, Addr(x))
<1> DEFINE T == tables
           s == kernel_pml4
           a == Addr(x)
<1>1. Tree(T, kd, wh, lv, up, at)
  BY DEF Roles
<1>2. x \in Frames /\ X2(x) \in LargePages
  BY <1>1, UsableEntry
<1>3. BootTop(T) /\ IsTop(T, s)
  BY <1>1, Tops DEF Tree
<1>4. /\ At4(T, s, a) = TableEntry(BootTables[2]) /\ At3(T, s, a) = TableEntry(PdOf(X2(x)))
      /\ At2(T, s, a) = PdEntry(T, X2(x))
      /\ At1(T, s, a) = T[PdEntry(T, X2(x)).frame][x % ENTRIES]
  BY <1>2, <1>3, IdentityWalk
<1> HIDE DEF T, s, a
<1>5. CASE PdEntry(T, X2(x)) = LargeEntry(X2(x) * ENTRIES)
  <2>1. At4(T, s, a).present /\ At3(T, s, a).present /\ At2(T, s, a).present /\ At2(T, s, a).large
    BY <1>4, <1>5, EntryFields
  <2> QED
    BY <2>1, WalkIs DEF vmm_is_mapped_in, PdPresent, T, s, a
<1>6. ASSUME NEW n \in Frames, kd[n] = "shared", up[n] = X2(x), PdEntry(T, X2(x)) = TableEntry(n)
      PROVE  vmm_is_mapped_in(s, a)
  <2>1. x % ENTRIES \in Index /\ X2(x) * ENTRIES + (x % ENTRIES) = x
    BY <1>2, IdentityIndices
  <2>2. PteOk(T[n][x % ENTRIES], up[n] * ENTRIES + (x % ENTRIES), th, lost)
    BY <1>6, <2>1 DEF Roles, Ptes, T
  <2>3. PteOk(T[n][x % ENTRIES], x, th, lost)
    BY <1>6, <2>1, <2>2
  <2>4. T[n][x % ENTRIES].present
    BY <2>3 DEF PteOk
  <2>5. At4(T, s, a).present /\ At3(T, s, a).present /\ At2(T, s, a).present /\ At1(T, s, a).present
    BY <1>4, <1>6, <2>4, EntryFields
  <2> QED
    BY <2>5, WalkIs DEF vmm_is_mapped_in, PdPresent, T
<1> QED
  BY <1>1, <1>5, <1>6, UsableEntry DEF s, a

(* The kernel reaches the frames that are free or about to be filled. *)
LEMMA MappedFrom == SpaceInv => FreeFramesMapped
<1> SUFFICES ASSUME SpaceInv, NEW x \in (Frames \ used) \cup UNION {InHand(t) : t \in Tids}
             PROVE  vmm_is_mapped_in(kernel_pml4, Addr(x))
  BY DEF FreeFramesMapped
<1>1. PICK kd, wh, lv, up, at : Roles(kd, wh, lv, up, at)
  BY DEF SpaceInv, FrameInv
<1>2. x \in Usable /\ x \in Frames /\ kd[x] # "stack"
  <2>1. CASE x \in Frames \ used
    <3>1. x \in Usable /\ x \notin held
      BY <2>1 DEF SpaceInv, IInv, BitmapExact
    <3> QED
      BY <1>1, <2>1, <3>1 DEF Roles, Holdings
  <2>2. ASSUME NEW t \in Tids, x \in InHand(t)
        PROVE  x \in Usable /\ x \in Frames /\ kd[x] # "stack"
    <3>1. x # 0 /\ x \in {th[t].frame, th[t].table} /\ x \in Frames
      BY <2>2, ThreadTypes DEF InHand, SpaceInv
    <3>2. kd[x] = "hand"
      BY <1>1, <3>1 DEF Roles, Threads, Uses
    <3>3. x \in held
      BY <1>1, <3>1, <3>2 DEF Roles, Holdings
    <3> QED
      BY <3>1, <3>2, <3>3 DEF SpaceInv, IInv, BitmapExact
  <2> QED
    BY <2>1, <2>2
<1>3. ~ LateGuard(th, x)
  <2>1. SUFFICES ASSUME NEW t \in Tids, Late(th[t]), th[t].guard = x PROVE FALSE
    BY DEF LateGuard
  <2>2. th[t].pc # "unused" /\ Uses(t, th[t], kd, wh, lv)
    BY <1>1, <2>1 DEF Late, Roles, Threads
  <2>3. x \in Stack(th[t])
    BY <1>2, <2>1, VmmAssumption, FrameFacts DEF Stack
  <2> QED
    BY <1>2, <2>2, <2>3 DEF Uses
<1> QED
  BY <1>1, <1>2, <1>3, IdentityMapped

(* The guards of kernel stacks are unmapped. *)
LEMMA GuardsFrom == SpaceInv => GuardsUnmapped
<1> SUFFICES ASSUME SpaceInv, NEW t \in Tids, th[t].pc \notin {"unused", "guard", "guardsplit"}
             PROVE  \/ ~ vmm_is_mapped_in(kernel_pml4, Addr(th[t].guard))
                    \/ RegionOf(Addr(th[t].guard)) \in resplit
  BY DEF GuardsUnmapped
<1>1. PICK kd, wh, lv, up, at : Roles(kd, wh, lv, up, at)
  BY DEF SpaceInv, FrameInv
<1>2. PICK x \in Frames : x = th[t].guard
  BY ThreadTypes DEF SpaceInv
<1>3. PICK n \in Frames : /\ kd[n] = "shared" /\ up[n] = X2(x)
                          /\ ~ tables[n][x % ENTRIES].present \/ X2(x) * ENTRIES \in resplit
  BY <1>1, <1>2 DEF Roles, Guards, GuardOut, Late
<1>4. RegionOf(Addr(x)) = X2(x) * ENTRIES
  BY IdentityIndices
<1>5. CASE ~ tables[n][x % ENTRIES].present
  <2> DEFINE T == tables
             s == kernel_pml4
             a == Addr(x)
  <2>1. Tree(T, kd, wh, lv, up, at)
    BY <1>1 DEF Roles
  <2>2. X2(x) \in LargePages /\ PdEntry(T, X2(x)) = TableEntry(n)
    BY <1>3, <2>1 DEF Tree, BootPages
  <2>3. BootTop(T) /\ IsTop(T, s)
    BY <2>1, Tops DEF Tree
  <2>4. /\ At2(T, s, a) = PdEntry(T, X2(x))
        /\ At1(T, s, a) = T[PdEntry(T, X2(x)).frame][x % ENTRIES]
    BY <2>2, <2>3, IdentityWalk
  <2>5. ~ At2(T, s, a).large /\ ~ At1(T, s, a).present
    BY <1>5, <2>2, <2>4, EntryFields
  <2>6. ~ L2(s, a).large /\ ~ L1(s, a).present
    BY <2>5, WalkIs
  <2> QED
    BY <1>2, <2>6 DEF vmm_is_mapped_in
<1> QED
  BY <1>2, <1>3, <1>4, <1>5

(* Ring 3 reaches its own pages and what the demo opened. *)
LEMMA OwnFrom == SpaceInv => OnlyOwnPages
<1> SUFFICES ASSUME SpaceInv PROVE OnlyOwnPages
  OBVIOUS
<1>1. PICK kd, wh, lv, up, at : Roles(kd, wh, lv, up, at)
  BY DEF SpaceInv, FrameInv
<1>2. Tree(tables, kd, wh, lv, up, at)
  BY <1>1 DEF Roles
<1>3. ASSUME NEW x \in Frames, vmm_is_user_accessible_in(kernel_pml4, Addr(x))
      PROVE  x \in DemoFrames
  <2> DEFINE T == tables
             s == kernel_pml4
             a == Addr(x)
  <2>1. BootTop(T) /\ IsTop(T, s)
    BY <1>2, Tops DEF Tree
  <2>2. /\ At3(T, s, a).present /\ At2(T, s, a).present /\ At2(T, s, a).user
        /\ ~ At2(T, s, a).large => At1(T, s, a).present /\ At1(T, s, a).user
    BY <1>3, WalkIs DEF vmm_is_user_accessible_in
  <2>3. PICK r \in LargePages : r = X2(x)
    BY <2>1, <2>2, IdentityWalk
  <2>4. /\ At2(T, s, a) = PdEntry(T, r)
        /\ At1(T, s, a) = T[PdEntry(T, r).frame][x % ENTRIES]
    BY <2>1, <2>3, IdentityWalk
  <2>5. PdEntry(T, r).present /\ PdEntry(T, r) # LargeEntry(r * ENTRIES)
    BY <2>2, <2>4, EntryFields
  <2>6. PICK n \in Frames : kd[n] = "shared" /\ up[n] = r /\ PdEntry(T, r) = TableEntry(n)
    BY <1>2, <2>5 DEF Tree, BootPages
  <2>7. T[n][x % ENTRIES].present /\ T[n][x % ENTRIES].user
    BY <2>2, <2>4, <2>6, EntryFields
  <2>8. x % ENTRIES \in Index /\ r * ENTRIES + (x % ENTRIES) = x
    BY <2>3, IdentityIndices
  <2>9. PteOk(T[n][x % ENTRIES], up[n] * ENTRIES + (x % ENTRIES), th, lost)
    BY <1>1, <2>6, <2>8 DEF Roles, Ptes
  <2>10. Opened(th, lost, x)
    BY <2>6, <2>7, <2>8, <2>9 DEF PteOk
  <2>11. ASSUME NEW t \in Tids, Opens(th[t], x) PROVE x \in InHand(t)
    <3>1. x = th[t].frame /\ HasFrame(th[t])
      BY <2>11 DEF Opens, HasFrame
    <3> QED
      BY <3>1 DEF SpaceInv, Fields, InHand
  <2> QED
    BY <2>10, <2>11 DEF Opened, DemoFrames
<1>4. ASSUME NEW t \in WithSpace
      PROVE  LET s   == th[t].space
                 own == PrivateFrames(s).pages
             IN  /\ tables[s][0] = tables[kernel_pml4][0]
                 /\ \A va \in SlotPages(t) :
                        vmm_is_user_accessible_in(s, va) => L1(s, va).frame \in own
  <2> DEFINE s == th[t].space
  <2>1. t \in Tids /\ s # kernel_pml4
    BY DEF WithSpace
  <2>2. SpaceFrame(kd, wh, lv, t, 4, s) /\ Level(kd, wh, lv, t, 4) = {s} /\ s \in Frames
    BY <1>1, <2>1, SpaceOf
  <2>3. PrivateFrames(s).pages = {f \in Frames : kd[f] = "space" /\ wh[f] = t /\ lv[f] = 0}
    BY <1>2, <2>2, WholeSpace
  <2>4. IsTop(tables, s) /\ IsTop(tables, kernel_pml4)
    BY <1>2, <2>2, Tops DEF SpaceFrame
  <2>5. ASSUME NEW va \in SlotPages(t), vmm_is_user_accessible_in(s, va)
        PROVE  L1(s, va).frame \in PrivateFrames(s).pages
    <3>1. va \in Nat /\ pml4_index(va) # 0
      BY <2>1, SlotIndices
    <3>2. /\ At4(tables, s, va).present /\ At3(tables, s, va).present
          /\ At2(tables, s, va).present
          /\ ~ At2(tables, s, va).large => At1(tables, s, va).present
      BY <2>5, WalkIs DEF vmm_is_user_accessible_in
    <3> HIDE DEF s
    <3>3. ~ At2(tables, s, va).large
      BY <1>2, <2>2, <3>1, <3>2, PrivateWalk
    <3>4. SpaceFrame(kd, wh, lv, t, 0, At1(tables, s, va).frame)
      BY <1>2, <2>2, <3>1, <3>2, <3>3, PrivateWalk
    <3> QED
      BY <2>3, <3>4, WalkIs DEF SpaceFrame
  <2> QED
    BY <2>4, <2>5 DEF IsTop
<1> QED
  BY <1>3, <1>4 DEF OnlyOwnPages

(* Growable stacks belong to programs that have their space. *)
LEMMA RegionsFrom == SpaceInv => RegionsLive
BY DEF SpaceInv, RegionsInv, HasStack, RegionsLive, WithSpace, Nodes, Unique

(***************************************************************************)
(* Part 11.  The invariant holds after vmm_init                            *)
(***************************************************************************)

(* The tables of the boot code, table by table *)
LEMMA BootContents ==
    /\ DOMAIN vmm_init = BootFrames
    /\ \A f \in BootFrames : vmm_init[f] \in [Index -> Entry]
    /\ BootTop(vmm_init)
    /\ \A r \in LargePages :
          PdEntry(vmm_init, r) = IF \E x \in Usable : X2(x) = r
                                 THEN LargeEntry(r * ENTRIES) ELSE NotPresent
<1> DEFINE large(first) == IF \E f \in Usable : f \div ENTRIES = first \div ENTRIES
                           THEN LargeEntry(first) ELSE NotPresent
           pd(k) == [i \in Index |-> large((k * ENTRIES + i) * ENTRIES)]
           pds   == 0..(Len(BootTables) - 3)
           pdpt  == [i \in Index |->
                       IF i \in pds THEN TableEntry(BootTables[3 + i]) ELSE NotPresent]
           top   == [NewTable EXCEPT ![0] = TableEntry(BootTables[2])]
<1>1. vmm_init = [f \in BootFrames |->
                    IF f = BootTables[1] THEN top ELSE IF f = BootTables[2] THEN pdpt
                    ELSE pd(CHOOSE k \in pds : BootTables[3 + k] = f)]
  BY DEF vmm_init
<1>2. /\ \A i \in pds : BootTables[3 + i] \in Nat
      /\ BootTables[2] \in Nat /\ pds \subseteq Nat
  <2>1. BootFrames \subseteq Nat
    BY BootDistinct, FrameFacts
  <2>2. BootTables[2] \in BootFrames /\ \A i \in pds : BootTables[3 + i] \in BootFrames
    BY BootDistinct
  <2>3. pds \subseteq Nat
    BY BootDistinct
  <2> HIDE DEF pds
  <2> QED
    BY <2>1, <2>2, <2>3
<1>3. /\ top \in [Index -> Entry] /\ top[0] = TableEntry(BootTables[2])
      /\ \A i \in Index \ {0} : ~ top[i].present
  BY <1>2, Sizes, EntryFields
<1>4. /\ pdpt \in [Index -> Entry]
      /\ \A i \in Index : IF i \in pds THEN pdpt[i] = TableEntry(BootTables[3 + i])
                          ELSE ~ pdpt[i].present
  BY <1>2, EntryFields
<1>5. \A k \in pds : pd(k) \in [Index -> Entry]
  <2>1. SUFFICES ASSUME NEW k \in pds, NEW i \in Index
                 PROVE  large((k * ENTRIES + i) * ENTRIES) \in Entry
    OBVIOUS
  <2>2. PICK E \in Nat, a \in Nat, b \in Nat : E = ENTRIES /\ a = k /\ b = i
    BY <1>2, Sizes DEF Index
  <2>3. (a * E + b) * E \in Nat
    <3>1. a * E + b \in Nat
      OBVIOUS
    <3> QED
      BY <3>1
  <2> QED
    BY <2>2, <2>3, EntryFields
<1>6. \A k \in pds : vmm_init[BootTables[3 + k]] = pd(k)
  <2>1. SUFFICES ASSUME NEW k \in pds PROVE vmm_init[BootTables[3 + k]] = pd(k)
    OBVIOUS
  <2>2. /\ BootTables[3 + k] \in BootFrames
        /\ BootTables[3 + k] # BootTables[1] /\ BootTables[3 + k] # BootTables[2]
        /\ \A j \in pds : BootTables[3 + j] = BootTables[3 + k] => j = k
    BY BootDistinct
  <2>3. (CHOOSE j \in pds : BootTables[3 + j] = BootTables[3 + k]) = k
    BY <2>2
  <2> HIDE DEF pd, pds, pdpt, top
  <2> QED
    BY <1>1, <2>2, <2>3
<1>7. vmm_init[BootTables[1]] = top /\ vmm_init[BootTables[2]] = pdpt
  BY <1>1, BootDistinct
<1>8. \A r \in LargePages :
        PdEntry(vmm_init, r) = IF \E x \in Usable : X2(x) = r
                               THEN LargeEntry(r * ENTRIES) ELSE NotPresent
  <2>1. SUFFICES ASSUME NEW r \in LargePages
                 PROVE  PdEntry(vmm_init, r) = large(r * ENTRIES) /\ (r * ENTRIES) \div ENTRIES = r
    BY DEF X2
  <2>2. r \div ENTRIES \in pds /\ r % ENTRIES \in Index /\ r \in Nat
    BY PdPlace DEF LargePages
  <2>3. PdEntry(vmm_init, r) = pd(r \div ENTRIES)[r % ENTRIES]
    BY <1>6, <2>2 DEF PdEntry, PdOf
  <2>4. (r \div ENTRIES) * ENTRIES + (r % ENTRIES) = r
    <3>1. PICK E \in Nat \ {0} : E = ENTRIES
      BY Sizes
    <3>2. r \div E \in Nat /\ r % E \in 0..(E - 1) /\ r = E * (r \div E) + (r % E)
      BY <2>2, DivMod
    <3>3. PICK q \in Nat, m \in Nat : q = r \div E /\ m = r % E
      BY <3>2
    <3>4. r = E * q + m /\ E * q = q * E
      BY <3>2, <3>3
    <3> QED
      BY <3>1, <3>3, <3>4
  <2>5. (r * ENTRIES) \div ENTRIES = r
    <3>1. PICK E \in Nat \ {0} : E = ENTRIES
      BY Sizes
    <3>2. r * E = E * r /\ (E * r) \div E = r
      BY <2>2, Multiple
    <3> QED
      BY <3>1, <3>2
  <2> HIDE DEF large
  <2> QED
    BY <2>2, <2>3, <2>4, <2>5
<1>9. \A f \in BootFrames : vmm_init[f] \in [Index -> Entry]
  <2>1. SUFFICES ASSUME NEW f \in BootFrames PROVE vmm_init[f] \in [Index -> Entry]
    OBVIOUS
  <2>2. f = BootTables[1] \/ f = BootTables[2] \/ \E k \in pds : f = BootTables[3 + k]
    BY BootDistinct
  <2> HIDE DEF pd, pds, pdpt, top
  <2> QED
    BY <1>3, <1>4, <1>5, <1>6, <1>7, <2>2
<1>10. BootTop(vmm_init)
  BY <1>3, <1>4, <1>7 DEF BootTop, EmptyTop
<1> QED
  BY <1>1, <1>8, <1>9, <1>10

(* After vmm_init every frame is a boot table or unused. *)
LEMMA SpaceInit == Init => SpaceInv /\ SchedOk
<1> SUFFICES ASSUME Init PROVE SpaceInv /\ SchedOk
  OBVIOUS
<1> DEFINE kd == [f \in Frames |-> IF f \in BootFrames THEN "boot" ELSE "none"]
           zero == [f \in Frames |-> 0]
<1>1. /\ tables = vmm_init /\ th = [t \in Tids |-> NoThread]
      /\ regions = [list |-> <<>>, read |-> [t \in Tids |-> <<>>], relinked |-> {}]
      /\ irqs_off = NoTid /\ spawns = 0 /\ heap = {} /\ lost = {} /\ resplit = {}
      /\ view = [t \in Tids |-> <<>>] /\ PmmInit /\ held = {}
      /\ current = NoTid /\ switches = 0
  BY DEF Init, PmmInit
<1>2. \A t \in Tids : /\ th[t].pc = "unused" /\ th[t].prog = Demo /\ th[t].space = kernel_pml4
                      /\ th[t].frame = 0 /\ th[t].table = 0 /\ th[t].seg = 0
  BY <1>1 DEF NoThread
<1>3. Tree(tables, kd, zero, zero, zero, zero)
  <2>1. RoleTypes(kd, zero, zero, zero, zero)
    BY Sizes DEF RoleTypes, Kinds, NoTid
  <2>2. TablesAre(tables, kd, zero)
    BY <1>1, BootContents, BootDistinct DEF TablesAre, IsTable
  <2>3. Links(tables, kd, zero, zero, zero, zero)
    BY DEF Links, UpLinks, DownLinks, TopLinks
  <2>4. BootTop(tables)
    BY <1>1, BootContents
  <2>5. BootPages(tables, kd, zero)
    BY <1>1, BootContents, EntryFields DEF BootPages
  <2> QED
    BY <2>1, <2>2, <2>3, <2>4, <2>5 DEF Tree
<1>4. Roles(kd, zero, zero, zero, zero)
  <2>1. Ptes(tables, kd, zero, th, lost)
    BY DEF Ptes
  <2>2. Guards(tables, kd, zero, th, resplit)
    BY <1>2 DEF Guards, Late
  <2>3. Threads(th, kd, zero, zero)
    BY <1>2, BootDistinct DEF Threads, Uses, SpaceFrame
  <2>4. Holdings(held, heap, lost, kd)
    BY <1>1 DEF Holdings
  <2>5. ASSUME NEW t \in Tids PROVE Memory(t, th[t], mem, view[t], kd, zero, zero, zero, zero)
    <3>1. DOMAIN view[t] = {}
      BY <1>1
    <3> QED
      BY <1>2, <3>1 DEF Memory
  <2> QED
    BY <1>3, <2>1, <2>2, <2>3, <2>4, <2>5 DEF Roles
<1>5. FrameInv
  BY <1>1, <1>4 DEF FrameInv
<1>6. IInv
  BY <1>1, InitInv
<1>7. LoaderInv
  <2>1. mem \in Contents
    BY PagesAreTyped DEF Init, Contents
  <2>2. NoThread \in Thread
    BY FrameFacts DEF NoThread, Thread, PC
  <2> QED
    BY <1>1, <1>2, <2>1, <2>2 DEF LoaderInv, Loading
<1>8. \A t \in Tids : Fields(t, th[t])
  BY <1>2 DEF Fields, HasFrame, SpacelessPc
<1>9. RegionsInv
  <2>1. /\ regions.list = <<>> /\ regions.relinked = {} /\ DOMAIN regions.list = {}
        /\ \A u \in Tids : DOMAIN regions.read[u] = {}
    BY <1>1
  <2>2. regions \in [list : Seq(Region), read : [Tids -> Seq(Region)], relinked : SUBSET Region]
    BY <1>1
  <2> QED
    BY <2>1, <2>2 DEF RegionsInv, Unique
<1>10. Counters /\ SchedOk
  BY <1>1, <1>2, VmmAssumption DEF Counters, SchedOk
<1> QED
  BY <1>1, <1>5, <1>6, <1>7, <1>8, <1>9, <1>10 DEF SpaceInv

(***************************************************************************)
(* Part 12.  What a step leaves alone                                      *)
(***************************************************************************)

(* pmm_alloc_frame hands out a free frame of usable memory. *)
LEMMA TookOne ==
    ASSUME IInv, NEW f \in NextFree, TookFrame(f)
    PROVE  /\ IInv' /\ held' = held \cup {f}
           /\ f \in Frames /\ f \notin used /\ f \in Usable /\ f \notin held /\ f # 0
<1>1. IInv' /\ held' = held \cup {f}
  BY NextInv DEF TookFrame, PmmNext
<1>2. f \in Frames /\ f \notin used
  BY DEF NextFree
<1> QED
  BY <1>1, <1>2, PmmAssumption DEF IInv, BitmapExact

(* Frames are given back by those who hold them. *)
LEMMA GaveBack ==
    ASSUME IInv, NEW S, S \subseteq held, FreeAll(S)
    PROVE  IInv' /\ held' = held \ S
<1>1. S \in SUBSET Frames /\ set_free(S) /\ held' = held \ S /\ search_hint' = search_hint
  BY DEF IInv, PmmTypeOK, FreeAll
<1>2. used' = used \ S /\ free_frames' \in Nat /\ FreeCount'
  BY <1>1, SetFreeCounts DEF IInv
<1>3. PmmTypeOK'
  BY <1>1, <1>2 DEF IInv, PmmTypeOK
<1>4. BitmapExact'
  BY <1>1, <1>2 DEF IInv, BitmapExact
<1> QED
  BY <1>1, <1>2, <1>3, <1>4 DEF IInv

(* A run of frames is handed out. *)
LEMMA TookRun ==
    ASSUME IInv, NEW g \in Frames, NEW n, TakeRun(g, n)
    PROVE  /\ IInv' /\ held' = held \cup Run(g, n)
           /\ Run(g, n) \subseteq Frames \ used
           /\ Run(g, n) \cap held = {}
<1>1. /\ IsFreeRun(g, n) /\ set_used(Run(g, n)) /\ held' = held \cup Run(g, n)
      /\ search_hint' = search_hint
  BY DEF TakeRun
<1>2. Run(g, n) \subseteq Frames \ used
  BY <1>1 DEF IsFreeRun, is_used
<1>3. IInv'
  BY <1>1, <1>2, TakeInv DEF IInv, PmmTypeOK
<1> QED
  BY <1>1, <1>2, <1>3 DEF IInv, BitmapExact

(* A free frame has no role. *)
LEMMA FreshRole ==
    ASSUME IInv, NEW kd, NEW wh, NEW lv, NEW up, NEW at, Roles(kd, wh, lv, up, at),
           NEW f \in Frames, f \notin used
    PROVE  kd[f] = "none"
<1>1. f \notin held /\ f \notin Reserved
  BY DEF IInv, BitmapExact
<1>2. kd[f] \in {"none", "boot"}
  BY <1>1 DEF Roles, Holdings
<1> QED
  BY <1>1, <1>2, BootDistinct DEF Roles, Tree, RoleTypes

(* Roles and contents of frames change only for frames that belong to       *)
(* thread t, or to no thread.                                               *)
OnlyMine(t, kd, wh, lv, up, at, M, kd2, wh2, lv2, up2, at2, M2) ==
    \A f \in Frames :
        \/ /\ kd2[f] = kd[f] /\ wh2[f] = wh[f] /\ lv2[f] = lv[f]
           /\ up2[f] = up[f] /\ at2[f] = at[f] /\ M2[f] = M[f]
        \/ /\ kd[f] \in {"stack", "hand", "space"} => wh[f] = t
           /\ kd2[f] \in {"stack", "hand", "space"} => wh2[f] = t

(* The pages of thread u keep their place and contents; u gets no new one. *)
PagesKept(u, kd, wh, lv, up, at, M, kd2, wh2, lv2, up2, at2, M2) ==
    \A f \in Frames :
        /\ kd[f] = "space" /\ wh[f] = u =>
              /\ kd2[f] = "space" /\ wh2[f] = u /\ lv2[f] = lv[f]
              /\ up2[f] = up[f] /\ at2[f] = at[f] /\ (lv[f] = 0 => M2[f] = M[f])
        /\ kd2[f] = "space" /\ wh2[f] = u /\ lv2[f] = 0 => kd[f] = "space" /\ wh[f] = u

(* Then they are mapped as before. *)
LEMMA MapsSame ==
    ASSUME NEW T, NEW kd, NEW wh, NEW lv, NEW up, NEW at, Tree(T, kd, wh, lv, up, at),
           NEW kd2, NEW wh2, NEW lv2, NEW up2, NEW at2, NEW M, NEW M2, NEW u,
           PagesKept(u, kd, wh, lv, up, at, M, kd2, wh2, lv2, up2, at2, M2),
           NEW g \in Frames, NEW a
    PROVE  /\ Maps(kd, wh, lv, up, at, u, g, a) => M2[g] = M[g]
           /\ Maps(kd2, wh2, lv2, up2, at2, u, g, a) <=> Maps(kd, wh, lv, up, at, u, g, a)
<1>1. ASSUME NEW f \in Frames, NEW l \in 0..3, SpaceFrame(kd, wh, lv, u, l, f)
      PROVE  SpaceFrame(kd, wh, lv, u, l + 1, up[f])
  <2>1. l < 4
    OBVIOUS
  <2> QED
    BY <1>1, <2>1 DEF Tree, Links, UpLinks, SpaceFrame
<1>2. ASSUME NEW f \in Frames, NEW l, SpaceFrame(kd, wh, lv, u, l, f)
      PROVE  up2[f] = up[f] /\ at2[f] = at[f] /\ SpaceFrame(kd2, wh2, lv2, u, l, f)
  BY <1>2 DEF PagesKept, SpaceFrame
<1>3. SpaceFrame(kd, wh, lv, u, 0, g) <=> SpaceFrame(kd2, wh2, lv2, u, 0, g)
  BY DEF PagesKept, SpaceFrame
<1>4. ASSUME SpaceFrame(kd, wh, lv, u, 0, g)
      PROVE  /\ M2[g] = M[g]
             /\ Maps(kd2, wh2, lv2, up2, at2, u, g, a) <=> Maps(kd, wh, lv, up, at, u, g, a)
  <2>1. PICK g1 \in Frames : g1 = up[g] /\ SpaceFrame(kd, wh, lv, u, 1, g1)
    <3>1. SpaceFrame(kd, wh, lv, u, 0 + 1, up[g])
      BY <1>1, <1>4
    <3> QED
      BY <3>1 DEF SpaceFrame
  <2>2. PICK g2 \in Frames : g2 = up[g1] /\ SpaceFrame(kd, wh, lv, u, 2, g2)
    <3>1. SpaceFrame(kd, wh, lv, u, 1 + 1, up[g1])
      BY <1>1, <2>1
    <3> QED
      BY <3>1 DEF SpaceFrame
  <2>3. PICK g3 \in Frames : g3 = up[g2] /\ SpaceFrame(kd, wh, lv, u, 3, g3)
    <3>1. SpaceFrame(kd, wh, lv, u, 2 + 1, up[g2])
      BY <1>1, <2>2
    <3> QED
      BY <3>1 DEF SpaceFrame
  <2>4. up2[g] = g1 /\ up2[g1] = g2 /\ up2[g2] = g3
    BY <1>2, <1>4, <2>1, <2>2, <2>3
  <2>5. at2[g] = at[g] /\ at2[g1] = at[g1] /\ at2[g2] = at[g2] /\ at2[g3] = at[g3]
    BY <1>2, <1>4, <2>1, <2>2, <2>3
  <2>6. Maps(kd2, wh2, lv2, up2, at2, u, g, a) <=> Maps(kd, wh, lv, up, at, u, g, a)
    BY <1>3, <2>1, <2>2, <2>3, <2>4, <2>5 DEF Maps
  <2>7. M2[g] = M[g]
    BY <1>4 DEF PagesKept, SpaceFrame
  <2> QED
    BY <2>6, <2>7
<1> QED
  BY <1>3, <1>4 DEF Maps

(* What a thread finds in its memory stays the same. *)
LEMMA MemorySame ==
    ASSUME NEW T, NEW kd, NEW wh, NEW lv, NEW up, NEW at, Tree(T, kd, wh, lv, up, at),
           NEW kd2, NEW wh2, NEW lv2, NEW up2, NEW at2, NEW M, NEW M2, NEW u,
           PagesKept(u, kd, wh, lv, up, at, M, kd2, wh2, lv2, up2, at2, M2),
           NEW r, NEW v, Memory(u, r, M, v, kd, wh, lv, up, at),
           r.pc = "fault" => M2[r.frame] = M[r.frame]
    PROVE  Memory(u, r, M2, v, kd2, wh2, lv2, up2, at2)
<1>1. ASSUME NEW a, NEW c, Finds(kd, wh, lv, up, at, M, u, a, c)
      PROVE  Finds(kd2, wh2, lv2, up2, at2, M2, u, a, c)
  <2>1. PICK g \in Frames : Maps(kd, wh, lv, up, at, u, g, a) /\ M[g] = c
    BY <1>1 DEF Finds
  <2>2. M2[g] = c /\ Maps(kd2, wh2, lv2, up2, at2, u, g, a)
    BY <2>1, MapsSame
  <2> QED
    BY <2>2 DEF Finds
<1>2. ASSUME NEW g \in Frames, NEW a, ~ Maps(kd, wh, lv, up, at, u, g, a)
      PROVE  ~ Maps(kd2, wh2, lv2, up2, at2, u, g, a)
  BY <1>2, MapsSame
<1> QED
  BY <1>1, <1>2 DEF Memory

(* Other threads keep their frames, and what they find in their memory. *)
LEMMA OthersKeep ==
    ASSUME NEW T, NEW kd, NEW wh, NEW lv, NEW up, NEW at, Tree(T, kd, wh, lv, up, at),
           NEW kd2, NEW wh2, NEW lv2, NEW up2, NEW at2, NEW M, NEW M2, NEW t,
           OnlyMine(t, kd, wh, lv, up, at, M, kd2, wh2, lv2, up2, at2, M2),
           NEW u, u # t, NEW r, NEW v, Memory(u, r, M, v, kd, wh, lv, up, at),
           Uses(u, r, kd, wh, lv), r.frame \in Frames, r.pc = "fault" => r.frame # 0
    PROVE  Uses(u, r, kd2, wh2, lv2) /\ Memory(u, r, M2, v, kd2, wh2, lv2, up2, at2)
<1>1. Uses(u, r, kd2, wh2, lv2)
  BY DEF OnlyMine, Uses, SpaceFrame
<1>2. PagesKept(u, kd, wh, lv, up, at, M, kd2, wh2, lv2, up2, at2, M2)
  BY DEF OnlyMine, PagesKept
<1>3. ASSUME r.pc = "fault" PROVE M2[r.frame] = M[r.frame]
  <2>1. kd[r.frame] = "hand" /\ wh[r.frame] = u
    BY <1>3 DEF Uses
  <2> QED
    BY <2>1 DEF OnlyMine
<1> QED
  BY <1>1, <1>2, <1>3, MemorySame

(* The page tables of the shared branch keep their roles and contents. *)
SharedKept(T, kd, up, T2, kd2, up2) ==
    \A f \in Frames : /\ kd2[f] = "shared" <=> kd[f] = "shared"
                      /\ kd[f] = "shared" => up2[f] = up[f] /\ T2[f] = T[f]

(* A thread neither takes its guard out nor maps it again, and what the     *)
(* demo has opened stays so or is lost.                                     *)
Quiet(r, r2, ls, ls2) ==
    /\ ls \subseteq ls2
    /\ Late(r) <=> Late(r2)
    /\ Late(r) => r2.guard = r.guard
    /\ \A x : Opens(r, x) => Opens(r2, x) \/ x \in ls2

(* Then the shared branch is sound as before. *)
LEMMA QuietBranch ==
    ASSUME NEW T, NEW kd, NEW up, NEW T2, NEW kd2, NEW up2,
           SharedKept(T, kd, up, T2, kd2, up2),
           NEW thr, NEW thr2, NEW t \in Tids, \A u \in Tids \ {t} : thr2[u] = thr[u],
           NEW ls, NEW ls2, Quiet(thr[t], thr2[t], ls, ls2), NEW rs,
           Ptes(T, kd, up, thr, ls), Guards(T, kd, up, thr, rs)
    PROVE  Ptes(T2, kd2, up2, thr2, ls2) /\ Guards(T2, kd2, up2, thr2, rs)
<1>1. ASSUME NEW x, LateGuard(thr, x) PROVE LateGuard(thr2, x)
  BY <1>1 DEF LateGuard, Quiet
<1>2. ASSUME NEW x, Opened(thr, ls, x) PROVE Opened(thr2, ls2, x)
  BY <1>2 DEF Opened, Quiet
<1>3. ASSUME NEW e, NEW x, PteOk(e, x, thr, ls) PROVE PteOk(e, x, thr2, ls2)
  BY <1>1, <1>2, <1>3 DEF PteOk
<1>4. Ptes(T2, kd2, up2, thr2, ls2)
  BY <1>3 DEF Ptes, SharedKept
<1>5. ASSUME NEW u \in Tids, Late(thr2[u]) PROVE GuardOut(T2, kd2, up2, rs, thr2[u].guard)
  <2>1. Late(thr[u]) /\ thr2[u].guard = thr[u].guard
    BY <1>5 DEF Quiet
  <2>2. GuardOut(T, kd, up, rs, thr[u].guard)
    BY <2>1 DEF Guards
  <2> QED
    BY <2>1, <2>2 DEF GuardOut, SharedKept
<1> QED
  BY <1>4, <1>5 DEF Guards

(* Thread t becomes r: what has to be shown to find roles after the step. *)
LEMMA NextRoles ==
    ASSUME SpaceInv, NEW kd, NEW wh, NEW lv, NEW up, NEW at, Roles(kd, wh, lv, up, at),
           NEW kd2, NEW wh2, NEW lv2, NEW up2, NEW at2, NEW t \in Tids, NEW r, Become(t, r),
           Tree(tables', kd2, wh2, lv2, up2, at2),
           OnlyMine(t, kd, wh, lv, up, at, mem, kd2, wh2, lv2, up2, at2, mem'),
           Uses(t, r, kd2, wh2, lv2), Memory(t, r, mem', view'[t], kd2, wh2, lv2, up2, at2),
           \A u \in Tids \ {t} : view'[u] = view[u],
           Ptes(tables', kd2, up2, th', lost'), Guards(tables', kd2, up2, th', resplit'),
           Holdings(held', heap', lost', kd2), heap' \subseteq Frames, lost' \subseteq Frames
    PROVE  FrameInv'
<1>1. \A u \in Tids : th'[u] = IF u = t THEN r ELSE th[u]
  BY DEF Become, SpaceInv, LoaderInv
<1>2. ASSUME NEW u \in Tids, u # t
      PROVE  /\ Uses(u, th'[u], kd2, wh2, lv2)
             /\ Memory(u, th'[u], mem', view'[u], kd2, wh2, lv2, up2, at2)
  <2>1. th'[u] = th[u] /\ view'[u] = view[u]
    BY <1>1, <1>2
  <2>2. /\ Tree(tables, kd, wh, lv, up, at) /\ Uses(u, th[u], kd, wh, lv)
        /\ Memory(u, th[u], mem, view[u], kd, wh, lv, up, at)
    BY DEF Roles, Threads
  <2>3. th[u].frame \in Frames /\ (th[u].pc = "fault" => th[u].frame # 0)
    BY ThreadTypes DEF SpaceInv, Fields, HasFrame
  <2>4. /\ Uses(u, th[u], kd2, wh2, lv2)
        /\ Memory(u, th[u], mem', view[u], kd2, wh2, lv2, up2, at2)
    BY <1>2, <2>2, <2>3, OthersKeep
  <2> QED
    BY <2>1, <2>4
<1>3. Threads(th', kd2, wh2, lv2)
  BY <1>1, <1>2 DEF Threads
<1>4. \A u \in Tids : Memory(u, th'[u], mem', view'[u], kd2, wh2, lv2, up2, at2)
  BY <1>1, <1>2
<1> QED
  BY <1>3, <1>4 DEF FrameInv, Roles

(* The same when the step leaves the shared branch alone. *)
LEMMA QuietRoles ==
    ASSUME SpaceInv, NEW kd, NEW wh, NEW lv, NEW up, NEW at, Roles(kd, wh, lv, up, at),
           NEW kd2, NEW wh2, NEW lv2, NEW up2, NEW at2, NEW t \in Tids, NEW r, Become(t, r),
           Tree(tables', kd2, wh2, lv2, up2, at2),
           OnlyMine(t, kd, wh, lv, up, at, mem, kd2, wh2, lv2, up2, at2, mem'),
           SharedKept(tables, kd, up, tables', kd2, up2),
           Quiet(th[t], r, lost, lost'), resplit' = resplit,
           Uses(t, r, kd2, wh2, lv2), Memory(t, r, mem', view'[t], kd2, wh2, lv2, up2, at2),
           \A u \in Tids \ {t} : view'[u] = view[u],
           Holdings(held', heap', lost', kd2), heap' \subseteq Frames, lost' \subseteq Frames
    PROVE  FrameInv'
<1>1. \A u \in Tids : th'[u] = IF u = t THEN r ELSE th[u]
  BY DEF Become, SpaceInv, LoaderInv
<1>2. Ptes(tables, kd, up, th, lost) /\ Guards(tables, kd, up, th, resplit)
  BY DEF Roles
<1>3. th'[t] = r /\ \A u \in Tids \ {t} : th'[u] = th[u]
  BY <1>1
<1>4. Ptes(tables', kd2, up2, th', lost') /\ Guards(tables', kd2, up2, th', resplit')
  BY <1>2, <1>3, QuietBranch
<1> QED
  BY <1>4, NextRoles

(* The growable stacks stay as they are. *)
LEMMA RegionsSame ==
    ASSUME SpaceInv, NEW t \in Tids, NEW r, Become(t, r), regions' = regions,
           \A s : HasStack(th[t], s) => HasStack(r, s)
    PROVE  RegionsInv'
<1>1. \A u \in Tids : th'[u] = IF u = t THEN r ELSE th[u]
  BY DEF Become, SpaceInv, LoaderInv
<1>2. ASSUME NEW i \in DOMAIN regions.list, regions.list[i] \notin regions.relinked
      PROVE  \E u \in Tids : HasStack(th'[u], regions.list[i].space)
  <2>1. PICK u \in Tids : HasStack(th[u], regions.list[i].space)
    BY <1>2 DEF SpaceInv, RegionsInv
  <2> QED
    BY <1>1, <2>1
<1> QED
  BY <1>2 DEF SpaceInv, RegionsInv, HasStack, Unique

(* The first spawn is over when a thread runs. *)
LEMMA CountersSame ==
    ASSUME SpaceInv, NEW t \in Tids, NEW r, Become(t, r), th[t].pc # "unused",
           spawns' = spawns, irqs_off' \in Tids \cup {NoTid}
    PROVE  Counters'
BY DEF SpaceInv, Counters

(* All parts of the invariant together *)
LEMMA AllParts ==
    ASSUME SpaceInv, NEW t \in Tids, NEW r, Become(t, r), Fields(t, r),
           IInv', LoaderInv', DOMAIN view' = Tids, FrameInv', RegionsInv', Counters'
    PROVE  SpaceInv'
<1>1. \A u \in Tids : th'[u] = IF u = t THEN r ELSE th[u]
  BY DEF Become, SpaceInv, LoaderInv
<1>2. (\A u \in Tids : Fields(u, th[u]))'
  BY <1>1 DEF SpaceInv, Fields, HasFrame
<1> QED
  BY <1>2 DEF SpaceInv

(***************************************************************************)
(* Part 13.  Frames are taken, given back and lost                         *)
(***************************************************************************)

(* Frames that are no pages change their roles, and nothing else changes in *)
(* memory: the pages of all threads are what they were.                     *)
LEMMA LoosePages ==
    ASSUME NEW kd, NEW wh, NEW lv, NEW up, NEW at, NEW S, NEW k \in Loose, NEW t, NEW u,
           \A f \in S : f \in Frames /\ kd[f] \in Loose,
           NEW M, NEW M2, \A f \in Frames \ S : M2[f] = M[f]
    PROVE  PagesKept(u, kd, wh, lv, up, at, M,
                     NewRole(S, k, kd), NewUser(S, t, wh), lv, up, at, M2)
<1>1. ASSUME NEW g \in Frames
      PROVE  /\ NewRole(S, k, kd)[g] = IF g \in S THEN k ELSE kd[g]
             /\ NewUser(S, t, wh)[g] = IF g \in S THEN t ELSE wh[g]
  BY DEF NewRole, NewUser
<1> QED
  BY <1>1 DEF PagesKept, Loose

(* A step of thread t that changes no table *)
LEMMA RelabelStep ==
    ASSUME SpaceInv, NEW kd, NEW wh, NEW lv, NEW up, NEW at, Roles(kd, wh, lv, up, at),
           NEW t \in Tids, NEW r, Become(t, r), tables' = tables,
           NEW S, NEW k \in Loose, S \subseteq Frames,
           \A f \in S : /\ kd[f] \in Loose
                        /\ kd[f] \in {"stack", "hand"} => wh[f] = t,
           \A f \in Frames \ S : mem'[f] = mem[f],
           Quiet(th[t], r, lost, lost'), resplit' = resplit,
           Uses(t, r, NewRole(S, k, kd), NewUser(S, t, wh), lv),
           Memory(t, r, mem', view'[t], NewRole(S, k, kd), NewUser(S, t, wh), lv, up, at),
           \A u \in Tids \ {t} : view'[u] = view[u],
           Holdings(held', heap', lost', NewRole(S, k, kd)),
           heap' \subseteq Frames, lost' \subseteq Frames
    PROVE  FrameInv'
<1> DEFINE kd2 == NewRole(S, k, kd)
           wh2 == NewUser(S, t, wh)
<1>1. ASSUME NEW g \in Frames
      PROVE  /\ kd2[g] = IF g \in S THEN k ELSE kd[g]
             /\ wh2[g] = IF g \in S THEN t ELSE wh[g]
  BY DEF NewRole, NewUser
<1> HIDE DEF kd2, wh2
<1>2. Tree(tables', kd2, wh2, lv, up, at)
  BY Relabel DEF Roles, kd2, wh2
<1>3. OnlyMine(t, kd, wh, lv, up, at, mem, kd2, wh2, lv, up, at, mem')
  <2>1. SUFFICES ASSUME NEW f \in Frames
                 PROVE  \/ kd2[f] = kd[f] /\ wh2[f] = wh[f] /\ mem'[f] = mem[f]
                        \/ /\ kd[f] \in {"stack", "hand", "space"} => wh[f] = t
                           /\ kd2[f] \in {"stack", "hand", "space"} => wh2[f] = t
    BY DEF OnlyMine
  <2>2. CASE f \in S
    BY <1>1, <2>2 DEF Loose
  <2>3. CASE f \notin S
    BY <1>1, <2>3
  <2> QED
    BY <2>2, <2>3
<1>4. SharedKept(tables, kd, up, tables', kd2, up)
  BY <1>1 DEF SharedKept, Loose
<1> QED
  BY <1>2, <1>3, <1>4, QuietRoles DEF kd2, wh2

(* A thread holds what it held, and frame f. *)
Holds(r, r2, f) ==
    /\ r.pc # "unused" /\ r2.pc # "unused" /\ r2.guard = r.guard /\ r2.space = r.space
    /\ \A g : (g # 0 /\ g \in {r2.frame, r2.table}) <=> ((g # 0 /\ g \in {r.frame, r.table}) \/ g = f)

(* A thread takes a frame in hand. *)
LEMMA HandTaken ==
    ASSUME SpaceInv, NEW kd, NEW wh, NEW lv, NEW up, NEW at, Roles(kd, wh, lv, up, at),
           NEW t \in Tids, NEW r, Become(t, r), NEW f \in NextFree, TookFrame(f),
           tables' = tables, heap' = heap, lost' = lost, resplit' = resplit, view' = view,
           \A g \in Frames \ {f} : mem'[g] = mem[g],
           Holds(th[t], r, f), Quiet(th[t], r, lost, lost),
           Memory(t, r, mem', view[t], NewRole({f}, "hand", kd), NewUser({f}, t, wh), lv, up, at)
    PROVE  IInv' /\ FrameInv'
<1>1. /\ IInv' /\ held' = held \cup {f}
      /\ f \in Frames /\ f \notin used /\ f \in Usable /\ f \notin held /\ f # 0
  BY TookOne DEF SpaceInv
<1>2. kd[f] = "none"
  BY <1>1, FreshRole DEF SpaceInv
<1> DEFINE kd2 == NewRole({f}, "hand", kd)
           wh2 == NewUser({f}, t, wh)
<1>3. ASSUME NEW g \in Frames
      PROVE  /\ kd2[g] = IF g = f THEN "hand" ELSE kd[g]
             /\ wh2[g] = IF g = f THEN t ELSE wh[g]
  BY DEF NewRole, NewUser
<1> HIDE DEF kd2, wh2
<1>4. Uses(t, r, kd2, wh2, lv)
  <2>1. Uses(t, th[t], kd, wh, lv)
    BY DEF Roles, Threads
  <2> QED
    BY <1>1, <1>2, <1>3, <2>1 DEF Uses, Holds, SpaceFrame, Stack
<1>5. Holdings(held', heap', lost', kd2)
  <2>1. Holdings(held, heap, lost, kd)
    BY DEF Roles
  <2> QED
    BY <1>1, <1>2, <1>3, <2>1 DEF Holdings
<1>6. heap' \subseteq Frames /\ lost' \subseteq Frames
  BY DEF SpaceInv, FrameInv
<1>7. FrameInv'
  BY <1>1, <1>2, <1>4, <1>5, <1>6, RelabelStep DEF kd2, wh2, Loose
<1> QED
  BY <1>1, <1>7

(* The frames in the hand of thread t, and free frames X that it has just   *)
(* taken, are lost, or were freed before.                                   *)
Leaves(t, X, k) ==
    /\ X \subseteq Frames \ used
    /\ \A f \in Frames \ (InHand(t) \cup X) : mem'[f] = mem[f]
    /\ lost' = IF k = "lost" THEN lost \cup InHand(t) \cup X ELSE lost
    /\ held' = IF k = "lost" THEN held \cup X ELSE held \ InHand(t)
    /\ k = "none" => X = {} /\ \A x : ~ Opens(th[t], x)

(* Such a thread dies. *)
LEMMA DeathOf ==
    ASSUME SpaceInv, NEW t \in Tids, Dies(t), Late(th[t]), th[t].pc # "zombie",
           UNCHANGED <<tables, heap, resplit, regions, spawns>>,
           irqs_off' \in Tids \cup {NoTid}, IInv', mem' \in Contents,
           NEW X, NEW k \in {"lost", "none"}, Leaves(t, X, k)
    PROVE  SpaceInv'
<1>1. PICK kd, wh, lv, up, at : Roles(kd, wh, lv, up, at)
  BY DEF SpaceInv, FrameInv
<1>2. th[t] \in Thread /\ th[t].frame \in Frames /\ th[t].table \in Frames
  BY ThreadTypes DEF SpaceInv
<1>3. PICK r : /\ r = [th[t] EXCEPT !.pc = "zombie", !.frame = 0, !.table = 0]
               /\ Become(t, r) /\ view' = [view EXCEPT ![t] = <<>>]
  BY DEF Dies
<1>4. /\ r.pc = "zombie" /\ r.frame = 0 /\ r.table = 0 /\ r.guard = th[t].guard
      /\ r.space = th[t].space /\ r.prog = th[t].prog
  BY <1>2, <1>3 DEF Thread
<1>5. DOMAIN view = Tids /\ DOMAIN view' = Tids /\ DOMAIN view'[t] = {}
      /\ \A u \in Tids \ {t} : view'[u] = view[u]
  BY <1>3 DEF SpaceInv
<1>6. ASSUME NEW f \in Frames
      PROVE  f \in InHand(t) <=> kd[f] = "hand" /\ wh[f] = t
  BY <1>1 DEF InHand, Roles, Threads, Uses
<1>7. InHand(t) \subseteq Frames /\ InHand(t) \subseteq held
  <2>1. InHand(t) \subseteq Frames
    BY <1>2 DEF InHand
  <2> QED
    BY <1>1, <1>6, <2>1 DEF Roles, Holdings
<1>8. PICK S : S = InHand(t) \cup X
  OBVIOUS
<1>9. /\ S \subseteq Frames /\ \A f \in Frames \ S : mem'[f] = mem[f]
      /\ \A f \in X : kd[f] = "none"
      /\ \A f \in Frames : f \in S <=> f \in X \/ (kd[f] = "hand" /\ wh[f] = t)
  <2>1. \A f \in X : kd[f] = "none"
    BY <1>1, FreshRole DEF SpaceInv, Leaves
  <2> QED
    BY <1>6, <1>7, <1>8, <2>1 DEF Leaves
<1> DEFINE kd2 == NewRole(S, k, kd)
           wh2 == NewUser(S, t, wh)
<1>10. ASSUME NEW g \in Frames
       PROVE  /\ kd2[g] = IF g \in X \/ (kd[g] = "hand" /\ wh[g] = t) THEN k ELSE kd[g]
              /\ g \notin S => wh2[g] = wh[g]
              /\ kd[g] \notin {"none", "hand"} => wh2[g] = wh[g]
              /\ kd[g] = "hand" /\ wh[g] # t => wh2[g] = wh[g]
  BY <1>9 DEF NewRole, NewUser
<1> HIDE DEF kd2, wh2
<1>11. Uses(t, r, kd2, wh2, lv)
  <2>1. Uses(t, th[t], kd, wh, lv) /\ th[t].pc # "unused"
    BY <1>1 DEF Roles, Threads, Late
  <2> QED
    BY <1>4, <1>9, <1>10, <2>1 DEF Uses, SpaceFrame, Stack
<1>12. Memory(t, r, mem', view'[t], kd2, wh2, lv, up, at)
  BY <1>4, <1>5 DEF Memory
<1>13. Holdings(held', heap', lost', kd2)
  <2>1. Holdings(held, heap, lost, kd)
    BY <1>1 DEF Roles
  <2> QED
    BY <1>6, <1>7, <1>9, <1>10, <2>1 DEF Holdings, Leaves
<1>14. heap' \subseteq Frames /\ lost' \subseteq Frames
  BY <1>7 DEF SpaceInv, FrameInv, Leaves
<1>15. Quiet(th[t], r, lost, lost')
  <2>1. ASSUME NEW x, Opens(th[t], x) PROVE x \in lost'
    <3>1. x = th[t].frame /\ x # 0 /\ k = "lost"
      BY <2>1 DEF Opens, SpaceInv, Fields, HasFrame, Leaves
    <3> QED
      BY <3>1 DEF InHand, Leaves
  <2> QED
    BY <1>4, <2>1 DEF Quiet, Late, Leaves
<1>16. \A f \in S : /\ kd[f] \in Loose
                    /\ kd[f] \in {"stack", "hand"} => wh[f] = t
  BY <1>9 DEF Loose
<1>17. FrameInv'
  <2>1. k \in Loose
    BY DEF Loose
  <2>2. /\ tables' = tables /\ resplit' = resplit /\ S \subseteq Frames
        /\ \A f \in Frames \ S : mem'[f] = mem[f]
        /\ \A u \in Tids \ {t} : view'[u] = view[u]
    BY <1>5, <1>9
  <2> QED
    BY <1>1, <1>3, <1>11, <1>12, <1>13, <1>14, <1>15, <1>16, <2>1, <2>2, RelabelStep
    DEF kd2, wh2
<1>18. LoaderInv'
  BY DiesTyped DEF SpaceInv
<1>19. Fields(t, r)
  <2>1. Fields(t, th[t])
    BY DEF SpaceInv
  <2> QED
    BY <1>4, <2>1 DEF Fields, HasFrame, SpacelessPc
<1>20. RegionsInv'
  <2>1. \A s : HasStack(th[t], s) => HasStack(r, s)
    BY <1>4 DEF HasStack
  <2> QED
    BY <1>3, <2>1, RegionsSame
<1>21. Counters'
  BY <1>3, CountersSame DEF Late
<1> QED
  BY <1>3, <1>5, <1>17, <1>18, <1>19, <1>20, <1>21, AllParts

(* A thread dies, and takes no frame. *)
LEMMA Death ==
    ASSUME SpaceInv, NEW t \in Tids, Dies(t), Late(th[t]), th[t].pc # "zombie",
           UNCHANGED <<tables, mem, heap, resplit, regions, spawns>>,
           irqs_off' \in Tids \cup {NoTid},
           \/ UNCHANGED pmmVars /\ lost' = lost \cup InHand(t)
           \/ /\ FreeAll(InHand(t)) /\ UNCHANGED lost
              /\ \A x : ~ Opens(th[t], x)
    PROVE  SpaceInv'
<1>1. mem' \in Contents /\ {} \subseteq Frames \ used /\ \A f \in Frames : mem'[f] = mem[f]
  BY DEF SpaceInv, LoaderInv
<1>2. InHand(t) \subseteq held
  <2>1. PICK kd, wh, lv, up, at : Roles(kd, wh, lv, up, at)
    BY DEF SpaceInv, FrameInv
  <2>2. InHand(t) \subseteq Frames
    BY ThreadTypes DEF InHand, SpaceInv
  <2>3. \A f \in InHand(t) : kd[f] = "hand"
    BY <2>1, <2>2 DEF InHand, Roles, Threads, Uses
  <2> QED
    BY <2>1, <2>2, <2>3 DEF Roles, Holdings
<1>3. CASE UNCHANGED pmmVars /\ lost' = lost \cup InHand(t)
  <2>1. IInv' /\ held' = held \cup {} /\ lost' = lost \cup InHand(t) \cup {}
    BY <1>3, NextInv DEF SpaceInv, pmmVars
  <2>2. Leaves(t, {}, "lost")
    BY <1>1, <2>1 DEF Leaves
  <2> QED
    BY <1>1, <2>1, <2>2, DeathOf
<1>4. CASE FreeAll(InHand(t)) /\ UNCHANGED lost /\ \A x : ~ Opens(th[t], x)
  <2>1. IInv' /\ held' = held \ InHand(t)
    BY <1>2, <1>4, GaveBack DEF SpaceInv
  <2>2. Leaves(t, {}, "none")
    BY <1>1, <1>4, <2>1 DEF Leaves
  <2> QED
    BY <1>1, <2>1, <2>2, DeathOf
<1> QED
  BY <1>3, <1>4

(* The kernel heap takes its frames. *)
LEMMA SpaceHeap ==
    ASSUME SpaceInv, NEW t \in Tids, NEW count, grow_heap(count)
    PROVE  SpaceInv'
<1>1. PICK kd, wh, lv, up, at : Roles(kd, wh, lv, up, at)
  BY DEF SpaceInv, FrameInv
<1>2. PICK first \in Frames : TakeRun(first, count)
  BY DEF grow_heap, pmm_alloc_contiguous
<1>3. /\ spawns = 0 /\ heap = {} /\ heap' = held' /\ tables' = tables /\ mem' = mem /\ th' = th
      /\ regions' = regions /\ irqs_off' = irqs_off /\ spawns' = spawns /\ lost' = lost
      /\ resplit' = resplit /\ view' = view
  BY DEF grow_heap
<1> DEFINE S == Run(first, count)
<1>4. IInv' /\ held' = held \cup S /\ S \subseteq Frames \ used /\ S \cap held = {}
  BY <1>2, TookRun DEF SpaceInv
<1> HIDE DEF S
<1>5. \A f \in S : f \in Frames /\ kd[f] = "none"
  BY <1>1, <1>4, FreshRole DEF SpaceInv
<1> DEFINE kd2 == NewRole(S, "heap", kd)
           wh2 == NewUser(S, t, wh)
<1>6. ASSUME NEW g \in Frames
      PROVE  /\ kd2[g] = IF g \in S THEN "heap" ELSE kd[g]
             /\ wh2[g] = IF g \in S THEN t ELSE wh[g]
  BY DEF NewRole, NewUser
<1>7. "heap" \in Loose /\ "none" \in Loose
  BY DEF Loose
<1> HIDE DEF kd2, wh2
<1>8. Uses(t, th[t], kd2, wh2, lv)
  <2>1. Uses(t, th[t], kd, wh, lv)
    BY <1>1 DEF Roles, Threads
  <2> QED
    BY <1>5, <1>6, <2>1 DEF Uses, SpaceFrame
<1>9. Memory(t, th[t], mem', view'[t], kd2, wh2, lv, up, at)
  <2>1. PagesKept(t, kd, wh, lv, up, at, mem, kd2, wh2, lv, up, at, mem)
    BY <1>5, <1>7, LoosePages DEF kd2, wh2
  <2>2. /\ Tree(tables, kd, wh, lv, up, at)
        /\ Memory(t, th[t], mem, view[t], kd, wh, lv, up, at)
    BY <1>1 DEF Roles
  <2>3. Memory(t, th[t], mem, view[t], kd2, wh2, lv, up, at)
    BY <2>1, <2>2, MemorySame
  <2> QED
    BY <1>3, <2>3
<1>10. Holdings(held', heap', lost', kd2)
  <2>1. Holdings(held, heap, lost, kd) /\ held = heap
    BY <1>1, <1>3 DEF Roles, SpaceInv, Counters
  <2> QED
    BY <1>3, <1>4, <1>5, <1>6, <2>1 DEF Holdings
<1>11. Become(t, th[t]) /\ Quiet(th[t], th[t], lost, lost')
  BY <1>3 DEF Become, Quiet, SpaceInv, LoaderInv
<1>12. heap' \subseteq Frames /\ lost' \subseteq Frames
  BY <1>3, <1>4 DEF SpaceInv, FrameInv, IInv, PmmTypeOK
<1>13. FrameInv'
  <2>1. /\ \A f \in S : /\ kd[f] \in Loose
                        /\ kd[f] \in {"stack", "hand"} => wh[f] = t
        /\ S \subseteq Frames /\ \A f \in Frames \ S : mem'[f] = mem[f]
        /\ \A u \in Tids \ {t} : view'[u] = view[u]
    BY <1>3, <1>5, <1>7
  <2> QED
    BY <1>1, <1>3, <1>7, <1>8, <1>9, <1>10, <1>11, <1>12, <2>1, RelabelStep DEF kd2, wh2
<1>14. LoaderInv'
  BY <1>3, SameThreads DEF SpaceInv, LoaderInv
<1>15. RegionsInv'
  BY <1>3, <1>11, RegionsSame
<1>16. Counters'
  BY <1>3 DEF SpaceInv, Counters
<1>17. Fields(t, th[t]) /\ DOMAIN view' = Tids
  BY <1>3 DEF SpaceInv
<1> QED
  BY <1>4, <1>11, <1>13, <1>14, <1>15, <1>16, <1>17, AllParts

(* A kernel stack is allocated. *)
LEMMA SpaceSpawn ==
    ASSUME SpaceInv, NEW t \in Tids, NEW p \in Program \cup {Demo}, SpawnStack(t, p), heap' = heap
    PROVE  SpaceInv'
<1>1. PICK kd, wh, lv, up, at : Roles(kd, wh, lv, up, at)
  BY DEF SpaceInv, FrameInv
<1>2. PICK g \in Frames : /\ TakeRun(g, THREAD_STACK_PAGES + 1)
                          /\ Become(t, [NoThread EXCEPT !.pc = "guard", !.prog = p, !.guard = g])
  BY DEF SpawnStack
<1>3. /\ th[t].pc = "unused" /\ spawns < MaxSpawns /\ spawns' = spawns + 1
      /\ irqs_off' \in {NoTid, t} /\ tables' = tables /\ regions' = regions /\ lost' = lost
      /\ resplit' = resplit /\ view' = view
      /\ mem' = [f \in Frames |-> IF f \in held' \ held THEN Junk ELSE mem[f]]
  BY DEF SpawnStack
<1>4. PICK r : /\ r = [NoThread EXCEPT !.pc = "guard", !.prog = p, !.guard = g]
               /\ Become(t, r)
  BY <1>2
<1>5. /\ r.pc = "guard" /\ r.frame = 0 /\ r.table = 0 /\ r.guard = g
      /\ r.space = kernel_pml4 /\ r.prog = p
  BY <1>4 DEF NoThread
<1> DEFINE S == Stack(r)
<1>6. Run(g, THREAD_STACK_PAGES + 1) = S
  <2>1. PICK x \in Nat, n \in Nat : x = g /\ n = THREAD_STACK_PAGES
    BY VmmAssumption, FrameFacts
  <2>2. x + (n + 1) - 1 = x + n
    OBVIOUS
  <2> QED
    BY <1>5, <2>1, <2>2 DEF Run, Stack
<1>7. IInv' /\ held' = held \cup S /\ S \subseteq Frames \ used /\ S \cap held = {}
  BY <1>2, <1>6, TookRun DEF SpaceInv
<1> HIDE DEF S
<1>8. \A f \in S : f \in Frames /\ kd[f] = "none"
  BY <1>1, <1>7, FreshRole DEF SpaceInv
<1> DEFINE kd2 == NewRole(S, "stack", kd)
           wh2 == NewUser(S, t, wh)
<1>9. ASSUME NEW f \in Frames
      PROVE  /\ kd2[f] = IF f \in S THEN "stack" ELSE kd[f]
             /\ wh2[f] = IF f \in S THEN t ELSE wh[f]
  BY DEF NewRole, NewUser
<1> HIDE DEF kd2, wh2
<1>10. "stack" \in Loose /\ "none" \in Loose
  BY DEF Loose
<1>11. Uses(t, r, kd2, wh2, lv)
  <2>1. /\ Uses(t, th[t], kd, wh, lv)
        /\ th[t].frame = 0 /\ th[t].table = 0 /\ th[t].space = kernel_pml4
    BY <1>1, <1>3 DEF Roles, Threads, SpaceInv, Fields, HasFrame, SpacelessPc
  <2> QED
    BY <1>3, <1>5, <1>8, <1>9, <2>1 DEF Uses, SpaceFrame, S
<1>12. Memory(t, r, mem', view'[t], kd2, wh2, lv, up, at)
  <2>1. DOMAIN view[t] = {}
    BY <1>1, <1>3 DEF Roles, Memory
  <2> QED
    BY <1>3, <1>5, <2>1 DEF Memory
<1>13. Holdings(held', heap', lost', kd2)
  <2>1. Holdings(held, heap, lost, kd)
    BY <1>1 DEF Roles
  <2> QED
    BY <1>3, <1>7, <1>8, <1>9, <2>1 DEF Holdings
<1>14. Quiet(th[t], r, lost, lost')
  BY <1>3, <1>5 DEF Quiet, Late, Opens
<1>15. FrameInv'
  <2>1. /\ \A f \in S : /\ kd[f] \in Loose
                        /\ kd[f] \in {"stack", "hand"} => wh[f] = t
        /\ S \subseteq Frames /\ \A f \in Frames \ S : mem'[f] = mem[f]
        /\ \A u \in Tids \ {t} : view'[u] = view[u]
    BY <1>3, <1>7, <1>8, <1>10
  <2>2. heap' \subseteq Frames /\ lost' \subseteq Frames
    BY <1>3 DEF SpaceInv, FrameInv
  <2> QED
    BY <1>1, <1>3, <1>4, <1>10, <1>11, <1>12, <1>13, <1>14, <2>1, <2>2, RelabelStep DEF kd2, wh2
<1>16. LoaderInv'
  BY LoaderSpawn DEF SpaceInv
<1>17. RegionsInv'
  BY <1>3, <1>4, RegionsSame DEF HasStack
<1>18. Counters'
  BY <1>3, VmmAssumption DEF SpaceInv, Counters
<1>19. Fields(t, r) /\ DOMAIN view' = Tids
  BY <1>3, <1>5 DEF SpaceInv, Fields, HasFrame, SpacelessPc
<1> QED
  BY <1>4, <1>7, <1>15, <1>16, <1>17, <1>18, <1>19, AllParts

(* The kernel shell takes a table, to split a large page after that. *)
LEMMA SpaceTakeTable ==
    ASSUME SpaceInv, NEW t \in Tids, NEW pc, TakeTable(t, pc), th[t].prog = Demo,
           \/ th[t].pc = "guard" /\ pc = "guardsplit"
           \/ th[t].pc = "demomark" /\ pc = "demosplit",
           UNCHANGED <<tables, heap, lost, resplit, view, regions, spawns, irqs_off>>
    PROVE  SpaceInv'
<1>1. PICK kd, wh, lv, up, at : Roles(kd, wh, lv, up, at)
  BY DEF SpaceInv, FrameInv
<1>2. PICK n \in NextFree : /\ TookFrame(n) /\ mem' = [mem EXCEPT ![n] = Junk]
                            /\ Become(t, [th[t] EXCEPT !.pc = pc, !.table = n])
  BY DEF TakeTable
<1>3. /\ n \in Frames /\ n \notin used /\ n # 0
  BY <1>2, TookOne DEF SpaceInv
<1>4. PICK r : r = [th[t] EXCEPT !.pc = pc, !.table = n] /\ Become(t, r)
  BY <1>2
<1>5. /\ r.pc = pc /\ r.frame = th[t].frame /\ r.table = n /\ r.guard = th[t].guard
      /\ r.space = th[t].space /\ r.prog = th[t].prog /\ r.seg = th[t].seg
  BY <1>4, ThreadTypes DEF SpaceInv, Thread
<1>6. Fields(t, th[t]) /\ th[t].table = 0
  BY DEF SpaceInv, Fields
<1>7. Holds(th[t], r, n) /\ Quiet(th[t], r, lost, lost)
  BY <1>3, <1>5, <1>6 DEF Holds, Quiet, Late, Opens
<1>8. Memory(t, r, mem', view[t], NewRole({n}, "hand", kd), NewUser({n}, t, wh), lv, up, at)
  <2>1. DOMAIN view[t] = {}
    BY <1>1 DEF Roles, Memory
  <2> QED
    BY <1>5, <2>1 DEF Memory
<1>9. IInv' /\ FrameInv'
  <2>1. \A g \in Frames \ {n} : mem'[g] = mem[g]
    BY <1>2 DEF SpaceInv, LoaderInv, Contents
  <2>2. tables' = tables /\ heap' = heap /\ lost' = lost /\ resplit' = resplit /\ view' = view
    OBVIOUS
  <2> QED
    BY <1>1, <1>2, <1>4, <1>7, <1>8, <2>1, <2>2, HandTaken
<1>10. LoaderInv'
  BY LoaderTakeTable DEF SpaceInv, PC
<1>11. RegionsInv'
  BY <1>4, RegionsSame DEF HasStack
<1>12. Counters'
  BY <1>4, CountersSame DEF SpaceInv, Counters
<1>13. n # th[t].frame
  <2>1. kd[n] = "none"
    BY <1>1, <1>3, FreshRole DEF SpaceInv
  <2>2. Uses(t, th[t], kd, wh, lv)
    BY <1>1 DEF Roles, Threads
  <2> QED
    BY <1>3, <2>1, <2>2 DEF Uses
<1>14. Fields(t, r) /\ DOMAIN view' = Tids
  BY <1>3, <1>5, <1>6, <1>13 DEF SpaceInv, Fields, HasFrame, SpacelessPc
<1> QED
  BY <1>4, <1>9, <1>10, <1>11, <1>12, <1>14, AllParts

(* A thread goes on with the frames that it had. *)
LEMMA GoesOn ==
    ASSUME SpaceInv, NEW kd, NEW wh, NEW lv, NEW up, NEW at, Roles(kd, wh, lv, up, at),
           NEW t \in Tids, NEW r, Become(t, r),
           UNCHANGED <<pmmVars, tables, mem, heap, lost, resplit, view>>,
           r.pc # "unused" /\ th[t].pc # "unused",
           r.guard = th[t].guard /\ r.space = th[t].space,
           r.frame = th[t].frame /\ r.table = th[t].table,
           Quiet(th[t], r, lost, lost), Memory(t, r, mem, view[t], kd, wh, lv, up, at)
    PROVE  IInv' /\ FrameInv'
<1>1. /\ tables' = tables /\ mem' = mem /\ heap' = heap /\ lost' = lost /\ resplit' = resplit
      /\ view' = view /\ held' = held
  BY DEF pmmVars
<1>2. IInv'
  BY NextInv DEF SpaceInv
<1>3. OnlyMine(t, kd, wh, lv, up, at, mem, kd, wh, lv, up, at, mem')
  BY <1>1 DEF OnlyMine
<1>4. SharedKept(tables, kd, up, tables', kd, up)
  BY <1>1 DEF SharedKept
<1>5. Uses(t, r, kd, wh, lv)
  <2>1. Uses(t, th[t], kd, wh, lv)
    BY DEF Roles, Threads
  <2> QED
    BY <2>1 DEF Uses, Stack
<1>6. Tree(tables', kd, wh, lv, up, at) /\ Holdings(held', heap', lost', kd)
  BY <1>1 DEF Roles
<1>7. heap' \subseteq Frames /\ lost' \subseteq Frames
  BY <1>1 DEF SpaceInv, FrameInv
<1>8. /\ Quiet(th[t], r, lost, lost') /\ Memory(t, r, mem', view'[t], kd, wh, lv, up, at)
      /\ \A u \in Tids \ {t} : view'[u] = view[u]
  BY <1>1
<1>9. FrameInv'
  BY <1>1, <1>3, <1>4, <1>5, <1>6, <1>7, <1>8, QuietRoles
<1> QED
  BY <1>2, <1>9

(* The pages of a segment that come before va when va is none of them *)
LEMMA SegmentDone ==
    ASSUME NEW t \in Tids, LayoutOk(t), NEW p \in Program, NEW i \in Loads(p), NEW va \in Nat,
           va % PAGE_SIZE = 0, va >= PageOf(segment_vaddr(p.phdrs[i], load_bias(t))),
           va \notin SegmentPages(p.phdrs[i], load_bias(t)),
           NEW a \in SegmentPages(p.phdrs[i], load_bias(t))
    PROVE  a < va
<1>1. PICK ph : ph = p.phdrs[i]
  OBVIOUS
<1>2. PICK sv \in Nat, m \in Nat : sv = segment_vaddr(ph, load_bias(t)) /\ m = ph.memsz
  BY <1>1, SegmentPlace
<1>3. SegmentPages(ph, load_bias(t)) =
        {x \in Nat : x % PAGE_SIZE = 0 /\ PageOf(sv) <= x /\ x < sv + m /\ m # 0}
  BY <1>1, <1>2, SegmentPagesAre
<1>4. a \in Nat /\ a < sv + m /\ m # 0
  BY <1>1, <1>3
<1>5. ~ (va < sv + m)
  BY <1>1, <1>2, <1>3, <1>4
<1> QED
  BY <1>4, <1>5

(* Between two pages of elf_load *)
LEMMA SpaceSegment ==
    ASSUME SpaceInv, NEW t \in Tids, LoadSegment(t), heap' = heap
    PROVE  SpaceInv'
<1>1. PICK kd, wh, lv, up, at : Roles(kd, wh, lv, up, at)
  BY DEF SpaceInv, FrameInv
<1> DEFINE p         == th[t].prog
           ph        == p.phdrs[th[t].seg]
           bias      == load_bias(t)
           refused   == ph.type = "LOAD" /\ ~ SegmentOk(p, ph, bias)
           pagesLeft == /\ ph.type = "LOAD" /\ ~ refused
                        /\ th[t].va \in SegmentPages(ph, bias)
           entryBad  == th[t].seg = Len(p.phdrs) /\ ~ EntryOk(p, bias)
<1>2. /\ th[t].pc = "segment" /\ tables' = tables /\ regions' = regions /\ irqs_off' = irqs_off
      /\ spawns' = spawns /\ lost' = lost /\ resplit' = resplit
  BY DEF LoadSegment
<1>3. \/ /\ pagesLeft
         /\ \E f \in NextFree :
               /\ TookZeroed(f)
               /\ Become(t, [th[t] EXCEPT !.pc = "page", !.frame = f])
         /\ view' = view
      \/ Dies(t) /\ UNCHANGED <<pmmVars, mem>>
      \/ /\ ~ (pagesLeft \/ refused) /\ NextSegment(t)
         /\ UNCHANGED <<pmmVars, mem, view>>
  BY DEF LoadSegment
<1>4. /\ th[t] \in Thread /\ p \in Program /\ th[t].seg \in DOMAIN p.phdrs /\ th[t].va \in Nat
      /\ Fields(t, th[t]) /\ LayoutOk(t) /\ th[t].frame = 0 /\ th[t].table = 0
      /\ th[t].space # kernel_pml4
  <2>1. Loading(t, th[t]) /\ Fields(t, th[t])
    BY ThreadTypes DEF SpaceInv
  <2>2. p \in Program /\ th[t].seg \in DOMAIN p.phdrs
    BY <1>2, <2>1 DEF Loading
  <2>3. LayoutOk(t)
    BY <1>2, <2>1, <2>2, ProgramAssumption DEF Fields
  <2>4. th[t].frame = 0 /\ th[t].table = 0 /\ th[t].space # kernel_pml4
    BY <1>2, <2>1 DEF Fields, HasFrame, SpacelessPc
  <2> QED
    BY <2>1, <2>2, <2>3, <2>4, ThreadTypes DEF SpaceInv
<1>5. DOMAIN view[t] = {} /\ DOMAIN view = Tids
  BY <1>1, <1>2 DEF Roles, Memory, SpaceInv
<1>6. LoaderInv'
  BY LoaderSegment DEF SpaceInv
<1>7. CASE pagesLeft /\ view' = view /\ \E f \in NextFree :
              TookZeroed(f) /\ Become(t, [th[t] EXCEPT !.pc = "page", !.frame = f])
  <2>1. PICK f \in NextFree :
           TookZeroed(f) /\ Become(t, [th[t] EXCEPT !.pc = "page", !.frame = f])
    BY <1>7
  <2>2. f \in Frames /\ f \notin used /\ f # 0
    BY <2>1, TookOne DEF SpaceInv, TookZeroed
  <2>3. PICK r : r = [th[t] EXCEPT !.pc = "page", !.frame = f] /\ Become(t, r)
    BY <2>1
  <2>4. /\ r.pc = "page" /\ r.frame = f /\ r.table = 0 /\ r.guard = th[t].guard /\ r.va = th[t].va
        /\ r.space = th[t].space /\ r.prog = th[t].prog /\ r.seg = th[t].seg
    BY <1>4, <2>3 DEF Thread
  <2>5. Holds(th[t], r, f) /\ Quiet(th[t], r, lost, lost)
    BY <1>2, <1>4, <2>2, <2>4 DEF Holds, Quiet, Late, Opens
  <2>6. \A g \in Frames \ {f} : mem'[g] = mem[g]
    BY <2>1 DEF TookZeroed, SpaceInv, LoaderInv, Contents
  <2>7. Memory(t, r, mem', view[t], NewRole({f}, "hand", kd), NewUser({f}, t, wh), lv, up, at)
    <3>1. kd[f] = "none"
      BY <1>1, <2>2, FreshRole DEF SpaceInv
    <3>2. PagesKept(t, kd, wh, lv, up, at, mem,
                    NewRole({f}, "hand", kd), NewUser({f}, t, wh), lv, up, at, mem')
      BY <2>2, <2>6, <3>1, LoosePages DEF Loose
    <3>3. Memory(t, th[t], mem', view[t],
                 NewRole({f}, "hand", kd), NewUser({f}, t, wh), lv, up, at)
      BY <1>1, <1>2, <3>2, MemorySame DEF Roles
    <3> QED
      BY <1>2, <1>5, <2>4, <3>3 DEF Memory, Latest, Loaded
  <2>8. IInv' /\ FrameInv'
    BY <1>1, <1>2, <1>7, <2>1, <2>3, <2>5, <2>6, <2>7, HandTaken DEF TookZeroed
  <2>9. Fields(t, r)
    BY <1>2, <1>4, <1>7, <2>2, <2>4 DEF Fields, HasFrame, SpacelessPc
  <2>10. RegionsInv'
    BY <1>2, <2>3, RegionsSame DEF HasStack
  <2>11. Counters'
    BY <1>2, <2>3, CountersSame DEF SpaceInv, Counters
  <2> QED
    BY <1>5, <1>6, <1>7, <2>3, <2>8, <2>9, <2>10, <2>11, AllParts
<1>8. CASE Dies(t) /\ UNCHANGED <<pmmVars, mem>>
  <2>1. lost' = lost \cup InHand(t)
    BY <1>2, <1>4 DEF InHand
  <2>2. Late(th[t]) /\ th[t].pc # "zombie" /\ irqs_off' \in Tids \cup {NoTid}
    BY <1>2 DEF Late, SpaceInv, Counters
  <2> QED
    BY <1>2, <1>8, <2>1, <2>2, Death
<1>9. CASE ~ (pagesLeft \/ refused) /\ NextSegment(t) /\ UNCHANGED <<pmmVars, mem, view>>
  <2>1. PICK i \in Nat, n \in Nat : i = th[t].seg /\ n = Len(p.phdrs) /\ i <= n
                                    /\ DOMAIN p.phdrs = 1..n
    BY <1>4, HeaderTypes
  <2>2. PICK r : /\ Become(t, r)
                 /\ r = IF i < n THEN [th[t] EXCEPT !.seg = i + 1, !.va = FirstPage(t, i + 1)]
                        ELSE [th[t] EXCEPT !.pc = "stack"]
    BY <1>9, <2>1 DEF NextSegment
  <2>3. /\ r.frame = th[t].frame /\ r.table = th[t].table /\ r.guard = th[t].guard
        /\ r.space = th[t].space /\ r.prog = th[t].prog
        /\ r.pc = IF i < n THEN "segment" ELSE "stack"
        /\ i < n => r.seg = i + 1 /\ r.va = FirstPage(t, i + 1)
    BY <1>2, <1>4, <2>2 DEF Thread
  <2>4. ASSUME NEW a, i \in Loads(p), a \in SegmentPages(p.phdrs[i], bias)
        PROVE  a < th[t].va
    <3>1. ph.type = "LOAD" /\ th[t].va \notin SegmentPages(ph, bias)
      BY <1>9, <2>1, <2>4 DEF Loads
    <3>2. th[t].va % PAGE_SIZE = 0 /\ th[t].va >= PageOf(segment_vaddr(ph, bias))
      BY <1>2, <1>4, <3>1 DEF Fields
    <3> QED
      BY <1>4, <2>1, <2>4, <3>1, <3>2, SegmentDone
  <2>5. ASSUME NEW j \in Loads(p), NEW a
        PROVE  Loaded(t, r, j, a) <=> Loaded(t, th[t], j, a)
    <3>1. CASE a \notin SegmentPages(p.phdrs[j], bias)
      BY <2>3, <3>1 DEF Loaded
    <3>2. CASE a \in SegmentPages(p.phdrs[j], bias)
      <4>1. j \in 1..n
        BY <2>1 DEF Loads
      <4>2. Loaded(t, th[t], j, a) <=> j < i \/ (j = i /\ a < th[t].va)
        BY <1>2, <2>1, <3>2 DEF Loaded
      <4>3. Loaded(t, r, j, a) <=> j < r.seg \/ (j = r.seg /\ a < r.va) \/ r.pc = "stack"
        BY <2>3, <3>2 DEF Loaded
      <4>4. CASE j < i
        BY <2>3, <4>1, <4>2, <4>3, <4>4
      <4>5. CASE j = i
        <5>1. a < th[t].va
          BY <2>4, <3>2, <4>5
        <5> QED
          BY <2>3, <4>2, <4>3, <4>5, <5>1
      <4>6. CASE j > i
        <5>1. i < n /\ r.pc = "segment" /\ r.seg = i + 1 /\ r.va = FirstPage(t, i + 1)
          BY <2>3, <4>1, <4>6
        <5>2. ~ Loaded(t, th[t], j, a)
          BY <4>1, <4>2, <4>6
        <5>3. ASSUME Loaded(t, r, j, a) PROVE FALSE
          <6>1. j = i + 1 /\ a < FirstPage(t, j)
            BY <4>1, <4>3, <4>6, <5>1, <5>3
          <6>2. a \in Nat /\ FirstPage(t, j) <= a
            BY <1>4, <3>2, SegmentPagesAre DEF FirstPage
          <6>3. FirstPage(t, j) \in Nat
            BY <1>4, FirstPageIsNat DEF FirstPage, Loads
          <6> QED
            BY <6>1, <6>2, <6>3
        <5> QED
          BY <5>2, <5>3
      <4> QED
        BY <4>1, <4>4, <4>5, <4>6
    <3> QED
      BY <3>1, <3>2
  <2>6. Memory(t, r, mem, view[t], kd, wh, lv, up, at)
    <3>1. Memory(t, th[t], mem, view[t], kd, wh, lv, up, at)
      BY <1>1 DEF Roles
    <3>2. \A j \in Loads(p) : \A a : Latest(t, r, j, a) => Latest(t, th[t], j, a)
      BY <2>3, <2>5 DEF Latest
    <3> QED
      BY <1>2, <1>5, <2>3, <3>1, <3>2 DEF Memory
  <2>7. Quiet(th[t], r, lost, lost)
    BY <1>2, <2>3 DEF Quiet, Late, Opens
  <2>8. IInv' /\ FrameInv'
    <3>1. UNCHANGED <<pmmVars, tables, mem, heap, lost, resplit, view>> /\ Become(t, r)
      BY <1>2, <1>9, <2>2
    <3>2. r.pc # "unused" /\ th[t].pc # "unused"
      BY <1>2, <2>3
    <3>3. /\ r.guard = th[t].guard /\ r.space = th[t].space
          /\ r.frame = th[t].frame /\ r.table = th[t].table
      BY <2>3
    <3> QED
      BY <1>1, <2>6, <2>7, <3>1, <3>2, <3>3, GoesOn
  <2>9. Fields(t, r)
    <3>1. CASE i < n
      <4>1. FirstPage(t, i + 1) % PAGE_SIZE = 0 /\ FirstPage(t, i + 1) \in Nat
        <5>1. i + 1 \in DOMAIN p.phdrs
          BY <2>1, <3>1
        <5>2. segment_vaddr(p.phdrs[i + 1], bias) \in Nat
          BY <1>4, <5>1, FirstPageIsNat
        <5> QED
          BY <5>2, Pages DEF FirstPage
      <4>2. r.va >= PageOf(segment_vaddr(r.prog.phdrs[r.seg], bias))
        BY <2>3, <3>1, <4>1 DEF FirstPage
      <4> QED
        BY <1>2, <1>4, <2>3, <3>1, <4>1, <4>2 DEF Fields, HasFrame, SpacelessPc
    <3>2. CASE ~ (i < n)
      BY <1>2, <1>4, <2>3, <3>2 DEF Fields, HasFrame, SpacelessPc
    <3> QED
      BY <3>1, <3>2
  <2>10. RegionsInv'
    BY <1>2, <2>2, RegionsSame DEF HasStack
  <2>11. Counters'
    BY <1>2, <2>2, CountersSame DEF SpaceInv, Counters
  <2> QED
    BY <1>5, <1>6, <1>9, <2>2, <2>8, <2>9, <2>10, <2>11, AllParts
<1> QED
  BY <1>3, <1>7, <1>8, <1>9

(* The frame for the first page of the stack *)
LEMMA SpaceAllocStack ==
    ASSUME SpaceInv, NEW t \in Tids, AllocStack(t), heap' = heap
    PROVE  SpaceInv'
<1>1. PICK kd, wh, lv, up, at : Roles(kd, wh, lv, up, at)
  BY DEF SpaceInv, FrameInv
<1>2. /\ th[t].pc = "stack" /\ tables' = tables /\ regions' = regions /\ irqs_off' = irqs_off
      /\ spawns' = spawns /\ lost' = lost /\ resplit' = resplit
  BY DEF AllocStack
<1>3. /\ th[t] \in Thread /\ Fields(t, th[t]) /\ th[t].frame = 0 /\ th[t].table = 0
  BY <1>2, ThreadTypes DEF SpaceInv, Fields, HasFrame
<1>4. DOMAIN view[t] = {} /\ DOMAIN view = Tids
  BY <1>1, <1>2 DEF Roles, Memory, SpaceInv
<1>5. LoaderInv'
  BY LoaderStack DEF SpaceInv
<1>6. CASE Dies(t) /\ UNCHANGED <<pmmVars, mem>>
  <2>1. lost' = lost \cup InHand(t)
    BY <1>2, <1>3 DEF InHand
  <2>2. Late(th[t]) /\ th[t].pc # "zombie" /\ irqs_off' \in Tids \cup {NoTid}
    BY <1>2 DEF Late, SpaceInv, Counters
  <2> QED
    BY <1>2, <1>6, <2>1, <2>2, Death
<1>7. ASSUME NEW f \in NextFree, TookZeroed(f), view' = view,
             Become(t, [th[t] EXCEPT !.pc = "stackpage", !.frame = f])
      PROVE  SpaceInv'
  <2>1. f \in Frames /\ f \notin used /\ f # 0
    BY <1>7, TookOne DEF SpaceInv, TookZeroed
  <2>2. PICK r : r = [th[t] EXCEPT !.pc = "stackpage", !.frame = f] /\ Become(t, r)
    BY <1>7
  <2>3. /\ r.pc = "stackpage" /\ r.frame = f /\ r.table = 0 /\ r.guard = th[t].guard
        /\ r.va = th[t].va /\ r.space = th[t].space /\ r.prog = th[t].prog /\ r.seg = th[t].seg
    BY <1>3, <2>2 DEF Thread
  <2>4. Holds(th[t], r, f) /\ Quiet(th[t], r, lost, lost)
    BY <1>2, <1>3, <2>1, <2>3 DEF Holds, Quiet, Late, Opens
  <2>5. \A g \in Frames \ {f} : mem'[g] = mem[g]
    BY <1>7 DEF TookZeroed, SpaceInv, LoaderInv, Contents
  <2>6. Memory(t, r, mem', view[t], NewRole({f}, "hand", kd), NewUser({f}, t, wh), lv, up, at)
    <3>1. kd[f] = "none"
      BY <1>1, <2>1, FreshRole DEF SpaceInv
    <3>2. PagesKept(t, kd, wh, lv, up, at, mem,
                    NewRole({f}, "hand", kd), NewUser({f}, t, wh), lv, up, at, mem')
      BY <2>1, <2>5, <3>1, LoosePages DEF Loose
    <3>3. Memory(t, th[t], mem', view[t],
                 NewRole({f}, "hand", kd), NewUser({f}, t, wh), lv, up, at)
      BY <1>1, <1>2, <3>2, MemorySame DEF Roles
    <3> QED
      BY <1>2, <1>4, <2>3, <3>3 DEF Memory, Latest, Loaded
  <2>7. IInv' /\ FrameInv'
    BY <1>1, <1>2, <1>7, <2>2, <2>4, <2>5, <2>6, HandTaken DEF TookZeroed
  <2>8. Fields(t, r)
    BY <1>2, <1>3, <2>1, <2>3 DEF Fields, HasFrame, SpacelessPc
  <2>9. RegionsInv'
    BY <1>2, <2>2, RegionsSame DEF HasStack
  <2>10. Counters'
    BY <1>2, <2>2, CountersSame DEF SpaceInv, Counters
  <2> QED
    BY <1>4, <1>5, <1>7, <2>2, <2>7, <2>8, <2>9, <2>10, AllParts
<1> QED
  BY <1>6, <1>7 DEF AllocStack

(* The frame for the stack of the demo *)
LEMMA SpaceDemoStart ==
    ASSUME SpaceInv, NEW t \in Tids, DemoStart(t), heap' = heap
    PROVE  SpaceInv'
<1>1. PICK kd, wh, lv, up, at : Roles(kd, wh, lv, up, at)
  BY DEF SpaceInv, FrameInv
<1>2. /\ th[t].pc = "new" /\ th[t].prog = Demo /\ tables' = tables /\ regions' = regions
      /\ irqs_off' = irqs_off /\ spawns' = spawns /\ lost' = lost /\ resplit' = resplit
  BY DEF DemoStart
<1>3. /\ th[t] \in Thread /\ Fields(t, th[t]) /\ th[t].frame = 0 /\ th[t].table = 0
  BY <1>2, ThreadTypes DEF SpaceInv, Fields, HasFrame
<1>4. DOMAIN view[t] = {} /\ DOMAIN view = Tids
  BY <1>1, <1>2 DEF Roles, Memory, SpaceInv
<1>5. LoaderInv'
  BY LoaderDemo DEF SpaceInv
<1>6. CASE Dies(t) /\ UNCHANGED <<pmmVars, mem>>
  <2>1. lost' = lost \cup InHand(t)
    BY <1>2, <1>3 DEF InHand
  <2>2. Late(th[t]) /\ th[t].pc # "zombie" /\ irqs_off' \in Tids \cup {NoTid}
    BY <1>2 DEF Late, SpaceInv, Counters
  <2> QED
    BY <1>2, <1>6, <2>1, <2>2, Death
<1>7. ASSUME NEW f \in NextFree, TookZeroed(f), view' = view,
             Become(t, [th[t] EXCEPT !.pc = "demospace", !.frame = f])
      PROVE  SpaceInv'
  <2>1. f \in Frames /\ f \notin used /\ f # 0
    BY <1>7, TookOne DEF SpaceInv, TookZeroed
  <2>2. PICK r : r = [th[t] EXCEPT !.pc = "demospace", !.frame = f] /\ Become(t, r)
    BY <1>7
  <2>3. /\ r.pc = "demospace" /\ r.frame = f /\ r.table = 0 /\ r.guard = th[t].guard
        /\ r.space = th[t].space /\ r.prog = Demo
    BY <1>2, <1>3, <2>2 DEF Thread
  <2>4. Holds(th[t], r, f) /\ Quiet(th[t], r, lost, lost)
    BY <1>2, <1>3, <2>1, <2>3 DEF Holds, Quiet, Late, Opens
  <2>5. \A g \in Frames \ {f} : mem'[g] = mem[g]
    BY <1>7 DEF TookZeroed, SpaceInv, LoaderInv, Contents
  <2>6. Memory(t, r, mem', view[t], NewRole({f}, "hand", kd), NewUser({f}, t, wh), lv, up, at)
    BY <1>4, <2>3 DEF Memory
  <2>7. IInv' /\ FrameInv'
    BY <1>1, <1>2, <1>7, <2>2, <2>4, <2>5, <2>6, HandTaken DEF TookZeroed
  <2>8. Fields(t, r)
    BY <1>2, <1>3, <2>1, <2>3 DEF Fields, HasFrame, SpacelessPc
  <2>9. RegionsInv'
    BY <1>2, <2>2, RegionsSame DEF HasStack
  <2>10. Counters'
    BY <1>2, <2>2, CountersSame DEF SpaceInv, Counters
  <2> QED
    BY <1>4, <1>5, <1>7, <2>2, <2>7, <2>8, <2>9, <2>10, AllParts
<1> QED
  BY <1>6, <1>7 DEF DemoStart

(* A page fault: the stack gets a frame, or the program dies. *)
LEMMA SpaceFault ==
    ASSUME SpaceInv, NEW t \in Tids, NEW page \in SlotPages(t), PageFault(t, page), heap' = heap
    PROVE  SpaceInv'
<1>1. PICK kd, wh, lv, up, at : Roles(kd, wh, lv, up, at)
  BY DEF SpaceInv, FrameInv
<1>2. /\ th[t].pc = "user" /\ th[t].prog # Demo /\ tables' = tables /\ regions' = regions
      /\ spawns' = spawns /\ lost' = lost /\ resplit' = resplit
  BY DEF PageFault
<1>3. \/ /\ ~ vmm_is_mapped_in(th[t].space, page)
         /\ \E f \in NextFree :
               /\ TookZeroed(f)
               /\ Become(t, [th[t] EXCEPT !.pc = "fault", !.va = page, !.frame = f])
         /\ irqs_off' = t /\ view' = view
      \/ Dies(t) /\ UNCHANGED <<pmmVars, mem, irqs_off>>
  BY DEF PageFault
<1>4. /\ th[t] \in Thread /\ Fields(t, th[t]) /\ th[t].frame = 0 /\ th[t].table = 0
      /\ LayoutOk(t) /\ th[t].space # kernel_pml4 /\ th[t].prog \in Program
  BY <1>2, ThreadTypes DEF SpaceInv, Fields, HasFrame, SpacelessPc
<1>5. DOMAIN view = Tids
  BY DEF SpaceInv
<1>6. CASE Dies(t) /\ UNCHANGED <<pmmVars, mem, irqs_off>>
  <2>1. lost' = lost \cup InHand(t)
    BY <1>2, <1>4 DEF InHand
  <2>2. Late(th[t]) /\ th[t].pc # "zombie" /\ irqs_off' \in Tids \cup {NoTid}
    BY <1>2, <1>6 DEF Late, SpaceInv, Counters
  <2> QED
    BY <1>2, <1>6, <2>1, <2>2, Death
<1>7. ASSUME NEW f \in NextFree, TookZeroed(f), view' = view, irqs_off' = t,
             ~ vmm_is_mapped_in(th[t].space, page),
             Become(t, [th[t] EXCEPT !.pc = "fault", !.va = page, !.frame = f])
      PROVE  SpaceInv'
  <2>1. f \in Frames /\ f \notin used /\ f # 0
    BY <1>7, TookOne DEF SpaceInv, TookZeroed
  <2>2. PICK r : r = [th[t] EXCEPT !.pc = "fault", !.va = page, !.frame = f] /\ Become(t, r)
    BY <1>7
  <2>3. /\ r.pc = "fault" /\ r.frame = f /\ r.table = 0 /\ r.guard = th[t].guard /\ r.va = page
        /\ r.space = th[t].space /\ r.prog = th[t].prog
    BY <1>4, <2>2 DEF Thread
  <2>4. Holds(th[t], r, f) /\ Quiet(th[t], r, lost, lost)
    BY <1>2, <1>4, <2>1, <2>3 DEF Holds, Quiet, Late, Opens
  <2>5. mem'[f] = ZeroPage /\ \A g \in Frames \ {f} : mem'[g] = mem[g]
    BY <1>7, <2>1 DEF TookZeroed, SpaceInv, LoaderInv, Contents
  <2>6. Memory(t, r, mem', view[t], NewRole({f}, "hand", kd), NewUser({f}, t, wh), lv, up, at)
    <3>1. kd[f] = "none" /\ Tree(tables, kd, wh, lv, up, at)
      BY <1>1, <2>1, FreshRole DEF SpaceInv, Roles
    <3> DEFINE kd2 == NewRole({f}, "hand", kd)
               wh2 == NewUser({f}, t, wh)
    <3>2. PagesKept(t, kd, wh, lv, up, at, mem, kd2, wh2, lv, up, at, mem')
      BY <2>1, <2>5, <3>1, LoosePages DEF Loose
    <3>3. Memory(t, th[t], mem', view[t], kd2, wh2, lv, up, at)
      BY <1>1, <1>2, <3>2, MemorySame DEF Roles
    <3>4. ASSUME NEW g \in Frames, Maps(kd2, wh2, lv, up, at, t, g, page) PROVE FALSE
      <4>1. Maps(kd, wh, lv, up, at, t, g, page)
        BY <3>1, <3>2, <3>4, MapsSame
      <4>2. Level(kd, wh, lv, t, 4) = {th[t].space}
        BY <1>1, <1>4, SpaceOf
      <4>3. LET s == th[t].space
            IN  /\ At4(tables, s, page).present /\ At3(tables, s, page).present
                /\ At2(tables, s, page).present /\ At1(tables, s, page).present
        BY <3>1, <4>1, <4>2, MapsWalk
      <4> QED
        BY <1>7, <4>3, WalkIs DEF vmm_is_mapped_in, PdPresent
    <3> HIDE DEF kd2, wh2
    <3>5. Memory(t, r, mem', view[t], kd2, wh2, lv, up, at)
      BY <1>2, <2>3, <2>5, <3>3, <3>4 DEF Memory
    <3> QED
      BY <3>5 DEF kd2, wh2
  <2>7. IInv' /\ FrameInv'
    BY <1>1, <1>2, <1>7, <2>2, <2>4, <2>5, <2>6, HandTaken DEF TookZeroed
  <2>8. Fields(t, r)
    BY <1>2, <1>4, <2>1, <2>3 DEF Fields, HasFrame, SpacelessPc
  <2>9. RegionsInv'
    <3>1. \A s : HasStack(th[t], s) => HasStack(r, s)
      BY <1>2, <2>3 DEF HasStack
    <3> QED
      BY <1>2, <2>2, <3>1, RegionsSame
  <2>10. Counters'
    BY <1>2, <1>7, <2>2, CountersSame DEF SpaceInv, Counters
  <2>11. LoaderInv'
    <3>1. page \in Nat
      BY SlotIndices
    <3> QED
      BY <3>1, LoaderUser DEF SpaceInv
  <2> QED
    BY <1>5, <1>7, <2>2, <2>7, <2>8, <2>9, <2>10, <2>11, AllParts
<1> QED
  BY <1>3, <1>6, <1>7

(* A program exits or is killed. *)
LEMMA SpaceKill ==
    ASSUME SpaceInv, NEW t \in Tids, sched_kill(t), heap' = heap
    PROVE  SpaceInv'
<1>1. /\ Dies(t) /\ lost' = lost \cup InHand(t) /\ Late(th[t]) /\ th[t].pc # "zombie"
      /\ UNCHANGED <<pmmVars, tables, mem, regions, irqs_off, spawns, resplit>>
  BY DEF sched_kill, DiesWithFrames, Late
<1>2. irqs_off' \in Tids \cup {NoTid}
  BY <1>1 DEF SpaceInv, Counters
<1> QED
  BY <1>1, <1>2, Death

(* A program is killed with a table that it has not linked yet. *)
LEMMA SpaceKillInAllocation ==
    ASSUME SpaceInv, NEW t \in Tids, KillInAllocation(t), heap' = heap
    PROVE  SpaceInv'
<1>1. PICK n \in NextFree : /\ TookFrame(n) /\ mem' = [mem EXCEPT ![n] = Junk]
                           /\ lost' = lost \cup InHand(t) \cup {n}
  BY DEF KillInAllocation
<1>2. /\ Dies(t) /\ Late(th[t]) /\ th[t].pc # "zombie"
      /\ UNCHANGED <<tables, regions, irqs_off, spawns, resplit>>
  BY DEF KillInAllocation, Late
<1>3. /\ IInv' /\ held' = held \cup {n} /\ n \in Frames /\ {n} \subseteq Frames \ used
  BY <1>1, TookOne DEF SpaceInv
<1>4. mem' \in Contents
  BY <1>1, PagesAreTyped, FrameFilled DEF SpaceInv, LoaderInv
<1>5. \A f \in Frames \ (InHand(t) \cup {n}) : mem'[f] = mem[f]
  BY <1>1 DEF SpaceInv, LoaderInv, Contents
<1>6. irqs_off' \in Tids \cup {NoTid}
  BY <1>2 DEF SpaceInv, Counters
<1> QED
  <2>1. Leaves(t, {n}, "lost")
    BY <1>1, <1>3, <1>5 DEF Leaves
  <2> QED
    BY <1>2, <1>3, <1>4, <1>6, <2>1, DeathOf

(***************************************************************************)
(* Part 14.  New address spaces                                            *)
(***************************************************************************)

(* A thread gets its address space. *)
LEMMA SpaceMade ==
    ASSUME SpaceInv, NEW kd, NEW wh, NEW lv, NEW up, NEW at, Roles(kd, wh, lv, up, at),
           NEW t \in Tids, NEW r, Become(t, r), NEW f \in NextFree, vmm_create_address_space(f),
           heap' = heap, lost' = lost, resplit' = resplit, view' = view,
           th[t].pc # "unused" /\ r.pc # "unused", th[t].space = kernel_pml4 /\ r.space = f,
           r.frame = th[t].frame /\ r.table = th[t].table /\ r.guard = th[t].guard,
           Quiet(th[t], r, lost, lost), DOMAIN view[t] = {},
           r.pc \notin {"page", "stack", "stackpage", "register", "user", "fault"},
           \A i \in Loads(r.prog) : \A a : r.pc = "segment" => ~ Loaded(t, r, i, a)
    PROVE  IInv' /\ FrameInv'
<1>1. /\ IInv' /\ held' = held \cup {f}
      /\ f \in Frames /\ f \notin used /\ f \in Usable /\ f \notin held /\ f # 0
  BY TookOne DEF SpaceInv, vmm_create_address_space
<1>2. kd[f] = "none" /\ Tree(tables, kd, wh, lv, up, at)
  BY <1>1, FreshRole DEF SpaceInv, Roles
<1> DEFINE kd2 == [kd EXCEPT ![f] = "space"]
           wh2 == [wh EXCEPT ![f] = t]
           lv2 == [lv EXCEPT ![f] = 4]
<1>3. ASSUME NEW g \in Frames
      PROVE  /\ kd2[g] = IF g = f THEN "space" ELSE kd[g]
             /\ wh2[g] = IF g = f THEN t ELSE wh[g]
             /\ lv2[g] = IF g = f THEN 4 ELSE lv[g]
  BY <1>2 DEF Tree, RoleTypes
<1>4. Tree(tables', kd2, wh2, lv2, up, at)
  <2>1. EmptyTop(tables[kernel_pml4])
    BY <1>2 DEF Tree, BootTop, kernel_pml4
  <2>2. tables' = With(tables, f, tables[kernel_pml4])
    BY DEF vmm_create_address_space
  <2>3. Tree(With(tables, f, tables[kernel_pml4]), kd2, wh2, lv2, up, at)
    BY <1>1, <1>2, <2>1, SpaceTree
  <2> QED
    BY <2>2, <2>3
<1> HIDE DEF kd2, wh2, lv2
<1>5. kernel_pml4 # f
  BY <1>1, <1>2, BootDistinct DEF Tree, RoleTypes
<1>6. OnlyMine(t, kd, wh, lv, up, at, mem, kd2, wh2, lv2, up, at, mem')
  <2>1. \A g \in Frames \ {f} : mem'[g] = mem[g]
    BY DEF vmm_create_address_space, SpaceInv, LoaderInv, Contents
  <2> QED
    BY <1>2, <1>3, <2>1 DEF OnlyMine
<1>7. SharedKept(tables, kd, up, tables', kd2, up)
  <2>1. \A g \in Frames : kd[g] = "shared" => g \in DOMAIN tables /\ g # f
    BY <1>2 DEF Tree, TablesAre, IsTable
  <2> QED
    BY <1>2, <1>3, <2>1 DEF SharedKept, vmm_create_address_space, With
<1>8. Uses(t, r, kd2, wh2, lv2)
  <2>1. Uses(t, th[t], kd, wh, lv)
    BY DEF Roles, Threads
  <2> QED
    BY <1>1, <1>2, <1>3, <1>5, <2>1 DEF Uses, SpaceFrame, Stack
<1>9. Memory(t, r, mem', view'[t], kd2, wh2, lv2, up, at)
  BY DEF Memory, Latest
<1>10. Holdings(held', heap', lost', kd2)
  <2>1. Holdings(held, heap, lost, kd)
    BY DEF Roles
  <2> QED
    BY <1>1, <1>2, <1>3, <2>1 DEF Holdings
<1>11. heap' \subseteq Frames /\ lost' \subseteq Frames
  BY DEF SpaceInv, FrameInv
<1>12. Quiet(th[t], r, lost, lost') /\ \A u \in Tids \ {t} : view'[u] = view[u]
  OBVIOUS
<1>13. FrameInv'
  BY <1>4, <1>6, <1>7, <1>8, <1>9, <1>10, <1>11, <1>12, QuietRoles
<1> QED
  BY <1>1, <1>13

(* elf_process_trampoline makes a space for its program. *)
LEMMA SpaceCreate ==
    ASSUME SpaceInv, NEW t \in Tids, CreateSpace(t), heap' = heap
    PROVE  SpaceInv'
<1>1. PICK kd, wh, lv, up, at : Roles(kd, wh, lv, up, at)
  BY DEF SpaceInv, FrameInv
<1>2. /\ th[t].pc = "new" /\ th[t].prog # Demo /\ regions' = regions
      /\ irqs_off' = irqs_off /\ spawns' = spawns /\ lost' = lost /\ resplit' = resplit
  BY DEF CreateSpace
<1>3. /\ th[t] \in Thread /\ Fields(t, th[t]) /\ th[t].frame = 0 /\ th[t].table = 0
      /\ th[t].space = kernel_pml4 /\ th[t].prog \in Program
  BY <1>2, ThreadTypes DEF SpaceInv, Fields, HasFrame, SpacelessPc
<1>4. DOMAIN view[t] = {} /\ DOMAIN view = Tids
  BY <1>1, <1>2 DEF Roles, Memory, SpaceInv
<1>5. LoaderInv'
  BY LoaderCreate DEF SpaceInv
<1>6. CASE Dies(t) /\ UNCHANGED <<pmmVars, tables, mem>>
  <2>1. lost' = lost \cup InHand(t)
    BY <1>2, <1>3 DEF InHand
  <2>2. Late(th[t]) /\ th[t].pc # "zombie" /\ irqs_off' \in Tids \cup {NoTid}
    BY <1>2 DEF Late, SpaceInv, Counters
  <2> QED
    BY <1>2, <1>6, <2>1, <2>2, Death
<1>7. ASSUME NEW f \in NextFree, vmm_create_address_space(f), view' = view, NEW r, Become(t, r),
             \/ /\ LayoutOk(t) /\ HeaderOk(th[t].prog)
                /\ r = [th[t] EXCEPT !.pc = "segment", !.space = f, !.seg = 1,
                                     !.va = FirstPage(t, 1)]
             \/ r = [th[t] EXCEPT !.pc = "zombie", !.space = f]
      PROVE  SpaceInv'
  <2>1. /\ r.pc \in {"segment", "zombie"} /\ r.frame = 0 /\ r.table = 0 /\ r.space = f
        /\ r.guard = th[t].guard /\ r.prog = th[t].prog
        /\ r.pc = "segment" => /\ r.seg = 1 /\ r.va = FirstPage(t, 1)
                               /\ LayoutOk(t) /\ HeaderOk(th[t].prog)
    BY <1>3, <1>7 DEF Thread
  <2>2. ASSUME r.pc = "segment", NEW j \in Loads(r.prog), NEW a, Loaded(t, r, j, a)
        PROVE  FALSE
    <3>1. /\ j \in Loads(th[t].prog) /\ a \in SegmentPages(th[t].prog.phdrs[j], load_bias(t))
          /\ j < 1 \/ (j = 1 /\ a < FirstPage(t, 1))
      BY <2>1, <2>2 DEF Loaded
    <3>2. j \in Nat /\ j >= 1
      BY <1>3, <3>1, HeaderTypes DEF Loads
    <3>3. j = 1 /\ a < FirstPage(t, 1)
      BY <3>1, <3>2
    <3>4. a \in Nat /\ FirstPage(t, 1) <= a
      BY <1>3, <2>1, <2>2, <3>1, <3>3, SegmentPagesAre DEF FirstPage
    <3>5. FirstPage(t, 1) \in Nat
      BY <1>3, <3>1, <3>3, FirstPageIsNat DEF FirstPage, Loads
    <3> QED
      BY <3>3, <3>4, <3>5
  <2>3. f \in Frames /\ f \notin used /\ f # 0
    BY <1>7, TookOne DEF SpaceInv, vmm_create_address_space
  <2>4. f # kernel_pml4
    <3>1. kd[f] = "none"
      BY <1>1, <2>3, FreshRole DEF SpaceInv
    <3> QED
      BY <1>1, <3>1, BootDistinct DEF Roles, Tree, RoleTypes
  <2>5. Quiet(th[t], r, lost, lost)
    BY <1>2, <2>1 DEF Quiet, Late, Opens
  <2>6. IInv' /\ FrameInv'
    <3>1. /\ th[t].pc # "unused" /\ r.pc # "unused" /\ th[t].space = kernel_pml4 /\ r.space = f
          /\ r.frame = th[t].frame /\ r.table = th[t].table /\ r.guard = th[t].guard
          /\ r.pc \notin {"page", "stack", "stackpage", "register", "user", "fault"}
      BY <1>2, <1>3, <2>1
    <3>2. \A i \in Loads(r.prog) : \A a : r.pc = "segment" => ~ Loaded(t, r, i, a)
      BY <2>2
    <3> QED
      BY <1>1, <1>2, <1>4, <1>7, <2>5, <3>1, <3>2, SpaceMade
  <2>7. Fields(t, r)
    <3>1. CASE r.pc = "segment"
      <4>1. 1 \in DOMAIN th[t].prog.phdrs
        <5>1. PICK i \in DOMAIN th[t].prog.phdrs : TRUE
          BY <2>1, <3>1 DEF HeaderOk, entry_is_executable
        <5> QED
          BY <1>3, <5>1, HeaderTypes
      <4>2. segment_vaddr(th[t].prog.phdrs[1], load_bias(t)) \in Nat
        BY <1>3, <4>1, FirstPageIsNat
      <4>3. FirstPage(t, 1) % PAGE_SIZE = 0 /\ FirstPage(t, 1) \in Nat
        BY <4>2, Pages DEF FirstPage
      <4>4. r.va >= PageOf(segment_vaddr(r.prog.phdrs[r.seg], load_bias(t)))
        BY <2>1, <3>1, <4>3 DEF FirstPage
      <4> QED
        BY <1>3, <2>1, <2>4, <3>1, <4>3, <4>4 DEF Fields, HasFrame, SpacelessPc
    <3>2. CASE r.pc = "zombie"
      BY <1>3, <2>1, <2>4, <3>2 DEF Fields, HasFrame, SpacelessPc
    <3> QED
      BY <2>1, <3>1, <3>2
  <2>8. RegionsInv'
    BY <1>2, <1>7, RegionsSame DEF HasStack
  <2>9. Counters'
    BY <1>2, <1>7, CountersSame DEF SpaceInv, Counters
  <2> QED
    BY <1>4, <1>5, <1>7, <2>6, <2>7, <2>8, <2>9, AllParts
<1> QED
  BY <1>6, <1>7 DEF CreateSpace

(* raw_entry_trampoline makes one for the demo. *)
LEMMA SpaceDemoSpace ==
    ASSUME SpaceInv, NEW t \in Tids, DemoSpace(t), heap' = heap
    PROVE  SpaceInv'
<1>1. PICK kd, wh, lv, up, at : Roles(kd, wh, lv, up, at)
  BY DEF SpaceInv, FrameInv
<1>2. /\ th[t].pc = "demospace" /\ regions' = regions
      /\ irqs_off' = irqs_off /\ spawns' = spawns /\ resplit' = resplit
  BY DEF DemoSpace
<1>3. /\ th[t] \in Thread /\ Fields(t, th[t]) /\ th[t].frame # 0 /\ th[t].table = 0
      /\ th[t].space = kernel_pml4 /\ th[t].prog = Demo
  BY <1>2, ThreadTypes DEF SpaceInv, Fields, HasFrame, SpacelessPc
<1>4. DOMAIN view[t] = {} /\ DOMAIN view = Tids
  BY <1>1, <1>2 DEF Roles, Memory, SpaceInv
<1>5. LoaderInv'
  BY LoaderDemo DEF SpaceInv
<1>6. CASE DiesWithFrames(t) /\ UNCHANGED <<pmmVars, tables, mem>>
  <2>1. Dies(t) /\ lost' = lost \cup InHand(t)
    BY <1>6 DEF DiesWithFrames
  <2>2. Late(th[t]) /\ th[t].pc # "zombie" /\ irqs_off' \in Tids \cup {NoTid}
    BY <1>2 DEF Late, SpaceInv, Counters
  <2> QED
    BY <1>2, <1>6, <2>1, <2>2, Death
<1>7. ASSUME NEW f \in NextFree, vmm_create_address_space(f), view' = view, lost' = lost,
             Become(t, [th[t] EXCEPT !.pc = "demomark", !.space = f, !.seg = 1])
      PROVE  SpaceInv'
  <2>1. PICK r : r = [th[t] EXCEPT !.pc = "demomark", !.space = f, !.seg = 1] /\ Become(t, r)
    BY <1>7
  <2>2. /\ r.pc = "demomark" /\ r.frame = th[t].frame /\ r.table = 0 /\ r.space = f
        /\ r.guard = th[t].guard /\ r.prog = Demo /\ r.seg = 1
    BY <1>3, <2>1 DEF Thread
  <2>3. f \in Frames /\ f \notin used /\ f # 0
    BY <1>7, TookOne DEF SpaceInv, vmm_create_address_space
  <2>4. f # kernel_pml4
    <3>1. kd[f] = "none"
      BY <1>1, <2>3, FreshRole DEF SpaceInv
    <3> QED
      BY <1>1, <3>1, BootDistinct DEF Roles, Tree, RoleTypes
  <2>5. Quiet(th[t], r, lost, lost)
    BY <1>2, <2>2 DEF Quiet, Late, Opens
  <2>6. IInv' /\ FrameInv'
    <3>1. /\ th[t].pc # "unused" /\ r.pc # "unused" /\ th[t].space = kernel_pml4 /\ r.space = f
          /\ r.frame = th[t].frame /\ r.table = th[t].table /\ r.guard = th[t].guard
          /\ r.pc \notin {"page", "stack", "stackpage", "register", "user", "fault"}
          /\ r.pc # "segment"
      BY <1>2, <1>3, <2>2
    <3> QED
      BY <1>1, <1>2, <1>4, <1>7, <2>1, <2>5, <3>1, SpaceMade
  <2>7. Fields(t, r)
    BY <1>2, <1>3, <2>2, <2>4 DEF Fields, HasFrame, SpacelessPc
  <2>8. RegionsInv'
    BY <1>2, <2>1, RegionsSame DEF HasStack
  <2>9. Counters'
    BY <1>2, <2>1, CountersSame DEF SpaceInv, Counters
  <2> QED
    BY <1>4, <1>5, <1>7, <2>1, <2>6, <2>7, <2>8, <2>9, AllParts
<1> QED
  BY <1>6, <1>7 DEF DemoSpace

(***************************************************************************)
(* Part 15.  The shared branch changes                                     *)
(***************************************************************************)

(* PAGE_USER is set already: nothing changes. *)
LEMMA UserKept ==
    ASSUME NEW T, NEW f \in DOMAIN T, T[f] \in [Index -> Entry], NEW i \in Index, T[f][i].user
    PROVE  LET T2 == [T EXCEPT ![f][i].user = TRUE]
           IN  DOMAIN T2 = DOMAIN T /\ \A g \in DOMAIN T : T2[g] = T[g]
<1> DEFINE e  == T[f][i]
           e2 == [e EXCEPT !.user = TRUE]
           T2 == [T EXCEPT ![f][i].user = TRUE]
<1>1. e \in Entry /\ e.user = TRUE
  BY DEF Entry
<1>2. e2 = e
  BY <1>1 DEF Entry
<1>3. [T[f] EXCEPT ![i] = e2] = T[f]
  BY <1>2
<1>4. DOMAIN T2 = DOMAIN T
  OBVIOUS
<1>5. \A g \in DOMAIN T : T2[g] = IF g = f THEN [T[f] EXCEPT ![i] = e2] ELSE T[g]
  OBVIOUS
<1> QED
  BY <1>3, <1>4, <1>5

(* The tables with entry e at place i of table n *)
Written(T, n, i, e) == [T EXCEPT ![n][i] = e]

(* Where the tables are there and have PAGE_USER, only the page entry is    *)
(* written.                                                                 *)
LEMMA SetPteIs ==
    ASSUME NEW s \in DOMAIN tables, NEW a \in Nat, NEW e, SetPte(s, a, e),
           \A g \in DOMAIN tables : tables[g] \in [Index -> Entry],
           L4(s, a).user, L4(s, a).frame \in DOMAIN tables,
           L3(s, a).user, L3(s, a).frame \in DOMAIN tables,
           L2(s, a).user, L2(s, a).frame \in DOMAIN tables,
           NEW n, L2(s, a).frame = n, NEW i, pt_index(a) = i
    PROVE  tables' = Written(tables, n, i, e)
<1>1. PICK f3, f2, f1 : f3 = L4(s, a).frame /\ f2 = L3(s, a).frame /\ f1 = L2(s, a).frame
  OBVIOUS
<1>2. PICK i4 \in Index, i3 \in Index, i2 \in Index, i1 \in Index :
        i4 = pml4_index(a) /\ i3 = pdpt_index(a) /\ i2 = pd_index(a) /\ i1 = pt_index(a)
  BY Indices
<1>3. tables[s][i4].user /\ tables[f3][i3].user /\ tables[f2][i2].user
  BY <1>1, <1>2 DEF L4, L3, L2
<1>4. f3 \in DOMAIN tables /\ f2 \in DOMAIN tables /\ f1 \in DOMAIN tables
  BY <1>1
<1> DEFINE T1 == [tables EXCEPT ![s][i4].user = TRUE]
           T2 == [T1 EXCEPT ![f3][i3].user = TRUE]
           T3 == [T2 EXCEPT ![f2][i2].user = TRUE]
<1>5. tables' = [T3 EXCEPT ![f1][i1] = e]
  BY <1>1, <1>2 DEF SetPte
<1>6. DOMAIN T1 = DOMAIN tables /\ \A g \in DOMAIN tables : T1[g] = tables[g]
  BY <1>3, UserKept
<1> HIDE DEF T1
<1>7. DOMAIN T2 = DOMAIN tables /\ \A g \in DOMAIN tables : T2[g] = tables[g]
  <2>1. f3 \in DOMAIN T1 /\ T1[f3] \in [Index -> Entry] /\ T1[f3][i3].user
    BY <1>3, <1>4, <1>6
  <2>2. DOMAIN T2 = DOMAIN T1 /\ \A g \in DOMAIN T1 : T2[g] = T1[g]
    BY <2>1, UserKept
  <2> QED
    BY <1>6, <2>2
<1> HIDE DEF T2
<1>8. DOMAIN T3 = DOMAIN tables /\ \A g \in DOMAIN tables : T3[g] = tables[g]
  <2>1. f2 \in DOMAIN T2 /\ T2[f2] \in [Index -> Entry] /\ T2[f2][i2].user
    BY <1>3, <1>4, <1>7
  <2>2. DOMAIN T3 = DOMAIN T2 /\ \A g \in DOMAIN T2 : T3[g] = T2[g]
    BY <2>1, UserKept
  <2> QED
    BY <1>7, <2>2
<1> HIDE DEF T3
<1>9. tables' = [tables EXCEPT ![f1][i1] = e]
  BY <1>4, <1>5, <1>8
<1> QED
  BY <1>1, <1>2, <1>9 DEF Written

(* The way to the page of a usable frame in the shared branch *)
LEMMA SharedWalk ==
    ASSUME NEW kd, NEW wh, NEW lv, NEW up, NEW at, Tree(tables, kd, wh, lv, up, at),
           NEW s, IsTop(tables, s), NEW x \in Usable
    PROVE  LET a == Addr(x)
           IN  /\ x \in Frames /\ a \in Nat /\ X2(x) \in LargePages
               /\ L4(s, a) = TableEntry(BootTables[2])
               /\ L3(s, a) = TableEntry(PdOf(X2(x)))
               /\ L2(s, a) = PdEntry(tables, X2(x))
               /\ PdEntry(tables, X2(x)).present
               /\ MissingLevel(s, a) = 0 =>
                     \E n \in Frames : /\ kd[n] = "shared" /\ up[n] = X2(x)
                                       /\ L2(s, a) = TableEntry(n)
               /\ MissingLevel(s, a) # 0 =>
                     /\ MissingLevel(s, a) = 1
                     /\ PdEntry(tables, X2(x)) = LargeEntry(X2(x) * ENTRIES)
<1> DEFINE a == Addr(x)
<1>1. x \in Frames /\ a \in Nat /\ X2(x) \in LargePages
  BY UsablePd, UsableEntry, FrameFacts, Pages
<1>2. /\ L4(s, a) = TableEntry(BootTables[2])
      /\ L3(s, a) = TableEntry(PdOf(X2(x)))
      /\ L2(s, a) = PdEntry(tables, X2(x))
  <2>1. BootTop(tables)
    BY DEF Tree
  <2> QED
    BY <1>1, <2>1, IdentityWalk, WalkIs
<1> HIDE DEF a
<1>3. L4(s, a).present /\ L3(s, a).present
  BY <1>2, EntryFields
<1>4. CASE PdEntry(tables, X2(x)) = LargeEntry(X2(x) * ENTRIES)
  <2>1. L2(s, a).present /\ L2(s, a).large
    BY <1>2, <1>4, EntryFields
  <2>2. MissingLevel(s, a) = 1
    BY <1>3, <2>1 DEF MissingLevel
  <2> QED
    BY <1>1, <1>2, <1>4, <2>1, <2>2 DEF a
<1>5. CASE \E n \in Frames : kd[n] = "shared" /\ up[n] = X2(x)
                             /\ PdEntry(tables, X2(x)) = TableEntry(n)
  <2>1. L2(s, a).present /\ ~ L2(s, a).large
    BY <1>2, <1>5, EntryFields
  <2>2. MissingLevel(s, a) = 0
    BY <1>3, <2>1 DEF MissingLevel
  <2> QED
    BY <1>1, <1>2, <1>5, <2>1, <2>2 DEF a
<1> QED
  BY <1>4, <1>5, UsableEntry

(* A page table that a split replaces was the one of that large page. *)
LEMMA OldTableIs ==
    ASSUME NEW T, NEW kd, NEW wh, NEW lv, NEW up, NEW at, Tree(T, kd, wh, lv, up, at),
           NEW x \in Usable
    PROVE  /\ PdEntry(T, X2(x)).present /\ X2(x) \in LargePages
           /\ \A g \in OldTable(T, X2(x)) : g \in Frames /\ kd[g] = "shared" /\ up[g] = X2(x)
BY UsableEntry, EntryFields DEF OldTable

(* Thread r goes on as r2 and may take its guard, frame x, out by entry e. *)
Resumes(r, r2, x, e) ==
    /\ r.pc # "unused" /\ r2.pc # "unused" /\ r2.guard = r.guard /\ r2.space = r.space
    /\ Late(r) => Late(r2)
    /\ Late(r2) => Late(r) \/ (r.guard = x /\ ~ e.present)
    /\ \A y : Opens(r, y) => Opens(r2, y)
    /\ r2.pc \notin {"segment", "page", "stack", "stackpage", "fault"}

(* Entries of the shared branch stay sound when a thread resumes. *)
LEMMA PteStays ==
    ASSUME NEW thr, NEW thr2, NEW t \in Tids, \A u \in Tids \ {t} : thr2[u] = thr[u],
           NEW x, NEW e, Resumes(thr[t], thr2[t], x, e), NEW ls, NEW ls2, ls \subseteq ls2,
           NEW d, NEW y, PteOk(d, y, thr, ls)
    PROVE  PteOk(d, y, thr2, ls2)
<1>1. LateGuard(thr, y) => LateGuard(thr2, y)
  BY DEF LateGuard, Resumes
<1>2. Opened(thr, ls, y) => Opened(thr2, ls2, y)
  BY DEF Opened, Resumes
<1> QED
  BY <1>1, <1>2 DEF PteOk

(* Table n has the pages around frame x, and entry e for x. *)
SplitAs(T, n, x, e) ==
    \A j \in Index : T[n][j] = IF j = x % ENTRIES THEN e ELSE PageEntry(X2(x) * ENTRIES + j, FALSE)

(* An older table of large page r is lost. *)
OldLost(T, r, ls, ls2, rs, rs2) ==
    /\ \A g : g \in ls2 <=> g \in ls \/ g \in OldTable(T, r)
    /\ rs \subseteq rs2
    /\ OldTable(T, r) # {} => r * ENTRIES \in rs2

(* The thread has no longer frame n in hand. *)
PutsDown(r, r2, n) ==
    \A g : g # 0 /\ g \in {r2.frame, r2.table} <=> g # 0 /\ g \in {r.frame, r.table} /\ g # n

(* The large page around frame x gets table n: the roles after it. *)
LEMMA SplitDone ==
    ASSUME SpaceInv, NEW kd, NEW wh, NEW lv, NEW up, NEW at, Roles(kd, wh, lv, up, at),
           NEW t \in Tids, NEW r, Become(t, r), NEW x \in Usable, NEW n \in Frames,
           kd[n] = "none" \/ (kd[n] = "hand" /\ wh[n] = t), NEW e \in Entry,
           SharedTables(tables, X2(x), n, tables'), SplitAs(tables', n, x, e),
           OldLost(tables, X2(x), lost, lost', resplit, resplit'),
           PteOk(e, x, th', lost'), Resumes(th[t], r, x, e), DOMAIN view[t] = {},
           PutsDown(th[t], r, n), held' = held \cup {n}, heap' = heap, view' = view,
           \A g \in Frames \ {n} : mem'[g] = mem[g]
    PROVE  FrameInv'
<1> DEFINE R   == X2(x)
           Old == OldTable(tables, R)
           kd2 == SharedKind(tables, kd, R, n)
           up2 == [up EXCEPT ![n] = R]
<1>1. Tree(tables, kd, wh, lv, up, at) /\ RoleTypes(kd, wh, lv, up, at)
  BY DEF Roles, Tree
<1>2. /\ R \in LargePages /\ PdEntry(tables, R).present
      /\ \A g \in Old : g \in Frames /\ kd[g] = "shared" /\ up[g] = R
  BY <1>1, OldTableIs
<1>3. x \in Frames /\ x % ENTRIES \in Index /\ R * ENTRIES + (x % ENTRIES) = x
  BY UsablePd, IdentityIndices
<1>4. Tree(tables', kd2, wh, lv, up2, at)
  <2>1. NewShared(tables, kd, R, n)
    BY <1>2 DEF NewShared
  <2> QED
    BY <1>1, <2>1, SharedTree
<1>5. ASSUME NEW g \in Frames
      PROVE  /\ kd2[g] = IF g = n THEN "shared" ELSE IF g \in Old THEN "lost" ELSE kd[g]
             /\ up2[g] = IF g = n THEN R ELSE up[g]
  BY <1>1 DEF SharedKind, RoleTypes
<1> HIDE DEF kd2, up2
<1>6. ASSUME NEW g \in Frames, kd[g] = "shared", g \notin Old
      PROVE  tables'[g] = tables[g] /\ kd2[g] = "shared" /\ up2[g] = up[g]
  <2>1. g \in DOMAIN tables \ Old /\ g # n
    BY <1>1, <1>6 DEF Tree, TablesAre, IsTable
  <2>2. g # PdOf(R)
    BY <1>1, <1>2, <1>6, PdPlace DEF RoleTypes
  <2>3. tables'[g] = tables[g]
    BY <2>1, <2>2 DEF SharedTables
  <2> QED
    BY <1>5, <1>6, <2>1, <2>3
<1>7. \A u \in Tids : th'[u] = IF u = t THEN r ELSE th[u]
  BY DEF Become, SpaceInv, LoaderInv
<1> HIDE DEF Old
<1>8. Ptes(tables', kd2, up2, th', lost')
  <2>1. ASSUME NEW m \in Frames, NEW j \in Index, kd2[m] = "shared",
               NEW y, y = up2[m] * ENTRIES + j, NEW d, d = tables'[m][j]
        PROVE  PteOk(d, y, th', lost')
    <3>1. CASE m = n /\ j = x % ENTRIES
      <4>1. d = e /\ y = x
        BY <1>3, <1>5, <2>1, <3>1 DEF SplitAs
      <4> QED
        BY <4>1
    <3>2. CASE m = n /\ j # x % ENTRIES
      <4>1. d = PageEntry(y, FALSE)
        BY <1>5, <2>1, <3>2 DEF SplitAs
      <4> QED
        BY <4>1, EntryFields DEF PteOk
    <3>3. CASE m # n
      <4>1. kd[m] = "shared" /\ m \notin Old
        BY <1>5, <2>1, <3>3
      <4>2. tables'[m] = tables[m] /\ up2[m] = up[m]
        BY <1>6, <4>1
      <4>3. PteOk(d, y, th, lost)
        BY <2>1, <4>1, <4>2 DEF Roles, Ptes
      <4>4. /\ \A u \in Tids \ {t} : th'[u] = th[u]
            /\ Resumes(th[t], th'[t], x, e) /\ lost \subseteq lost'
        BY <1>7 DEF OldLost
      <4> QED
        BY <4>3, <4>4, PteStays
    <3> QED
      BY <3>1, <3>2, <3>3
  <2> QED
    BY <2>1 DEF Ptes
<1>9. Guards(tables', kd2, up2, th', resplit')
  <2>1. SUFFICES ASSUME NEW u \in Tids, Late(th'[u])
                 PROVE  GuardOut(tables', kd2, up2, resplit', th'[u].guard)
    BY DEF Guards
  <2>2. kd2[n] = "shared" /\ up2[n] = R
    BY <1>5
  <2>3. CASE Late(th[u])
    <3>1. th'[u].guard = th[u].guard
      BY <1>7 DEF Resumes
    <3>2. PICK m \in Frames : /\ kd[m] = "shared" /\ up[m] = X2(th[u].guard)
                              /\ \/ ~ tables[m][th[u].guard % ENTRIES].present
                                 \/ X2(th[u].guard) * ENTRIES \in resplit
      BY <2>3 DEF Roles, Guards, GuardOut
    <3>3. CASE m \in Old
      <4>1. X2(th[u].guard) = R /\ R * ENTRIES \in resplit'
        BY <1>2, <3>2, <3>3 DEF Old, OldLost
      <4> QED
        BY <2>2, <3>1, <4>1 DEF GuardOut
    <3>4. CASE m \notin Old
      <4>1. tables'[m] = tables[m] /\ kd2[m] = "shared" /\ up2[m] = up[m]
        BY <1>6, <3>2, <3>4
      <4> QED
        BY <3>1, <3>2, <4>1 DEF GuardOut, OldLost
    <3> QED
      BY <3>3, <3>4
  <2>4. CASE ~ Late(th[u])
    <3>1. th'[u].guard = x /\ ~ e.present
      BY <1>7, <2>1, <2>4 DEF Resumes
    <3>2. ~ tables'[n][x % ENTRIES].present
      BY <1>3, <3>1 DEF SplitAs
    <3> QED
      BY <2>2, <3>1, <3>2 DEF GuardOut
  <2> QED
    BY <2>3, <2>4
<1>10. OnlyMine(t, kd, wh, lv, up, at, mem, kd2, wh, lv, up2, at, mem')
  BY <1>2, <1>5 DEF OnlyMine, Old
<1>11. Uses(t, r, kd2, wh, lv)
  <2>1. Uses(t, th[t], kd, wh, lv)
    BY DEF Roles, Threads
  <2>2. \A f \in Frames : /\ kd2[f] = "stack" <=> kd[f] = "stack"
                          /\ kd2[f] = "space" <=> kd[f] = "space"
                          /\ kd2[f] = "hand" <=> kd[f] = "hand" /\ f # n
    BY <1>2, <1>5 DEF Old
  <2>3. /\ Stack(r) = Stack(th[t]) /\ r.pc # "unused" /\ th[t].pc # "unused"
        /\ r.space = th[t].space
    BY DEF Resumes, Stack
  <2>4. \A f \in Frames : SpaceFrame(kd2, wh, lv, t, 4, f) <=> SpaceFrame(kd, wh, lv, t, 4, f)
    BY <2>2 DEF SpaceFrame
  <2> HIDE DEF kd2
  <2> QED
    BY <2>1, <2>2, <2>3, <2>4 DEF Uses, PutsDown
<1>12. Memory(t, r, mem', view'[t], kd2, wh, lv, up2, at)
  BY DEF Memory, Resumes
<1>13. Holdings(held', heap', lost', kd2)
  <2>1. Holdings(held, heap, lost, kd)
    BY DEF Roles
  <2> QED
    BY <1>2, <1>5, <2>1 DEF Holdings, Old, OldLost
<1>14. heap' \subseteq Frames /\ lost' \subseteq Frames
  BY <1>2 DEF SpaceInv, FrameInv, Old, OldLost
<1>15. \A u \in Tids \ {t} : view'[u] = view[u]
  OBVIOUS
<1> QED
  BY <1>4, <1>8, <1>9, <1>10, <1>11, <1>12, <1>13, <1>14, <1>15, NextRoles

(* The page entry for frame x is written where its large page is split. *)
LEMMA PteDone ==
    ASSUME SpaceInv, NEW kd, NEW wh, NEW lv, NEW up, NEW at, Roles(kd, wh, lv, up, at),
           NEW t \in Tids, NEW r, Become(t, r), NEW x \in Frames, NEW n \in Frames,
           kd[n] = "shared", up[n] = X2(x), NEW e \in Entry,
           tables' = Written(tables, n, x % ENTRIES, e),
           PteOk(e, x, th', lost), e.present => ~ LateGuard(th', x),
           Resumes(th[t], r, x, e), DOMAIN view[t] = {}, LoaderInv',
           r.frame = th[t].frame, r.table = th[t].table,
           UNCHANGED <<held, heap, lost, resplit, mem, view>>
    PROVE  FrameInv'
<1>1. /\ held' = held /\ heap' = heap /\ lost' = lost /\ resplit' = resplit
      /\ mem' = mem /\ view' = view
  OBVIOUS
<1>2. x % ENTRIES \in Index /\ X2(x) * ENTRIES + (x % ENTRIES) = x
  BY IdentityIndices
<1>3. Tree(tables, kd, wh, lv, up, at) /\ n \in DOMAIN tables
  BY DEF Roles, Tree, TablesAre, IsTable
<1>4. Tree(tables', kd, wh, lv, up, at)
  BY <1>2, <1>3, PteTree DEF Written
<1>5. ASSUME NEW m \in Frames, kd[m] = "shared", NEW j
      PROVE  tables'[m][j] = IF m = n /\ j = x % ENTRIES THEN e ELSE tables[m][j]
  <2>1. m \in DOMAIN tables
    BY <1>3, <1>5 DEF Tree, TablesAre, IsTable
  <2>2. tables[n] \in [Index -> Entry]
    BY <1>3 DEF Tree, TablesAre
  <2> QED
    BY <1>2, <1>3, <2>1, <2>2 DEF Written
<1>6. \A u \in Tids : th'[u] = IF u = t THEN r ELSE th[u]
  BY DEF Become, SpaceInv, LoaderInv
<1>7. Ptes(tables', kd, up, th', lost')
  <2>1. SUFFICES ASSUME NEW m \in Frames, NEW j \in Index, kd[m] = "shared"
                 PROVE  PteOk(tables'[m][j], up[m] * ENTRIES + j, th', lost')
    BY DEF Ptes
  <2>2. CASE m = n /\ j = x % ENTRIES
    <3>1. tables'[m][j] = e /\ up[m] * ENTRIES + j = x
      BY <1>2, <1>5, <2>1, <2>2
    <3> QED
      BY <1>1, <3>1
  <2>3. CASE ~ (m = n /\ j = x % ENTRIES)
    <3>1. tables'[m][j] = tables[m][j]
      BY <1>5, <2>1, <2>3
    <3>2. PteOk(tables[m][j], up[m] * ENTRIES + j, th, lost)
      BY <2>1 DEF Roles, Ptes
    <3>3. /\ \A u \in Tids \ {t} : th'[u] = th[u]
          /\ Resumes(th[t], th'[t], x, e) /\ lost \subseteq lost'
      BY <1>1, <1>6
    <3>4. PteOk(tables[m][j], up[m] * ENTRIES + j, th', lost')
      <4>1. PICK d, y : d = tables[m][j] /\ y = up[m] * ENTRIES + j
        OBVIOUS
      <4>2. PteOk(d, y, th, lost)
        BY <3>2, <4>1
      <4>3. PteOk(d, y, th', lost')
        BY <3>3, <4>2, PteStays
      <4> QED
        BY <4>1, <4>3
    <3> QED
      BY <3>1, <3>4
  <2> QED
    BY <2>2, <2>3
<1>8. Guards(tables', kd, up, th', resplit')
  <2>1. SUFFICES ASSUME NEW u \in Tids, Late(th'[u])
                 PROVE  GuardOut(tables', kd, up, resplit', th'[u].guard)
    BY DEF Guards
  <2>2. PICK y : y = th'[u].guard
    OBVIOUS
  <2>3. y \in Frames
    BY <2>2 DEF LoaderInv, Thread
  <2>4. CASE Late(th[u])
    <3>1. y = th[u].guard
      BY <1>6, <2>2 DEF Resumes
    <3>2. PICK m \in Frames : /\ kd[m] = "shared" /\ up[m] = X2(y)
                              /\ \/ ~ tables[m][y % ENTRIES].present
                                 \/ X2(y) * ENTRIES \in resplit
      BY <2>4, <3>1 DEF Roles, Guards, GuardOut
    <3>3. CASE m = n /\ y % ENTRIES = x % ENTRIES
      <4>1. y = x
        <5>1. X2(y) = X2(x)
          BY <3>2, <3>3
        <5> QED
          BY <2>3, <3>3, <5>1, FrameFacts, DigitsDetermine DEF X2
      <4>2. ~ e.present
        BY <2>1, <2>2, <4>1 DEF LateGuard
      <4>3. ~ tables'[m][y % ENTRIES].present
        BY <1>5, <3>2, <3>3, <4>2
      <4> QED
        BY <2>2, <3>2, <4>3 DEF GuardOut
    <3>4. CASE ~ (m = n /\ y % ENTRIES = x % ENTRIES)
      <4>1. tables'[m][y % ENTRIES] = tables[m][y % ENTRIES]
        BY <1>5, <3>2, <3>4
      <4> QED
        BY <1>1, <2>2, <3>2, <4>1 DEF GuardOut
    <3> QED
      BY <3>3, <3>4
  <2>5. CASE ~ Late(th[u])
    <3>1. y = x /\ ~ e.present
      BY <1>6, <2>1, <2>2, <2>5 DEF Resumes
    <3>2. ~ tables'[n][x % ENTRIES].present
      BY <1>5, <3>1
    <3> QED
      BY <2>2, <3>1, <3>2 DEF GuardOut
  <2> QED
    BY <2>4, <2>5
<1>9. OnlyMine(t, kd, wh, lv, up, at, mem, kd, wh, lv, up, at, mem')
  BY <1>1 DEF OnlyMine
<1>10. Uses(t, r, kd, wh, lv)
  <2>1. Uses(t, th[t], kd, wh, lv)
    BY DEF Roles, Threads
  <2> QED
    BY <2>1 DEF Uses, Resumes, Stack
<1>11. Memory(t, r, mem', view'[t], kd, wh, lv, up, at)
  BY <1>1 DEF Memory, Resumes
<1>12. Holdings(held', heap', lost', kd)
  BY <1>1 DEF Roles
<1>13. heap' \subseteq Frames /\ lost' \subseteq Frames
  BY <1>1 DEF SpaceInv, FrameInv
<1>14. \A u \in Tids \ {t} : view'[u] = view[u]
  BY <1>1
<1> QED
  BY <1>4, <1>7, <1>8, <1>9, <1>10, <1>11, <1>12, <1>13, <1>14, NextRoles

(* The guard of a kernel stack, and a frame in hand, are usable memory. *)
LEMMA HeldUsable ==
    ASSUME SpaceInv, NEW kd, NEW wh, NEW lv, NEW up, NEW at, Roles(kd, wh, lv, up, at),
           NEW t \in Tids
    PROVE  /\ th[t].pc # "unused" => /\ th[t].guard \in Usable
                                     /\ kd[th[t].guard] = "stack" /\ wh[th[t].guard] = t
           /\ \A f \in {th[t].frame, th[t].table} :
                 f # 0 => f \in Usable /\ kd[f] = "hand" /\ wh[f] = t
<1>1. held \subseteq Usable
  BY DEF SpaceInv, IInv, BitmapExact
<1>2. Uses(t, th[t], kd, wh, lv) /\ Holdings(held, heap, lost, kd)
  BY DEF Roles, Threads
<1>3. th[t].guard \in Frames /\ th[t].frame \in Frames /\ th[t].table \in Frames
  BY ThreadTypes DEF SpaceInv
<1>4. th[t].guard \in Stack(th[t])
  <2>1. PICK g \in Nat, n \in Nat : g = th[t].guard /\ n = THREAD_STACK_PAGES
    BY <1>3, FrameFacts, VmmAssumption
  <2> QED
    BY <2>1 DEF Stack
<1>5. ASSUME th[t].pc # "unused"
      PROVE  th[t].guard \in Usable /\ kd[th[t].guard] = "stack" /\ wh[th[t].guard] = t
  <2>1. kd[th[t].guard] = "stack" /\ wh[th[t].guard] = t
    BY <1>2, <1>3, <1>4, <1>5 DEF Uses
  <2> QED
    BY <1>1, <1>2, <1>3, <2>1 DEF Holdings
<1>6. ASSUME NEW f \in {th[t].frame, th[t].table}, f # 0
      PROVE  f \in Usable /\ kd[f] = "hand" /\ wh[f] = t
  <2>1. kd[f] = "hand" /\ wh[f] = t
    BY <1>2, <1>3, <1>6 DEF Uses
  <2> QED
    BY <1>1, <1>2, <1>3, <1>6, <2>1 DEF Holdings
<1> QED
  BY <1>5, <1>6

(* What get_or_split_pt_entry leaves of a large page that it splits with    *)
(* interrupts on *)
LEMMA StaleTables ==
    ASSUME NEW kd, NEW wh, NEW lv, NEW up, NEW at, Tree(tables, kd, wh, lv, up, at),
           NEW t \in Tids, IsTop(tables, th[t].space), NEW x \in Usable, NEW n \in Frames,
           n = th[t].table, kd[n] \in {"none", "hand"}, NEW e \in Entry,
           StaleSplit(t, Addr(x), e)
    PROVE  /\ SharedTables(tables, X2(x), n, tables') /\ SplitAs(tables', n, x, e)
           /\ OldLost(tables, X2(x), lost, lost', resplit, resplit')
<1> DEFINE a == Addr(x)
           s == th[t].space
           R == X2(x)
<1>1. /\ x \in Frames /\ R \in LargePages /\ L2(s, a) = PdEntry(tables, R)
      /\ L3(s, a).frame = PdOf(R)
  BY SharedWalk, EntryFields
<1>2. /\ pd_index(a) = R % ENTRIES /\ pt_index(a) = x % ENTRIES /\ RegionOf(a) = R * ENTRIES
      /\ x % ENTRIES \in Index /\ R \in Nat
  BY <1>1, IdentityIndices
<1>3. n \notin DOMAIN tables
  BY DEF Tree, TablesAre, IsTable
<1> PICK again \in BOOLEAN : again = ~ L2(s, a).large
  OBVIOUS
<1>4. PICK old, pd, i : old = L2(s, a).frame /\ pd = L3(s, a).frame /\ i = pd_index(a)
  OBVIOUS
<1>5. OldTable(tables, R) = IF again THEN {old} ELSE {}
  BY <1>1, <1>4 DEF OldTable
<1> DEFINE rest == [f \in DOMAIN tables \ (IF again THEN {old} ELSE {}) |->
                      IF f = pd THEN [tables[f] EXCEPT ![i] = TableEntry(n)] ELSE tables[f]]
           new  == [SplitTable(RegionOf(a)) EXCEPT ![pt_index(a)] = e]
<1>6. /\ tables' = With(rest, n, new)
      /\ lost' = IF again THEN lost \cup {old} ELSE lost
      /\ resplit' = IF again THEN resplit \cup {RegionOf(a)} ELSE resplit
  BY <1>4 DEF StaleSplit
<1>7. /\ DOMAIN new = Index
      /\ \A j \in Index : new[j] = IF j = x % ENTRIES THEN e ELSE PageEntry(R * ENTRIES + j, FALSE)
  BY <1>2 DEF SplitTable
<1>8. new \in [Index -> Entry]
  <2>1. \A j \in Index : R * ENTRIES + j \in Nat
    BY <1>2, Sizes DEF Index
  <2>2. \A j \in Index : new[j] \in Entry
    BY <1>7, <2>1, EntryFields, ZenonT(60)
  <2> QED
    BY <1>2, <1>7, <2>2 DEF SplitTable
<1> HIDE DEF new, s, a, R
<1>9. /\ DOMAIN rest = DOMAIN tables \ OldTable(tables, R)
      /\ \A f \in DOMAIN tables \ OldTable(tables, R) :
            rest[f] = IF f = pd THEN [tables[f] EXCEPT ![i] = TableEntry(n)] ELSE tables[f]
  BY <1>5
<1> HIDE DEF rest
<1>10. /\ DOMAIN tables' = DOMAIN rest \cup {n} /\ tables'[n] = new
       /\ \A f \in DOMAIN rest : f # n => tables'[f] = rest[f]
  BY <1>6 DEF With
<1>11. SharedTables(tables, R, n, tables')
  <2>1. pd = PdOf(R) /\ i = R % ENTRIES
    BY <1>1, <1>2, <1>4
  <2> QED
    BY <1>3, <1>8, <1>9, <1>10, <2>1 DEF SharedTables
<1>12. OldLost(tables, R, lost, lost', resplit, resplit')
  BY <1>2, <1>5, <1>6 DEF OldLost
<1> QED
  BY <1>7, <1>10, <1>11, <1>12 DEF R, SplitAs

(* The same for a program, with interrupts off *)
LEMMA SplitTables ==
    ASSUME NEW kd, NEW wh, NEW lv, NEW up, NEW at, Tree(tables, kd, wh, lv, up, at),
           NEW s, IsTop(tables, s), NEW x \in Usable, NEW n \in Frames, kd[n] = "none",
           MissingLevel(s, Addr(x)) # 0, AddTable(s, Addr(x), n)
    PROVE  /\ SharedTables(tables, X2(x), n, tables')
           /\ SplitAs(tables', n, x, PageEntry(x, FALSE))
           /\ \A ls, rs : OldLost(tables, X2(x), ls, ls, rs, rs)
<1> DEFINE a == Addr(x)
           R == X2(x)
<1>1. /\ x \in Frames /\ R \in LargePages /\ L2(s, a) = PdEntry(tables, R)
      /\ L3(s, a).frame = PdOf(R) /\ MissingLevel(s, a) = 1
      /\ PdEntry(tables, R) = LargeEntry(R * ENTRIES)
  BY SharedWalk, EntryFields
<1>2. pd_index(a) = R % ENTRIES /\ R \in Nat
  BY <1>1, IdentityIndices
<1>3. n \notin DOMAIN tables
  BY DEF Tree, TablesAre, IsTable
<1>4. L2(s, a).present /\ L2(s, a).large /\ L2(s, a).frame = R * ENTRIES
  BY <1>1, EntryFields
<1>5. PICK pd, i : pd = PdOf(R) /\ i = R % ENTRIES
  OBVIOUS
<1> DEFINE new  == SplitTable(R * ENTRIES)
           rest == [tables EXCEPT ![pd][i] = TableEntry(n)]
<1>6. tables' = With(rest, n, new)
  <2>1. AddTable(s, a, n)
    OBVIOUS
  <2> QED
    BY <1>1, <1>2, <1>4, <1>5, <2>1 DEF AddTable
<1>7. new \in [Index -> Entry] /\ \A j \in Index : new[j] = PageEntry(R * ENTRIES + j, FALSE)
  <2>1. \A j \in Index : R * ENTRIES + j \in Nat
    BY <1>2, Sizes DEF Index
  <2> QED
    BY <2>1, EntryFields DEF SplitTable
<1>8. OldTable(tables, R) = {}
  BY <1>1, EntryFields DEF OldTable
<1> HIDE DEF new, a, R
<1>9. /\ DOMAIN rest = DOMAIN tables
      /\ \A f \in DOMAIN tables :
            rest[f] = IF f = pd THEN [tables[f] EXCEPT ![i] = TableEntry(n)] ELSE tables[f]
  OBVIOUS
<1> HIDE DEF rest
<1>10. /\ DOMAIN tables' = DOMAIN rest \cup {n} /\ tables'[n] = new
       /\ \A f \in DOMAIN rest : f # n => tables'[f] = rest[f]
  BY <1>6 DEF With
<1>11. SharedTables(tables, R, n, tables')
  BY <1>3, <1>5, <1>7, <1>8, <1>9, <1>10 DEF SharedTables
<1>12. x = R * ENTRIES + (x % ENTRIES)
  BY <1>1, IdentityIndices DEF R
<1>13. SplitAs(tables', n, x, PageEntry(x, FALSE))
  BY <1>7, <1>10, <1>12 DEF SplitAs, R
<1>14. \A ls, rs : OldLost(tables, R, ls, ls, rs, rs)
  BY <1>8 DEF OldLost
<1> QED
  BY <1>11, <1>13, <1>14 DEF R

(* SetPte of the page of a usable frame whose large page is split *)
LEMMA SharedPte ==
    ASSUME NEW kd, NEW wh, NEW lv, NEW up, NEW at, Tree(tables, kd, wh, lv, up, at),
           NEW s, IsTop(tables, s), s \in DOMAIN tables, NEW x \in Usable, NEW e,
           MissingLevel(s, Addr(x)) = 0, SetPte(s, Addr(x), e)
    PROVE  \E n \in Frames : /\ kd[n] = "shared" /\ up[n] = X2(x)
                             /\ tables' = Written(tables, n, x % ENTRIES, e)
<1> DEFINE a == Addr(x)
<1>1. PICK n \in Frames : kd[n] = "shared" /\ up[n] = X2(x) /\ L2(s, a) = TableEntry(n)
  BY SharedWalk
<1>2. /\ L4(s, a) = TableEntry(BootTables[2]) /\ L3(s, a) = TableEntry(PdOf(X2(x)))
      /\ X2(x) \in LargePages /\ a \in Nat /\ x \in Frames
  BY SharedWalk
<1>3. /\ n \in DOMAIN tables /\ BootTables[2] \in DOMAIN tables
      /\ PdOf(X2(x)) \in DOMAIN tables
      /\ \A g \in DOMAIN tables : tables[g] \in [Index -> Entry]
  <2>1. BootTables[2] \in BootFrames /\ PdOf(X2(x)) \in BootFrames /\ BootFrames \subseteq Frames
    BY <1>2, BootDistinct, PdPlace
  <2> QED
    BY <1>1, <2>1 DEF Tree, TablesAre, IsTable, RoleTypes
<1>4. pt_index(a) = x % ENTRIES
  BY <1>2, IdentityIndices
<1> HIDE DEF a
<1>5. /\ L4(s, a).user /\ L4(s, a).frame \in DOMAIN tables
      /\ L3(s, a).user /\ L3(s, a).frame \in DOMAIN tables
      /\ L2(s, a).user /\ L2(s, a).frame \in DOMAIN tables /\ L2(s, a).frame = n
  BY <1>1, <1>2, <1>3, EntryFields
<1>6. SetPte(s, a, e)
  BY DEF a
<1>7. tables' = Written(tables, n, x % ENTRIES, e)
  BY <1>2, <1>3, <1>4, <1>5, <1>6, SetPteIs
<1> QED
  BY <1>1, <1>7

(* The frames of a kernel stack, guard included *)
LEMMA StackIs ==
    ASSUME SpaceInv, NEW t \in Tids
    PROVE  KernelStack(t) = Stack(th[t])
<1>1. PICK g \in Nat, n \in Nat : g = th[t].guard /\ n = THREAD_STACK_PAGES
  BY ThreadTypes, FrameFacts, VmmAssumption DEF SpaceInv
<1>2. {g + i : i \in 0..n} = g..(g + n)
  <2>1. ASSUME NEW f \in g..(g + n) PROVE f \in {g + i : i \in 0..n}
    <3>1. f - g \in 0..n /\ f = g + (f - g)
      OBVIOUS
    <3> QED
      BY <3>1
  <2> QED
    BY <2>1
<1> QED
  BY <1>1, <1>2 DEF KernelStack, Stack

(* vmm_guard_page in alloc_guarded_stack *)
LEMMA SpaceGuardPage ==
    ASSUME SpaceInv, NEW t \in Tids, GuardPage(t), heap' = heap
    PROVE  SpaceInv'
<1>1. PICK kd, wh, lv, up, at : Roles(kd, wh, lv, up, at)
  BY DEF SpaceInv, FrameInv
<1>2. /\ th[t].pc = "guard" /\ regions' = regions /\ spawns' = spawns /\ lost' = lost
      /\ resplit' = resplit /\ view' = view /\ irqs_off \in Tids \cup {NoTid}
  BY DEF GuardPage, SpaceInv, Counters
<1>3. /\ th[t] \in Thread /\ Fields(t, th[t]) /\ th[t].frame = 0 /\ th[t].table = 0
      /\ th[t].space = kernel_pml4
  BY <1>2, ThreadTypes DEF SpaceInv, Fields, HasFrame, SpacelessPc
<1>4. DOMAIN view[t] = {} /\ DOMAIN view = Tids
  BY <1>1, <1>2 DEF Roles, Memory, SpaceInv
<1>5. PICK x \in Usable : x = th[t].guard /\ x \in Frames
  BY <1>1, <1>2, HeldUsable, UsablePd
<1>6. /\ Tree(tables, kd, wh, lv, up, at) /\ IsTop(tables, kernel_pml4)
      /\ kernel_pml4 \in DOMAIN tables
  <2>1. Tree(tables, kd, wh, lv, up, at)
    BY <1>1 DEF Roles
  <2>2. kernel_pml4 \in BootFrames /\ kernel_pml4 \in Frames
    BY BootDistinct
  <2> QED
    BY <2>1, <2>2, Tops DEF Tree, TablesAre, IsTable, RoleTypes
<1>7. LoaderInv'
  BY LoaderGuard DEF SpaceInv
<1>8. \/ /\ MissingLevel(kernel_pml4, Addr(x)) # 0
         /\ \E n \in NextFree : AddTable(kernel_pml4, Addr(x), n)
         /\ th' = th /\ irqs_off' = irqs_off
      \/ th[t].prog = Demo /\ TakeTable(t, "guardsplit") /\ tables' = tables /\ irqs_off' = irqs_off
      \/ /\ MissingLevel(kernel_pml4, Addr(x)) = 0 /\ SetPte(kernel_pml4, Addr(x), NotPresent)
         /\ Become(t, [th[t] EXCEPT !.pc = "new"]) /\ irqs_off' = NoTid /\ UNCHANGED <<pmmVars, mem>>
      \/ /\ FreeAll(KernelStack(t)) /\ Become(t, NoThread) /\ irqs_off' = NoTid
         /\ tables' = tables /\ mem' = mem
  BY <1>5 DEF GuardPage
<1>9. ASSUME NEW n \in NextFree, AddTable(kernel_pml4, Addr(x), n), th' = th,
             irqs_off' = irqs_off, MissingLevel(kernel_pml4, Addr(x)) # 0
      PROVE  SpaceInv'
  <2>1. TookFrame(n) /\ mem' = [mem EXCEPT ![n] = Junk]
    BY <1>9 DEF AddTable
  <2>2. IInv' /\ held' = held \cup {n} /\ n \in Frames /\ n \notin used /\ n # 0 /\ kd[n] = "none"
    BY <1>1, <2>1, TookOne, FreshRole DEF SpaceInv
  <2>3. PICK e \in Entry : e = PageEntry(x, FALSE)
    BY <1>5, EntryFields, FrameFacts
  <2>4. SharedTables(tables, X2(x), n, tables') /\ SplitAs(tables', n, x, e)
    BY <1>6, <1>9, <2>2, <2>3, SplitTables
  <2>5. OldLost(tables, X2(x), lost, lost', resplit, resplit')
    BY <1>2, <1>6, <1>9, <2>2, SplitTables
  <2>6. PteOk(e, x, th', lost')
    BY <2>3, EntryFields DEF PteOk
  <2>7. Resumes(th[t], th[t], x, e) /\ Become(t, th[t])
    BY <1>2, <1>9 DEF Resumes, Become, SpaceInv, LoaderInv
  <2>8. PutsDown(th[t], th[t], n)
    BY <1>3, <2>2 DEF PutsDown
  <2>9. \A g \in Frames \ {n} : mem'[g] = mem[g]
    BY <2>1 DEF SpaceInv, LoaderInv, Contents
  <2>10. FrameInv'
    BY <1>1, <1>2, <1>4, <2>2, <2>4, <2>5, <2>6, <2>7, <2>8, <2>9, SplitDone
  <2>11. RegionsInv'
    BY <1>2, <2>7, RegionsSame
  <2>12. Counters'
    BY <1>2, <1>9, <2>7, CountersSame
  <2> QED
    BY <1>2, <1>3, <1>4, <1>7, <2>2, <2>7, <2>10, <2>11, <2>12, AllParts
<1>10. CASE th[t].prog = Demo /\ TakeTable(t, "guardsplit") /\ tables' = tables
            /\ irqs_off' = irqs_off
  BY <1>2, <1>10, SpaceTakeTable
<1>11. ASSUME MissingLevel(kernel_pml4, Addr(x)) = 0, SetPte(kernel_pml4, Addr(x), NotPresent),
              Become(t, [th[t] EXCEPT !.pc = "new"]), irqs_off' = NoTid, UNCHANGED <<pmmVars, mem>>
       PROVE  SpaceInv'
  <2>1. PICK r : r = [th[t] EXCEPT !.pc = "new"] /\ Become(t, r)
    BY <1>11
  <2>2. /\ r.pc = "new" /\ r.frame = 0 /\ r.table = 0 /\ r.guard = x /\ r.space = kernel_pml4
        /\ r.prog = th[t].prog
    BY <1>3, <1>5, <2>1 DEF Thread
  <2>3. PICK n \in Frames : /\ kd[n] = "shared" /\ up[n] = X2(x)
                            /\ tables' = Written(tables, n, x % ENTRIES, NotPresent)
    BY <1>6, <1>11, SharedPte
  <2>4. th'[t] = r
    BY <2>1 DEF Become, SpaceInv, LoaderInv
  <2>5. PteOk(NotPresent, x, th', lost)
    BY <2>2, <2>4, EntryFields DEF PteOk, LateGuard, Late
  <2>6. Resumes(th[t], r, x, NotPresent)
    BY <1>2, <1>3, <1>5, <2>2, EntryFields DEF Resumes, Late, Opens
  <2>7. IInv'
    BY <1>11, NextInv DEF SpaceInv
  <2>8. UNCHANGED <<held, heap, lost, resplit, mem, view>>
    BY <1>2, <1>11 DEF pmmVars
  <2>9. FrameInv'
    <3>1. NotPresent \in Entry /\ ~ NotPresent.present
      BY EntryFields
    <3>2. r.frame = th[t].frame /\ r.table = th[t].table
      BY <1>3, <2>2
    <3> QED
      BY <1>1, <1>4, <1>5, <1>7, <2>1, <2>3, <2>5, <2>6, <2>8, <3>1, <3>2, PteDone
  <2>10. RegionsInv'
    BY <1>2, <2>1, RegionsSame DEF HasStack
  <2>11. Counters'
    BY <1>2, <1>11, <2>1, CountersSame
  <2>12. Fields(t, r)
    BY <2>2 DEF Fields, HasFrame, SpacelessPc
  <2> QED
    BY <1>2, <1>4, <1>7, <2>1, <2>7, <2>9, <2>10, <2>11, <2>12, AllParts
<1>12. ASSUME FreeAll(KernelStack(t)), Become(t, NoThread), irqs_off' = NoTid,
              tables' = tables, mem' = mem
       PROVE  SpaceInv'
  <2>1. PICK r : r = NoThread /\ Become(t, r)
    BY <1>12
  <2>2. /\ r.pc = "unused" /\ r.frame = 0 /\ r.table = 0 /\ r.space = kernel_pml4
    BY <2>1 DEF NoThread
  <2> DEFINE S == Stack(th[t])
  <2>3. Uses(t, th[t], kd, wh, lv) /\ Holdings(held, heap, lost, kd)
    BY <1>1 DEF Roles, Threads
  <2>4. /\ S \subseteq Frames /\ FreeAll(S)
        /\ \A f \in Frames : f \in S <=> kd[f] = "stack" /\ wh[f] = t
    BY <1>2, <1>12, <2>3, StackIs DEF Uses
  <2> HIDE DEF S
  <2>5. S \subseteq held
    BY <2>3, <2>4 DEF Holdings
  <2>6. IInv' /\ held' = held \ S
    BY <2>4, <2>5, GaveBack DEF SpaceInv
  <2> DEFINE kd2 == NewRole(S, "none", kd)
             wh2 == NewUser(S, t, wh)
  <2>7. ASSUME NEW g \in Frames
        PROVE  /\ kd2[g] = IF g \in S THEN "none" ELSE kd[g]
               /\ wh2[g] = IF g \in S THEN t ELSE wh[g]
    BY DEF NewRole, NewUser
  <2> HIDE DEF kd2, wh2
  <2>8. Uses(t, r, kd2, wh2, lv)
    <3>1. \A f \in Frames : /\ ~ (kd2[f] = "stack" /\ wh2[f] = t)
                            /\ kd2[f] = "hand" /\ wh2[f] = t <=> kd[f] = "hand" /\ wh[f] = t
                            /\ kd2[f] = "space" /\ wh2[f] = t <=> kd[f] = "space" /\ wh[f] = t
      BY <2>4, <2>7
    <3> QED
      BY <1>3, <2>2, <2>3, <3>1 DEF Uses, SpaceFrame
  <2>9. Memory(t, r, mem', view'[t], kd2, wh2, lv, up, at)
    BY <1>2, <1>4, <2>2 DEF Memory
  <2>10. Holdings(held', heap', lost', kd2)
    BY <1>2, <2>3, <2>4, <2>6, <2>7 DEF Holdings
  <2>11. Quiet(th[t], r, lost, lost')
    BY <1>2, <2>2 DEF Quiet, Late, Opens
  <2>12. FrameInv'
    <3>1. /\ \A f \in S : /\ kd[f] \in Loose
                          /\ kd[f] \in {"stack", "hand"} => wh[f] = t
          /\ \A f \in Frames \ S : mem'[f] = mem[f]
          /\ \A u \in Tids \ {t} : view'[u] = view[u]
          /\ "none" \in Loose
      BY <1>2, <1>12, <2>4 DEF Loose
    <3>2. heap' \subseteq Frames /\ lost' \subseteq Frames
      BY <1>2 DEF SpaceInv, FrameInv
    <3> QED
      BY <1>1, <1>2, <1>12, <2>1, <2>4, <2>8, <2>9, <2>10, <2>11, <3>1, <3>2, RelabelStep
      DEF kd2, wh2
  <2>13. RegionsInv'
    BY <1>2, <2>1, RegionsSame DEF HasStack
  <2>14. Counters'
    BY <1>2, <1>12, <2>1, CountersSame
  <2>15. Fields(t, r)
    BY <2>2 DEF Fields, HasFrame, SpacelessPc
  <2> QED
    BY <1>2, <1>4, <1>7, <2>1, <2>6, <2>12, <2>13, <2>14, <2>15, AllParts
<1> QED
  BY <1>8, <1>9, <1>10, <1>11, <1>12

(* The table for the guard of the demo takes its place. *)
LEMMA SpaceGuardSplit ==
    ASSUME SpaceInv, NEW t \in Tids, GuardSplit(t), heap' = heap
    PROVE  SpaceInv'
<1>1. PICK kd, wh, lv, up, at : Roles(kd, wh, lv, up, at)
  BY DEF SpaceInv, FrameInv
<1>2. /\ th[t].pc = "guardsplit" /\ regions' = regions /\ spawns' = spawns /\ view' = view
      /\ irqs_off' = irqs_off /\ UNCHANGED pmmVars /\ held' = held /\ mem' = mem
  BY DEF GuardSplit, pmmVars
<1>3. /\ th[t] \in Thread /\ Fields(t, th[t]) /\ th[t].frame = 0 /\ th[t].table # 0
      /\ th[t].space = kernel_pml4
  BY <1>2, ThreadTypes DEF SpaceInv, Fields, HasFrame, SpacelessPc
<1>4. DOMAIN view[t] = {} /\ DOMAIN view = Tids
  BY <1>1, <1>2 DEF Roles, Memory, SpaceInv
<1>5. PICK x \in Usable : x = th[t].guard /\ x \in Frames
  BY <1>1, <1>2, HeldUsable, UsablePd
<1>6. PICK n \in Frames : n = th[t].table /\ kd[n] = "hand" /\ wh[n] = t /\ n # 0 /\ n \in held
  BY <1>1, <1>3, HeldUsable, ThreadTypes DEF SpaceInv, Roles, Holdings
<1>7. PICK r : r = [th[t] EXCEPT !.pc = "new", !.table = 0] /\ Become(t, r)
  BY DEF GuardSplit
<1>8. /\ r.pc = "new" /\ r.frame = 0 /\ r.table = 0 /\ r.guard = x /\ r.space = kernel_pml4
      /\ r.prog = th[t].prog
  BY <1>3, <1>5, <1>7 DEF Thread
<1>9. NotPresent \in Entry /\ ~ NotPresent.present
  BY EntryFields
<1>10. Tree(tables, kd, wh, lv, up, at) /\ IsTop(tables, th[t].space)
  BY <1>1, <1>3, Tops DEF Roles
<1>11. /\ SharedTables(tables, X2(x), n, tables') /\ SplitAs(tables', n, x, NotPresent)
       /\ OldLost(tables, X2(x), lost, lost', resplit, resplit')
  <2>1. StaleSplit(t, Addr(x), NotPresent)
    BY <1>5 DEF GuardSplit
  <2> QED
    BY <1>6, <1>9, <1>10, <2>1, StaleTables
<1>12. th'[t] = r
  BY <1>7 DEF Become, SpaceInv, LoaderInv
<1>13. PteOk(NotPresent, x, th', lost')
  BY <1>8, <1>9, <1>12, EntryFields DEF PteOk, LateGuard, Late
<1>14. Resumes(th[t], r, x, NotPresent)
  BY <1>2, <1>3, <1>5, <1>8, <1>9 DEF Resumes, Late, Opens
<1>15. PutsDown(th[t], r, n)
  BY <1>3, <1>6, <1>8 DEF PutsDown
<1>16. FrameInv'
  <2>1. held' = held \cup {n} /\ \A g \in Frames \ {n} : mem'[g] = mem[g]
    BY <1>2, <1>6
  <2> QED
    BY <1>1, <1>2, <1>4, <1>6, <1>7, <1>9, <1>11, <1>13, <1>14, <1>15, <2>1, SplitDone
<1>17. IInv'
  BY <1>2, NextInv DEF SpaceInv
<1>18. LoaderInv'
  BY LoaderGuard DEF SpaceInv
<1>19. RegionsInv'
  BY <1>2, <1>7, RegionsSame DEF HasStack
<1>20. Counters'
  BY <1>2, <1>7, CountersSame DEF SpaceInv, Counters
<1>21. Fields(t, r)
  BY <1>8 DEF Fields, HasFrame, SpacelessPc
<1> QED
  BY <1>2, <1>4, <1>7, <1>16, <1>17, <1>18, <1>19, <1>20, <1>21, AllParts

(* What the demo opens: its stack and two pages of the kernel, no guard *)
LEMMA DemoPageIs ==
    ASSUME SpaceInv, NEW kd, NEW wh, NEW lv, NEW up, NEW at, Roles(kd, wh, lv, up, at),
           NEW t \in Tids, th[t].pc \in {"demomark", "demosplit"}
    PROVE  /\ DemoPage(t) \in Usable /\ kd[DemoPage(t)] # "stack"
           /\ DemoPage(t) \in {th[t].frame, CodePage, CodePage + 1}
<1>1. th[t].seg \in 1..3 /\ th[t].frame # 0
  BY DEF SpaceInv, Fields, HasFrame
<1>2. DemoPage(t) \in {th[t].frame, CodePage, CodePage + 1}
  BY <1>1 DEF DemoPage
<1>3. th[t].frame \in Usable /\ kd[th[t].frame] = "hand"
  BY <1>1, HeldUsable
<1>4. ASSUME NEW x \in {CodePage, CodePage + 1}
      PROVE  x \in Usable /\ kd[x] # "stack"
  <2>1. x \in Usable /\ x \in Reserved /\ x \in Frames
    BY VmmAssumption, PmmAssumption
  <2>2. x \notin held
    BY <2>1 DEF SpaceInv, IInv, BitmapExact
  <2> QED
    BY <2>1, <2>2 DEF Roles, Holdings
<1> QED
  BY <1>2, <1>3, <1>4

(* The demo after one vmm_mark_user *)
LEMMA DemoGoesOn ==
    ASSUME SpaceInv, NEW t \in Tids, th[t].pc \in {"demomark", "demosplit"}, DemoNext(t)
    PROVE  \E r : /\ Become(t, r) /\ Fields(t, r) /\ r.pc \in {"demomark", "user"}
                  /\ r.frame = th[t].frame /\ r.table = 0 /\ r.guard = th[t].guard
                  /\ r.space = th[t].space /\ r.prog = Demo
<1>1. /\ th[t] \in Thread /\ Fields(t, th[t]) /\ th[t].frame # 0 /\ th[t].prog = Demo
      /\ th[t].seg \in 1..3 /\ th[t].space # kernel_pml4
  BY ThreadTypes DEF SpaceInv, Fields, HasFrame, SpacelessPc
<1>2. CASE th[t].seg < 3
  <2>1. PICK r : /\ r = [th[t] EXCEPT !.pc = "demomark", !.seg = @ + 1, !.table = 0]
                 /\ Become(t, r)
    BY <1>2 DEF DemoNext
  <2>2. /\ r.pc = "demomark" /\ r.frame = th[t].frame /\ r.table = 0 /\ r.guard = th[t].guard
        /\ r.space = th[t].space /\ r.prog = th[t].prog /\ r.seg = th[t].seg + 1
    BY <1>1, <2>1 DEF Thread
  <2>3. r.seg \in 1..3
    BY <1>1, <1>2, <2>2
  <2>4. Fields(t, r)
    BY <1>1, <2>2, <2>3 DEF Fields, HasFrame, SpacelessPc
  <2> QED
    BY <1>1, <2>1, <2>2, <2>4
<1>3. CASE ~ (th[t].seg < 3)
  <2>1. PICK r : r = [th[t] EXCEPT !.pc = "user", !.table = 0] /\ Become(t, r)
    BY <1>3 DEF DemoNext
  <2>2. /\ r.pc = "user" /\ r.frame = th[t].frame /\ r.table = 0 /\ r.guard = th[t].guard
        /\ r.space = th[t].space /\ r.prog = th[t].prog
    BY <1>1, <2>1 DEF Thread
  <2>3. Fields(t, r)
    BY <1>1, <2>2, ProgramAssumption DEF Fields, HasFrame, SpacelessPc
  <2> QED
    BY <1>1, <2>1, <2>2, <2>3
<1> QED
  BY <1>2, <1>3

(* One vmm_mark_user of the demo *)
LEMMA SpaceDemoMark ==
    ASSUME SpaceInv, NEW t \in Tids, DemoMark(t) \/ DemoSplit(t), heap' = heap
    PROVE  SpaceInv'
<1>1. PICK kd, wh, lv, up, at : Roles(kd, wh, lv, up, at)
  BY DEF SpaceInv, FrameInv
<1>2. /\ th[t].pc \in {"demomark", "demosplit"} /\ regions' = regions /\ spawns' = spawns
      /\ view' = view /\ irqs_off' = irqs_off
  BY DEF DemoMark, DemoSplit
<1>3. /\ th[t] \in Thread /\ Fields(t, th[t]) /\ th[t].frame # 0 /\ th[t].prog = Demo
      /\ th[t].space # kernel_pml4
  BY <1>2, ThreadTypes DEF SpaceInv, Fields, HasFrame, SpacelessPc
<1>4. DOMAIN view[t] = {} /\ DOMAIN view = Tids
  BY <1>1, <1>2 DEF Roles, Memory, SpaceInv
<1>5. PICK x \in Usable : /\ x = DemoPage(t) /\ x \in Frames /\ kd[x] # "stack"
                          /\ x \in {th[t].frame, CodePage, CodePage + 1}
  BY <1>1, <1>2, DemoPageIs, UsablePd
<1>6. /\ Tree(tables, kd, wh, lv, up, at) /\ IsTop(tables, th[t].space)
      /\ th[t].space \in DOMAIN tables
  <2>1. Tree(tables, kd, wh, lv, up, at) /\ SpaceFrame(kd, wh, lv, t, 4, th[t].space)
    BY <1>1, <1>3, SpaceOf DEF Roles
  <2>2. 4 > 0
    OBVIOUS
  <2> QED
    BY <2>1, <2>2, Tops DEF SpaceFrame, Tree, TablesAre, IsTable
<1>7. LoaderInv'
  BY LoaderDemo DEF SpaceInv
<1>8. PICK e \in Entry : e = PageEntry(x, TRUE) /\ e.present /\ e.frame = x
  BY <1>5, EntryFields, FrameFacts
<1>9. ASSUME NEW r, Become(t, r), Fields(t, r), r.pc \in {"demomark", "user"},
             r.frame = th[t].frame, r.table = 0, r.guard = th[t].guard,
             r.space = th[t].space, r.prog = Demo
      PROVE  /\ Resumes(th[t], r, x, e) /\ ~ LateGuard(th', x)
             /\ \A ls : PteOk(e, x, th', ls)
             /\ RegionsInv' /\ Counters' /\ Quiet(th[t], r, lost, lost)
             /\ Memory(t, r, mem, view[t], kd, wh, lv, up, at)
  <2>1. \A u \in Tids : th'[u] = IF u = t THEN r ELSE th[u]
    BY <1>9 DEF Become, SpaceInv, LoaderInv
  <2>2. Resumes(th[t], r, x, e) /\ Quiet(th[t], r, lost, lost)
    BY <1>2, <1>9 DEF Resumes, Quiet, Late, Opens
  <2>3. ASSUME LateGuard(th', x) PROVE FALSE
    <3>1. PICK u \in Tids : Late(th'[u]) /\ th'[u].guard = x
      BY <2>3 DEF LateGuard
    <3>2. th[u].pc # "unused" /\ th[u].guard = x
      BY <1>2, <1>9, <2>1, <3>1 DEF Late
    <3> QED
      BY <1>1, <1>5, <3>2, HeldUsable
  <2>4. ASSUME NEW ls PROVE PteOk(e, x, th', ls)
    <3>1. Opened(th', ls, x)
      BY <1>5, <1>9, <2>1 DEF Opened, Opens
    <3> QED
      BY <1>8, <3>1 DEF PteOk
  <2>5. RegionsInv'
    BY <1>2, <1>9, RegionsSame DEF HasStack
  <2>6. Counters'
    BY <1>2, <1>9, CountersSame DEF SpaceInv, Counters
  <2>7. Memory(t, r, mem, view[t], kd, wh, lv, up, at)
    BY <1>4, <1>9 DEF Memory
  <2> QED
    BY <2>2, <2>3, <2>4, <2>5, <2>6, <2>7
<1>10. ASSUME MissingLevel(th[t].space, Addr(x)) = 0, SetPte(th[t].space, Addr(x), e),
              DemoNext(t), UNCHANGED <<pmmVars, mem>>, lost' = lost, resplit' = resplit,
              th[t].table = 0
       PROVE  SpaceInv'
  <2>1. PICK r : /\ Become(t, r) /\ Fields(t, r) /\ r.pc \in {"demomark", "user"}
                 /\ r.frame = th[t].frame /\ r.table = 0 /\ r.guard = th[t].guard
                 /\ r.space = th[t].space /\ r.prog = Demo
    BY <1>2, <1>10, DemoGoesOn
  <2>2. /\ Resumes(th[t], r, x, e) /\ ~ LateGuard(th', x) /\ PteOk(e, x, th', lost)
        /\ RegionsInv' /\ Counters'
    BY <1>9, <2>1
  <2>3. PICK n \in Frames : /\ kd[n] = "shared" /\ up[n] = X2(x)
                            /\ tables' = Written(tables, n, x % ENTRIES, e)
    BY <1>6, <1>10, SharedPte
  <2>4. UNCHANGED <<held, heap, lost, resplit, mem, view>> /\ IInv'
    BY <1>2, <1>10, NextInv DEF pmmVars, SpaceInv
  <2>5. FrameInv'
    <3>1. r.frame = th[t].frame /\ r.table = th[t].table
      BY <1>10, <2>1
    <3> QED
      BY <1>1, <1>4, <1>5, <1>7, <2>1, <2>2, <2>3, <2>4, <3>1, PteDone
  <2> QED
    BY <1>2, <1>4, <1>7, <2>1, <2>2, <2>4, <2>5, AllParts
<1>11. ASSUME TakeTable(t, "demosplit"), th[t].pc = "demomark", tables' = tables, lost' = lost,
              resplit' = resplit
       PROVE  SpaceInv'
  BY <1>2, <1>3, <1>11, SpaceTakeTable
<1>12. ASSUME DemoNext(t), UNCHANGED <<pmmVars, tables, mem>>, lost' = lost, resplit' = resplit,
              th[t].table = 0
       PROVE  SpaceInv'
  <2>1. PICK r : /\ Become(t, r) /\ Fields(t, r) /\ r.pc \in {"demomark", "user"}
                 /\ r.frame = th[t].frame /\ r.table = 0 /\ r.guard = th[t].guard
                 /\ r.space = th[t].space /\ r.prog = Demo
    BY <1>2, <1>12, DemoGoesOn
  <2>2. /\ RegionsInv' /\ Counters' /\ Quiet(th[t], r, lost, lost)
        /\ Memory(t, r, mem, view[t], kd, wh, lv, up, at)
    BY <1>9, <2>1
  <2>3. IInv' /\ FrameInv'
    <3>1. /\ r.pc # "unused" /\ th[t].pc # "unused"
          /\ r.guard = th[t].guard /\ r.space = th[t].space
          /\ r.frame = th[t].frame /\ r.table = th[t].table
      BY <1>2, <1>12, <2>1
    <3>2. UNCHANGED <<pmmVars, tables, mem, heap, lost, resplit, view>>
      BY <1>2, <1>12
    <3> QED
      BY <1>1, <2>1, <2>2, <3>1, <3>2, GoesOn
  <2> QED
    BY <1>2, <1>4, <1>7, <2>1, <2>2, <2>3, AllParts
<1>13. ASSUME DemoSplit(t) PROVE SpaceInv'
  <2>1. PICK r : /\ Become(t, r) /\ Fields(t, r) /\ r.pc \in {"demomark", "user"}
                 /\ r.frame = th[t].frame /\ r.table = 0 /\ r.guard = th[t].guard
                 /\ r.space = th[t].space /\ r.prog = Demo
    BY <1>2, <1>13, DemoGoesOn DEF DemoSplit
  <2>2. /\ Resumes(th[t], r, x, e) /\ PteOk(e, x, th', lost')
        /\ RegionsInv' /\ Counters'
    BY <1>9, <2>1
  <2>3. th[t].table # 0
    BY <1>3, <1>13 DEF DemoSplit, Fields
  <2>4. PICK n \in Frames : n = th[t].table /\ kd[n] = "hand" /\ wh[n] = t /\ n # 0 /\ n \in held
    BY <1>1, <2>3, HeldUsable, ThreadTypes DEF SpaceInv, Roles, Holdings
  <2>5. n # th[t].frame
    BY <1>3, <2>4 DEF Fields
  <2>6. PutsDown(th[t], r, n)
    BY <2>1, <2>4, <2>5 DEF PutsDown
  <2>7. StaleSplit(t, Addr(x), e) /\ UNCHANGED <<pmmVars, mem>>
    BY <1>5, <1>8, <1>13 DEF DemoSplit
  <2>8. /\ SharedTables(tables, X2(x), n, tables') /\ SplitAs(tables', n, x, e)
        /\ OldLost(tables, X2(x), lost, lost', resplit, resplit')
    BY <1>6, <2>4, <2>7, StaleTables
  <2>9. IInv' /\ held' = held \cup {n} /\ \A g \in Frames \ {n} : mem'[g] = mem[g]
    BY <2>4, <2>7, NextInv DEF SpaceInv, pmmVars
  <2>10. FrameInv'
    BY <1>1, <1>2, <1>4, <2>1, <2>2, <2>4, <2>6, <2>8, <2>9, SplitDone
  <2> QED
    BY <1>2, <1>4, <1>7, <2>1, <2>2, <2>9, <2>10, AllParts
<1>14. CASE DemoMark(t)
  <2>1. /\ th[t].pc = "demomark" /\ lost' = lost /\ resplit' = resplit /\ th[t].table = 0
    BY <1>3, <1>14 DEF DemoMark, Fields
  <2>2. \/ /\ MissingLevel(th[t].space, Addr(x)) = 0 /\ SetPte(th[t].space, Addr(x), e)
           /\ DemoNext(t) /\ UNCHANGED <<pmmVars, mem>>
        \/ TakeTable(t, "demosplit") /\ tables' = tables
        \/ DemoNext(t) /\ UNCHANGED <<pmmVars, tables, mem>>
    BY <1>5, <1>8, <1>14 DEF DemoMark
  <2> QED
    BY <1>10, <1>11, <1>12, <2>1, <2>2
<1> QED
  BY <1>13, <1>14

(***************************************************************************)
(* Part 16.  A program gets tables and pages                               *)
(***************************************************************************)

(* The tables with the empty table n below entry j of table p *)
Linked(T, p, j, n) == With([T EXCEPT ![p][j] = TableEntry(n)], n, NewTable)

(* A table on the way to address a of thread t is added. *)
LEMMA TableAdded ==
    ASSUME SpaceInv, NEW t \in Tids, NEW s, s = th[t].space, s # kernel_pml4,
           NEW a \in Nat, pml4_index(a) # 0, MissingLevel(s, a) # 0,
           NEW n \in NextFree, AddTable(s, a, n),
           UNCHANGED <<th, heap, lost, resplit, view>>
    PROVE  IInv' /\ FrameInv'
<1>1. PICK kd, wh, lv, up, at : Roles(kd, wh, lv, up, at)
  BY DEF SpaceInv, FrameInv
<1>2. TookFrame(n) /\ mem' = [mem EXCEPT ![n] = Junk]
  BY DEF AddTable
<1>3. /\ IInv' /\ held' = held \cup {n} /\ n \in Frames /\ n \notin used /\ n # 0
      /\ kd[n] = "none"
  BY <1>1, <1>2, TookOne, FreshRole DEF SpaceInv
<1>4. Tree(tables, kd, wh, lv, up, at) /\ SpaceFrame(kd, wh, lv, t, 4, s)
  BY <1>1, SpaceOf DEF Roles
<1>5. /\ L4(s, a).present => SpaceFrame(kd, wh, lv, t, 3, L4(s, a).frame)
      /\ L4(s, a).present /\ L3(s, a).present => SpaceFrame(kd, wh, lv, t, 2, L3(s, a).frame)
      /\ L4(s, a).present /\ L3(s, a).present /\ L2(s, a).present => ~ L2(s, a).large
  BY <1>4, PrivateWalk, WalkIs
<1>6. PICK p \in Frames, j \in Index, l \in 1..3 :
         /\ SpaceFrame(kd, wh, lv, t, l + 1, p) /\ ~ tables[p][j].present
         /\ ~ SharedBranch(lv, p, j)
         /\ tables' = Linked(tables, p, j, n)
  <2>1. CASE ~ L4(s, a).present
    <3>1. MissingLevel(s, a) = 3
      BY <2>1 DEF MissingLevel
    <3>2. tables' = Linked(tables, s, pml4_index(a), n)
      BY <3>1 DEF AddTable, Linked
    <3>3. SpaceFrame(kd, wh, lv, t, 3 + 1, s) /\ ~ tables[s][pml4_index(a)].present
      BY <1>4, <2>1 DEF L4
    <3>4. ~ SharedBranch(lv, s, pml4_index(a))
      BY DEF SharedBranch
    <3> QED
      BY <3>2, <3>3, <3>4, Indices DEF SpaceFrame
  <2>2. CASE L4(s, a).present /\ ~ L3(s, a).present
    <3>1. MissingLevel(s, a) = 2
      BY <2>2 DEF MissingLevel
    <3>2. PICK f \in Frames : f = L4(s, a).frame /\ SpaceFrame(kd, wh, lv, t, 3, f)
      BY <1>5, <2>2 DEF SpaceFrame
    <3>3. tables' = Linked(tables, f, pdpt_index(a), n)
      BY <3>1, <3>2 DEF AddTable, Linked
    <3>4. SpaceFrame(kd, wh, lv, t, 2 + 1, f) /\ ~ tables[f][pdpt_index(a)].present
      BY <2>2, <3>2 DEF L3
    <3>5. ~ SharedBranch(lv, f, pdpt_index(a))
      BY <3>2 DEF SharedBranch, SpaceFrame
    <3> QED
      BY <3>3, <3>4, <3>5, Indices
  <2>3. CASE L4(s, a).present /\ L3(s, a).present
    <3>1. ~ L2(s, a).present /\ MissingLevel(s, a) = 1
      BY <1>5, <2>3 DEF MissingLevel
    <3>2. PICK f \in Frames : f = L3(s, a).frame /\ SpaceFrame(kd, wh, lv, t, 2, f)
      BY <1>5, <2>3 DEF SpaceFrame
    <3>3. tables' = Linked(tables, f, pd_index(a), n)
      BY <3>1, <3>2 DEF AddTable, Linked
    <3>4. SpaceFrame(kd, wh, lv, t, 1 + 1, f) /\ ~ tables[f][pd_index(a)].present
      BY <3>1, <3>2 DEF L2
    <3>5. ~ SharedBranch(lv, f, pd_index(a))
      BY <3>2 DEF SharedBranch, SpaceFrame
    <3> QED
      BY <3>3, <3>4, <3>5, Indices
  <2> QED
    BY <2>1, <2>2, <2>3
<1>7. n \notin DOMAIN tables /\ p \in DOMAIN tables /\ p # n /\ kd[p] = "space" /\ wh[p] = t
      /\ lv[p] = l + 1
  <2>1. l + 1 > 0
    OBVIOUS
  <2>2. kd[p] = "space" /\ wh[p] = t /\ lv[p] = l + 1
    BY <1>6 DEF SpaceFrame
  <2> QED
    BY <1>3, <1>4, <2>1, <2>2 DEF Tree, TablesAre, IsTable
<1> DEFINE kd2 == ChildKind(tables, kd, p, j, n)
           wh2 == [wh EXCEPT ![n] = wh[p]]
           lv2 == [lv EXCEPT ![n] = l]
           up2 == [up EXCEPT ![n] = p]
           at2 == [at EXCEPT ![n] = j]
<1>8. ASSUME NEW g \in Frames
      PROVE  /\ kd2[g] = IF g = n THEN "space" ELSE kd[g]
             /\ wh2[g] = IF g = n THEN t ELSE wh[g]
             /\ lv2[g] = IF g = n THEN l ELSE lv[g]
             /\ up2[g] = IF g = n THEN p ELSE up[g]
             /\ at2[g] = IF g = n THEN j ELSE at[g]
  BY <1>4, <1>6, <1>7 DEF ChildKind, Tree, RoleTypes
<1>9. Tree(tables', kd2, wh2, lv2, up2, at2)
  <2>1. NewChild(tables, kd, p, j, n, l)
    BY <1>3, <1>6, <1>7 DEF NewChild
  <2>2. ChildTables(tables, p, j, TableEntry(n), n, l, tables')
    <3>1. l # 0
      OBVIOUS
    <3>2. PICK rest : rest = [tables EXCEPT ![p][j] = TableEntry(n)]
      OBVIOUS
    <3>3. /\ DOMAIN rest = DOMAIN tables
          /\ \A g \in DOMAIN tables : rest[g] = IF g = p THEN [tables[p] EXCEPT ![j] = TableEntry(n)]
                                                ELSE tables[g]
      BY <3>2
    <3>4. tables' = With(rest, n, NewTable)
      BY <1>6, <3>2 DEF Linked
    <3>5. /\ DOMAIN tables' = DOMAIN tables \cup {n} /\ tables'[n] = NewTable
          /\ \A g \in DOMAIN tables : tables'[g] = rest[g]
      BY <1>7, <3>3, <3>4 DEF With
    <3> QED
      BY <3>1, <3>3, <3>5 DEF ChildTables
  <2>3. /\ TableEntry(n) \in Entry /\ TableEntry(n).frame = n /\ TableEntry(n).present
        /\ TableEntry(n).user /\ ~ TableEntry(n).large
    BY <1>3, EntryFields, FrameFacts
  <2> QED
    BY <1>4, <1>6, <1>7, <2>1, <2>2, <2>3, ChildTree
<1> HIDE DEF kd2, wh2, lv2, up2, at2
<1>10. \A g \in Frames \ {n} : mem'[g] = mem[g]
  BY <1>2 DEF SpaceInv, LoaderInv, Contents
<1>11. OnlyMine(t, kd, wh, lv, up, at, mem, kd2, wh2, lv2, up2, at2, mem')
  BY <1>3, <1>8, <1>10 DEF OnlyMine
<1>12. SharedKept(tables, kd, up, tables', kd2, up2)
  <2>1. \A g \in Frames : kd[g] = "shared" => g \in DOMAIN tables /\ g # n /\ g # p
    BY <1>3, <1>4, <1>7 DEF Tree, TablesAre, IsTable
  <2>2. \A g \in DOMAIN tables : g # n /\ g # p => tables'[g] = tables[g]
    BY <1>6 DEF With, Linked
  <2> QED
    BY <1>3, <1>8, <2>1, <2>2 DEF SharedKept
<1>13. Uses(t, th[t], kd2, wh2, lv2)
  <2>1. Uses(t, th[t], kd, wh, lv) /\ l # 4
    BY <1>1 DEF Roles, Threads
  <2>2. \A f \in Frames :
           /\ kd2[f] = "stack" /\ wh2[f] = t <=> kd[f] = "stack" /\ wh[f] = t
           /\ kd2[f] = "hand" /\ wh2[f] = t <=> kd[f] = "hand" /\ wh[f] = t
           /\ SpaceFrame(kd2, wh2, lv2, t, 4, f) <=> SpaceFrame(kd, wh, lv, t, 4, f)
    BY <1>3, <1>8, <2>1 DEF SpaceFrame
  <2> QED
    BY <2>1, <2>2 DEF Uses
<1>14. Memory(t, th[t], mem', view'[t], kd2, wh2, lv2, up2, at2)
  <2>1. PagesKept(t, kd, wh, lv, up, at, mem, kd2, wh2, lv2, up2, at2, mem')
    <3>1. l # 0
      OBVIOUS
    <3> QED
      BY <1>3, <1>8, <1>10, <3>1 DEF PagesKept
  <2>2. Memory(t, th[t], mem, view[t], kd, wh, lv, up, at)
    BY <1>1 DEF Roles
  <2>3. th[t].pc = "fault" => mem'[th[t].frame] = mem[th[t].frame]
    <3>1. th[t].pc = "fault" => th[t].frame # 0
      BY DEF SpaceInv, Fields, HasFrame
    <3>2. th[t].frame # 0 => kd[th[t].frame] = "hand"
      BY <1>1, HeldUsable
    <3> QED
      BY <1>3, <1>10, <3>1, <3>2, ThreadTypes DEF SpaceInv
  <2>4. Memory(t, th[t], mem', view[t], kd2, wh2, lv2, up2, at2)
    BY <1>4, <2>1, <2>2, <2>3, MemorySame
  <2> QED
    BY <2>4
<1>15. Holdings(held', heap', lost', kd2)
  <2>1. Holdings(held, heap, lost, kd)
    BY <1>1 DEF Roles
  <2> QED
    BY <1>3, <1>8, <2>1 DEF Holdings
<1>16. /\ heap' \subseteq Frames /\ lost' \subseteq Frames /\ resplit' = resplit
       /\ \A u \in Tids \ {t} : view'[u] = view[u]
  BY DEF SpaceInv, FrameInv
<1>17. Become(t, th[t]) /\ Quiet(th[t], th[t], lost, lost')
  BY DEF Become, Quiet, SpaceInv, LoaderInv
<1>18. FrameInv'
  BY <1>1, <1>9, <1>11, <1>12, <1>13, <1>14, <1>15, <1>16, <1>17, QuietRoles
<1> QED
  BY <1>3, <1>18

(* Thread t gets frame f as its page at address a and keeps its pages at    *)
(* other addresses of the branch.                                           *)
PagePut(kd, wh, lv, up, at, kd2, wh2, lv2, up2, at2, t, f, a) ==
    \A g \in Frames, b \in Nat :
        b % PAGE_SIZE = 0 /\ V4(b) = V4(a) =>
            (Maps(kd2, wh2, lv2, up2, at2, t, g, b) <=>
                IF b = a THEN g = f ELSE Maps(kd, wh, lv, up, at, t, g, b))

(* The page in hand is entered in its page table. *)
LEMMA PageEntered ==
    ASSUME NEW T, NEW kd, NEW wh, NEW lv, NEW up, NEW at, Tree(T, kd, wh, lv, up, at),
           NEW t, NEW s, Level(kd, wh, lv, t, 4) = {s}, NEW a \in Nat, a % PAGE_SIZE = 0,
           pml4_index(a) # 0,
           At4(T, s, a).present, At3(T, s, a).present, At2(T, s, a).present,
           NEW f \in Frames, kd[f] = "hand", NEW p, p = At2(T, s, a).frame,
           NEW j, j = pt_index(a), NEW T2, T2 = Written(T, p, j, PageEntry(f, TRUE))
    PROVE  LET kd2 == ChildKind(T, kd, p, j, f)
               wh2 == [wh EXCEPT ![f] = wh[p]]
               lv2 == [lv EXCEPT ![f] = 0]
               up2 == [up EXCEPT ![f] = p]
               at2 == [at EXCEPT ![f] = j]
           IN  /\ Tree(T2, kd2, wh2, lv2, up2, at2)
               /\ PagePut(kd, wh, lv, up, at, kd2, wh2, lv2, up2, at2, t, f, a)
<1>1. SpaceFrame(kd, wh, lv, t, 4, s)
  BY DEF Level
<1>2. PICK g3 \in Frames : /\ g3 = At4(T, s, a).frame /\ SpaceFrame(kd, wh, lv, t, 3, g3)
                           /\ at[g3] = pml4_index(a)
  BY <1>1, PrivateWalk DEF SpaceFrame
<1>3. PICK g2 \in Frames : /\ g2 = At3(T, s, a).frame /\ SpaceFrame(kd, wh, lv, t, 2, g2)
                           /\ at[g2] = pdpt_index(a) /\ up[g2] = g3
  BY <1>1, <1>2, PrivateWalk DEF SpaceFrame
<1>4. /\ p \in Frames /\ SpaceFrame(kd, wh, lv, t, 1, p) /\ at[p] = pd_index(a) /\ up[p] = g2
  BY <1>1, <1>3, PrivateWalk DEF SpaceFrame
<1>5. kd[p] = "space" /\ wh[p] = t /\ lv[p] = 1 /\ j \in Index /\ p \in DOMAIN T
      /\ RoleTypes(kd, wh, lv, up, at) /\ f \notin DOMAIN T
  <2>1. kd[p] = "space" /\ wh[p] = t /\ lv[p] = 1 /\ 1 > 0
    BY <1>4 DEF SpaceFrame
  <2> QED
    BY <1>4, <2>1, Indices DEF Tree, TablesAre, IsTable
<1> DEFINE kd2 == ChildKind(T, kd, p, j, f)
           wh2 == [wh EXCEPT ![f] = wh[p]]
           lv2 == [lv EXCEPT ![f] = 0]
           up2 == [up EXCEPT ![f] = p]
           at2 == [at EXCEPT ![f] = j]
           e   == PageEntry(f, TRUE)
<1>6. Tree(T2, kd2, wh2, lv2, up2, at2)
  <2>1. e \in Entry /\ e.frame = f /\ e.present /\ e.user /\ ~ e.large
    BY EntryFields, FrameFacts
  <2>2. NewChild(T, kd, p, j, f, 0)
    BY <1>4, <1>5 DEF NewChild
  <2>3. ChildTables(T, p, j, e, f, 0, T2)
    <3>1. /\ DOMAIN T2 = DOMAIN T
          /\ \A g \in DOMAIN T : T2[g] = IF g = p THEN [T[p] EXCEPT ![j] = e] ELSE T[g]
      BY DEF Written
    <3>2. /\ DOMAIN T \cup (IF 0 = 0 THEN {} ELSE {f}) = DOMAIN T
          /\ ~ (0 > 0)
      OBVIOUS
    <3> HIDE DEF e
    <3> QED
      BY <3>1, <3>2 DEF ChildTables
  <2>4. lv[p] = 0 + 1 /\ ~ SharedBranch(lv, p, j)
    BY <1>5 DEF SharedBranch
  <2> HIDE DEF e
  <2> QED
    BY <2>1, <2>2, <2>3, <2>4, ChildTree
<1>7. ASSUME NEW g \in Frames
      PROVE  /\ kd2[g] = IF g = f THEN "space"
                         ELSE IF T[p][j].present /\ g = T[p][j].frame THEN "lost" ELSE kd[g]
             /\ wh2[g] = IF g = f THEN t ELSE wh[g]
             /\ lv2[g] = IF g = f THEN 0 ELSE lv[g]
             /\ up2[g] = IF g = f THEN p ELSE up[g]
             /\ at2[g] = IF g = f THEN j ELSE at[g]
  BY <1>5 DEF ChildKind, RoleTypes
<1> HIDE DEF kd2, wh2, lv2, up2, at2
<1>8. At1(T, s, a) = T[p][j]
  BY DEF At1
<1>9. ASSUME NEW g \in Frames, NEW l \in 0..3, SpaceFrame(kd, wh, lv, t, l, g)
      PROVE  SpaceFrame(kd, wh, lv, t, l + 1, up[g])
  <2>1. l < 4
    OBVIOUS
  <2> QED
    BY <1>9, <2>1 DEF Tree, Links, UpLinks, SpaceFrame
<1>10. ASSUME NEW g \in Frames, g # f, SpaceFrame(kd, wh, lv, t, 0, g), NEW b
       PROVE  /\ at2[g] = at[g] /\ at2[up2[g]] = at[up[g]]
              /\ at2[up2[up2[g]]] = at[up[up[g]]]
              /\ at2[up2[up2[up2[g]]]] = at[up[up[up[g]]]]
  <2>1. PICK h1 \in Frames : h1 = up[g] /\ SpaceFrame(kd, wh, lv, t, 1, h1)
    <3>1. SpaceFrame(kd, wh, lv, t, 0 + 1, up[g])
      BY <1>9, <1>10
    <3> QED
      BY <3>1 DEF SpaceFrame
  <2>2. PICK h2 \in Frames : h2 = up[h1] /\ SpaceFrame(kd, wh, lv, t, 2, h2)
    <3>1. SpaceFrame(kd, wh, lv, t, 1 + 1, up[h1])
      BY <1>9, <2>1
    <3> QED
      BY <3>1 DEF SpaceFrame
  <2>3. PICK h3 \in Frames : h3 = up[h2] /\ SpaceFrame(kd, wh, lv, t, 3, h3)
    <3>1. SpaceFrame(kd, wh, lv, t, 2 + 1, up[h2])
      BY <1>9, <2>2
    <3> QED
      BY <3>1 DEF SpaceFrame
  <2>4. h1 # f /\ h2 # f /\ h3 # f
    BY <2>1, <2>2, <2>3 DEF SpaceFrame
  <2> QED
    BY <1>7, <1>10, <2>1, <2>2, <2>3, <2>4
<1>11. ASSUME NEW g \in Frames, g # f, NEW b
       PROVE  Maps(kd2, wh2, lv2, up2, at2, t, g, b) <=>
                 Maps(kd, wh, lv, up, at, t, g, b) /\ ~ (T[p][j].present /\ g = T[p][j].frame)
  <2>1. SpaceFrame(kd2, wh2, lv2, t, 0, g) <=>
           SpaceFrame(kd, wh, lv, t, 0, g) /\ ~ (T[p][j].present /\ g = T[p][j].frame)
    BY <1>7, <1>11 DEF SpaceFrame
  <2> QED
    BY <1>10, <1>11, <2>1 DEF Maps
<1>12. /\ SpaceFrame(kd2, wh2, lv2, t, 0, f) /\ ~ SpaceFrame(kd, wh, lv, t, 0, f)
       /\ at2[f] = pt_index(a) /\ at2[up2[f]] = pd_index(a)
       /\ at2[up2[up2[f]]] = pdpt_index(a) /\ at2[up2[up2[up2[f]]]] = pml4_index(a)
  <2>1. p # f /\ g2 # f /\ g3 # f
    BY <1>2, <1>3, <1>4 DEF SpaceFrame
  <2>2. up2[f] = p /\ up2[p] = g2 /\ up2[g2] = g3
    BY <1>3, <1>4, <1>7, <2>1
  <2>3. at2[f] = j /\ at2[p] = at[p] /\ at2[g2] = at[g2] /\ at2[g3] = at[g3]
    BY <1>4, <1>7, <2>1
  <2>4. SpaceFrame(kd2, wh2, lv2, t, 0, f) /\ ~ SpaceFrame(kd, wh, lv, t, 0, f)
    BY <1>7 DEF SpaceFrame
  <2> QED
    BY <1>2, <1>3, <1>4, <2>2, <2>3, <2>4
<1>13. ASSUME NEW g \in Frames, NEW b \in Nat, b % PAGE_SIZE = 0, V4(b) = V4(a)
       PROVE  Maps(kd2, wh2, lv2, up2, at2, t, g, b) <=>
                IF b = a THEN g = f ELSE Maps(kd, wh, lv, up, at, t, g, b)
  <2>1. CASE g = f
    <3>1. Maps(kd2, wh2, lv2, up2, at2, t, f, b) => b = a
      <4>1. SUFFICES ASSUME Maps(kd2, wh2, lv2, up2, at2, t, f, b) PROVE b = a
        OBVIOUS
      <4>2. /\ pt_index(b) = pt_index(a) /\ pd_index(b) = pd_index(a)
            /\ pdpt_index(b) = pdpt_index(a)
        BY <1>12, <4>1 DEF Maps
      <4> QED
        BY <1>13, <4>2, PageDigits
    <3>2. Maps(kd2, wh2, lv2, up2, at2, t, f, a)
      BY <1>12 DEF Maps
    <3>3. ~ Maps(kd, wh, lv, up, at, t, f, b)
      BY <1>12 DEF Maps
    <3> QED
      BY <2>1, <3>1, <3>2, <3>3
  <2>2. CASE g # f /\ b = a
    <3>1. Maps(kd, wh, lv, up, at, t, g, a) => At1(T, s, a).present /\ At1(T, s, a).frame = g
      BY MapsWalk
    <3> QED
      BY <1>8, <1>11, <2>2, <3>1
  <2>3. CASE g # f /\ b # a
    <3>1. ASSUME T[p][j].present, g = T[p][j].frame, Maps(kd, wh, lv, up, at, t, g, b)
          PROVE  FALSE
      <4>1. Maps(kd, wh, lv, up, at, t, g, a)
        BY <1>1, <1>8, <3>1, WalkMaps
      <4>2. /\ pt_index(b) = pt_index(a) /\ pd_index(b) = pd_index(a)
            /\ pdpt_index(b) = pdpt_index(a)
        BY <3>1, <4>1 DEF Maps
      <4> QED
        BY <1>13, <2>3, <4>2, PageDigits
    <3> QED
      BY <1>11, <2>3, <3>1
  <2> QED
    BY <2>1, <2>2, <2>3
<1>14. PagePut(kd, wh, lv, up, at, kd2, wh2, lv2, up2, at2, t, f, a)
  BY <1>13 DEF PagePut
<1> QED
  BY <1>6, <1>14 DEF kd2, wh2, lv2, up2, at2

(* What the step to r that maps frame f at address a gives thread t *)
Mapped(t, r, f, a, T, M, kd, wh, lv, up, at, T2, M2, hl2, hp2, ls2,
       kd2, wh2, lv2, up2, at2) ==
    /\ Tree(T2, kd2, wh2, lv2, up2, at2)
    /\ OnlyMine(t, kd, wh, lv, up, at, M, kd2, wh2, lv2, up2, at2, M2)
    /\ SharedKept(T, kd, up, T2, kd2, up2)
    /\ Uses(t, r, kd2, wh2, lv2)
    /\ Holdings(hl2, hp2, ls2, kd2)
    /\ PagePut(kd, wh, lv, up, at, kd2, wh2, lv2, up2, at2, t, f, a)
    /\ \A g \in Frames : \A b : Maps(kd, wh, lv, up, at, t, g, b) => g # f

(* A thread that maps the frame in its hand *)
Lays(r, r2) ==
    /\ r.pc # "unused" /\ r2.pc # "unused" /\ r2.guard = r.guard /\ r2.space = r.space
    /\ r.frame # 0 /\ r.table = 0 /\ r2.frame = 0 /\ r2.table = 0

(* The page entry for address a is written. *)
LEMMA PageMapped ==
    ASSUME SpaceInv, NEW kd, NEW wh, NEW lv, NEW up, NEW at, Roles(kd, wh, lv, up, at),
           NEW t \in Tids, NEW s, s = th[t].space, s # kernel_pml4,
           NEW a \in Nat, a % PAGE_SIZE = 0, pml4_index(a) # 0, MissingLevel(s, a) = 0,
           NEW f, f = th[t].frame, SetPte(s, a, PageEntry(f, TRUE)),
           NEW r, Lays(th[t], r), held' = held, heap' = heap,
           \A g \in Frames \ {f} : mem'[g] = mem[g],
           \A g : g \in lost' <=> g \in lost \/ g \in Displaced(s, a)
    PROVE  /\ lost' \subseteq Frames /\ heap' \subseteq Frames
           /\ \E kd2, wh2, lv2, up2, at2 :
                 Mapped(t, r, f, a, tables, mem, kd, wh, lv, up, at,
                        tables', mem', held', heap', lost', kd2, wh2, lv2, up2, at2)
<1>1. /\ Tree(tables, kd, wh, lv, up, at) /\ SpaceFrame(kd, wh, lv, t, 4, s)
      /\ Level(kd, wh, lv, t, 4) = {s}
  BY SpaceOf DEF Roles
<1>2. L4(s, a).present /\ L3(s, a).present /\ L2(s, a).present /\ ~ L2(s, a).large
  BY DEF MissingLevel
<1>3. /\ At4(tables, s, a).present /\ At3(tables, s, a).present /\ At2(tables, s, a).present
  BY <1>2, WalkIs
<1>4. PICK g3 \in Frames : /\ g3 = At4(tables, s, a).frame /\ SpaceFrame(kd, wh, lv, t, 3, g3)
                           /\ At4(tables, s, a).user
  BY <1>1, <1>3, PrivateWalk DEF SpaceFrame
<1>5. PICK g2 \in Frames : /\ g2 = At3(tables, s, a).frame /\ SpaceFrame(kd, wh, lv, t, 2, g2)
                           /\ At3(tables, s, a).user
  BY <1>1, <1>3, PrivateWalk DEF SpaceFrame
<1>6. PICK p \in Frames : /\ p = At2(tables, s, a).frame /\ SpaceFrame(kd, wh, lv, t, 1, p)
                          /\ At2(tables, s, a).user
  BY <1>1, <1>3, PrivateWalk DEF SpaceFrame
<1>7. PICK j \in Index : j = pt_index(a)
  BY Indices
<1>8. ASSUME NEW g \in Frames, NEW l \in 1..4, SpaceFrame(kd, wh, lv, t, l, g)
      PROVE  g \in DOMAIN tables
  <2>1. l > 0
    OBVIOUS
  <2> QED
    BY <1>1, <1>8, <2>1 DEF SpaceFrame, Tree, TablesAre, IsTable
<1>9. s \in DOMAIN tables /\ g3 \in DOMAIN tables /\ g2 \in DOMAIN tables /\ p \in DOMAIN tables
  <2>1. s \in Frames
    BY <1>1 DEF SpaceFrame
  <2> QED
    BY <1>1, <1>4, <1>5, <1>6, <1>8, <2>1
<1>10. tables' = Written(tables, p, j, PageEntry(f, TRUE))
  <2>1. \A g \in DOMAIN tables : tables[g] \in [Index -> Entry]
    BY <1>1 DEF Tree, TablesAre
  <2>2. /\ L4(s, a).user /\ L4(s, a).frame = g3 /\ L3(s, a).user /\ L3(s, a).frame = g2
        /\ L2(s, a).user /\ L2(s, a).frame = p
    BY <1>4, <1>5, <1>6, WalkIs
  <2> QED
    BY <1>7, <1>9, <2>1, <2>2, SetPteIs, ZenonT(60)
<1>11. f \in Frames /\ f # 0 /\ kd[f] = "hand" /\ wh[f] = t /\ Uses(t, th[t], kd, wh, lv)
  <2>1. Uses(t, th[t], kd, wh, lv) /\ th[t].frame \in Frames /\ f # 0
    BY ThreadTypes DEF Roles, Threads, SpaceInv, Lays
  <2> QED
    BY <2>1 DEF Uses
<1> DEFINE kd2 == ChildKind(tables, kd, p, j, f)
           wh2 == [wh EXCEPT ![f] = wh[p]]
           lv2 == [lv EXCEPT ![f] = 0]
           up2 == [up EXCEPT ![f] = p]
           at2 == [at EXCEPT ![f] = j]
<1>12. /\ Tree(tables', kd2, wh2, lv2, up2, at2)
       /\ PagePut(kd, wh, lv, up, at, kd2, wh2, lv2, up2, at2, t, f, a)
  <2>1. p = At2(tables, s, a).frame /\ j = pt_index(a) /\ f \in Frames /\ kd[f] = "hand"
    BY <1>6, <1>7, <1>11
  <2> HIDE DEF kd2, wh2, lv2, up2, at2
  <2>2. PICK T2 : T2 = tables' /\ T2 = Written(tables, p, j, PageEntry(f, TRUE))
    BY <1>10
  <2>3. /\ Tree(T2, kd2, wh2, lv2, up2, at2)
        /\ PagePut(kd, wh, lv, up, at, kd2, wh2, lv2, up2, at2, t, f, a)
    BY <1>1, <1>3, <2>1, <2>2, PageEntered, Zenon DEF kd2, wh2, lv2, up2, at2
  <2> QED
    BY <2>2, <2>3
<1>13. kd[p] = "space" /\ wh[p] = t /\ lv[p] = 1 /\ RoleTypes(kd, wh, lv, up, at)
  BY <1>1, <1>6 DEF SpaceFrame, Tree
<1>14. ASSUME NEW g \in Frames
       PROVE  /\ kd2[g] = IF g = f THEN "space"
                          ELSE IF tables[p][j].present /\ g = tables[p][j].frame THEN "lost"
                          ELSE kd[g]
              /\ wh2[g] = IF g = f THEN t ELSE wh[g]
              /\ lv2[g] = IF g = f THEN 0 ELSE lv[g]
              /\ up2[g] = IF g = f THEN p ELSE up[g]
              /\ at2[g] = IF g = f THEN j ELSE at[g]
  BY <1>11, <1>13 DEF ChildKind, RoleTypes
<1> HIDE DEF kd2, wh2, lv2, up2, at2
<1>15. ASSUME tables[p][j].present
       PROVE  /\ tables[p][j].frame \in Frames /\ kd[tables[p][j].frame] = "space"
              /\ wh[tables[p][j].frame] = t /\ lv[tables[p][j].frame] = 0
              /\ tables[p][j].user
  <2>1. lv[p] > 0 /\ ~ SharedBranch(lv, p, j) /\ lv[p] - 1 = 0
    BY <1>13 DEF SharedBranch
  <2> QED
    BY <1>1, <1>13, <1>15, <2>1 DEF Tree, Links, DownLinks
<1>16. \A g : g \in Displaced(s, a) <=> tables[p][j].present /\ g = tables[p][j].frame
  <2>1. L1(s, a) = tables[p][j]
    BY <1>6, <1>7, WalkIs DEF L1
  <2> QED
    BY <1>15, <2>1 DEF Displaced
<1>17. lost' \subseteq Frames /\ heap' \subseteq Frames
  BY <1>15, <1>16 DEF SpaceInv, FrameInv
<1>18. OnlyMine(t, kd, wh, lv, up, at, mem, kd2, wh2, lv2, up2, at2, mem')
  BY <1>11, <1>14, <1>15 DEF OnlyMine
<1>19. SharedKept(tables, kd, up, tables', kd2, up2)
  <2>1. \A g \in Frames : kd[g] = "shared" => g \in DOMAIN tables /\ g # p /\ g # f
    BY <1>1, <1>11, <1>13 DEF Tree, TablesAre, IsTable
  <2>2. \A g \in DOMAIN tables : g # p => tables'[g] = tables[g]
    BY <1>10 DEF Written
  <2> QED
    BY <1>11, <1>14, <1>15, <2>1, <2>2 DEF SharedKept
<1>20. Uses(t, r, kd2, wh2, lv2)
  <2>1. \A g \in Frames :
           /\ kd2[g] = "stack" /\ wh2[g] = t <=> kd[g] = "stack" /\ wh[g] = t
           /\ kd2[g] = "hand" /\ wh2[g] = t <=> kd[g] = "hand" /\ wh[g] = t /\ g # f
           /\ SpaceFrame(kd2, wh2, lv2, t, 4, g) <=> SpaceFrame(kd, wh, lv, t, 4, g)
    BY <1>11, <1>14, <1>15 DEF SpaceFrame
  <2> QED
    BY <1>11, <2>1 DEF Uses, Lays, Stack
<1>21. Holdings(held', heap', lost', kd2)
  <2>1. Holdings(held, heap, lost, kd)
    BY DEF Roles
  <2>2. ASSUME NEW g \in Frames
        PROVE  /\ g \in held <=> kd2[g] \notin {"none", "boot"}
               /\ g \in heap <=> kd2[g] = "heap"
               /\ g \in lost' <=> kd2[g] = "lost"
    <3>1. /\ g \in held <=> kd[g] \notin {"none", "boot"}
          /\ g \in heap <=> kd[g] = "heap"
          /\ g \in lost <=> kd[g] = "lost"
      BY <2>1 DEF Holdings
    <3>2. CASE g = f
      BY <1>11, <1>14, <1>15, <1>16, <3>1, <3>2
    <3>3. CASE g # f /\ tables[p][j].present /\ g = tables[p][j].frame
      BY <1>14, <1>15, <1>16, <3>1, <3>3
    <3>4. CASE g # f /\ ~ (tables[p][j].present /\ g = tables[p][j].frame)
      BY <1>14, <1>16, <3>1, <3>4
    <3> QED
      BY <3>2, <3>3, <3>4
  <2> QED
    BY <2>2 DEF Holdings
<1>22. \A g \in Frames : \A b : Maps(kd, wh, lv, up, at, t, g, b) => g # f
  BY <1>11 DEF Maps, SpaceFrame
<1>23. Mapped(t, r, f, a, tables, mem, kd, wh, lv, up, at,
              tables', mem', held', heap', lost', kd2, wh2, lv2, up2, at2)
  BY <1>12, <1>18, <1>19, <1>20, <1>21, <1>22 DEF Mapped
<1> QED
  BY <1>17, <1>23

(* The bytes that load_segment copies are those that the segment has for    *)
(* the addresses of the page.                                               *)
LEMMA ImageIs ==
    ASSUME NEW t \in Tids, LayoutOk(t), NEW p \in Program, NEW i \in Loads(p),
           SegmentOk(p, p.phdrs[i], load_bias(t)),
           NEW va \in SegmentPages(p.phdrs[i], load_bias(t))
    PROVE  PageBytes(p, p.phdrs[i], load_bias(t), va) = Image(t, p, i, va)
<1>1. PICK P \in Nat \ {0}, W \in Nat \ {0}, b \in Nat, c \in Nat, z \in Nat, L \in Nat, y \in Int :
         /\ P = PAGE_SIZE /\ W = WORD /\ b = image_base(t) /\ c = stack_ceiling(t)
         /\ z = USER_PROCESS_SLOT_SIZE /\ L = USER_IMAGE_LINK_BASE /\ y = b - L
  <2>1. image_base(t) - USER_IMAGE_LINK_BASE \in Int
    BY SlotBounds, VmmAssumption, SMTT(60)
  <2> QED
    BY <2>1, Sizes, SlotBounds, VmmAssumption, ElfAssumption
<1>2. c = b + z /\ L + z <= W /\ b % P = 0 /\ c % P = 0
  BY <1>1, SlotBounds, VmmAssumption
<1>3. PICK n \in Int, B \in Nat : B = load_bias(t) /\ y = B + W * n
  <2>1. load_bias(t) = y % W
    BY <1>1 DEF load_bias
  <2>2. PICK n \in Int : y = (y % W) + W * n
    BY ModSplits
  <2> QED
    BY <2>1, <2>2, BiasIsNat
<1>4. PICK w \in Nat : w = va /\ w % P = 0 /\ b <= w /\ w + P <= c
  <2>1. va \in SlotPages(t)
    BY SegmentPagesAre
  <2>2. va \in Nat /\ va % P = 0 /\ b <= va /\ va < c
    BY <1>1, <2>1, SlotIndices DEF SlotPages
  <2> QED
    BY <1>2, <2>2, NextPage
<1>5. ASSUME NEW k \in 0..(P - 1)
      PROVE  (va + k - load_bias(t)) % WORD = w + k - b + L
  <2>1. w + k - b + L \in 0..(W - 1)
    BY <1>2, <1>4
  <2>2. PICK q \in Nat : q = w + k - b + L
    BY <2>1
  <2>3. PICK u \in Int : u = w + k - B
    OBVIOUS
  <2>4. u = q + W * n
    <3>1. PICK m \in Int : m = W * n
      OBVIOUS
    <3> QED
      BY <1>1, <1>3, <2>2, <2>3, <3>1
  <2>5. u % W = q
    BY <2>1, <2>2, <2>4, ModIs
  <2> QED
    BY <1>1, <1>3, <1>4, <2>2, <2>3, <2>5
<1>6. ASSUME NEW j \in Loads(p)
      PROVE  \E v \in Nat, m \in Nat, f \in Nat, o \in Nat, sv \in Nat :
                /\ v = p.phdrs[j].vaddr /\ m = p.phdrs[j].memsz /\ f = p.phdrs[j].filesz
                /\ o = p.phdrs[j].offset /\ sv = segment_vaddr(p.phdrs[j], load_bias(t))
                /\ sv = v - L + b /\ sv + m <= c /\ c + P <= W
  <2> DEFINE ph == p.phdrs[j]
             s0 == segment_vaddr(ph, load_bias(t))
  <2>1. /\ ph.vaddr \in Nat /\ ph.memsz \in Nat /\ ph.filesz \in Nat
        /\ ph.offset \in Nat
        /\ s0 \in Nat /\ s0 = ph.vaddr - USER_IMAGE_LINK_BASE + image_base(t)
        /\ s0 + ph.memsz <= stack_ceiling(t)
        /\ stack_ceiling(t) + PAGE_SIZE <= WORD
    BY SegmentPlace
  <2> HIDE DEF ph, s0
  <2>2. PICK m \in Nat, v \in Nat, f \in Nat, o \in Nat, sv \in Nat :
           m = ph.memsz /\ v = ph.vaddr /\ f = ph.filesz /\ o = ph.offset /\ sv = s0
    BY <2>1
  <2> QED
    BY <1>1, <2>1, <2>2 DEF ph, s0
<1>8. PICK v \in Nat, m \in Nat, f \in Nat, o \in Nat, sv \in Nat :
         /\ v = p.phdrs[i].vaddr /\ m = p.phdrs[i].memsz /\ f = p.phdrs[i].filesz
         /\ o = p.phdrs[i].offset /\ sv = segment_vaddr(p.phdrs[i], load_bias(t))
         /\ sv = v - L + b /\ sv + m <= c /\ c + P <= W
  BY <1>6
<1>9. f <= m
  BY <1>8 DEF SegmentOk
<1>10. Plus(sv, f) = sv + f
  <2>1. sv + f \in 0..(W - 1)
    BY <1>8, <1>9
  <2>2. (sv + f) % W = sv + f
    BY <2>1
  <2> QED
    BY <1>1, <2>2 DEF Plus
<1>11. ASSUME NEW k \in 0..(P - 1)
       PROVE  SegmentByte(p, i, w + k - b + L) =
                IF w + k >= sv /\ w + k < sv + f THEN DataByte(p, o + (w + k - sv)) ELSE Zero
  <2>1. PICK x \in Int : x = w + k - b + L
    OBVIOUS
  <2>2. SegmentByte(p, i, x) =
          IF x >= v /\ x - v < f THEN DataByte(p, o + (x - v)) ELSE Zero
    BY <1>8, Zenon DEF SegmentByte
  <2>3. x - v = w + k - sv /\ (x >= v <=> w + k >= sv) /\ (x - v < f <=> w + k < sv + f)
    BY <1>8, <2>1
  <2> QED
    BY <2>1, <2>2, <2>3
<1>12. ASSUME NEW k \in 0..(P - 1)
       PROVE  Image(t, p, i, va)[k] =
                IF w + k >= sv /\ w + k < sv + f THEN DataByte(p, o + (w + k - sv)) ELSE Zero
  <2>1. Image(t, p, i, va)[k] = SegmentByte(p, i, (va + k - load_bias(t)) % WORD)
    BY <1>1 DEF Image
  <2>2. PICK x : x = (va + k - load_bias(t)) % WORD /\ x = w + k - b + L
    BY <1>5
  <2> QED
    BY <1>11, <2>1, <2>2
<1> DEFINE cs == IF w > sv THEN w ELSE sv
           ce == IF w + P < sv + f THEN w + P ELSE sv + f
<1>13. PageBytes(p, p.phdrs[i], load_bias(t), va) =
         [k \in 0..(P - 1) |-> IF w + k >= cs /\ w + k < ce
                               THEN DataByte(p, o + (w + k - sv)) ELSE Zero]
  BY <1>1, <1>4, <1>8, <1>10, Zenon DEF PageBytes
<1>14. ASSUME NEW k \in 0..(P - 1)
       PROVE  w + k >= cs /\ w + k < ce <=> w + k >= sv /\ w + k < sv + f
  OBVIOUS
<1> HIDE DEF cs, ce
<1>15. /\ DOMAIN PageBytes(p, p.phdrs[i], load_bias(t), va) = 0..(P - 1)
       /\ DOMAIN Image(t, p, i, va) = 0..(P - 1)
  BY <1>1, <1>13 DEF Image
<1>16. ASSUME NEW k \in 0..(P - 1)
       PROVE  PageBytes(p, p.phdrs[i], load_bias(t), va)[k] = Image(t, p, i, va)[k]
  BY <1>12, <1>13, <1>14
<1>17. /\ PageBytes(p, p.phdrs[i], load_bias(t), va)
             = [k \in 0..(P - 1) |-> PageBytes(p, p.phdrs[i], load_bias(t), va)[k]]
       /\ Image(t, p, i, va) = [k \in 0..(P - 1) |-> Image(t, p, i, va)[k]]
  BY <1>1, <1>13 DEF Image
<1> QED
  BY <1>16, <1>17, Zenon

(* The page that was put is found. *)
LEMMA PutFound ==
    ASSUME NEW kd, NEW wh, NEW lv, NEW up, NEW at, NEW kd2, NEW wh2, NEW lv2, NEW up2, NEW at2,
           NEW t, NEW f \in Frames, NEW a \in Nat, a % PAGE_SIZE = 0,
           PagePut(kd, wh, lv, up, at, kd2, wh2, lv2, up2, at2, t, f, a), NEW M2
    PROVE  Finds(kd2, wh2, lv2, up2, at2, M2, t, a, M2[f])
<1>1. Maps(kd2, wh2, lv2, up2, at2, t, f, a)
  BY DEF PagePut
<1> QED
  BY <1>1 DEF Finds

(* The other pages are found as before. *)
LEMMA PutFinds ==
    ASSUME NEW kd, NEW wh, NEW lv, NEW up, NEW at, NEW kd2, NEW wh2, NEW lv2, NEW up2, NEW at2,
           NEW t, NEW f \in Frames, NEW a \in Nat,
           PagePut(kd, wh, lv, up, at, kd2, wh2, lv2, up2, at2, t, f, a),
           \A g \in Frames : \A b : Maps(kd, wh, lv, up, at, t, g, b) => g # f,
           NEW M, NEW M2, \A g \in Frames \ {f} : M2[g] = M[g],
           NEW b \in Nat, NEW c, b % PAGE_SIZE = 0, V4(b) = V4(a), b # a,
           Finds(kd, wh, lv, up, at, M, t, b, c)
    PROVE  Finds(kd2, wh2, lv2, up2, at2, M2, t, b, c)
<1>1. PICK g \in Frames : Maps(kd, wh, lv, up, at, t, g, b) /\ M[g] = c
  BY DEF Finds
<1>2. g # f /\ M2[g] = c
  BY <1>1
<1>3. Maps(kd2, wh2, lv2, up2, at2, t, g, b)
  BY <1>1 DEF PagePut
<1> QED
  BY <1>2, <1>3 DEF Finds

(* A step that adds a table keeps the rest of the invariant. *)
LEMMA TableStep ==
    ASSUME SpaceInv, NEW t \in Tids, NEW s, s = th[t].space, s # kernel_pml4,
           th[t].pc # "unused", NEW a \in SlotPages(t), MissingLevel(s, a) # 0,
           NEW n \in NextFree, AddTable(s, a, n),
           UNCHANGED <<th, heap, lost, resplit, view, regions, irqs_off, spawns>>, LoaderInv'
    PROVE  SpaceInv'
<1>1. a \in Nat /\ pml4_index(a) # 0
  BY SlotIndices
<1>2. IInv' /\ FrameInv'
  BY <1>1, TableAdded
<1>3. Become(t, th[t]) /\ DOMAIN view' = Tids /\ Fields(t, th[t])
  BY DEF Become, SpaceInv, LoaderInv
<1>4. RegionsInv'
  BY <1>3, RegionsSame
<1>5. Counters'
  <2>1. irqs_off' \in Tids \cup {NoTid}
    BY DEF SpaceInv, Counters
  <2> QED
    BY <1>3, <2>1, CountersSame
<1> QED
  BY <1>2, <1>3, <1>4, <1>5, AllParts

(* A page of a segment *)
LEMMA SpaceMapSegment ==
    ASSUME SpaceInv, NEW t \in Tids, MapSegmentPage(t), heap' = heap
    PROVE  SpaceInv'
<1>1. PICK kd, wh, lv, up, at : Roles(kd, wh, lv, up, at)
  BY DEF SpaceInv, FrameInv
<1>2. PICK s, a, p, i : s = th[t].space /\ a = th[t].va /\ p = th[t].prog /\ i = th[t].seg
  OBVIOUS
<1>3. /\ th[t].pc = "page" /\ regions' = regions /\ irqs_off' = irqs_off
      /\ spawns' = spawns /\ resplit' = resplit
  BY DEF MapSegmentPage
<1>4. /\ th[t] \in Thread /\ Fields(t, th[t]) /\ th[t].frame # 0 /\ th[t].table = 0
      /\ LayoutOk(t) /\ s # kernel_pml4 /\ p \in Program /\ th[t].prog # Demo
      /\ a \in SegmentPages(p.phdrs[i], load_bias(t))
  BY <1>2, <1>3, ThreadTypes, ProgramAssumption DEF SpaceInv, Fields, HasFrame, SpacelessPc
<1>5. /\ i \in DOMAIN p.phdrs /\ p.phdrs[i].type = "LOAD" /\ i \in Loads(p)
      /\ SegmentOk(p, p.phdrs[i], load_bias(t))
  BY <1>2, <1>3 DEF SpaceInv, LoaderInv, Loading, Loads
<1>6. /\ a \in SlotPages(t) /\ a \in Nat /\ a % PAGE_SIZE = 0 /\ pml4_index(a) # 0
      /\ V4(a) = 1
  <2>1. a \in SlotPages(t)
    BY <1>4, <1>5, SegmentPagesAre
  <2> QED
    BY <1>4, <2>1, SlotIndices
<1>7. LoaderInv'
  BY LoaderMapPage DEF SpaceInv
<1>8. DOMAIN view = Tids /\ DOMAIN view[t] = {}
  BY <1>1, <1>3 DEF SpaceInv, Roles, Memory
<1>9. CASE /\ MissingLevel(s, a) # 0 /\ \E n \in NextFree : AddTable(s, a, n)
           /\ UNCHANGED <<th, lost, view>>
  BY <1>2, <1>3, <1>4, <1>6, <1>7, <1>9, TableStep
<1>10. CASE DiesWithFrames(t) /\ UNCHANGED <<pmmVars, tables, mem>>
  <2>1. Dies(t) /\ lost' = lost \cup InHand(t)
    BY <1>10 DEF DiesWithFrames
  <2>2. Late(th[t]) /\ th[t].pc # "zombie" /\ irqs_off' \in Tids \cup {NoTid}
    BY <1>3 DEF Late, SpaceInv, Counters
  <2> QED
    BY <1>3, <1>10, <2>1, <2>2, Death
<1>11. CASE /\ MissingLevel(s, a) = 0
            /\ SetPte(s, a, PageEntry(th[t].frame, TRUE))
            /\ mem' = [mem EXCEPT ![th[t].frame] = PageBytes(p, p.phdrs[i], load_bias(t), a)]
            /\ lost' = lost \cup Displaced(s, a)
            /\ Become(t, [th[t] EXCEPT !.pc = "segment", !.frame = 0, !.va = Plus(a, PAGE_SIZE)])
            /\ UNCHANGED <<pmmVars, view>>
  <2>1. PICK f \in Frames : f = th[t].frame
    BY <1>4 DEF Thread
  <2>2. PICK r : /\ r = [th[t] EXCEPT !.pc = "segment", !.frame = 0, !.va = Plus(a, PAGE_SIZE)]
                 /\ Become(t, r)
    BY <1>11
  <2>3. /\ r.pc = "segment" /\ r.frame = 0 /\ r.table = 0 /\ r.guard = th[t].guard
        /\ r.va = Plus(a, PAGE_SIZE) /\ r.space = s /\ r.prog = p /\ r.seg = i
    BY <1>2, <1>4, <2>2 DEF Thread
  <2>4. PICK P \in Nat \ {0}, x \in Nat : /\ P = PAGE_SIZE /\ x = a
                                          /\ r.va = x + P /\ (x + P) % P = 0
    <3>1. PICK P \in Nat \ {0}, x \in Nat, W \in Nat \ {0}, c \in Nat :
             /\ P = PAGE_SIZE /\ x = a /\ W = WORD /\ c = stack_ceiling(t)
             /\ c <= W /\ c % P = 0 /\ x < c /\ x % P = 0 /\ c + P <= W
      <4>1. stack_ceiling(t) + PAGE_SIZE <= WORD
        BY <1>4, <1>5, SegmentPlace
      <4> QED
        BY <1>6, <4>1, Sizes, SlotBounds, ElfAssumption DEF SlotPages
    <3>2. x + P \in 0..(W - 1)
      BY <3>1
    <3>3. (x + P) % W = x + P
      BY <3>2
    <3>4. (x + P) % P = 0
      <4>1. PICK k \in Nat : k = x \div P
        BY DivMod
      <4>2. PICK y \in Nat : y = P * k
        OBVIOUS
      <4>3. x = y
        <5>1. x = P * k + 0
          BY <3>1, <4>1, DivMod
        <5> QED
          BY <4>2, <5>1
      <4>4. x + P = P * (k + 1)
        BY <4>2, <4>3
      <4>5. (P * (k + 1)) % P = 0
        BY Multiple
      <4> QED
        BY <4>4, <4>5
    <3> QED
      BY <2>3, <3>1, <3>3, <3>4 DEF Plus
  <2>5. \A g : g \in lost' <=> g \in lost \/ g \in Displaced(s, a)
    BY <1>11
  <2>6. /\ mem'[f] = PageBytes(p, p.phdrs[i], load_bias(t), a)
        /\ \A g \in Frames \ {f} : mem'[g] = mem[g]
    BY <1>11, <2>1 DEF SpaceInv, LoaderInv, Contents
  <2>7. Lays(th[t], r) /\ held' = held
    BY <1>2, <1>3, <1>4, <1>11, <2>3 DEF Lays, pmmVars
  <2>8. SetPte(s, a, PageEntry(f, TRUE)) /\ MissingLevel(s, a) = 0
    BY <1>11, <2>1
  <2>9. /\ lost' \subseteq Frames /\ heap' \subseteq Frames
        /\ \E kd2, wh2, lv2, up2, at2 :
              Mapped(t, r, f, a, tables, mem, kd, wh, lv, up, at,
                     tables', mem', held', heap', lost', kd2, wh2, lv2, up2, at2)
    <3>1. s = th[t].space /\ s # kernel_pml4 /\ f = th[t].frame /\ a \in Nat
          /\ a % PAGE_SIZE = 0 /\ pml4_index(a) # 0 /\ heap' = heap
      BY <1>2, <1>4, <1>6, <2>1
    <3> QED
      BY <1>1, <2>5, <2>6, <2>7, <2>8, <3>1, PageMapped, ZenonT(60)
  <2>10. PICK kd2, wh2, lv2, up2, at2 :
            Mapped(t, r, f, a, tables, mem, kd, wh, lv, up, at,
                   tables', mem', held', heap', lost', kd2, wh2, lv2, up2, at2)
    BY <2>9
  <2>11. /\ Tree(tables', kd2, wh2, lv2, up2, at2)
         /\ OnlyMine(t, kd, wh, lv, up, at, mem, kd2, wh2, lv2, up2, at2, mem')
         /\ SharedKept(tables, kd, up, tables', kd2, up2)
         /\ Uses(t, r, kd2, wh2, lv2)
         /\ Holdings(held', heap', lost', kd2)
         /\ PagePut(kd, wh, lv, up, at, kd2, wh2, lv2, up2, at2, t, f, a)
         /\ \A g \in Frames : \A b : Maps(kd, wh, lv, up, at, t, g, b) => g # f
    BY <2>10 DEF Mapped
  <2>12. ASSUME NEW j \in Loads(p), NEW va, Latest(t, r, j, va)
         PROVE  Finds(kd2, wh2, lv2, up2, at2, mem', t, va, Image(t, p, j, va))
    <3>1. /\ va \in SegmentPages(p.phdrs[j], load_bias(t))
          /\ j < i \/ (j = i /\ va < r.va)
          /\ \A l \in Loads(p) : Loaded(t, r, l, va) => l <= j
      BY <2>3, <2>12 DEF Latest, Loaded
    <3>2. va \in Nat /\ va % PAGE_SIZE = 0 /\ V4(va) = V4(a)
      <4>1. va \in SlotPages(t)
        BY <1>4, <3>1, SegmentPagesAre
      <4> QED
        BY <1>4, <1>6, <4>1, SlotIndices
    <3>3. CASE va = a
      <4>1. mem'[f] = Image(t, p, j, va)
        <5>1. a < r.va
          BY <2>4
        <5>2. Loaded(t, r, i, a)
          BY <1>4, <2>3, <5>1 DEF Loaded
        <5>3. i \in Nat /\ j \in Nat
          BY <1>4, <1>5, HeaderTypes DEF Loads
        <5>4. j = i
          BY <1>5, <3>1, <3>3, <5>2, <5>3
        <5> QED
          BY <1>4, <1>5, <2>6, <3>3, <5>4, ImageIs
      <4>2. Finds(kd2, wh2, lv2, up2, at2, mem', t, a, mem'[f])
        BY <1>6, <2>11, PutFound
      <4>3. Finds(kd2, wh2, lv2, up2, at2, mem', t, a, Image(t, p, j, va))
        BY <4>1, <4>2
      <4> QED
        BY <3>3, <4>3
    <3>4. CASE va # a
      <4>1. ASSUME j = i PROVE va < a
        <5>1. PICK y \in Nat : y = va /\ y % P = 0
          BY <2>4, <3>2
        <5>2. y < x + P
          <6>1. i \in Nat
            BY <1>4, <1>5, HeaderTypes
          <6>2. va < r.va
            BY <3>1, <4>1, <6>1
          <6> QED
            BY <2>4, <5>1, <6>2
        <5>3. ~ (x < y)
          <6>1. x < y => x + P <= y
            BY <1>6, <2>4, <5>1, NextPage
          <6> QED
            BY <5>2, <6>1
        <5>4. y < x
          BY <2>4, <3>4, <5>1, <5>3
        <5> QED
          BY <2>4, <5>1, <5>4
      <4>2. Latest(t, th[t], j, va)
        <5>1. Loaded(t, th[t], j, va)
          BY <1>2, <3>1, <4>1 DEF Loaded
        <5>2. ASSUME NEW l \in Loads(p), Loaded(t, th[t], l, va) PROVE l <= j
          <6>1. /\ va \in SegmentPages(p.phdrs[l], load_bias(t))
                /\ l < i \/ (l = i /\ va < a)
            BY <1>2, <1>3, <5>2 DEF Loaded
          <6>2. va < a => va < r.va
            BY <2>4, <3>2
          <6>3. Loaded(t, r, l, va)
            BY <2>3, <6>1, <6>2 DEF Loaded
          <6> QED
            BY <3>1, <6>3
        <5> QED
          BY <1>2, <5>1, <5>2 DEF Latest
      <4>3. Finds(kd, wh, lv, up, at, mem, t, va, Image(t, p, j, va))
        BY <1>1, <1>2, <1>3, <4>2 DEF Roles, Memory
      <4> QED
        BY <1>6, <2>6, <2>11, <3>2, <3>4, <4>3, PutFinds
    <3> QED
      BY <3>3, <3>4
  <2>13. Memory(t, r, mem', view'[t], kd2, wh2, lv2, up2, at2)
    <3>1. view'[t] = view[t]
      BY <1>11
    <3> QED
      BY <1>8, <2>3, <2>12, <3>1 DEF Memory
  <2>14. Quiet(th[t], r, lost, lost')
    BY <1>3, <2>3, <2>5 DEF Quiet, Late, Opens
  <2>15. FrameInv'
    <3>1. \A u \in Tids \ {t} : view'[u] = view[u]
      BY <1>11
    <3> QED
      BY <1>1, <1>3, <2>2, <2>9, <2>11, <2>13, <2>14, <3>1, QuietRoles
  <2>16. IInv'
    BY <1>11, NextInv DEF SpaceInv, pmmVars
  <2>17. Fields(t, r)
    <3>1. r.va % PAGE_SIZE = 0 /\ r.va >= PageOf(segment_vaddr(p.phdrs[i], load_bias(t)))
      <4>1. PICK y \in Nat : y = PageOf(segment_vaddr(p.phdrs[i], load_bias(t)))
        BY <1>4, <1>5, FirstPageIsNat
      <4>2. a >= y
        BY <1>2, <1>3, <1>4, <1>5, <4>1 DEF Fields
      <4> QED
        BY <2>4, <4>1, <4>2
    <3> QED
      BY <1>3, <1>4, <2>3, <3>1 DEF Fields, HasFrame, SpacelessPc
  <2>18. RegionsInv'
    <3>1. \A x1 : ~ HasStack(th[t], x1)
      BY <1>3 DEF HasStack
    <3> QED
      BY <1>3, <2>2, <3>1, RegionsSame
  <2>19. Counters'
    <3>1. th[t].pc # "unused" /\ irqs_off' \in Tids \cup {NoTid}
      BY <1>3 DEF SpaceInv, Counters
    <3> QED
      BY <1>3, <2>2, <3>1, CountersSame
  <2> QED
    BY <1>7, <1>8, <1>11, <2>2, <2>15, <2>16, <2>17, <2>18, <2>19, AllParts
<1> QED
  BY <1>2, <1>9, <1>10, <1>11 DEF MapSegmentPage

(* Parts of the list of regions *)
LEMMA RegionParts ==
    ASSUME SpaceInv
    PROVE  /\ regions.list \in Seq(Region) /\ regions.relinked \subseteq Region
           /\ regions.read \in [Tids -> Seq(Region)]
           /\ regions = [list |-> regions.list, read |-> regions.read,
                         relinked |-> regions.relinked]
           /\ Unique(regions.list, regions.relinked)
           /\ \A u \in Tids : Unique(regions.read[u], regions.relinked)
BY DEF SpaceInv, RegionsInv

LEMMA RegionsNext ==
    ASSUME regions' \in [list : Seq(Region), read : [Tids -> Seq(Region)],
                         relinked : SUBSET Region],
           \A i \in DOMAIN regions'.list :
               \/ regions'.list[i] \in regions'.relinked
               \/ \E u \in Tids : HasStack(th'[u], regions'.list[i].space),
           Unique(regions'.list, regions'.relinked),
           \A u \in Tids : Unique(regions'.read[u], regions'.relinked)
    PROVE  RegionsInv'
BY DEF RegionsInv, HasStack, Unique

(* A push reads the head of the list. *)
LEMMA RegionRead ==
    ASSUME SpaceInv, NEW t \in Tids, NEW r, Become(t, r), \A s : ~ HasStack(th[t], s),
           regions' = [regions EXCEPT !.read[t] = regions.list]
    PROVE  RegionsInv'
<1>1. \A u \in Tids : th'[u] = IF u = t THEN r ELSE th[u]
  BY DEF Become, SpaceInv, LoaderInv
<1>2. /\ regions'.list = regions.list /\ regions'.relinked = regions.relinked
      /\ \A u \in Tids : regions'.read[u] = IF u = t THEN regions.list ELSE regions.read[u]
      /\ regions' \in [list : Seq(Region), read : [Tids -> Seq(Region)],
                       relinked : SUBSET Region]
  BY RegionParts
<1>3. ASSUME NEW i \in DOMAIN regions.list, regions.list[i] \notin regions.relinked
      PROVE  \E u \in Tids : HasStack(th'[u], regions.list[i].space)
  <2>1. PICK u \in Tids : HasStack(th[u], regions.list[i].space)
    BY <1>3 DEF SpaceInv, RegionsInv
  <2> QED
    BY <1>1, <2>1
<1>4. \A u \in Tids : Unique(regions'.read[u], regions.relinked)
  BY <1>2, RegionParts
<1>5. Unique(regions'.list, regions'.relinked)
      /\ \A u \in Tids : Unique(regions'.read[u], regions'.relinked)
  BY <1>2, <1>4, RegionParts
<1>6. \A i \in DOMAIN regions'.list :
         \/ regions'.list[i] \in regions'.relinked
         \/ \E u \in Tids : HasStack(th'[u], regions'.list[i].space)
  BY <1>2, <1>3
<1> QED
  BY <1>2, <1>5, <1>6, RegionsNext

(* A push stores the new region, before those that it has read. *)
LEMMA RegionStored ==
    ASSUME SpaceInv, NEW t \in Tids, th[t].pc = "register", NEW r, Become(t, r),
           r.pc = "user", r.space = th[t].space,
           regions' = [regions EXCEPT
                         !.list = <<NewRegion(t)>> \o regions.read[t],
                         !.relinked = @ \cup (Nodes(regions.read[t]) \ Nodes(regions.list))]
    PROVE  RegionsInv'
<1>1. PICK s \in Frames : s = th[t].space /\ s # kernel_pml4
  BY ThreadTypes DEF SpaceInv, Fields, SpacelessPc
<1>2. \A u \in Tids : th'[u] = IF u = t THEN r ELSE th[u]
  BY DEF Become, SpaceInv, LoaderInv
<1>3. PICK reg \in Region : reg = NewRegion(t) /\ reg.space = s
  <2>1. LayoutOk(t)
    BY ProgramAssumption DEF SpaceInv, Fields
  <2>2. PICK c \in Nat, b \in Nat, S \in Nat, z \in Nat, m \in Nat :
           /\ c = stack_ceiling(t) /\ b = image_base(t) /\ S = Span(4) /\ m = USER_STACK_MAX_SIZE
           /\ z = USER_PROCESS_SLOT_SIZE /\ c = b + z /\ S <= b /\ c <= 2 * S /\ m <= z
    <3>1. /\ USER_PROCESS_SLOT_SIZE \in Nat
          /\ USER_STACK_MAX_SIZE \in 0..USER_PROCESS_SLOT_SIZE
      BY VmmAssumption
    <3>2. Span(4) \in Nat
      BY Sizes
    <3> QED
      BY <2>1, <3>1, <3>2, SlotBounds
  <2>3. c \in S..(2 * S) /\ c - m \in S..(2 * S)
    BY <2>2
  <2> QED
    <3>1. NewRegion(t) = [space |-> s, top |-> c, limit |-> c - m]
      BY <1>1, <2>2 DEF NewRegion
    <3>2. PICK top \in Span(4)..(2 * Span(4)), limit \in Span(4)..(2 * Span(4)) :
             top = c /\ limit = c - m
      BY <2>2, <2>3
    <3>3. NewRegion(t) = [space |-> s, top |-> top, limit |-> limit]
      BY <3>1, <3>2
    <3> QED
      BY <3>3 DEF Region
<1>4. PICK rd \in Seq(Region), list \in Seq(Region), K \in SUBSET Region, K2 \in SUBSET Region :
         /\ rd = regions.read[t] /\ list = regions.list /\ K = regions.relinked
         /\ K2 = K \cup (Nodes(rd) \ Nodes(list)) /\ Unique(rd, K)
  <2>1. \A i \in DOMAIN regions.read[t] : regions.read[t][i] \in Region
    BY RegionParts, LenProperties, ElementOfSeq
  <2>2. Nodes(regions.read[t]) \subseteq Region
    BY <2>1 DEF Nodes
  <2> QED
    BY <2>2, RegionParts
<1>5. PICK q \in Seq(Region) :
         /\ q = <<reg>> \o rd /\ DOMAIN q = 1..(1 + Len(rd)) /\ q[1] = reg
         /\ Len(rd) \in Nat /\ DOMAIN rd = 1..Len(rd)
         /\ \A i \in 2..(1 + Len(rd)) : q[i] = rd[i - 1]
  <2>1. <<reg>> \in Seq(Region) /\ Len(<<reg>>) = 1 /\ <<reg>>[1] = reg
    OBVIOUS
  <2>2. /\ <<reg>> \o rd \in Seq(Region) /\ Len(<<reg>> \o rd) = 1 + Len(rd)
        /\ Len(rd) \in Nat /\ DOMAIN rd = 1..Len(rd)
        /\ DOMAIN (<<reg>> \o rd) = 1..(1 + Len(rd))
    BY <2>1, ConcatProperties, LenProperties
  <2>3. \A i \in 1..(Len(<<reg>>) + Len(rd)) :
           (<<reg>> \o rd)[i] = IF i <= Len(<<reg>>) THEN <<reg>>[i] ELSE rd[i - Len(<<reg>>)]
    BY <2>1, ConcatProperties
  <2>4. PICK q : q = <<reg>> \o rd
    OBVIOUS
  <2>5. q \in Seq(Region) /\ DOMAIN q = 1..(1 + Len(rd))
    BY <2>2, <2>4
  <2>6. PICK n \in Nat : n = Len(rd)
    BY <2>2
  <2>7. \A i \in 1..(1 + n) : q[i] = IF i <= 1 THEN <<reg>>[i] ELSE rd[i - 1]
    BY <2>1, <2>3, <2>4, <2>6
  <2>8. q[1] = reg /\ \A i \in 2..(1 + n) : q[i] = rd[i - 1]
    BY <2>1, <2>7
  <2> QED
    BY <2>2, <2>4, <2>5, <2>6, <2>8, Zenon
<1>6. /\ regions'.list = q /\ regions'.relinked = K2 /\ regions'.read = regions.read
      /\ regions' \in [list : Seq(Region), read : [Tids -> Seq(Region)],
                       relinked : SUBSET Region]
  BY <1>3, <1>4, <1>5, RegionParts
<1>7. ASSUME NEW i \in DOMAIN rd, rd[i] \notin K2
      PROVE  /\ rd[i].space # s
             /\ \E u \in Tids : HasStack(th'[u], rd[i].space)
  <2>1. PICK j \in DOMAIN list : list[j] = rd[i] /\ list[j] \notin K
    BY <1>4, <1>7 DEF Nodes
  <2>2. PICK u \in Tids : HasStack(th[u], rd[i].space)
    BY <1>4, <2>1 DEF SpaceInv, RegionsInv
  <2>3. u # t
    BY <2>2 DEF HasStack
  <2>4. th[u].space # s
    <3>1. PICK kd, wh, lv, up, at : Roles(kd, wh, lv, up, at)
      BY DEF SpaceInv, FrameInv
    <3>2. SpaceFrame(kd, wh, lv, t, 4, s)
      BY <1>1, <3>1, SpaceOf
    <3>3. th[u].space # kernel_pml4 => SpaceFrame(kd, wh, lv, u, 4, th[u].space)
      BY <3>1, SpaceOf
    <3> QED
      BY <1>1, <2>3, <3>2, <3>3 DEF SpaceFrame
  <2> QED
    BY <1>2, <2>2, <2>3, <2>4 DEF HasStack
<1>8. ASSUME NEW i \in DOMAIN q
      PROVE  /\ i = 1 => q[i].space = s
             /\ i # 1 => i - 1 \in DOMAIN rd /\ q[i] = rd[i - 1]
  BY <1>3, <1>5
<1>9. ASSUME NEW i \in DOMAIN q, q[i] \notin K2
      PROVE  \E u \in Tids : HasStack(th'[u], q[i].space)
  <2>1. CASE i = 1
    <3>1. HasStack(th'[t], s)
      BY <1>1, <1>2 DEF HasStack
    <3> QED
      BY <1>8, <2>1, <3>1
  <2>2. CASE i # 1
    BY <1>7, <1>8, <1>9, <2>2
  <2> QED
    BY <2>1, <2>2
<1>10. Unique(q, K2)
  <2>1. SUFFICES ASSUME NEW i \in DOMAIN q, NEW j \in DOMAIN q, i < j,
                        q[i].space = q[j].space
                 PROVE  q[j] \in K2
    BY DEF Unique
  <2>2. j # 1 /\ i \in Nat /\ j \in Nat
    BY <1>5, <2>1
  <2>3. CASE i = 1
    BY <1>7, <1>8, <2>1, <2>2, <2>3
  <2>4. CASE i # 1
    <3>1. i - 1 \in DOMAIN rd /\ j - 1 \in DOMAIN rd /\ i - 1 < j - 1
      BY <1>8, <2>1, <2>2, <2>4
    <3>2. rd[i - 1].space = rd[j - 1].space /\ q[j] = rd[j - 1]
      BY <1>8, <2>1, <2>2, <2>4
    <3> QED
      BY <1>4, <3>1, <3>2 DEF Unique
  <2> QED
    BY <2>3, <2>4
<1>11. \A u \in Tids : Unique(regions.read[u], K2)
  BY <1>4, RegionParts DEF Unique
<1>12. \A i \in DOMAIN regions'.list :
         \/ regions'.list[i] \in regions'.relinked
         \/ \E u \in Tids : HasStack(th'[u], regions'.list[i].space)
  BY <1>6, <1>9
<1>13. Unique(regions'.list, regions'.relinked)
      /\ \A u \in Tids : Unique(regions'.read[u], regions'.relinked)
  BY <1>6, <1>10, <1>11
<1> QED
  BY <1>6, <1>12, <1>13, RegionsNext

(* The program starts. *)
LEMMA SpaceStoreHead ==
    ASSUME SpaceInv, NEW t \in Tids, StoreHead(t), heap' = heap
    PROVE  SpaceInv'
<1>1. PICK kd, wh, lv, up, at : Roles(kd, wh, lv, up, at)
  BY DEF SpaceInv, FrameInv
<1>2. /\ th[t].pc = "register"
      /\ UNCHANGED <<pmmVars, tables, mem, irqs_off, spawns, lost, resplit, view>>
  BY DEF StoreHead
<1>3. /\ th[t] \in Thread /\ Fields(t, th[t]) /\ th[t].prog \in Program /\ th[t].prog # Demo
      /\ LayoutOk(t)
  BY <1>2, ThreadTypes, ProgramAssumption DEF SpaceInv, Fields
<1>4. PICK r : r = [th[t] EXCEPT !.pc = "user"] /\ Become(t, r)
  BY DEF StoreHead
<1>5. /\ r.pc = "user" /\ r.frame = th[t].frame /\ r.table = th[t].table
      /\ r.guard = th[t].guard /\ r.space = th[t].space /\ r.prog = th[t].prog
  BY <1>3, <1>4 DEF Thread
<1>6. Quiet(th[t], r, lost, lost)
  BY <1>2, <1>3, <1>5 DEF Quiet, Late, Opens
<1>7. Memory(t, r, mem, view[t], kd, wh, lv, up, at)
  BY <1>1, <1>2, <1>5 DEF Roles, Memory
<1>8. IInv' /\ FrameInv'
  <2>1. UNCHANGED <<pmmVars, tables, mem, heap, lost, resplit, view>>
    BY <1>2
  <2>2. r.pc # "unused" /\ th[t].pc # "unused"
    BY <1>2, <1>5
  <2> QED
    BY <1>1, <1>4, <1>5, <1>6, <1>7, <2>1, <2>2, GoesOn
<1>9. Fields(t, r)
  BY <1>2, <1>3, <1>5 DEF Fields, HasFrame, SpacelessPc
<1>10. RegionsInv'
  BY <1>2, <1>4, <1>5, RegionStored DEF StoreHead
<1>11. Counters'
  <2>1. irqs_off' \in Tids \cup {NoTid} /\ spawns' = spawns
    BY <1>2 DEF SpaceInv, Counters
  <2> QED
    BY <1>2, <1>4, <2>1, CountersSame
<1>12. LoaderInv' /\ DOMAIN view' = Tids
  BY <1>2, LoaderStoreHead DEF SpaceInv
<1> QED
  BY <1>4, <1>8, <1>9, <1>10, <1>11, <1>12, AllParts

(* The last segment that has a page *)
LEMMA LastSegmentIs ==
    ASSUME NEW t \in Tids, NEW p \in Program, p = th[t].prog, NEW va \in ImagePages(t)
    PROVE  \E l \in Loads(p) :
              /\ l = LastSegment(t, va) /\ va \in SegmentPages(p.phdrs[l], load_bias(t))
              /\ \A j \in Loads(p) : va \in SegmentPages(p.phdrs[j], load_bias(t)) => j <= l
<1> DEFINE on == {i \in Loads(p) : va \in SegmentPages(p.phdrs[i], load_bias(t))}
<1>1. on # {}
  BY DEF ImagePages
<1>2. PICK n \in Nat : on \subseteq 1..n
  BY HeaderTypes DEF Loads
<1>3. \E i \in on : \A j \in on : j <= i
  <2> HIDE DEF on
  <2> QED
    BY <1>1, <1>2, GreatestElement
<1>4. PICK l : l = CHOOSE i \in on : \A j \in on : j <= i
  OBVIOUS
<1>5. l \in on /\ \A j \in on : j <= l
  <2> HIDE DEF on
  <2> QED
    BY <1>3, <1>4, Zenon
<1>6. l = LastSegment(t, va)
  BY <1>4, Zenon DEF LastSegment
<1> QED
  BY <1>5, <1>6

(* The first page of the stack *)
LEMMA SpaceMapStack ==
    ASSUME SpaceInv, NEW t \in Tids, MapStackPage(t), heap' = heap
    PROVE  SpaceInv'
<1>1. PICK kd, wh, lv, up, at : Roles(kd, wh, lv, up, at)
  BY DEF SpaceInv, FrameInv
<1>2. PICK s, a, p : s = th[t].space /\ a = StackPage(t) /\ p = th[t].prog
  OBVIOUS
<1>3. th[t].pc = "stackpage" /\ irqs_off' = irqs_off /\ spawns' = spawns /\ resplit' = resplit
  BY DEF MapStackPage
<1>4. /\ th[t] \in Thread /\ Fields(t, th[t]) /\ th[t].frame # 0 /\ th[t].table = 0
      /\ LayoutOk(t) /\ s # kernel_pml4 /\ p \in Program /\ th[t].prog # Demo
  BY <1>2, <1>3, ThreadTypes, ProgramAssumption DEF SpaceInv, Fields, HasFrame, SpacelessPc
<1>5. /\ a \in SlotPages(t) /\ a \in Nat /\ a % PAGE_SIZE = 0 /\ pml4_index(a) # 0
      /\ V4(a) = 1
  BY <1>2, <1>4, StackPageInSlot, SlotIndices
<1>6. LoaderInv'
  BY LoaderStack DEF SpaceInv
<1>7. DOMAIN view = Tids /\ irqs_off' \in Tids \cup {NoTid}
  BY <1>3 DEF SpaceInv, Counters
<1>8. CASE /\ MissingLevel(s, a) # 0 /\ \E n \in NextFree : AddTable(s, a, n)
           /\ UNCHANGED <<th, regions, lost, view>>
  BY <1>2, <1>3, <1>4, <1>5, <1>6, <1>8, TableStep
<1>9. CASE FreeAll({th[t].frame}) /\ Dies(t) /\ UNCHANGED <<tables, mem, regions, lost>>
  <2>1. InHand(t) = {th[t].frame}
    BY <1>4 DEF InHand
  <2>2. FreeAll(InHand(t)) /\ UNCHANGED lost /\ \A x : ~ Opens(th[t], x)
    BY <1>4, <1>9, <2>1 DEF Opens
  <2>3. Late(th[t]) /\ th[t].pc # "zombie"
    BY <1>3 DEF Late
  <2> QED
    BY <1>3, <1>7, <1>9, <2>2, <2>3, Death
<1>10. CASE /\ MissingLevel(s, a) = 0
            /\ SetPte(s, a, PageEntry(th[t].frame, TRUE))
            /\ mem' = [mem EXCEPT ![th[t].frame] = ArgvBytes]
            /\ lost' = lost \cup Displaced(s, a)
            /\ vmm_register_growable_stack(t)
            /\ view' = [view EXCEPT ![t] = FirstView(t)]
            /\ UNCHANGED pmmVars
  <2>1. PICK f \in Frames : f = th[t].frame
    BY <1>4 DEF Thread
  <2>2. PICK r, pc : /\ r = [th[t] EXCEPT !.pc = pc, !.frame = 0] /\ Become(t, r)
                     /\ \/ pc = "register" /\ regions' = [regions EXCEPT !.read[t] = regions.list]
                        \/ pc = "user" /\ regions' = regions
    BY <1>10 DEF vmm_register_growable_stack
  <2>3. /\ r.pc \in {"register", "user"} /\ r.frame = 0 /\ r.table = 0
        /\ r.guard = th[t].guard /\ r.space = s /\ r.prog = p
    BY <1>2, <1>4, <2>2 DEF Thread
  <2>4. \A g : g \in lost' <=> g \in lost \/ g \in Displaced(s, a)
    BY <1>10
  <2>5. mem'[f] = ArgvBytes /\ \A g \in Frames \ {f} : mem'[g] = mem[g]
    BY <1>10, <2>1 DEF SpaceInv, LoaderInv, Contents
  <2>6. Lays(th[t], r) /\ held' = held
    BY <1>2, <1>3, <1>4, <1>10, <2>3 DEF Lays, pmmVars
  <2>7. SetPte(s, a, PageEntry(f, TRUE)) /\ MissingLevel(s, a) = 0
    BY <1>10, <2>1
  <2>8. /\ lost' \subseteq Frames /\ heap' \subseteq Frames
        /\ \E kd2, wh2, lv2, up2, at2 :
              Mapped(t, r, f, a, tables, mem, kd, wh, lv, up, at,
                     tables', mem', held', heap', lost', kd2, wh2, lv2, up2, at2)
    <3>1. s = th[t].space /\ s # kernel_pml4 /\ f = th[t].frame /\ a \in Nat
          /\ a % PAGE_SIZE = 0 /\ pml4_index(a) # 0 /\ heap' = heap
      BY <1>2, <1>4, <1>5, <2>1
    <3> QED
      BY <1>1, <2>4, <2>5, <2>6, <2>7, <3>1, PageMapped, ZenonT(60)
  <2>9. PICK kd2, wh2, lv2, up2, at2 :
            Mapped(t, r, f, a, tables, mem, kd, wh, lv, up, at,
                   tables', mem', held', heap', lost', kd2, wh2, lv2, up2, at2)
    BY <2>8
  <2>10. /\ Tree(tables', kd2, wh2, lv2, up2, at2)
         /\ OnlyMine(t, kd, wh, lv, up, at, mem, kd2, wh2, lv2, up2, at2, mem')
         /\ SharedKept(tables, kd, up, tables', kd2, up2)
         /\ Uses(t, r, kd2, wh2, lv2)
         /\ Holdings(held', heap', lost', kd2)
         /\ PagePut(kd, wh, lv, up, at, kd2, wh2, lv2, up2, at2, t, f, a)
         /\ \A g \in Frames : \A b : Maps(kd, wh, lv, up, at, t, g, b) => g # f
    BY <2>9 DEF Mapped
  <2>11. PICK v : v = view'[t] /\ v = FirstView(t)
    BY <1>7, <1>10
  <2>12. /\ DOMAIN v = ImagePages(t) \cup {a} /\ v[a] = ArgvBytes
         /\ \A va \in ImagePages(t) : va # a => v[va] = Image(t, p, LastSegment(t, va), va)
    BY <1>2, <2>11 DEF FirstView, Image
  <2>13. ASSUME NEW va \in DOMAIN v
         PROVE  va \in SlotPages(t) /\ Finds(kd2, wh2, lv2, up2, at2, mem', t, va, v[va])
    <3>1. CASE va = a
      <4>1. Finds(kd2, wh2, lv2, up2, at2, mem', t, a, mem'[f])
        BY <1>5, <2>10, PutFound
      <4> QED
        BY <1>5, <2>5, <2>12, <3>1, <4>1
    <3>2. CASE va # a
      <4>1. va \in ImagePages(t) /\ v[va] = Image(t, p, LastSegment(t, va), va)
        BY <2>12, <2>13, <3>2
      <4>2. PICK j \in Loads(p) :
               /\ j = LastSegment(t, va) /\ va \in SegmentPages(p.phdrs[j], load_bias(t))
               /\ \A l \in Loads(p) : va \in SegmentPages(p.phdrs[l], load_bias(t)) => l <= j
        BY <1>2, <1>4, <4>1, LastSegmentIs
      <4>3. va \in SlotPages(t)
        BY <1>4, <4>2, SegmentPagesAre
      <4>4. va \in Nat /\ va % PAGE_SIZE = 0 /\ V4(va) = V4(a)
        BY <1>4, <1>5, <4>3, SlotIndices
      <4>5. Latest(t, th[t], j, va)
        BY <1>2, <1>3, <4>2 DEF Latest, Loaded
      <4>6. Finds(kd, wh, lv, up, at, mem, t, va, Image(t, p, j, va))
        BY <1>1, <1>2, <1>3, <4>5 DEF Roles, Memory
      <4>7. Finds(kd2, wh2, lv2, up2, at2, mem', t, va, Image(t, p, j, va))
        BY <1>5, <2>5, <2>10, <3>2, <4>4, <4>6, PutFinds
      <4> QED
        BY <4>1, <4>2, <4>3, <4>7
    <3> QED
      BY <3>1, <3>2
  <2>14. Memory(t, r, mem', view'[t], kd2, wh2, lv2, up2, at2)
    BY <2>3, <2>11, <2>13 DEF Memory
  <2>15. Quiet(th[t], r, lost, lost')
    BY <1>2, <1>3, <1>4, <2>3, <2>4 DEF Quiet, Late, Opens
  <2>16. FrameInv'
    <3>1. \A u \in Tids \ {t} : view'[u] = view[u]
      BY <1>7, <1>10
    <3> QED
      BY <1>1, <1>3, <2>2, <2>8, <2>10, <2>14, <2>15, <3>1, QuietRoles
  <2>17. IInv'
    BY <1>10, NextInv DEF SpaceInv, pmmVars
  <2>18. Fields(t, r)
    BY <1>2, <1>3, <1>4, <2>3 DEF Fields, HasFrame, SpacelessPc
  <2>19. RegionsInv'
    <3>1. \A x : ~ HasStack(th[t], x)
      BY <1>3 DEF HasStack
    <3>2. CASE regions' = regions
      BY <2>2, <3>1, <3>2, RegionsSame
    <3>3. CASE regions' = [regions EXCEPT !.read[t] = regions.list]
      BY <2>2, <3>1, <3>3, RegionRead
    <3> QED
      BY <2>2, <3>2, <3>3
  <2>20. Counters'
    BY <1>3, <1>7, <2>2, CountersSame
  <2>21. DOMAIN view' = Tids
    BY <1>7, <1>10
  <2> QED
    BY <1>6, <2>2, <2>16, <2>17, <2>18, <2>19, <2>20, <2>21, AllParts
<1> QED
  BY <1>2, <1>8, <1>9, <1>10 DEF MapStackPage

(* The page that a stack grows by *)
LEMMA SpaceMapFault ==
    ASSUME SpaceInv, NEW t \in Tids, MapFaultPage(t), heap' = heap
    PROVE  SpaceInv'
<1>1. PICK kd, wh, lv, up, at : Roles(kd, wh, lv, up, at)
  BY DEF SpaceInv, FrameInv
<1>2. PICK s, a, p : s = th[t].space /\ a = th[t].va /\ p = th[t].prog
  OBVIOUS
<1>3. /\ th[t].pc = "fault" /\ regions' = regions /\ spawns' = spawns /\ lost' = lost
      /\ resplit' = resplit
  BY DEF MapFaultPage
<1>4. /\ th[t] \in Thread /\ Fields(t, th[t]) /\ th[t].frame # 0 /\ th[t].table = 0
      /\ LayoutOk(t) /\ s # kernel_pml4 /\ p \in Program /\ th[t].prog # Demo
  BY <1>2, <1>3, ThreadTypes, ProgramAssumption DEF SpaceInv, Fields, HasFrame, SpacelessPc
<1>5. /\ a \in SlotPages(t) /\ a \in Nat /\ a % PAGE_SIZE = 0 /\ pml4_index(a) # 0
      /\ V4(a) = 1
  <2>1. a \in SlotPages(t)
    BY <1>2, <1>3 DEF SpaceInv, Fields
  <2> QED
    BY <1>4, <2>1, SlotIndices
<1>6. LoaderInv'
  BY <1>5, LoaderUser DEF SpaceInv
<1>7. DOMAIN view = Tids
  BY DEF SpaceInv
<1>8. CASE /\ MissingLevel(s, a) # 0 /\ \E n \in NextFree : AddTable(s, a, n)
           /\ UNCHANGED <<th, irqs_off, view>>
  BY <1>2, <1>3, <1>4, <1>5, <1>6, <1>8, TableStep
<1>9. CASE FreeAll({th[t].frame}) /\ Dies(t) /\ irqs_off' = NoTid /\ UNCHANGED <<tables, mem>>
  <2>1. InHand(t) = {th[t].frame}
    BY <1>4 DEF InHand
  <2>2. FreeAll(InHand(t)) /\ UNCHANGED lost /\ \A x : ~ Opens(th[t], x)
    BY <1>3, <1>4, <1>9, <2>1 DEF Opens
  <2>3. Late(th[t]) /\ th[t].pc # "zombie" /\ irqs_off' \in Tids \cup {NoTid}
    BY <1>3, <1>9 DEF Late
  <2> QED
    BY <1>3, <1>9, <2>2, <2>3, Death
<1>10. CASE /\ MissingLevel(s, a) = 0
            /\ SetPte(s, a, PageEntry(th[t].frame, TRUE))
            /\ view' = [view EXCEPT ![t] = With(view[t], a, ZeroPage)]
            /\ Become(t, [th[t] EXCEPT !.pc = "user", !.frame = 0])
            /\ irqs_off' = NoTid
            /\ UNCHANGED <<pmmVars, mem>>
  <2>1. PICK f \in Frames : f = th[t].frame
    BY <1>4 DEF Thread
  <2>2. PICK r : r = [th[t] EXCEPT !.pc = "user", !.frame = 0] /\ Become(t, r)
    BY <1>10
  <2>3. /\ r.pc = "user" /\ r.frame = 0 /\ r.table = 0 /\ r.guard = th[t].guard
        /\ r.space = s /\ r.prog = p
    BY <1>2, <1>4, <2>2 DEF Thread
  <2>4. mem[f] = ZeroPage /\ \A g \in Frames : ~ Maps(kd, wh, lv, up, at, t, g, a)
    BY <1>1, <1>2, <1>3, <2>1 DEF Roles, Memory
  <2>5. Displaced(s, a) = {}
    <3>1. ASSUME L1(s, a).present PROVE FALSE
      <4>1. /\ Tree(tables, kd, wh, lv, up, at) /\ SpaceFrame(kd, wh, lv, t, 4, s)
        BY <1>1, <1>2, <1>4, SpaceOf DEF Roles
      <4>2. L4(s, a).present /\ L3(s, a).present /\ L2(s, a).present
        BY <1>10 DEF MissingLevel
      <4>3. /\ At4(tables, s, a).present /\ At3(tables, s, a).present
            /\ At2(tables, s, a).present /\ At1(tables, s, a).present
        BY <3>1, <4>2, WalkIs
      <4>4. Maps(kd, wh, lv, up, at, t, At1(tables, s, a).frame, a)
        BY <1>5, <4>1, <4>3, WalkMaps
      <4> QED
        BY <2>4, <4>4 DEF Maps, SpaceFrame
    <3> QED
      BY <3>1 DEF Displaced
  <2>6. \A g : g \in lost' <=> g \in lost \/ g \in Displaced(s, a)
    BY <1>3, <2>5
  <2>7. Lays(th[t], r) /\ held' = held /\ mem' = mem
    BY <1>2, <1>3, <1>4, <1>10, <2>3 DEF Lays, pmmVars
  <2>8. SetPte(s, a, PageEntry(f, TRUE)) /\ MissingLevel(s, a) = 0
    BY <1>10, <2>1
  <2>9. \A g \in Frames \ {f} : mem'[g] = mem[g]
    BY <2>7
  <2>10. /\ lost' \subseteq Frames /\ heap' \subseteq Frames
         /\ \E kd2, wh2, lv2, up2, at2 :
               Mapped(t, r, f, a, tables, mem, kd, wh, lv, up, at,
                      tables', mem', held', heap', lost', kd2, wh2, lv2, up2, at2)
    <3>1. s = th[t].space /\ s # kernel_pml4 /\ f = th[t].frame /\ a \in Nat
          /\ a % PAGE_SIZE = 0 /\ pml4_index(a) # 0 /\ heap' = heap
      BY <1>2, <1>4, <1>5, <2>1
    <3> QED
      BY <1>1, <2>6, <2>7, <2>8, <2>9, <3>1, PageMapped, Zenon
  <2>11. PICK kd2, wh2, lv2, up2, at2 :
            Mapped(t, r, f, a, tables, mem, kd, wh, lv, up, at,
                   tables', mem', held', heap', lost', kd2, wh2, lv2, up2, at2)
    BY <2>10
  <2>12. /\ Tree(tables', kd2, wh2, lv2, up2, at2)
         /\ OnlyMine(t, kd, wh, lv, up, at, mem, kd2, wh2, lv2, up2, at2, mem')
         /\ SharedKept(tables, kd, up, tables', kd2, up2)
         /\ Uses(t, r, kd2, wh2, lv2)
         /\ Holdings(held', heap', lost', kd2)
         /\ PagePut(kd, wh, lv, up, at, kd2, wh2, lv2, up2, at2, t, f, a)
         /\ \A g \in Frames : \A b : Maps(kd, wh, lv, up, at, t, g, b) => g # f
    BY <2>11 DEF Mapped
  <2>13. PICK v : v = view'[t] /\ v = With(view[t], a, ZeroPage)
    BY <1>7, <1>10
  <2>14. /\ DOMAIN v = DOMAIN view[t] \cup {a} /\ v[a] = ZeroPage
         /\ \A va \in DOMAIN view[t] : va # a => v[va] = view[t][va]
    BY <2>13 DEF With
  <2>15. ASSUME NEW va \in DOMAIN v
         PROVE  va \in SlotPages(t) /\ Finds(kd2, wh2, lv2, up2, at2, mem', t, va, v[va])
    <3>1. CASE va = a
      <4>1. Finds(kd2, wh2, lv2, up2, at2, mem', t, a, mem'[f])
        BY <1>5, <2>12, PutFound
      <4> QED
        BY <1>5, <2>4, <2>7, <2>14, <3>1, <4>1
    <3>2. CASE va # a
      <4>1. va \in DOMAIN view[t] /\ v[va] = view[t][va]
        BY <2>14, <2>15, <3>2
      <4>2. /\ va \in SlotPages(t)
            /\ Finds(kd, wh, lv, up, at, mem, t, va, v[va])
        BY <1>1, <4>1 DEF Roles, Memory
      <4>3. va \in Nat /\ va % PAGE_SIZE = 0 /\ V4(va) = V4(a)
        BY <1>4, <1>5, <4>2, SlotIndices
      <4>4. Finds(kd2, wh2, lv2, up2, at2, mem', t, va, v[va])
        BY <1>5, <2>9, <2>12, <3>2, <4>2, <4>3, PutFinds
      <4> QED
        BY <4>2, <4>4
    <3> QED
      BY <3>1, <3>2
  <2>16. Memory(t, r, mem', view'[t], kd2, wh2, lv2, up2, at2)
    BY <2>3, <2>13, <2>15 DEF Memory
  <2>17. Quiet(th[t], r, lost, lost')
    BY <1>2, <1>3, <1>4, <2>3, <2>6 DEF Quiet, Late, Opens
  <2>18. FrameInv'
    <3>1. \A u \in Tids \ {t} : view'[u] = view[u]
      BY <1>7, <1>10
    <3> QED
      BY <1>1, <1>3, <2>2, <2>10, <2>12, <2>16, <2>17, <3>1, QuietRoles
  <2>19. IInv'
    BY <1>10, NextInv DEF SpaceInv, pmmVars
  <2>20. Fields(t, r)
    BY <1>2, <1>3, <1>4, <2>3 DEF Fields, HasFrame, SpacelessPc
  <2>21. RegionsInv'
    <3>1. \A x : HasStack(th[t], x) => HasStack(r, x)
      BY <1>2, <2>3 DEF HasStack
    <3> QED
      BY <1>3, <2>2, <3>1, RegionsSame
  <2>22. Counters'
    <3>1. th[t].pc # "unused" /\ irqs_off' \in Tids \cup {NoTid}
      BY <1>3, <1>10
    <3> QED
      BY <1>3, <2>2, <3>1, CountersSame
  <2>23. DOMAIN view' = Tids
    BY <1>7, <1>10
  <2> QED
    BY <1>6, <2>2, <2>18, <2>19, <2>20, <2>21, <2>22, <2>23, AllParts
<1> QED
  BY <1>2, <1>8, <1>9, <1>10 DEF MapFaultPage

(***************************************************************************)
(* Part 17.  Programs run, and are reaped                                  *)
(***************************************************************************)

(* A program stores a byte into one of its pages. *)
LEMMA SpaceStore ==
    ASSUME SpaceInv, NEW t \in Tids, NEW o \in StoreOffsets,
           UserStore(t, image_base(t) + o), heap' = heap
    PROVE  SpaceInv'
<1>1. PICK kd, wh, lv, up, at : Roles(kd, wh, lv, up, at)
  BY DEF SpaceInv, FrameInv
<1>2. PICK a : a = image_base(t) + o
  OBVIOUS
<1>3. PICK s : s = th[t].space
  OBVIOUS
<1>4. /\ th[t].pc = "user" /\ th[t].prog # Demo /\ vmm_is_user_accessible_in(s, a)
      /\ StoreByte(t, a, 0, <<"by", t>>)
      /\ UNCHANGED <<pmmVars, tables, th, regions, irqs_off, spawns, lost, resplit>>
  BY <1>2, <1>3 DEF UserStore
<1>5. a \in SlotPages(t)
  <2>1. PICK b \in Nat, z \in Nat, P \in Nat \ {0} :
           /\ b = image_base(t) /\ z = USER_PROCESS_SLOT_SIZE /\ P = PAGE_SIZE
           /\ b % P = 0 /\ stack_ceiling(t) = b + z
    BY SlotBounds, VmmAssumption, Sizes
  <2>2. o \in 0..(z - 1) /\ o % P = 0
    BY <2>1, VmmAssumption
  <2>3. (b + o) % P = 0
    <3>1. ASSUME NEW m \in Nat, m % P = 0 PROVE \E i \in Nat : m = P * i
      <4>1. PICK i \in Nat : i = m \div P
        BY DivMod
      <4>2. m = P * i + 0
        BY <3>1, <4>1, DivMod
      <4>3. P * i \in Nat
        OBVIOUS
      <4> QED
        BY <4>2, <4>3
    <3>2. PICK m \in Nat : m = o
      BY <2>2
    <3>3. PICK i \in Nat : b = P * i
      BY <2>1, <3>1
    <3>4. PICK j \in Nat : m = P * j
      BY <2>2, <3>1, <3>2
    <3>5. b + m = P * (i + j) /\ i + j \in Nat
      BY <3>3, <3>4
    <3>6. (P * (i + j)) % P = 0
      BY <3>5, Multiple
    <3> QED
      BY <3>2, <3>5, <3>6
  <2> QED
    BY <1>2, <2>1, <2>2, <2>3 DEF SlotPages
<1>6. LayoutOk(t) /\ s # kernel_pml4 /\ Fields(t, th[t])
  BY <1>3, <1>4 DEF SpaceInv, Fields, SpacelessPc
<1>7. a \in Nat /\ a % PAGE_SIZE = 0 /\ pml4_index(a) # 0 /\ V4(a) = 1
  BY <1>5, <1>6, SlotIndices
<1>8. /\ Tree(tables, kd, wh, lv, up, at) /\ SpaceFrame(kd, wh, lv, t, 4, s)
      /\ Level(kd, wh, lv, t, 4) = {s}
  BY <1>1, <1>3, <1>6, SpaceOf DEF Roles
<1>9. /\ At4(tables, s, a).present /\ At3(tables, s, a).present
      /\ At2(tables, s, a).present /\ At1(tables, s, a).present
  <2>1. /\ At4(tables, s, a).present /\ At3(tables, s, a).present
        /\ At2(tables, s, a).present
        /\ ~ At2(tables, s, a).large => At1(tables, s, a).present
    BY <1>4, WalkIs DEF vmm_is_user_accessible_in
  <2>2. ~ At2(tables, s, a).large
    BY <1>7, <1>8, <2>1, PrivateWalk
  <2> QED
    BY <2>1, <2>2
<1>10. PICK g \in Frames : /\ g = L1(s, a).frame /\ Maps(kd, wh, lv, up, at, t, g, a)
  <2>1. Maps(kd, wh, lv, up, at, t, At1(tables, s, a).frame, a)
    BY <1>7, <1>8, <1>9, WalkMaps
  <2> QED
    BY <2>1, WalkIs DEF Maps, SpaceFrame
<1>11. ASSUME NEW h \in Frames, Maps(kd, wh, lv, up, at, t, h, a)
       PROVE  h = g
  <2>1. At1(tables, s, a).frame = h
    BY <1>8, <1>11, MapsWalk
  <2> QED
    BY <1>10, <2>1, WalkIs
<1>12. /\ mem' = [mem EXCEPT ![g][0] = <<"by", t>>] /\ mem \in Contents
       /\ view' = [view EXCEPT ![t] = IF a \in DOMAIN view[t]
                                      THEN [view[t] EXCEPT ![a][0] = <<"by", t>>]
                                      ELSE view[t]]
       /\ DOMAIN view = Tids
  BY <1>3, <1>4, <1>10 DEF StoreByte, SpaceInv, LoaderInv
<1>13. /\ mem'[g] = [mem[g] EXCEPT ![0] = <<"by", t>>]
       /\ \A h \in Frames \ {g} : mem'[h] = mem[h]
  BY <1>12 DEF Contents
<1>14. PICK v : /\ v = view'[t]
                /\ v = IF a \in DOMAIN view[t] THEN [view[t] EXCEPT ![a][0] = <<"by", t>>]
                       ELSE view[t]
  BY <1>12
<1>15. /\ DOMAIN v = DOMAIN view[t]
       /\ a \in DOMAIN view[t] => v[a] = [view[t][a] EXCEPT ![0] = <<"by", t>>]
       /\ \A b \in DOMAIN view[t] : b # a => v[b] = view[t][b]
  BY <1>14
<1>16. ASSUME NEW b \in DOMAIN v
       PROVE  b \in SlotPages(t) /\ Finds(kd, wh, lv, up, at, mem', t, b, v[b])
  <2>1. b \in SlotPages(t) /\ Finds(kd, wh, lv, up, at, mem, t, b, view[t][b])
    BY <1>1, <1>15, <1>16 DEF Roles, Memory
  <2>2. PICK h \in Frames : Maps(kd, wh, lv, up, at, t, h, b) /\ mem[h] = view[t][b]
    BY <2>1 DEF Finds
  <2>3. CASE b = a
    <3>1. h = g
      BY <1>11, <2>2, <2>3
    <3>2. mem'[g] = v[b]
      BY <1>13, <1>15, <1>16, <2>2, <2>3, <3>1
    <3> QED
      BY <1>10, <2>1, <2>3, <3>2 DEF Finds
  <2>4. CASE b # a
    <3>1. b \in Nat /\ b % PAGE_SIZE = 0 /\ V4(b) = 1
      BY <1>6, <2>1, SlotIndices
    <3>2. h # g
      <4>1. SUFFICES ASSUME h = g PROVE FALSE
        OBVIOUS
      <4>2. /\ pdpt_index(a) = pdpt_index(b) /\ pd_index(a) = pd_index(b)
            /\ pt_index(a) = pt_index(b)
        BY <1>10, <2>2, <4>1 DEF Maps
      <4> QED
        BY <1>7, <2>4, <3>1, <4>2, PageDigits
    <3>3. mem'[h] = v[b]
      BY <1>13, <1>15, <1>16, <2>2, <2>4, <3>2
    <3> QED
      BY <2>1, <2>2, <3>3 DEF Finds
  <2> QED
    BY <2>3, <2>4
<1>17. Memory(t, th[t], mem', view'[t], kd, wh, lv, up, at)
  BY <1>4, <1>14, <1>16 DEF Memory
<1>18. Become(t, th[t]) /\ lost' = lost /\ resplit' = resplit /\ held' = held /\ tables' = tables
  BY <1>4 DEF Become, SpaceInv, LoaderInv, pmmVars
<1>19. OnlyMine(t, kd, wh, lv, up, at, mem, kd, wh, lv, up, at, mem')
  BY <1>10, <1>13 DEF OnlyMine, Maps, SpaceFrame
<1>20. /\ SharedKept(tables, kd, up, tables', kd, up) /\ Quiet(th[t], th[t], lost, lost')
       /\ Uses(t, th[t], kd, wh, lv) /\ Holdings(held', heap', lost', kd)
       /\ Tree(tables', kd, wh, lv, up, at) /\ heap' \subseteq Frames /\ lost' \subseteq Frames
  BY <1>1, <1>8, <1>18 DEF SharedKept, Quiet, Roles, Threads, SpaceInv, FrameInv
<1>21. FrameInv'
  <2>1. \A u \in Tids \ {t} : view'[u] = view[u]
    BY <1>12
  <2> QED
    BY <1>1, <1>17, <1>18, <1>19, <1>20, <2>1, QuietRoles
<1>22. IInv'
  BY <1>4, NextInv DEF SpaceInv, pmmVars
<1>23. LoaderInv'
  BY <1>2, <1>7, LoaderUser DEF SpaceInv
<1>24. RegionsInv'
  BY <1>4, <1>18, RegionsSame
<1>25. Counters'
  <2>1. irqs_off' \in Tids \cup {NoTid} /\ th[t].pc # "unused" /\ spawns' = spawns
    BY <1>4 DEF SpaceInv, Counters
  <2> QED
    BY <1>18, <2>1, CountersSame
<1>26. DOMAIN view' = Tids
  BY <1>12
<1> QED
  BY <1>6, <1>18, <1>21, <1>22, <1>23, <1>24, <1>25, <1>26, AllParts

(* A sequence without its element i *)
LEMMA ElementRemoved ==
    ASSUME NEW S, NEW q \in Seq(S), NEW i \in 1..Len(q), NEW p,
           p = SubSeq(q, 1, i - 1) \o SubSeq(q, i + 1, Len(q))
    PROVE  /\ p \in Seq(S) /\ DOMAIN p = 1..(Len(q) - 1)
           /\ \A k \in 1..(Len(q) - 1) : p[k] = q[IF k < i THEN k ELSE k + 1]
<1>1. PICK n \in Nat \ {0} : n = Len(q) /\ DOMAIN q = 1..n /\ i \in 1..n
  BY LenProperties
<1>2. PICK A \in Seq(S) : /\ A = SubSeq(q, 1, i - 1) /\ Len(A) = i - 1
                          /\ \A k \in 1..(i - 1) : A[k] = q[k]
  <2>1. /\ SubSeq(q, 1, i - 1) \in Seq(S) /\ Len(SubSeq(q, 1, i - 1)) = i - 1
        /\ \A k \in 1..(i - 1) : SubSeq(q, 1, i - 1)[k] = q[k]
    BY <1>1
  <2> QED
    BY <2>1
<1>3. PICK B \in Seq(S) : /\ B = SubSeq(q, i + 1, n) /\ Len(B) = n - i
                          /\ \A k \in 1..(n - i) : B[k] = q[k + i]
  <2>1. /\ SubSeq(q, i + 1, n) \in Seq(S) /\ Len(SubSeq(q, i + 1, n)) = n - i
        /\ \A k \in 1..(n - i) : SubSeq(q, i + 1, n)[k] = q[k + i]
    BY <1>1, SMTT(60)
  <2> QED
    BY <2>1
<1>4. /\ p \in Seq(S) /\ Len(p) = n - 1
      /\ \A k \in 1..(n - 1) : p[k] = IF k <= i - 1 THEN A[k] ELSE B[k - (i - 1)]
  <2>1. PICK a \in Nat, b \in Nat : a = i - 1 /\ b = n - i /\ a + b = n - 1
    <3>1. i - 1 \in Nat /\ n - i \in Nat /\ (i - 1) + (n - i) = n - 1
      BY <1>1
    <3> QED
      BY <3>1
  <2>2. Len(A) = a /\ Len(B) = b /\ p = A \o B
    BY <1>1, <1>2, <1>3, <2>1
  <2>3. /\ p \in Seq(S) /\ Len(p) = Len(A) + Len(B)
        /\ \A k \in 1..(Len(A) + Len(B)) : p[k] = IF k <= Len(A) THEN A[k] ELSE B[k - Len(A)]
    BY <2>2, ConcatProperties, ZenonT(60)
  <2> QED
    BY <2>1, <2>2, <2>3
<1>5. DOMAIN p = 1..(n - 1)
  BY <1>4, LenProperties
<1>6. ASSUME NEW k \in 1..(n - 1) PROVE p[k] = q[IF k < i THEN k ELSE k + 1]
  <2>1. CASE k < i
    <3>1. k \in 1..(i - 1) /\ k <= i - 1
      BY <1>1, <2>1
    <3>2. p[k] = A[k]
      BY <1>4, <3>1
    <3> QED
      BY <1>2, <2>1, <3>1, <3>2
  <2>2. CASE ~ (k < i)
    <3>1. k - (i - 1) \in 1..(n - i) /\ (k - (i - 1)) + i = k + 1 /\ ~ (k <= i - 1)
      BY <2>2
    <3>2. p[k] = B[k - (i - 1)]
      BY <1>4, <3>1
    <3> QED
      BY <1>3, <2>2, <3>1, <3>2
  <2> QED
    BY <2>1, <2>2
<1> QED
  BY <1>1, <1>4, <1>5, <1>6

(* A list of regions without one of them *)
LEMMA UnlinkedIs ==
    ASSUME NEW q \in Seq(Region), NEW i \in DOMAIN q, NEW K, Unique(q, K),
           NEW p, p = Unlinked(q, i)
    PROVE  /\ p \in Seq(Region) /\ Unique(p, K)
           /\ \A k \in DOMAIN p : \E j \in DOMAIN q : j # i /\ p[k] = q[j]
<1>1. DOMAIN q = 1..Len(q) /\ Len(q) \in Nat /\ i \in 1..Len(q)
  BY LenProperties
<1>2. /\ p \in Seq(Region) /\ DOMAIN p = 1..(Len(q) - 1)
      /\ \A k \in 1..(Len(q) - 1) : p[k] = q[IF k < i THEN k ELSE k + 1]
  BY <1>1, ElementRemoved, ZenonT(60) DEF Unlinked
<1> DEFINE Old(k) == IF k < i THEN k ELSE k + 1
<1>3. ASSUME NEW k \in DOMAIN p
      PROVE  k \in Nat /\ Old(k) \in DOMAIN q /\ Old(k) # i /\ p[k] = q[Old(k)]
  BY <1>1, <1>2
<1>4. Unique(p, K)
  <2>1. SUFFICES ASSUME NEW k \in DOMAIN p, NEW m \in DOMAIN p, k < m,
                        p[k].space = p[m].space
                 PROVE  p[m] \in K
    BY DEF Unique
  <2>2. Old(k) < Old(m)
    BY <1>1, <1>3, <2>1
  <2>3. /\ Old(k) \in DOMAIN q /\ Old(m) \in DOMAIN q
        /\ p[k] = q[Old(k)] /\ p[m] = q[Old(m)]
    BY <1>3
  <2> HIDE DEF Old
  <2> QED
    BY <2>1, <2>2, <2>3 DEF Unique
<1> QED
  BY <1>2, <1>3, <1>4

(* The growable stack of a dead program is forgotten. *)
LEMMA RegionDropped ==
    ASSUME SpaceInv, NEW t \in Tids, th[t].pc = "zombie", NEW r, Become(t, r),
           vmm_unregister_growable_stack(th[t].space)
    PROVE  RegionsInv'
<1> DEFINE s    == th[t].space
           list == regions.list
           K    == regions.relinked
           rd   == regions.read
<1>2. \A u \in Tids : th'[u] = IF u = t THEN r ELSE th[u]
  BY DEF Become, SpaceInv, LoaderInv
<1>3. /\ list \in Seq(Region) /\ K \in SUBSET Region /\ rd \in [Tids -> Seq(Region)]
      /\ Unique(list, K) /\ \A u \in Tids : Unique(rd[u], K)
  BY RegionParts
<1>4. ASSUME NEW i \in DOMAIN list, list[i].space # s, list[i] \notin K
      PROVE  \E u \in Tids : HasStack(th'[u], list[i].space)
  <2>1. PICK u \in Tids : HasStack(th[u], list[i].space)
    BY <1>3, <1>4 DEF SpaceInv, RegionsInv
  <2>2. u # t
    BY <1>4, <2>1 DEF HasStack
  <2> QED
    BY <1>2, <2>1, <2>2
<1> DEFINE mine == {i \in DOMAIN list : list[i].space = s}
<1>5. CASE mine = {}
  <2>1. regions' = regions
    BY <1>5 DEF vmm_unregister_growable_stack
  <2>2. \A i \in DOMAIN list : list[i].space # s
    BY <1>5
  <2>3. \A i \in DOMAIN regions'.list :
           \/ regions'.list[i] \in regions'.relinked
           \/ \E u \in Tids : HasStack(th'[u], regions'.list[i].space)
    BY <1>4, <2>1, <2>2
  <2>4. regions' \in [list : Seq(Region), read : [Tids -> Seq(Region)],
                     relinked : SUBSET Region]
    BY <2>1 DEF SpaceInv, RegionsInv
  <2> QED
    BY <1>3, <2>1, <2>3, <2>4, RegionsNext
<1>6. CASE mine # {}
  <2> DEFINE i == CHOOSE k \in mine : \A j \in mine : k <= j
  <2>2. i \in mine /\ \A j \in mine : i <= j
    <3>1. mine \subseteq Nat
      BY <1>3, LenProperties
    <3>2. \E k \in mine : \A j \in mine : k <= j
      <4> HIDE DEF mine
      <4> QED
        BY <1>6, <3>1, LeastElement
    <3> HIDE DEF mine
    <3> QED
      BY <3>2, Zenon
  <2> DEFINE Link(l, k) == k > 1 /\ i > 1 /\ l[k - 1] = list[i - 1] /\ l[k] = list[i]
             Seen(l) == IF \E k \in DOMAIN l : Link(l, k)
                        THEN Unlinked(l, CHOOSE k \in DOMAIN l : Link(l, k)) ELSE l
             rd2 == [u \in Tids |-> Seen(rd[u])]
             q   == Unlinked(list, i)
  <2>5. regions' = [regions EXCEPT !.list = q, !.read = rd2]
    BY <1>6, Zenon DEF vmm_unregister_growable_stack
  <2> HIDE DEF i, q
  <2>3. rd2 = [u \in Tids |-> Seen(rd[u])]
    OBVIOUS
  <2>4. q = Unlinked(list, i)
    BY DEF q
  <2> HIDE DEF rd2, list, rd, s, K
  <2>6. /\ q \in Seq(Region) /\ Unique(q, K)
        /\ \A k \in DOMAIN q : \E j \in DOMAIN list : j # i /\ q[k] = list[j]
    BY <1>3, <2>2, <2>4, UnlinkedIs
  <2>7. ASSUME NEW u \in Tids PROVE rd2[u] \in Seq(Region) /\ Unique(rd2[u], K)
    <3>1. PICK l \in Seq(Region) : l = rd[u] /\ Unique(l, K) /\ rd2[u] = Seen(l)
      BY <1>3, <2>3
    <3>2. CASE \E k \in DOMAIN l : Link(l, k)
      <4>1. PICK k : k = CHOOSE x \in DOMAIN l : Link(l, x)
        OBVIOUS
      <4>2. k \in DOMAIN l
        <5> HIDE DEF Link
        <5> QED
          BY <3>2, <4>1, Zenon
      <4>3. rd2[u] = Unlinked(l, k)
        <5> HIDE DEF Link
        <5> QED
          BY <3>1, <3>2, <4>1, Zenon
      <4> QED
        BY <3>1, <4>2, <4>3, UnlinkedIs
    <3>3. CASE ~ \E k \in DOMAIN l : Link(l, k)
      BY <3>1, <3>3
    <3> QED
      BY <3>2, <3>3
  <2>8. rd2 \in [Tids -> Seq(Region)]
    <3> HIDE DEF Seen
    <3> QED
      BY <2>3, <2>7
  <2>9. /\ regions'.list = q /\ regions'.relinked = K /\ regions'.read = rd2
        /\ regions' \in [list : Seq(Region), read : [Tids -> Seq(Region)],
                         relinked : SUBSET Region]
    BY <1>3, <2>5, <2>6, <2>8, RegionParts DEF K, rd, list
  <2>10. ASSUME NEW k \in DOMAIN q, q[k] \notin K
         PROVE  \E u \in Tids : HasStack(th'[u], q[k].space)
    <3>1. PICK j \in DOMAIN list : j # i /\ q[k] = list[j]
      BY <2>6
    <3>2. ASSUME list[j].space = s PROVE FALSE
      <4>1. i \in Nat /\ j \in Nat /\ i <= j
        BY <1>3, <2>2, <3>2, LenProperties
      <4>2. i < j /\ list[i].space = list[j].space
        BY <2>2, <3>1, <3>2, <4>1
      <4> QED
        BY <1>3, <2>2, <2>10, <3>1, <4>2 DEF Unique
    <3> QED
      BY <1>4, <2>10, <3>1, <3>2
  <2>11. \A k \in DOMAIN regions'.list :
            \/ regions'.list[k] \in regions'.relinked
            \/ \E u \in Tids : HasStack(th'[u], regions'.list[k].space)
    BY <2>9, <2>10
  <2>12. Unique(regions'.list, regions'.relinked)
         /\ \A u \in Tids : Unique(regions'.read[u], regions'.relinked)
    BY <2>6, <2>7, <2>9
  <2> QED
    BY <2>9, <2>11, <2>12, RegionsNext
<1> QED
  BY <1>5, <1>6

(* The guard of the dead thread t is the only entry of the shared branch    *)
(* that reap_zombie writes: x, in table n.                                  *)
GuardMapped(T, n, x, T2) ==
    /\ T2[n][x % ENTRIES] = PageEntry(x, FALSE)
    /\ \A j \in Index \ {x % ENTRIES} : T2[n][j] = T[n][j]

(* The shared branch is sound after it: no other thread has that guard. *)
LEMMA ReapBranch ==
    ASSUME NEW T, NEW kd, NEW wh, NEW lv, NEW up, NEW at, Tree(T, kd, wh, lv, up, at),
           NEW thr, NEW thr2, NEW t \in Tids, \A u \in Tids \ {t} : thr2[u] = thr[u],
           thr[t].pc = "zombie", thr2[t].pc = "unused",
           NEW ls, NEW rs, Ptes(T, kd, up, thr, ls), Guards(T, kd, up, thr, rs),
           \A u \in Tids : thr[u].guard \in Frames /\ (Late(thr[u]) => wh[thr[u].guard] = u),
           NEW x \in Frames, x = thr[t].guard,
           NEW n \in Frames, kd[n] = "shared", up[n] = X2(x),
           NEW T2, NEW kd2, \A f \in Frames : kd2[f] = "shared" <=> kd[f] = "shared",
           \A f \in Frames \ {n} : kd[f] = "shared" => T2[f] = T[f],
           GuardMapped(T, n, x, T2)
    PROVE  Ptes(T2, kd2, up, thr2, ls) /\ Guards(T2, kd2, up, thr2, rs)
<1>1. x % ENTRIES \in Index /\ X2(x) * ENTRIES + (x % ENTRIES) = x /\ x \in Nat
  BY IdentityIndices
<1>2. ASSUME NEW m \in Frames, kd[m] = "shared", NEW j \in Index, m # n \/ j # x % ENTRIES
      PROVE  T2[m][j] = T[m][j]
  BY <1>2 DEF GuardMapped
<1>3. ASSUME NEW m \in Frames, kd[m] = "shared", up[m] = X2(x) PROVE m = n
  <2>1. PdEntry(T, X2(x)) = TableEntry(m) /\ PdEntry(T, X2(x)) = TableEntry(n)
    BY <1>3 DEF Tree, BootPages
  <2>2. TableEntry(m).frame = m /\ TableEntry(n).frame = n
    BY EntryFields
  <2> QED
    BY <2>1, <2>2
<1>4. Ptes(T2, kd2, up, thr2, ls)
  <2>1. SUFFICES ASSUME NEW m \in Frames, NEW j \in Index, kd[m] = "shared"
                 PROVE  PteOk(T2[m][j], up[m] * ENTRIES + j, thr2, ls)
    BY DEF Ptes
  <2>2. CASE m = n /\ j = x % ENTRIES
    <3>1. T2[m][j] = PageEntry(x, FALSE) /\ up[m] * ENTRIES + j = x
      BY <1>1, <2>2 DEF GuardMapped
    <3>2. /\ PageEntry(x, FALSE).frame = x /\ PageEntry(x, FALSE).present
          /\ PageEntry(x, FALSE).user = FALSE
      BY DEF PageEntry
    <3> QED
      BY <3>1, <3>2 DEF PteOk
  <2>3. CASE m # n \/ j # x % ENTRIES
    <3>1. PICK d, y : d = T[m][j] /\ y = up[m] * ENTRIES + j
      OBVIOUS
    <3>2. PteOk(d, y, thr, ls)
      BY <2>1, <3>1 DEF Ptes
    <3>3. y # x
      <4>1. SUFFICES ASSUME y = x PROVE FALSE
        OBVIOUS
      <4>2. PICK E \in Nat \ {0}, q \in Nat : E = ENTRIES /\ q = up[m] /\ j \in 0..(E - 1)
        BY Sizes DEF Tree, RoleTypes, Index
      <4>3. x = E * q + j /\ E * q \in Nat /\ E * (q + 1) = E * q + E
        BY <3>1, <4>1, <4>2
      <4>4. x \div E = q
        BY <1>1, <4>2, <4>3, QuotientUnique
      <4>5. m = n
        BY <1>3, <2>1, <4>2, <4>4 DEF X2
      <4>6. PICK k \in 0..(E - 1) : k = x % E /\ x = E * q + k
        BY <1>1, <4>4, DivMod
      <4>7. j = x % E
        BY <4>2, <4>3, <4>6, SMTT(60)
      <4> QED
        BY <2>3, <4>2, <4>5, <4>7
    <3>4. LateGuard(thr, y) => LateGuard(thr2, y)
      BY <3>3 DEF LateGuard
    <3>5. Opened(thr, ls, y) => Opened(thr2, ls, y)
      <4>1. ~ Opens(thr[t], y)
        BY DEF Opens
      <4> QED
        BY <4>1 DEF Opened
    <3>6. PteOk(d, y, thr2, ls)
      BY <3>2, <3>4, <3>5 DEF PteOk
    <3>7. T2[m][j] = d
      BY <1>2, <2>1, <2>3, <3>1
    <3> QED
      BY <3>1, <3>6, <3>7
  <2> QED
    BY <2>2, <2>3
<1>5. Guards(T2, kd2, up, thr2, rs)
  <2>1. SUFFICES ASSUME NEW u \in Tids, Late(thr2[u])
                 PROVE  GuardOut(T2, kd2, up, rs, thr2[u].guard)
    BY DEF Guards
  <2>2. u # t /\ thr2[u] = thr[u]
    BY <2>1 DEF Late
  <2>3. PICK y \in Frames : y = thr[u].guard
    OBVIOUS
  <2>4. y # x
    <3>1. Late(thr[t])
      BY DEF Late
    <3> QED
      BY <2>1, <2>2, <2>3, <3>1
  <2>5. PICK m \in Frames : /\ kd[m] = "shared" /\ up[m] = X2(y)
                            /\ \/ ~ T[m][y % ENTRIES].present
                               \/ X2(y) * ENTRIES \in rs
    BY <2>1, <2>2, <2>3 DEF Guards, GuardOut
  <2>6. y \in Nat /\ y % ENTRIES \in Index
    BY IdentityIndices
  <2>7. m # n \/ y % ENTRIES # x % ENTRIES
    <3>1. SUFFICES ASSUME m = n, y % ENTRIES = x % ENTRIES PROVE FALSE
      OBVIOUS
    <3>2. y \div ENTRIES = x \div ENTRIES
      BY <2>5, <3>1 DEF X2
    <3> QED
      BY <1>1, <2>4, <2>6, <3>1, <3>2, DigitsDetermine
  <2>8. T2[m][y % ENTRIES] = T[m][y % ENTRIES]
    BY <1>2, <2>5, <2>6, <2>7
  <2> QED
    BY <2>2, <2>3, <2>5, <2>8 DEF GuardOut
<1> QED
  BY <1>4, <1>5

(* What reap_zombie gives back: the kernel stack and the whole address      *)
(* space, page tables and pages.                                            *)
LEMMA ReapedFrames ==
    ASSUME SpaceInv, NEW kd, NEW wh, NEW lv, NEW up, NEW at, Roles(kd, wh, lv, up, at),
           NEW t \in Tids, th[t].pc = "zombie", NEW s, s = th[t].space, NEW gone,
           gone = IF s = kernel_pml4 THEN [tables |-> {}, pages |-> {}] ELSE PrivateFrames(s)
    PROVE  /\ KernelStack(t) \cup gone.tables \cup gone.pages
                = {f \in Frames : Leaving(kd, wh, t, f)}
           /\ gone.tables = {f \in Frames : kd[f] = "space" /\ wh[f] = t /\ lv[f] > 0}
<1>1. Tree(tables, kd, wh, lv, up, at) /\ Uses(t, th[t], kd, wh, lv)
  BY DEF Roles, Threads
<1>2. \A f : f \in KernelStack(t) <=> f \in Frames /\ kd[f] = "stack" /\ wh[f] = t
  BY <1>1, StackIs DEF Uses
<1>3. \A f \in Frames : lv[f] \in 0..4
  BY <1>1 DEF Tree, RoleTypes
<1>4. /\ gone.tables = {f \in Frames : kd[f] = "space" /\ wh[f] = t /\ lv[f] > 0}
      /\ gone.pages = {f \in Frames : kd[f] = "space" /\ wh[f] = t /\ lv[f] = 0}
  <2>1. CASE s = kernel_pml4
    <3>1. ASSUME NEW f \in Frames, kd[f] = "space", wh[f] = t PROVE FALSE
      <4>1. PICK p \in Frames : SpaceFrame(kd, wh, lv, t, 4, p)
        BY <1>1, <3>1, HasTop
      <4> QED
        BY <1>1, <2>1, <4>1 DEF Uses
    <3>2. gone.tables = {} /\ gone.pages = {}
      BY <2>1
    <3> QED
      BY <3>1, <3>2
  <2>2. CASE s # kernel_pml4
    <3>1. Level(kd, wh, lv, t, 4) = {s}
      BY <2>2, SpaceOf
    <3>2. gone = PrivateFrames(s)
      BY <2>2
    <3> QED
      BY <1>1, <3>1, <3>2, WholeSpace
  <2> QED
    BY <2>1, <2>2
<1>5. \A f \in Frames : lv[f] > 0 \/ lv[f] = 0
  BY <1>3
<1>6. ASSUME NEW f
      PROVE  f \in KernelStack(t) \cup gone.tables \cup gone.pages
                <=> f \in Frames /\ Leaving(kd, wh, t, f)
  BY <1>2, <1>4, <1>5 DEF Leaving
<1> QED
  BY <1>4, <1>6

(* reap_zombie: the program is gone and its frames are free. *)
LEMMA SpaceReap ==
    ASSUME SpaceInv, NEW t \in Tids, reap_zombie(t), heap' = heap
    PROVE  SpaceInv'
<1>1. PICK kd, wh, lv, up, at : Roles(kd, wh, lv, up, at)
  BY DEF SpaceInv, FrameInv
<1>2. PICK s : s = th[t].space
  OBVIOUS
<1>3. PICK gone : gone = IF s = kernel_pml4 THEN [tables |-> {}, pages |-> {}]
                         ELSE PrivateFrames(s)
  OBVIOUS
<1>4. /\ th[t].pc = "zombie" /\ Become(t, NoThread) /\ vmm_unregister_growable_stack(s)
      /\ mem' = mem /\ irqs_off' = irqs_off /\ spawns' = spawns /\ lost' = lost
      /\ resplit' = resplit /\ view' = view
  BY <1>2 DEF reap_zombie
<1>5. /\ FreeAll(KernelStack(t) \cup gone.tables \cup gone.pages)
      /\ tables' = [f \in DOMAIN tables \ gone.tables |->
                      IF f = L2(kernel_pml4, Addr(th[t].guard)).frame
                      THEN [tables[f] EXCEPT ![pt_index(Addr(th[t].guard))]
                                               = GuardBack(th[t].guard)]
                      ELSE tables[f]]
  BY <1>2, <1>3 DEF reap_zombie
<1>6. /\ Tree(tables, kd, wh, lv, up, at) /\ Uses(t, th[t], kd, wh, lv)
      /\ Holdings(held, heap, lost, kd)
      /\ Ptes(tables, kd, up, th, lost) /\ Guards(tables, kd, up, th, resplit)
      /\ Memory(t, th[t], mem, view[t], kd, wh, lv, up, at)
  BY <1>1 DEF Roles, Threads
<1>7. PICK x \in Usable : x = th[t].guard /\ x \in Frames
  BY <1>1, <1>4, HeldUsable, UsablePd
<1>8. PICK n \in Frames : kd[n] = "shared" /\ up[n] = X2(x)
  BY <1>4, <1>6, <1>7 DEF Guards, GuardOut, Late
<1>9. L2(kernel_pml4, Addr(x)).frame = n /\ pt_index(Addr(x)) = x % ENTRIES
  <2>1. L2(kernel_pml4, Addr(x)) = PdEntry(tables, X2(x))
    BY <1>6, Tops, SharedWalk
  <2>2. PdEntry(tables, X2(x)) = TableEntry(n)
    BY <1>6, <1>8 DEF Tree, BootPages
  <2>3. TableEntry(n).frame = n
    BY EntryFields
  <2> QED
    BY <1>7, <2>1, <2>2, <2>3, IdentityIndices
<1> DEFINE S == {f \in Frames : Leaving(kd, wh, t, f)}
           kd2 == NewRole(S, "none", kd)
<1>10. /\ KernelStack(t) \cup gone.tables \cup gone.pages = S
       /\ gone.tables = {f \in Frames : kd[f] = "space" /\ wh[f] = t /\ lv[f] > 0}
  BY <1>1, <1>2, <1>3, <1>4, ReapedFrames
<1>11. IInv' /\ held' = held \ S
  <2>1. S \subseteq held
    BY <1>6 DEF Leaving, Holdings
  <2>2. FreeAll(S)
    BY <1>5, <1>10
  <2> HIDE DEF S
  <2> QED
    BY <2>1, <2>2, GaveBack DEF SpaceInv
<1>12. ASSUME NEW f \in Frames
       PROVE  kd2[f] = IF Leaving(kd, wh, t, f) THEN "none" ELSE kd[f]
  BY DEF NewRole
<1>13. /\ DOMAIN tables = {f \in Frames : IsTable(kd, lv, f)}
       /\ \A f \in DOMAIN tables : tables[f] \in [Index -> Entry]
  BY <1>6 DEF Tree, TablesAre
<1>14. n \in DOMAIN tables /\ n \notin gone.tables
  BY <1>8, <1>10, <1>13 DEF IsTable
<1>15. DOMAIN tables' = {f \in DOMAIN tables : ~ Leaving(kd, wh, t, f)}
  <2>1. DOMAIN tables' = DOMAIN tables \ gone.tables
    BY <1>5
  <2>2. \A f \in DOMAIN tables : f \in gone.tables <=> Leaving(kd, wh, t, f)
    BY <1>10, <1>13 DEF Leaving, IsTable
  <2> QED
    BY <2>1, <2>2
<1>16. /\ \A f \in DOMAIN tables' : f # n => tables'[f] = tables[f]
       /\ tables'[n] = [tables[n] EXCEPT ![x % ENTRIES] = PageEntry(x, FALSE)]
       /\ n \in DOMAIN tables'
  BY <1>5, <1>7, <1>9, <1>14 DEF GuardBack
<1>17. x % ENTRIES \in Index /\ PageEntry(x, FALSE) \in Entry
  BY <1>7, IdentityIndices, EntryFields
<1>18. Tree(tables', kd2, wh, lv, up, at)
  <2>1. PICK T1 : T1 = [tables EXCEPT ![n][x % ENTRIES] = PageEntry(x, FALSE)]
    OBVIOUS
  <2>2. Tree(T1, kd, wh, lv, up, at)
    BY <1>6, <1>8, <1>17, <2>1, PteTree
  <2>3. DOMAIN T1 = DOMAIN tables /\ \A f \in DOMAIN tables' : tables'[f] = T1[f]
    BY <1>14, <1>15, <1>16, <2>1
  <2> QED
    BY <1>15, <2>2, <2>3, ReapTree
<1> HIDE DEF S, kd2
<1>19. PICK r : r = NoThread /\ Become(t, r)
  BY <1>4
<1>20. r.pc = "unused" /\ r.frame = 0 /\ r.table = 0 /\ r.space = kernel_pml4
  BY <1>19 DEF NoThread
<1>21. \A u \in Tids : th'[u] = IF u = t THEN r ELSE th[u]
  BY <1>19 DEF Become, SpaceInv, LoaderInv
<1>22. Ptes(tables', kd2, up, th', lost') /\ Guards(tables', kd2, up, th', resplit')
  <2>1. GuardMapped(tables, n, x, tables')
    BY <1>13, <1>14, <1>16, <1>17 DEF GuardMapped
  <2>2. \A f \in Frames : kd2[f] = "shared" <=> kd[f] = "shared"
    BY <1>12 DEF Leaving
  <2>3. \A f \in Frames \ {n} : kd[f] = "shared" => tables'[f] = tables[f]
    BY <1>13, <1>15, <1>16 DEF Leaving, IsTable
  <2>4. \A u \in Tids : th[u].guard \in Frames /\ (Late(th[u]) => wh[th[u].guard] = u)
    BY <1>1, HeldUsable, ThreadTypes DEF Late, SpaceInv
  <2>5. th'[t].pc = "unused" /\ \A u \in Tids \ {t} : th'[u] = th[u]
    BY <1>20, <1>21
  <2>6. Ptes(tables', kd2, up, th', lost) /\ Guards(tables', kd2, up, th', resplit)
    BY <1>4, <1>6, <1>7, <1>8, <2>1, <2>2, <2>3, <2>4, <2>5, ReapBranch
  <2> QED
    BY <1>4, <2>6
<1>23. OnlyMine(t, kd, wh, lv, up, at, mem, kd2, wh, lv, up, at, mem')
  BY <1>4, <1>12 DEF OnlyMine, Leaving
<1>24. Uses(t, r, kd2, wh, lv)
  <2>1. th[t].frame = 0 /\ th[t].table = 0
    BY <1>4 DEF SpaceInv, Fields, HasFrame
  <2>2. \A f \in Frames : /\ ~ (kd2[f] = "stack" /\ wh[f] = t)
                          /\ ~ (kd2[f] = "hand" /\ wh[f] = t)
                          /\ ~ (kd2[f] = "space" /\ wh[f] = t)
    BY <1>6, <1>12, <2>1 DEF Uses, Leaving
  <2> QED
    BY <1>20, <2>2 DEF Uses, SpaceFrame
<1>25. Memory(t, r, mem', view'[t], kd2, wh, lv, up, at)
  <2>1. DOMAIN view[t] = {}
    BY <1>4, <1>6 DEF Memory
  <2> QED
    BY <1>4, <1>20, <2>1 DEF Memory
<1>26. Holdings(held', heap', lost', kd2)
  <2>1. ASSUME NEW f \in Frames
        PROVE  /\ f \in held' <=> f \in held /\ ~ Leaving(kd, wh, t, f)
               /\ kd[f] = "heap" \/ kd[f] = "lost" => ~ Leaving(kd, wh, t, f)
    BY <1>11 DEF S, Leaving
  <2> QED
    BY <1>4, <1>6, <1>12, <2>1 DEF Holdings
<1>27. FrameInv'
  <2>1. heap' \subseteq Frames /\ lost' \subseteq Frames /\ \A u \in Tids \ {t} : view'[u] = view[u]
    BY <1>4 DEF SpaceInv, FrameInv
  <2> QED
    BY <1>1, <1>18, <1>19, <1>22, <1>23, <1>24, <1>25, <1>26, <2>1, NextRoles
<1>28. LoaderInv'
  BY <1>4, UnusedTyped DEF SpaceInv, LoaderInv
<1>29. RegionsInv'
  BY <1>2, <1>4, <1>19, RegionDropped
<1>30. Counters'
  <2>1. irqs_off' \in Tids \cup {NoTid}
    BY <1>4 DEF SpaceInv, Counters
  <2> QED
    BY <1>4, <1>19, <2>1, CountersSame
<1>31. Fields(t, r)
  BY <1>20 DEF Fields, HasFrame, SpacelessPc
<1>32. DOMAIN view' = Tids
  BY <1>4 DEF SpaceInv
<1> QED
  BY <1>11, <1>19, <1>27, <1>28, <1>29, <1>30, <1>31, <1>32, AllParts

(***************************************************************************)
(* Part 18.  The theorems                                                  *)
(***************************************************************************)

(* Nothing happens. *)
LEMMA SpaceStutters ==
    ASSUME SpaceInv, SchedOk, UNCHANGED vars
    PROVE  SpaceInv' /\ SchedOk'
<1>1. /\ UNCHANGED <<tables, mem, th, regions, irqs_off, heap, spawns, lost, resplit, view>>
      /\ UNCHANGED <<current, switches>> /\ UNCHANGED pmmVars /\ held' = held
  BY DEF vars, vmmVars, schedVars, pmmVars
<1>2. IInv'
  BY <1>1, NextInv DEF SpaceInv
<1>3. LoaderInv'
  BY <1>1, SameThreads DEF SpaceInv, LoaderInv
<1>4. FrameInv'
  BY <1>1 DEF SpaceInv, FrameInv, Roles
<1>5. RegionsInv' /\ Counters' /\ DOMAIN view' = Tids
  BY <1>1 DEF SpaceInv, RegionsInv, Counters, HasStack, Unique
<1>6. (\A t \in Tids : Fields(t, th[t]))'
  BY <1>1 DEF SpaceInv, Fields, HasFrame
<1>7. SchedOk'
  BY <1>1 DEF SchedOk
<1> QED
  BY <1>2, <1>3, <1>4, <1>5, <1>6, <1>7 DEF SpaceInv

(* Every step keeps the invariant. *)
LEMMA SpaceNext == SpaceInv /\ SchedOk /\ [Next]_vars => SpaceInv' /\ SchedOk'
<1> SUFFICES ASSUME SpaceInv, SchedOk, [Next]_vars PROVE SpaceInv' /\ SchedOk'
  OBVIOUS
<1>1. ASSUME NEW t \in Tids, Step(t), heap' = heap PROVE SpaceInv'
  <2>1. CASE GuardSplit(t)
    BY <1>1, <2>1, SpaceGuardSplit
  <2>2. CASE CreateSpace(t)
    BY <1>1, <2>2, SpaceCreate
  <2>3. CASE LoadSegment(t)
    BY <1>1, <2>3, SpaceSegment
  <2>4. CASE MapSegmentPage(t)
    BY <1>1, <2>4, SpaceMapSegment
  <2>5. CASE AllocStack(t)
    BY <1>1, <2>5, SpaceAllocStack
  <2>6. CASE MapStackPage(t)
    BY <1>1, <2>6, SpaceMapStack
  <2>7. CASE \E o \in StoreOffsets : UserStore(t, image_base(t) + o)
    BY <1>1, <2>7, SpaceStore
  <2>8. CASE \E va \in SlotPages(t) : PageFault(t, va)
    BY <1>1, <2>8, SpaceFault
  <2>9. CASE MapFaultPage(t)
    BY <1>1, <2>9, SpaceMapFault
  <2>10. CASE DemoStart(t)
    BY <1>1, <2>10, SpaceDemoStart
  <2>11. CASE DemoSpace(t)
    BY <1>1, <2>11, SpaceDemoSpace
  <2>12. CASE DemoMark(t) \/ DemoSplit(t)
    BY <1>1, <2>12, SpaceDemoMark
  <2>13. CASE StoreHead(t)
    BY <1>1, <2>13, SpaceStoreHead
  <2> QED
    BY <1>1, <2>1, <2>2, <2>3, <2>4, <2>5, <2>6, <2>7, <2>8, <2>9, <2>10, <2>11, <2>12, <2>13
       DEF Step
<1>2. ASSUME NEW t \in Tids, MayRun(t), Step(t), heap' = heap, current' = t,
             switches' = IF current \in {NoTid, t} THEN switches ELSE switches + 1
      PROVE  SpaceInv' /\ SchedOk'
  <2>1. switches \in Nat /\ MaxSwitches \in Nat /\ switches <= MaxSwitches
    BY VmmAssumption DEF SchedOk
  <2>2. switches' \in 0..MaxSwitches
    BY <1>2, <2>1 DEF MayRun, SchedOk
  <2> QED
    BY <1>1, <1>2, <2>2 DEF SchedOk
<1>3. ASSUME NEW t \in Tids, UNCHANGED <<schedVars, heap>>,
             \/ \E p \in Program \cup {Demo} : SpawnStack(t, p)
             \/ GuardPage(t) \/ sched_kill(t) \/ KillInAllocation(t) \/ reap_zombie(t)
      PROVE  SpaceInv' /\ SchedOk'
  <2>1. heap' = heap /\ SchedOk'
    BY <1>3 DEF schedVars, SchedOk
  <2>2. CASE \E p \in Program \cup {Demo} : SpawnStack(t, p)
    BY <2>1, <2>2, SpaceSpawn
  <2>3. CASE GuardPage(t)
    BY <2>1, <2>3, SpaceGuardPage
  <2>4. CASE sched_kill(t)
    BY <2>1, <2>4, SpaceKill
  <2>5. CASE reap_zombie(t)
    BY <2>1, <2>5, SpaceReap
  <2>6. CASE KillInAllocation(t)
    BY <2>1, <2>6, SpaceKillInAllocation
  <2> QED
    BY <1>3, <2>1, <2>2, <2>3, <2>4, <2>5, <2>6
<1>4. ASSUME NEW t \in Tids, NEW count \in HeapSizes, grow_heap(count), UNCHANGED schedVars
      PROVE  SpaceInv' /\ SchedOk'
  BY <1>4, SpaceHeap DEF schedVars, SchedOk
<1>5. CASE UNCHANGED vars
  BY <1>5, SpaceStutters
<1> QED
  BY <1>2, <1>3, <1>4, <1>5 DEF Next

(* The invariant holds in all states that can be reached. *)
LEMMA SpaceAlways == Spec => [](SpaceInv /\ SchedOk)
<1>1. Init => SpaceInv /\ SchedOk
  BY SpaceInit
<1>2. SpaceInv /\ SchedOk /\ [Next]_vars => (SpaceInv /\ SchedOk)'
  BY SpaceNext
<1> QED
  BY <1>1, <1>2, PTL DEF Spec

(* Whatever programs are loaded, run, killed and reaped, and in whatever    *)
(* order the steps of their threads happen, every frame that the allocator  *)
(* has handed out has exactly one owner: reap_zombie frees all frames of a  *)
(* program, once, and none of the kernel or of another program.             *)
THEOREM EveryFrameHasOneOwner == Spec => []FramesAccounted
<1>1. SpaceInv /\ SchedOk => FramesAccounted
  BY AccountedFrom
<1> QED
  BY <1>1, SpaceAlways, PTL

(* A program finds in its memory what the segments of its file say, zeros,  *)
(* its arguments and what it stored itself, however elf_load,               *)
(* vmm_handle_page_fault and reap_zombie of other threads are interleaved   *)
(* with its own steps; but of a page that several segments share it finds   *)
(* only the bytes of the last one, for load_segment maps a new frame there. *)
THEOREM MemoryStaysPrivate == Spec => []MemoryPrivate
<1>1. SpaceInv /\ SchedOk => MemoryPrivate
  BY MemoryFrom
<1> QED
  BY <1>1, SpaceAlways, PTL

(* Ring 3 reaches its own pages, and of the shared branch only what         *)
(* vmm_mark_user has opened for the demo.                                   *)
THEOREM ProgramsReachOwnPages == Spec => []OnlyOwnPages
<1>1. SpaceInv /\ SchedOk => OnlyOwnPages
  BY OwnFrom
<1> QED
  BY <1>1, SpaceAlways, PTL

(* Every frame that pmm_alloc_frame may hand out is mapped at its own       *)
(* address, where pmm_alloc_zeroed_frame clears it.                         *)
THEOREM FreeFramesStayMapped == Spec => []FreeFramesMapped
<1>1. SpaceInv /\ SchedOk => FreeFramesMapped
  BY MappedFrom
<1> QED
  BY <1>1, SpaceAlways, PTL

(* The page below a kernel stack, once vmm_guard_page has taken it out,     *)
(* stays out until reap_zombie, unless its large page is split twice.       *)
THEOREM GuardsStayUnmapped == Spec => []GuardsUnmapped
<1>1. SpaceInv /\ SchedOk => GuardsUnmapped
  BY GuardsFrom
<1> QED
  BY <1>1, SpaceAlways, PTL

(* A region of stack_regions belongs to one address space, which exists,    *)
(* except the regions that vmm_register_growable_stack put back into the    *)
(* list when it was interrupted between reading the head and storing it.    *)
THEOREM RegionsStayLive == Spec => []RegionsLive
<1>1. SpaceInv /\ SchedOk => RegionsLive
  BY RegionsFrom
<1> QED
  BY <1>1, SpaceAlways, PTL

=============================================================================
