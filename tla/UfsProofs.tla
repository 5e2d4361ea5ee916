----------------------------- MODULE UfsProofs ------------------------------
(***************************************************************************)
(* The directory and the files of module Ufs survive failed writes and     *)
(* power losses, for every number of files, sectors, calls and faults.     *)
(*                                                                         *)
(* Parts 1 and 2 are arithmetic.  Parts 3 to 5 prove the invariant of the  *)
(* structure and with it DirectorySound; parts 6 and 7 the invariant of    *)
(* the history, part 8 what the directory on disk is while its sectors are *)
(* written; from these part 9 proves ContentsSurvive and                   *)
(* PowerLossTearsOneFile.                                                  *)
(***************************************************************************)
EXTENDS Ufs, FiniteSetTheorems, WellFoundedInduction, SequenceTheorems, TLAPS

(***************************************************************************)
(* Part 1.  The doubling loop                                              *)
(***************************************************************************)

(* Every non-empty set of natural numbers has a least element. *)
LEMMA LeastElement ==
    ASSUME NEW T \in SUBSET Nat, T # {}
    PROVE  \E m \in T : \A n \in T : m <= n
<1> DEFINE R == {ss \in Nat \X Nat : ss[1] < ss[2]}
<1>1. IsWellFoundedOn(R, Nat)
  BY NatLessThanWellFounded DEF OpToRel
<1>2. PICK x \in T : \A y \in T : ~ (<<y, x>> \in R)
  <2> HIDE DEF R
  <2> QED
    BY <1>1, WFMin
<1>3. ASSUME NEW y \in T
      PROVE  x <= y
  <2>1. y < x => <<y, x>> \in R
    OBVIOUS
  <2> QED
    BY <1>2, <2>1
<1> QED
  BY <1>3

(* Induction up to a bound, for a set in place of a predicate. *)
LEMMA InductionUpTo ==
    ASSUME NEW max \in Nat, NEW T, 0 \in T,
           \A n \in 0..(max - 1) : n \in T => n + 1 \in T
    PROVE  0..max \subseteq T
<1> DEFINE B == {n \in 0..max : n \notin T}
<1>1. CASE B # {}
  <2>1. B \in SUBSET Nat
    OBVIOUS
  <2>2. PICK m \in B : \A n \in B : m <= n
    <3> HIDE DEF B
    <3> QED
      BY <1>1, <2>1, LeastElement
  <2>3. m - 1 \in 0..(max - 1) /\ m - 1 \notin B
    BY <2>2
  <2>4. m - 1 \in T
    BY <2>3
  <2> QED
    BY <2>2, <2>3, <2>4
<1> QED
  BY <1>1

(* What a step function computes from a value on, as a function. *)
LEMMA Iterates ==
    ASSUME NEW D, NEW a \in D, NEW F \in [D -> D], NEW max \in Nat
    PROVE  \E f \in [0..max -> D] :
              f[0] = a /\ \A n \in 0..(max - 1) : f[n + 1] = F[f[n]]
<1> DEFINE Is(f, m) == f[0] = a /\ \A n \in 0..(m - 1) : f[n + 1] = F[f[n]]
           T == {m \in Nat : \E f \in [0..m -> D] : Is(f, m)}
<1>1. 0 \in T
  <2>1. [n \in 0..0 |-> a] \in [0..0 -> D] /\ Is([n \in 0..0 |-> a], 0)
    OBVIOUS
  <2> QED
    BY <2>1
<1>2. ASSUME NEW m \in Nat, m \in T
      PROVE  m + 1 \in T
  <2>1. PICK f \in [0..m -> D] : Is(f, m)
    BY <1>2
  <2> DEFINE g == [n \in 0..(m + 1) |-> IF n <= m THEN f[n] ELSE F[f[m]]]
  <2>2. f[m] \in D
    OBVIOUS
  <2>3. g \in [0..(m + 1) -> D]
    BY <2>2
  <2>4. g[0] = a
    BY <2>1
  <2>5. ASSUME NEW n \in 0..m
        PROVE  g[n + 1] = F[g[n]]
    <3>1. CASE n = m
      BY <3>1
    <3>2. CASE n \in 0..(m - 1)
      <4>1. g[n + 1] = f[n + 1] /\ g[n] = f[n]
        BY <3>2
      <4> QED
        BY <2>1, <3>2, <4>1
    <3> QED
      BY <3>1, <3>2
  <2>6. Is(g, m + 1)
    <3> HIDE DEF g
    <3> QED
      BY <2>4, <2>5
  <2> HIDE DEF g, Is
  <2> QED
    BY <2>3, <2>6
<1>3. 0..max \subseteq T
  <2>1. \A n \in 0..(max - 1) : n \in T => n + 1 \in T
    <3> HIDE DEF T
    <3> QED
      BY <1>2
  <2> HIDE DEF T
  <2> QED
    BY <1>1, <2>1, InductionUpTo
<1> QED
  BY <1>3

(* The values that the loop of ensure_capacity goes through. *)
LEMMA DoublingPasses ==
    ASSUME NEW from \in Nat, NEW needed \in Nat
    PROVE  \E f \in [0..needed -> Nat] :
              /\ f[0] = from
              /\ \A n \in 0..(needed - 1) :
                    f[n + 1] = IF f[n] < needed THEN 2 * f[n] ELSE f[n]
<1>1. PICK F \in [Nat -> Nat] : \A x \in Nat : F[x] = IF x < needed THEN 2 * x ELSE x
  <2> DEFINE G == [x \in Nat |-> IF x < needed THEN 2 * x ELSE x]
  <2>1. G \in [Nat -> Nat] /\ \A x \in Nat : G[x] = IF x < needed THEN 2 * x ELSE x
    OBVIOUS
  <2> HIDE DEF G
  <2> QED
    BY <2>1
<1> DEFINE Iterable(D) ==
       \A a \in D : \A S \in [D -> D] : \A max \in Nat : \E f \in [0..max -> D] :
          f[0] = a /\ \A n \in 0..(max - 1) : f[n + 1] = S[f[n]]
<1>2. \A D : Iterable(D)
  BY Iterates, Zenon
<1>3. Iterable(Nat)
  <2> HIDE DEF Iterable
  <2> QED
    BY <1>2
<1>4. PICK f \in [0..needed -> Nat] :
         f[0] = from /\ \A n \in 0..(needed - 1) : f[n + 1] = F[f[n]]
  BY <1>3, ZenonT(60)
<1>5. ASSUME NEW n \in 0..(needed - 1)
      PROVE  f[n + 1] = IF f[n] < needed THEN 2 * f[n] ELSE f[n]
  <2>1. PICK v \in Nat : v = f[n]
    OBVIOUS
  <2>2. f[n + 1] = F[v]
    BY <1>4, <2>1
  <2> QED
    BY <1>1, <2>1, <2>2
<1> QED
  BY <1>4, <1>5

(* The loop that doubles a capacity ends with one that is large enough. *)
LEMMA DoublingIsEnough ==
    ASSUME NEW from \in Nat \ {0}, NEW needed \in Nat
    PROVE  /\ Passes(from, needed)[needed] \in Nat
           /\ Passes(from, needed)[needed] >= needed
           /\ Passes(from, needed)[needed] >= from
<1>1. PICK f \in [0..needed -> Nat] :
         /\ f[0] = from
         /\ \A n \in 0..(needed - 1) :
               f[n + 1] = IF f[n] < needed THEN 2 * f[n] ELSE f[n]
  <2>1. from \in Nat
    OBVIOUS
  <2> QED
    BY <2>1, DoublingPasses, Zenon
<1>4. f = [k \in 0..needed |->
             IF k = 0 THEN from ELSE IF f[k - 1] < needed THEN 2 * f[k - 1] ELSE f[k - 1]]
  <2>1. ASSUME NEW k \in 0..needed, k # 0
        PROVE  f[k] = IF f[k - 1] < needed THEN 2 * f[k - 1] ELSE f[k - 1]
    <3>1. k - 1 \in 0..(needed - 1) /\ (k - 1) + 1 = k
      BY <2>1
    <3> QED
      BY <1>1, <3>1
  <2> QED
    BY <1>1, <2>1
<1>5. PICK g : /\ g = Passes(from, needed)
               /\ g = [k \in 0..needed |->
                    IF k = 0 THEN from ELSE IF g[k - 1] < needed THEN 2 * g[k - 1] ELSE g[k - 1]]
  BY <1>4, Zenon DEF Passes
<1>6. /\ g[0] = from
      /\ \A n \in 0..(needed - 1) :
            g[n + 1] = IF g[n] < needed THEN 2 * g[n] ELSE g[n]
  <2>1. ASSUME NEW n \in 0..(needed - 1)
        PROVE  g[n + 1] = IF g[n] < needed THEN 2 * g[n] ELSE g[n]
    <3>1. n + 1 \in 0..needed /\ n + 1 # 0 /\ (n + 1) - 1 = n
      OBVIOUS
    <3> QED
      BY <1>5, <3>1
  <2>2. 0 \in 0..needed
    OBVIOUS
  <2>3. g[0] = from
    BY <1>5, <2>2
  <2> QED
    BY <2>1, <2>3
<1> DEFINE T == {n \in Nat : /\ g[n] \in Nat /\ g[n] >= from
                             /\ g[n] >= needed \/ g[n] > n}
<1>7. 0 \in T
  BY <1>6
<1>8. ASSUME NEW n \in 0..(needed - 1), n \in T
      PROVE  n + 1 \in T
  <2>1. PICK v \in Nat : v = g[n] /\ v >= from /\ (v >= needed \/ v > n)
    BY <1>8
  <2>2. PICK w \in Nat : w = g[n + 1] /\ w = IF v < needed THEN 2 * v ELSE v
    BY <1>6, <2>1, SMTT(60)
  <2>3. w >= from /\ (w >= needed \/ w > n + 1)
    BY <2>1, <2>2, SMTT(60)
  <2>4. n + 1 \in Nat
    OBVIOUS
  <2> QED
    BY <2>2, <2>3, <2>4, Zenon
<1>9. needed \in T
  <2>1. 0..needed \subseteq T
    <3> HIDE DEF T
    <3> QED
      BY <1>7, <1>8, InductionUpTo
  <2> HIDE DEF T
  <2> QED
    BY <2>1
<1> QED
  BY <1>5, <1>9

(* The capacity that ensure_capacity computes is enough for the sectors     *)
(* needed and never smaller than the old one.                               *)
LEMMA NewCapacityIsEnough ==
    ASSUME NEW cur \in Nat, NEW needed \in Nat
    PROVE  /\ NewCapacity(cur, needed) \in Nat
           /\ NewCapacity(cur, needed) >= needed
           /\ NewCapacity(cur, needed) >= cur
<1>1. PICK b \in Nat \ {0} : b = (IF cur = 0 THEN 1 ELSE cur)
  OBVIOUS
<1>2. NewCapacity(cur, needed) = Passes(b, needed)[needed]
  BY <1>1 DEF NewCapacity
<1> QED
  BY <1>1, <1>2, DoublingIsEnough

(***************************************************************************)
(* Part 2.  Sectors and bytes                                              *)
(***************************************************************************)

(* Sectors come in the order of their first bytes. *)
LEMMA SectorOrder ==
    ASSUME NEW x \in Nat, NEW y \in Nat, x <= y
    PROVE  x * SECTOR_SIZE \in Nat /\ x * SECTOR_SIZE <= y * SECTOR_SIZE
  BY UfsAssumption

(* The bytes of a run of sectors *)
LEMMA SectorRun ==
    ASSUME NEW x \in Nat, NEW y \in Nat
    PROVE  (x + y) * SECTOR_SIZE = x * SECTOR_SIZE + y * SECTOR_SIZE
  BY UfsAssumption

(* sectors_for_bytes rounds up. *)
LEMMA RoundsUp ==
    ASSUME NEW bytes \in Nat
    PROVE  /\ sectors_for_bytes(bytes) \in Nat
           /\ bytes <= sectors_for_bytes(bytes) * SECTOR_SIZE
           /\ \A c \in Nat : bytes <= c * SECTOR_SIZE => sectors_for_bytes(bytes) <= c
<1>1. PICK d \in Nat \ {0} : d = SECTOR_SIZE
  BY UfsAssumption
<1>2. PICK q \in Nat : /\ q = (bytes + d - 1) \div d
                       /\ d * q <= bytes + d - 1 /\ bytes + d - 1 < d * q + d
  OBVIOUS
<1>3. ASSUME NEW c \in Nat, bytes <= c * d
      PROVE  q <= c
  <2>1. CASE c < q
    <3>1. d * (c + 1) <= d * q
      BY <2>1
    <3> QED
      BY <1>2, <1>3, <3>1
  <2> QED
    BY <2>1
<1>4. bytes <= q * d
  BY <1>2
<1> QED
  BY <1>1, <1>2, <1>3, <1>4 DEF sectors_for_bytes

(***************************************************************************)
(* Part 3.  The invariant of the structure: what the directories, the next *)
(* free sector and the call in progress have to do with each other         *)
(***************************************************************************)

(* The calls that change files, and the records of a call in progress *)
Calls == {"none", "create", "delete", "chmod", "truncate", "write"}

Operation == [stage : Stage, call : Calls, name : Name \union {NoName}, slot : Slots,
              done : Nat, offset : Nat, buf : Seq(Byte), sectors : Nat,
              result : File \union {NoFile}]

(* An extent below sector free that holds its file *)
Fits(e, free) ==
    e.start_lba + e.capacity <= free /\ e.size <= e.capacity * SECTOR_SIZE

(* Two files with names and sectors of their own *)
Apart(e, f) ==
    /\ e.name # f.name
    /\ \/ e.capacity = 0 \/ f.capacity = 0
       \/ e.start_lba + e.capacity <= f.start_lba
       \/ f.start_lba + f.capacity <= e.start_lba

(* A directory whose files lie in extents of their own below sector free *)
Sound(dir, free) ==
    /\ \A s \in Slots : Used(dir, s) => Fits(dir[s], free)
    /\ \A s, t \in Slots : (s # t /\ Used(dir, s) /\ Used(dir, t)) => Apart(dir[s], dir[t])

(* The two writes of format_fresh, the two of ensure_capacity, and what a   *)
(* write goes through before its data is on disk                            *)
Formatting == {"format_dir", "format_sb"}
Growing    == {"grow_dir", "grow_sb"}
Writing    == {"move", "grow_dir", "grow_sb", "data"}

(* Where the call in progress is *)
OpInv ==
    /\ op \in Operation
    /\ op.stage = "idle" => op = Idle
    /\ op.stage \in Formatting => ~ ufs_ready /\ op.call = "none" /\ op.name = NoName
    /\ op.stage \notin Formatting \union {"idle"} =>
          ufs_ready /\ op.call # "none" /\ op.name \in Name
    /\ op.stage \in Writing => op.call = "write"
    /\ op.call = "write" => directory[op.slot].name = op.name /\ op.buf # <<>>
    /\ op.stage = "move" =>
          /\ ~ InPlace(op.slot, Needed)
          /\ HasRoom(NewCapacity(directory[op.slot].capacity, sectors_for_bytes(Needed)))
    /\ op.stage \in {"grow_dir", "grow_sb", "data"} => InPlace(op.slot, Needed)

(* The next free sector on disk is the one in memory, except while a file   *)
(* is being moved; before ufs_init memory is as the kernel starts.          *)
Pointers ==
    /\ ~ superblock.magic => superblock.next_free = UFS_DATA_LBA
    /\ ~ ufs_ready => /\ directory = ZeroDirectory /\ next_free_lba = UFS_DATA_LBA
                      /\ op.stage \in Formatting => ~ superblock.magic
    /\ ufs_ready /\ op.stage \notin Growing => superblock.next_free = next_free_lba

(* The directory on disk is sound too, up to the free sector that goes      *)
(* with it.                                                                 *)
DiskSound ==
    Sound(disk_dir, IF op.stage = "grow_sb" THEN next_free_lba ELSE superblock.next_free)

(* A file that has sectors has the same ones on disk. *)
SameExtents ==
    \A s \in Slots :
        (/\ Used(directory, s) /\ directory[s].capacity > 0
         /\ op.stage = "grow_dir" => s # op.slot) =>
            /\ disk_dir[s].name = directory[s].name
            /\ disk_dir[s].start_lba = directory[s].start_lba
            /\ disk_dir[s].capacity = directory[s].capacity

(* The invariant of the structure *)
StructureInv ==
    /\ TypeOK
    /\ OpInv
    /\ Sound(directory, next_free_lba)
    /\ cached_file_count = count_used_entries(directory)
    /\ Pointers
    /\ DiskSound
    /\ SameExtents

(* The sectors that files have lie in the data area, also those of files    *)
(* that were deleted.                                                       *)
Above(e) == e.capacity # 0 => e.start_lba >= UFS_DATA_LBA

Area ==
    /\ next_free_lba >= UFS_DATA_LBA /\ superblock.next_free >= UFS_DATA_LBA
    /\ \A s \in Slots : Above(directory[s]) /\ Above(disk_dir[s])

(* Power losses and failed writes that leave the directory sound: none      *)
(* that finds half a directory on disk, and none between the directory and  *)
(* the superblock of a file that moves.                                     *)
FaultsOutsideMoves ==
    /\ PowerLossAt \intersect {"torn", "grow_sb"} = {}
    /\ AtaFailsAt \intersect ({"torn"} \union Growing) = {}

(* Sizes, once and for all. *)
LEMMA Sizes ==
    /\ SECTOR_SIZE \in Nat \ {0} /\ UFS_MAX_ENTRIES \in Nat \ {0}
    /\ UFS_DATA_END \in Nat \ {0} /\ MOVE_SECTORS \in Nat \ {0}
    /\ UFS_DATA_LBA \in 0..UFS_DATA_END
    /\ 0 \in Slots /\ Slots \subseteq Nat
  BY UfsAssumption DEF UFS_DATA_END, Slots

(* The empty entry, directory and call have their types. *)
LEMMA ZeroTypes ==
    /\ ZeroEntry \in Entry /\ ZeroDirectory \in [Slots -> Entry]
    /\ \A s \in Slots : ~ Used(ZeroDirectory, s)
    /\ Idle \in Operation
<1>1. ZeroEntry \in Entry /\ ZeroEntry.name = NoName
  BY UfsAssumption, Sizes DEF ZeroEntry, Entry
<1>2. ZeroDirectory \in [Slots -> Entry] /\ \A s \in Slots : ~ Used(ZeroDirectory, s)
  BY <1>1 DEF ZeroDirectory, Used
<1>3. Idle \in Operation
  <2>1. <<>> \in Seq(Byte)
    OBVIOUS
  <2> QED
    BY <2>1, Sizes DEF Idle, Operation, Stage, Calls
<1> QED
  BY <1>1, <1>2, <1>3

(* The empty directory is sound. *)
LEMMA ZeroSound ==
    ASSUME NEW free
    PROVE  Sound(ZeroDirectory, free)
  BY ZeroTypes DEF Sound

(* Being apart goes both ways. *)
LEMMA ApartBothWays ==
    ASSUME NEW e \in Entry, NEW f \in Entry, Apart(e, f)
    PROVE  Apart(f, e)
  BY DEF Apart

(* A directory stays sound when an entry is replaced by a free one, or by   *)
(* one that fits and is apart from all others.                              *)
LEMMA ReplacedEntry ==
    ASSUME NEW dir \in [Slots -> Entry], NEW free \in Nat, Sound(dir, free),
           NEW s \in Slots, NEW e \in Entry, NEW free2 \in Nat, free <= free2,
           e.name # NoName => /\ Fits(e, free2)
                              /\ \A t \in Slots : (t # s /\ Used(dir, t)) => Apart(e, dir[t])
    PROVE  /\ [dir EXCEPT ![s] = e] \in [Slots -> Entry]
           /\ Sound([dir EXCEPT ![s] = e], free2)
<1> DEFINE d == [dir EXCEPT ![s] = e]
<1>1. d \in [Slots -> Entry] /\ d[s] = e /\ \A t \in Slots : t # s => d[t] = dir[t]
  OBVIOUS
<1> HIDE DEF d
<1>2. ASSUME NEW t \in Slots, Used(d, t)
      PROVE  Fits(d[t], free2)
  <2>1. CASE t = s
    BY <1>1, <1>2, <2>1 DEF Used
  <2>2. CASE t # s
    <3>1. dir[t] \in Entry /\ Fits(dir[t], free) /\ d[t] = dir[t]
      BY <1>1, <1>2, <2>2 DEF Used, Sound
    <3> QED
      BY <3>1 DEF Fits, Entry
  <2> QED
    BY <2>1, <2>2
<1>3. ASSUME NEW t \in Slots, NEW u \in Slots, t # u, Used(d, t), Used(d, u)
      PROVE  Apart(d[t], d[u])
  <2>1. CASE t = s
    BY <1>1, <1>3, <2>1 DEF Used
  <2>2. CASE u = s
    <3>1. Apart(e, dir[t]) /\ dir[t] \in Entry
      BY <1>1, <1>3, <2>2 DEF Used
    <3> QED
      BY <1>1, <1>3, <2>2, <3>1, ApartBothWays
  <2>3. CASE t # s /\ u # s
    BY <1>1, <1>3, <2>3 DEF Used, Sound
  <2> QED
    BY <2>1, <2>2, <2>3
<1> QED
  BY <1>1, <1>2, <1>3 DEF Sound, d

(* The entry after a change of owner, permissions or size: it keeps its     *)
(* name and its sectors.                                                    *)
SamePlace(e, f) ==
    f.name = e.name /\ f.start_lba = e.start_lba /\ f.capacity = e.capacity

(* A file whose name and sectors stay keeps the directory sound while it    *)
(* fits them.                                                               *)
LEMMA EntryInPlace ==
    ASSUME NEW dir \in [Slots -> Entry], NEW free \in Nat, Sound(dir, free),
           NEW s \in Slots, Used(dir, s), NEW e \in Entry, SamePlace(dir[s], e),
           e.size <= e.capacity * SECTOR_SIZE
    PROVE  /\ [dir EXCEPT ![s] = e] \in [Slots -> Entry]
           /\ Sound([dir EXCEPT ![s] = e], free)
           /\ Used([dir EXCEPT ![s] = e], s)
<1>1. Fits(e, free)
  BY DEF Sound, Fits, SamePlace
<1>2. ASSUME NEW t \in Slots, t # s, Used(dir, t)
      PROVE  Apart(e, dir[t])
  BY <1>2 DEF Sound, Apart, SamePlace
<1>3. free <= free
  OBVIOUS
<1>4. /\ [dir EXCEPT ![s] = e] \in [Slots -> Entry]
      /\ Sound([dir EXCEPT ![s] = e], free)
  BY <1>1, <1>2, <1>3, ReplacedEntry
<1> QED
  BY <1>4 DEF Used, SamePlace

(* The count of the entries in use *)
LEMMA UsedCount ==
    ASSUME NEW dir \in [Slots -> Entry]
    PROVE  /\ count_used_entries(dir) \in 0..UFS_MAX_ENTRIES
           /\ \A s \in Slots, e \in Entry :
                LET d == [dir EXCEPT ![s] = e]
                IN  /\ (Used(dir, s) <=> Used(d, s)) =>
                          count_used_entries(d) = count_used_entries(dir)
                    /\ ~ Used(dir, s) /\ Used(d, s) =>
                          count_used_entries(d) = count_used_entries(dir) + 1
                    /\ Used(dir, s) /\ ~ Used(d, s) =>
                          count_used_entries(d) = count_used_entries(dir) - 1
<1> DEFINE U(d) == {s \in Slots : Used(d, s)}
<1>1. IsFiniteSet(Slots) /\ Cardinality(Slots) = UFS_MAX_ENTRIES
  <2>1. 0 \in Int /\ UFS_MAX_ENTRIES - 1 \in Int
    BY Sizes
  <2> QED
    BY <2>1, Sizes, FS_Interval DEF Slots
<1>2. \A d : IsFiniteSet(U(d)) /\ Cardinality(U(d)) \in 0..UFS_MAX_ENTRIES
  <2> TAKE d
  <2>1. U(d) \subseteq Slots
    OBVIOUS
  <2>2. IsFiniteSet(U(d)) /\ Cardinality(U(d)) <= Cardinality(Slots)
    BY <1>1, <2>1, FS_Subset
  <2> QED
    BY <1>1, <2>2, FS_CardinalityType, Sizes
<1>3. ASSUME NEW s \in Slots, NEW e \in Entry
      PROVE  LET d == [dir EXCEPT ![s] = e]
             IN  /\ (Used(dir, s) <=> Used(d, s)) => U(d) = U(dir)
                 /\ ~ Used(dir, s) /\ Used(d, s) => U(d) = U(dir) \cup {s} /\ s \notin U(dir)
                 /\ Used(dir, s) /\ ~ Used(d, s) => U(d) = U(dir) \ {s} /\ s \in U(dir)
  BY DEF Used
<1>4. \A d : count_used_entries(d) = Cardinality(U(d))
  BY DEF count_used_entries
<1> HIDE DEF U
<1>5. \A s : /\ s \notin U(dir) => Cardinality(U(dir) \cup {s}) = Cardinality(U(dir)) + 1
             /\ s \in U(dir) => Cardinality(U(dir) \ {s}) = Cardinality(U(dir)) - 1
  BY <1>2, FS_AddElement, FS_RemoveElement
<1> QED
  BY <1>2, <1>3, <1>4, <1>5

(***************************************************************************)
(* Part 4.  What a reader sees                                             *)
(***************************************************************************)

(* The first byte of a file in the data area *)
Byte0(e) == e.start_lba * SECTOR_SIZE

(* What a reader finds through entry e in a data area D *)
FileOf(D, e) ==
    [owner |-> e.owner, perm |-> e.perm, bytes |-> [i \in 1..e.size |-> D[Byte0(e) + i - 1]]]

(* View for any contents D of the data area *)
ViewIn(D, dir, n) ==
    IF \E s \in Slots : dir[s].name = n
    THEN FileOf(D, dir[CHOOSE s \in Slots : dir[s].name = n]) ELSE NoFile

(* What a power loss before the directory is written again would leave *)
OldView == [n \in Name |-> IF superblock.magic THEN View(disk_dir, n) ELSE NoFile]

(* The views of memory and disk, before and after a step *)
LEMMA Views ==
    /\ \A n \in Name : /\ MemView[n] = ViewIn(data, directory, n)
                       /\ OldView[n] = IF superblock.magic THEN ViewIn(data, disk_dir, n)
                                        ELSE NoFile
    /\ \A n \in Name : /\ MemView'[n] = ViewIn(data', directory', n)
                       /\ OldView'[n] = IF superblock'.magic THEN ViewIn(data', disk_dir', n)
                                         ELSE NoFile
<1>1. \A dir, n : View(dir, n) = ViewIn(data, dir, n)
  BY DEF View, ViewIn, FileOf, Contents, ufs_find, Byte0
<1>2. \A n : View(directory, n)' = ViewIn(data', directory', n)
  BY DEF View, ViewIn, FileOf, Contents, ufs_find, Byte0
<1>3. \A n : View(disk_dir, n)' = ViewIn(data', disk_dir', n)
  BY DEF View, ViewIn, FileOf, Contents, ufs_find, Byte0
<1> QED
  BY <1>1, <1>2, <1>3 DEF MemView, OldView

(* Where the bytes of an extent are *)
LEMMA ByteInside ==
    ASSUME NEW e \in Entry, NEW free \in 0..UFS_DATA_END, Fits(e, free),
           NEW i \in 1..(e.capacity * SECTOR_SIZE)
    PROVE  /\ Byte0(e) \in Nat /\ Byte0(e) + i - 1 \in DataBytes
           /\ Byte0(e) + i - 1 < free * SECTOR_SIZE
<1>1. PICK x \in Nat, c \in Nat, E \in Nat :
         x = e.start_lba /\ c = e.capacity /\ E = UFS_DATA_END
  BY Sizes DEF Entry
<1>2. (x + c) * SECTOR_SIZE = x * SECTOR_SIZE + c * SECTOR_SIZE
  BY <1>1, SectorRun
<1>3. x + c <= free /\ free <= E /\ free \in Nat
  BY <1>1 DEF Fits
<1>4. /\ (x + c) * SECTOR_SIZE <= free * SECTOR_SIZE
      /\ free * SECTOR_SIZE <= E * SECTOR_SIZE
      /\ x * SECTOR_SIZE \in Nat /\ free * SECTOR_SIZE \in Nat
      /\ c * SECTOR_SIZE \in Nat /\ E * SECTOR_SIZE \in Nat
  BY <1>1, <1>3, SectorOrder
<1>5. PICK a \in Nat, b \in Nat, f \in Nat, g \in Nat :
         /\ a = x * SECTOR_SIZE /\ b = c * SECTOR_SIZE /\ f = free * SECTOR_SIZE
         /\ g = E * SECTOR_SIZE
  BY <1>4
<1>6. a + b <= f /\ f <= g /\ i \in 1..b
  BY <1>1, <1>2, <1>4, <1>5
<1>7. a + i - 1 \in 0..(g - 1) /\ a + i - 1 < f
  BY <1>6
<1> QED
  BY <1>1, <1>5, <1>7 DEF Byte0, DataBytes

(* Files that are apart have no byte in common. *)
LEMMA BytesApart ==
    ASSUME NEW e \in Entry, NEW f \in Entry, Apart(e, f),
           NEW i \in 1..(e.capacity * SECTOR_SIZE), NEW j \in 1..(f.capacity * SECTOR_SIZE)
    PROVE  Byte0(e) + i - 1 # Byte0(f) + j - 1
<1>1. PICK x \in Nat, c \in Nat, y \in Nat, d \in Nat :
         x = e.start_lba /\ c = e.capacity /\ y = f.start_lba /\ d = f.capacity
  BY DEF Entry
<1>2. /\ (x + c) * SECTOR_SIZE = x * SECTOR_SIZE + c * SECTOR_SIZE
      /\ (y + d) * SECTOR_SIZE = y * SECTOR_SIZE + d * SECTOR_SIZE
      /\ x * SECTOR_SIZE \in Nat /\ c * SECTOR_SIZE \in Nat
      /\ y * SECTOR_SIZE \in Nat /\ d * SECTOR_SIZE \in Nat
  BY <1>1, SectorRun, Sizes
<1>3. PICK a \in Nat, b \in Nat, g \in Nat, h \in Nat :
         /\ a = x * SECTOR_SIZE /\ b = c * SECTOR_SIZE
         /\ g = y * SECTOR_SIZE /\ h = d * SECTOR_SIZE
  BY <1>2
<1>4. c # 0 /\ d # 0 /\ i \in 1..b /\ j \in 1..h
  <2>1. 0 * SECTOR_SIZE = 0
    BY Sizes
  <2> QED
    BY <1>1, <1>3, <2>1
<1>5. CASE x + c <= y
  <2>1. a + b <= g
    BY <1>2, <1>3, <1>5, SectorOrder
  <2> QED
    BY <1>1, <1>3, <1>4, <2>1 DEF Byte0
<1>6. CASE y + d <= x
  <2>1. g + h <= a
    BY <1>2, <1>3, <1>6, SectorOrder
  <2> QED
    BY <1>1, <1>3, <1>4, <2>1 DEF Byte0
<1> QED
  BY <1>1, <1>4, <1>5, <1>6 DEF Apart

(* What is found under a name *)
LEMMA ViewOfFile ==
    ASSUME NEW dir \in [Slots -> Entry], NEW free, Sound(dir, free), NEW n \in Name, NEW D
    PROVE  /\ \A s \in Slots : dir[s].name = n => ViewIn(D, dir, n) = FileOf(D, dir[s])
           /\ (\A s \in Slots : dir[s].name # n) => ViewIn(D, dir, n) = NoFile
<1>1. ASSUME NEW s \in Slots, dir[s].name = n
      PROVE  ViewIn(D, dir, n) = FileOf(D, dir[s])
  <2> DEFINE x == CHOOSE t \in Slots : dir[t].name = n
  <2>1. x \in Slots /\ dir[x].name = n
    BY <1>1
  <2> HIDE DEF x
  <2>2. x = s
    BY <1>1, <2>1, UfsAssumption DEF Sound, Used, Apart
  <2> QED
    BY <1>1, <2>2 DEF ViewIn, x
<1>2. (\A s \in Slots : dir[s].name # n) => ViewIn(D, dir, n) = NoFile
  BY DEF ViewIn
<1> QED
  BY <1>1, <1>2

(* A file that fits is a sequence of bytes with an owner and permissions. *)
LEMMA FileType ==
    ASSUME NEW D \in [DataBytes -> Byte], NEW e \in Entry,
           NEW free \in 0..UFS_DATA_END, Fits(e, free)
    PROVE  /\ FileOf(D, e) \in File
           /\ FileOf(D, e).owner = e.owner /\ FileOf(D, e).perm = e.perm
           /\ Len(FileOf(D, e).bytes) = e.size /\ DOMAIN FileOf(D, e).bytes = 1..e.size
           /\ \A i \in 1..e.size : FileOf(D, e).bytes[i] = D[Byte0(e) + i - 1]
<1> DEFINE b == [i \in 1..e.size |-> D[Byte0(e) + i - 1]]
<1>1. e.size \in Nat /\ e.owner \in Uid \union {0} /\ e.perm \in Perm
  BY DEF Entry
<1>2. ASSUME NEW i \in 1..e.size
      PROVE  D[Byte0(e) + i - 1] \in Byte
  <2>1. i \in 1..(e.capacity * SECTOR_SIZE)
    <3>1. PICK c \in Nat : c = e.capacity * SECTOR_SIZE
      BY Sizes DEF Entry
    <3> QED
      BY <1>1, <3>1 DEF Fits
  <2>2. Byte0(e) + i - 1 \in DataBytes
    BY <2>1, ByteInside
  <2> QED
    BY <2>2
<1>3. b \in Seq(Byte) /\ Len(b) = e.size
  BY <1>1, <1>2
<1> HIDE DEF b
<1>4. FileOf(D, e) = [owner |-> e.owner, perm |-> e.perm, bytes |-> b]
  BY DEF FileOf, b
<1>5. FileOf(D, e) \in File
  BY <1>1, <1>3, <1>4 DEF File
<1> QED
  BY <1>1, <1>3, <1>4, <1>5 DEF b

(***************************************************************************)
(* Part 5.  Every step keeps the structure                                 *)
(***************************************************************************)

(* The structure is sound before ufs_init. *)
LEMMA StructureInit ==
    ASSUME Init
    PROVE  StructureInv
<1>1. TypeOK
  <2>1. [b \in DataBytes |-> 0] \in [DataBytes -> Byte]
    BY UfsAssumption
  <2>2. /\ UFS_DATA_LBA \in 0..UFS_DATA_END /\ 0 \in 0..UFS_MAX_ENTRIES
        /\ 0 \in 0..MaxCalls /\ 0 \in 0..MaxFaults
    BY UfsAssumption, Sizes
  <2> QED
    BY <2>1, <2>2, ZeroTypes, Sizes DEF Init, TypeOK, Idle, Stage
<1>2. OpInv
  BY ZeroTypes DEF Init, OpInv, Idle, Formatting, Writing
<1>3. cached_file_count = count_used_entries(directory)
  <2>1. {s \in Slots : Used(ZeroDirectory, s)} = {}
    BY ZeroTypes
  <2> QED
    BY <2>1, FS_EmptySet DEF Init, count_used_entries
<1>4. Pointers
  BY DEF Init, Pointers, Idle, Formatting
<1>5. SameExtents
  BY ZeroTypes DEF Init, SameExtents
<1>6. Sound(directory, next_free_lba) /\ DiskSound
  BY ZeroSound DEF Init, DiskSound
<1> QED
  BY <1>1, <1>2, <1>3, <1>4, <1>5, <1>6 DEF StructureInv

(* A call changes one entry in memory and begins to write the directory. *)
LEMMA StructureBegins ==
    ASSUME StructureInv, ufs_ready, op = Idle, NEW s \in Slots, NEW e \in Entry,
           directory' = [directory EXCEPT ![s] = e],
           Sound(directory', next_free_lba), directory' \in [Slots -> Entry],
           cached_file_count' = count_used_entries(directory'),
           \/ e.name = NoName \/ e.capacity = 0 \/ SamePlace(directory[s], e),
           NEW call \in Calls \ {"none", "write"}, NEW name \in Name,
           NEW result \in File \union {NoFile}, Begin(call, s, name, result),
           calls' \in 0..MaxCalls, UNCHANGED <<ufs_ready, next_free_lba, diskVars, faults>>
    PROVE  StructureInv'
<1>1. cached_file_count' \in 0..UFS_MAX_ENTRIES
  BY UsedCount
<1>2. /\ op' \in Operation /\ op'.stage = "dir" /\ op'.call = call /\ op'.name = name
      /\ op'.slot = s
  BY ZeroTypes DEF Begin, Operation, Idle, Stage
<1>3. TypeOK'
  BY <1>1, <1>2 DEF StructureInv, TypeOK, Stage, diskVars, Operation
<1>4. OpInv'
  BY <1>2 DEF OpInv, Formatting, Writing, Calls
<1>5. Pointers'
  BY <1>2 DEF StructureInv, Pointers, Idle, Growing, diskVars
<1>6. DiskSound'
  BY <1>2 DEF StructureInv, DiskSound, Idle, diskVars
<1>7. SameExtents'
  <2> SUFFICES ASSUME NEW t \in Slots, Used(directory', t), directory'[t].capacity > 0
               PROVE  SamePlace(directory'[t], disk_dir[t])
    BY DEF SameExtents, SamePlace, diskVars
  <2>1. directory \in [Slots -> Entry]
    BY DEF StructureInv, TypeOK
  <2>2. SamePlace(directory[t], directory'[t])
    <3>1. CASE t = s
      BY <2>1, <3>1 DEF Used
    <3>2. CASE t # s
      BY <2>1, <3>2 DEF SamePlace
    <3> QED
      BY <3>1, <3>2
  <2>3. Used(directory, t) /\ directory[t].capacity > 0
    BY <2>2 DEF SamePlace, Used
  <2>4. SamePlace(directory[t], disk_dir[t])
    BY <2>3 DEF StructureInv, SameExtents, SamePlace, Idle
  <2> QED
    BY <2>2, <2>4 DEF SamePlace
<1> QED
  BY <1>3, <1>4, <1>5, <1>6, <1>7 DEF StructureInv, diskVars

(* A call that may change something is counted. *)
LEMMA CallCounted ==
    ASSUME StructureInv, Call
    PROVE  ufs_ready /\ op = Idle /\ calls' \in 0..MaxCalls
<1>1. MaxCalls \in Nat /\ calls \in 0..MaxCalls
  BY UfsAssumption DEF StructureInv, TypeOK
<1> QED
  BY <1>1 DEF Call

(* ufs_create takes an empty slot; the new file has no sectors yet. *)
LEMMA CreateStructure ==
    ASSUME StructureInv, NEW name \in Name, NEW owner_uid \in Uid, ufs_create(name, owner_uid)
    PROVE  StructureInv'
<1> DEFINE e == [ZeroEntry EXCEPT !.name = name, !.owner = owner_uid]
<1>1. PICK s \in Slots :
        /\ Call
        /\ \A x \in Slots : ~ ufs_find(directory, name, x)
        /\ ~ Used(directory, s)
        /\ directory' = [directory EXCEPT ![s] = e]
        /\ cached_file_count' = cached_file_count + 1
        /\ Begin("create", s, name, [owner |-> owner_uid, perm |-> 0, bytes |-> <<>>])
        /\ UNCHANGED <<ufs_ready, next_free_lba, diskVars, stored, faults>>
  BY DEF ufs_create
<1>2. /\ e \in Entry /\ e.name = name /\ e.capacity = 0 /\ e.start_lba = 0 /\ e.size = 0
  BY ZeroTypes, UfsAssumption, Sizes DEF ZeroEntry, Entry
<1> HIDE DEF e
<1>3. directory \in [Slots -> Entry] /\ next_free_lba \in Nat /\ Sound(directory, next_free_lba)
  BY Sizes DEF StructureInv, TypeOK
<1>4. Fits(e, next_free_lba)
  BY <1>2, <1>3, Sizes DEF Fits
<1>5. \A t \in Slots : Apart(e, directory[t])
  BY <1>1, <1>2 DEF Apart, ufs_find
<1>6. directory' \in [Slots -> Entry] /\ Sound(directory', next_free_lba)
  <2>1. next_free_lba <= next_free_lba
    BY <1>3
  <2> QED
    BY <1>1, <1>2, <1>3, <1>4, <1>5, <2>1, ReplacedEntry
<1>7. Used(directory', s)
  BY <1>1, <1>2, <1>3, UfsAssumption DEF Used
<1>8. cached_file_count' = count_used_entries(directory')
  BY <1>1, <1>2, <1>3, <1>7, UsedCount DEF StructureInv
<1>9. [owner |-> owner_uid, perm |-> 0, bytes |-> <<>>] \in File
  BY UfsAssumption DEF File
<1> QED
  BY <1>1, <1>2, <1>6, <1>8, <1>9, CallCounted, StructureBegins DEF Calls

(* ufs_delete frees the slot and leaves the sectors alone. *)
LEMMA DeleteStructure ==
    ASSUME StructureInv, NEW s \in Slots, ufs_delete(s)
    PROVE  StructureInv'
<1>1. directory \in [Slots -> Entry] /\ next_free_lba \in Nat /\ Sound(directory, next_free_lba)
  BY Sizes DEF StructureInv, TypeOK
<1> DEFINE e == [directory[s] EXCEPT !.name = NoName]
<1>2. /\ Call /\ Used(directory, s)
      /\ directory' = [directory EXCEPT ![s] = e]
      /\ cached_file_count' = cached_file_count - 1
      /\ Begin("delete", s, directory[s].name, NoFile)
      /\ UNCHANGED <<ufs_ready, next_free_lba, diskVars, stored, faults>>
  BY DEF ufs_delete, handle_valid
<1>3. e \in Entry /\ e.name = NoName
  BY <1>1 DEF Entry
<1> HIDE DEF e
<1>4. directory' \in [Slots -> Entry] /\ Sound(directory', next_free_lba)
  <2>1. next_free_lba <= next_free_lba
    BY <1>1
  <2> QED
    BY <1>1, <1>2, <1>3, <2>1, ReplacedEntry
<1>5. cached_file_count' = count_used_entries(directory')
  <2>1. ~ Used(directory', s)
    BY <1>1, <1>2, <1>3 DEF Used
  <2> QED
    BY <1>1, <1>2, <1>3, <2>1, UsedCount DEF StructureInv
<1>6. directory[s].name \in Name
  BY <1>1, <1>2 DEF Entry, Used
<1> QED
  BY <1>2, <1>3, <1>4, <1>5, <1>6, CallCounted, StructureBegins DEF Calls

(* The file in a slot in use, as memory shows it *)
LEMMA MemFile ==
    ASSUME StructureInv, NEW s \in Slots, Used(directory, s)
    PROVE  /\ directory[s] \in Entry /\ directory[s].name \in Name
           /\ Fits(directory[s], next_free_lba) /\ next_free_lba \in 0..UFS_DATA_END
           /\ MemView[directory[s].name] = FileOf(data, directory[s])
           /\ FileOf(data, directory[s]) \in File
<1>1. /\ directory \in [Slots -> Entry] /\ next_free_lba \in 0..UFS_DATA_END
      /\ Sound(directory, next_free_lba) /\ data \in [DataBytes -> Byte]
  BY DEF StructureInv, TypeOK
<1>2. directory[s] \in Entry /\ directory[s].name \in Name /\ Fits(directory[s], next_free_lba)
  BY <1>1 DEF Entry, Used, Sound
<1>3. MemView[directory[s].name] = FileOf(data, directory[s])
  BY <1>1, <1>2, Views, ViewOfFile
<1>4. FileOf(data, directory[s]) \in File
  BY <1>1, <1>2, FileType
<1> QED
  BY <1>1, <1>2, <1>3, <1>4

(* A call that changes the permissions or the size of a file *)
LEMMA InPlaceStructure ==
    ASSUME StructureInv, NEW s \in Slots, Call, Used(directory, s), NEW e \in Entry,
           SamePlace(directory[s], e), e.size <= e.capacity * SECTOR_SIZE,
           directory' = [directory EXCEPT ![s] = e],
           NEW call \in Calls \ {"none", "write"},
           NEW result \in File, Begin(call, s, directory[s].name, result),
           UNCHANGED <<ufs_ready, cached_file_count, next_free_lba, diskVars, faults>>
    PROVE  StructureInv'
<1>1. directory \in [Slots -> Entry] /\ next_free_lba \in Nat /\ Sound(directory, next_free_lba)
  BY Sizes DEF StructureInv, TypeOK
<1>2. /\ directory' \in [Slots -> Entry] /\ Sound(directory', next_free_lba)
      /\ Used(directory', s)
  BY <1>1, EntryInPlace
<1>3. cached_file_count' = count_used_entries(directory')
  BY <1>1, <1>2, UsedCount DEF StructureInv
<1> QED
  BY <1>2, <1>3, MemFile, CallCounted, StructureBegins

(* ufs_chmod *)
LEMMA ChmodStructure ==
    ASSUME StructureInv, NEW s \in Slots, NEW perm \in Perm, ufs_chmod(s, perm)
    PROVE  StructureInv'
<1>1. Call /\ Used(directory, s)
  BY DEF ufs_chmod, handle_valid
<1> DEFINE e == [directory[s] EXCEPT !.perm = perm]
           r == [MemView[directory[s].name] EXCEPT !.perm = perm]
<1>2. /\ directory[s] \in Entry /\ Fits(directory[s], next_free_lba)
      /\ MemView[directory[s].name] \in File
  BY <1>1, MemFile
<1>3. r \in File
  BY <1>2 DEF File
<1>4. e \in Entry /\ SamePlace(directory[s], e) /\ e.size <= e.capacity * SECTOR_SIZE
  BY <1>2 DEF Entry, SamePlace, Fits
<1>5. directory' = [directory EXCEPT ![s] = e] /\ Begin("chmod", s, directory[s].name, r)
  BY DEF ufs_chmod
<1> HIDE DEF e, r
<1> QED
  BY <1>1, <1>3, <1>4, <1>5, InPlaceStructure DEF ufs_chmod, Calls

(* ufs_truncate *)
LEMMA TruncateStructure ==
    ASSUME StructureInv, NEW s \in Slots, ufs_truncate(s, 0)
    PROVE  StructureInv'
<1>1. Call /\ Used(directory, s)
  BY DEF ufs_truncate, handle_valid
<1> DEFINE e == [directory[s] EXCEPT !.size = 0]
           r == [MemView[directory[s].name] EXCEPT !.bytes = SubSeq(@, 1, 0)]
<1>2. /\ directory[s] \in Entry /\ Fits(directory[s], next_free_lba)
      /\ MemView[directory[s].name] \in File
  BY <1>1, MemFile
<1>3. r \in File
  <2>1. PICK f \in File : f = MemView[directory[s].name]
    BY <1>2
  <2>2. SubSeq(f.bytes, 1, 0) \in Seq(Byte)
    BY DEF File
  <2> QED
    BY <2>1, <2>2 DEF File
<1>4. e \in Entry /\ SamePlace(directory[s], e) /\ e.size <= e.capacity * SECTOR_SIZE
  <2>1. directory[s].capacity * SECTOR_SIZE \in Nat
    BY <1>2, Sizes DEF Entry
  <2> QED
    BY <1>2, <2>1 DEF Entry, SamePlace
<1>5. directory' = [directory EXCEPT ![s] = e] /\ Begin("truncate", s, directory[s].name, r)
  BY DEF ufs_truncate
<1> HIDE DEF e, r
<1> QED
  BY <1>1, <1>3, <1>4, <1>5, InPlaceStructure DEF ufs_truncate, Calls

(* ufs_init finds on disk what it needs. *)
LEMMA MountStructure ==
    ASSUME StructureInv, Area, ufs_init
    PROVE  StructureInv'
<1>1. /\ ~ ufs_ready /\ op = Idle /\ superblock.magic /\ directory' = disk_dir
      /\ next_free_lba' = superblock.next_free
      /\ cached_file_count' = count_used_entries(disk_dir) /\ ufs_ready' = TRUE
      /\ UNCHANGED <<diskVars, op, stored, calls, faults>>
  <2>1. superblock.next_free \in UFS_DATA_LBA..UFS_DATA_END
    BY Sizes DEF StructureInv, TypeOK, Area
  <2> QED
    BY <2>1 DEF ufs_init
<1>2. TypeOK'
  BY <1>1, UsedCount DEF StructureInv, TypeOK, diskVars
<1>3. OpInv'
  BY <1>1 DEF StructureInv, OpInv, Idle, Formatting, Writing
<1>4. Sound(directory', next_free_lba') /\ DiskSound'
  BY <1>1 DEF StructureInv, DiskSound, Idle, diskVars
<1>5. Pointers' /\ SameExtents'
  BY <1>1 DEF StructureInv, Pointers, SameExtents, diskVars
<1> QED
  BY <1>1, <1>2, <1>3, <1>4, <1>5 DEF StructureInv

(* The count of an empty directory *)
LEMMA ZeroCount == count_used_entries(ZeroDirectory) = 0
<1>1. {s \in Slots : Used(ZeroDirectory, s)} = {}
  BY ZeroTypes
<1> QED
  BY <1>1, FS_EmptySet DEF count_used_entries

(* format_fresh starts from nothing. *)
LEMMA FormatStructure ==
    ASSUME StructureInv, format_fresh
    PROVE  StructureInv'
<1>1. /\ ~ ufs_ready /\ op = Idle /\ ~ superblock.magic /\ directory' = ZeroDirectory
      /\ cached_file_count' = 0 /\ next_free_lba' = UFS_DATA_LBA
      /\ op' = [Idle EXCEPT !.stage = "format_dir"]
      /\ UNCHANGED <<ufs_ready, diskVars, stored, calls, faults>>
  BY DEF format_fresh
<1>2. /\ op' \in Operation /\ op'.stage = "format_dir" /\ op'.call = "none"
      /\ op'.name = NoName
  BY <1>1, ZeroTypes DEF Operation, Idle, Stage
<1>3. TypeOK'
  <2>1. /\ UFS_DATA_LBA \in 0..UFS_DATA_END /\ 0 \in 0..UFS_MAX_ENTRIES
        /\ op'.stage \in Stage /\ op'.slot \in Slots /\ ZeroDirectory \in [Slots -> Entry]
    BY <1>2, ZeroTypes, Sizes DEF Operation
  <2>2. disk_dir' = disk_dir /\ superblock' = superblock /\ data' = data
    BY <1>1 DEF diskVars
  <2> QED
    BY <1>1, <2>1, <2>2 DEF StructureInv, TypeOK
<1>4. OpInv'
  BY <1>1, <1>2 DEF OpInv, Formatting, Writing
<1>5. Pointers' /\ SameExtents'
  BY <1>1, <1>2, ZeroTypes DEF StructureInv, Pointers, SameExtents, diskVars
<1>6. Sound(directory', next_free_lba') /\ DiskSound'
  BY <1>1, <1>2, ZeroSound DEF StructureInv, DiskSound, Idle, diskVars
<1>7. cached_file_count' = count_used_entries(directory')
  BY <1>1, ZeroCount
<1> QED
  BY <1>3, <1>4, <1>5, <1>6, <1>7 DEF StructureInv

(* A step that changes only how far the call in progress has come, outside  *)
(* the moments in which the directory on disk is ahead of the superblock    *)
LEMMA StructureStage ==
    ASSUME StructureInv, OpInv', op'.stage \in Stage, op'.slot \in Slots,
           op.stage \notin Growing \union Formatting,
           op'.stage \notin Growing \union Formatting,
           data' \in [DataBytes -> Byte], calls' \in 0..MaxCalls, faults' \in 0..MaxFaults,
           UNCHANGED <<memVars, superblock, disk_dir>>
    PROVE  StructureInv'
<1>1. TypeOK'
  BY DEF StructureInv, TypeOK, memVars
<1>2. Pointers' /\ DiskSound' /\ SameExtents'
  BY DEF StructureInv, Pointers, DiskSound, SameExtents, memVars, Growing, Formatting
<1> QED
  BY <1>1, <1>2 DEF StructureInv, memVars

(* ufs_write_at, up to its first access to the disk *)
LEMMA WriteStructure ==
    ASSUME StructureInv, NEW s \in Slots, NEW offset \in Offset, NEW buf \in Buffer,
           ufs_write_at(s, offset, buf)
    PROVE  StructureInv'
<1>1. /\ Call /\ Used(directory, s)
      /\ UNCHANGED <<memVars, diskVars, stored, faults>>
  BY DEF ufs_write_at, handle_valid
<1>2. ufs_ready /\ op = Idle /\ calls' \in 0..MaxCalls
  BY <1>1, CallCounted
<1>3. offset \in Nat /\ buf \in Seq(Byte) /\ buf # <<>>
  BY UfsAssumption
<1>4. PICK stage \in {"data", "move"} :
         /\ op' = [Idle EXCEPT !.stage = stage, !.call = "write", !.slot = s,
                               !.name = directory[s].name, !.offset = offset, !.buf = buf]
         /\ stage = "data" => InPlace(s, offset + Len(buf))
         /\ stage = "move" =>
               /\ ~ InPlace(s, offset + Len(buf))
               /\ HasRoom(NewCapacity(directory[s].capacity, sectors_for_bytes(offset + Len(buf))))
  <2>1. CASE InPlace(s, offset + Len(buf))
    BY <2>1 DEF ufs_write_at
  <2>2. CASE ~ InPlace(s, offset + Len(buf))
    BY <2>2 DEF ufs_write_at
  <2> QED
    BY <2>1, <2>2
<1>5. directory[s].name \in Name
  BY <1>1, MemFile
<1>6. /\ op' \in Operation /\ op'.stage = stage /\ op'.call = "write" /\ op'.slot = s
      /\ op'.name = directory[s].name /\ op'.offset = offset /\ op'.buf = buf
  BY <1>3, <1>4, <1>5, ZeroTypes DEF Operation, Idle, Stage, Calls
<1>7. Needed' = offset + Len(buf)
  BY <1>6 DEF Needed
<1>8. /\ InPlace(s, offset + Len(buf))' <=> InPlace(s, offset + Len(buf))
      /\ InPlace(op.slot, Needed)' <=> InPlace(s, offset + Len(buf))
      /\ HasRoom(NewCapacity(directory[op.slot].capacity, sectors_for_bytes(Needed)))'
            <=> HasRoom(NewCapacity(directory[s].capacity, sectors_for_bytes(offset + Len(buf))))
  BY <1>1, <1>6, <1>7 DEF InPlace, HasRoom, memVars, NewCapacity, sectors_for_bytes, Passes
<1>9. OpInv'
  BY <1>1, <1>2, <1>3, <1>4, <1>5, <1>6, <1>8 DEF OpInv, Formatting, Writing, memVars
<1> QED
  BY <1>1, <1>2, <1>6, <1>9, StructureStage
     DEF diskVars, Growing, Formatting, Idle, StructureInv, TypeOK, Operation

(* What a write to the data area leaves there *)
LEMMA PatchedIs ==
    ASSUME data \in [DataBytes -> Byte], NEW first, NEW bytes \in Seq(Byte)
    PROVE  /\ Patched(first, bytes) \in [DataBytes -> Byte]
           /\ \A b \in DataBytes :
                 Patched(first, bytes)[b] =
                    IF b - first + 1 \in 1..Len(bytes) THEN bytes[b - first + 1] ELSE data[b]
<1>1. DOMAIN bytes = 1..Len(bytes) /\ \A i \in 1..Len(bytes) : bytes[i] \in Byte
  OBVIOUS
<1> QED
  BY <1>1 DEF Patched

(* The bytes that one round of the copy in ensure_capacity moves, and where *)
(* they are                                                                 *)
LEMMA MoveRound ==
    ASSUME StructureInv, MoveSectors
    PROVE  LET e == directory[op.slot]
           IN  \E chunk \in Nat \ {0}, buf \in Seq(Byte) :
                  /\ Used(directory, op.slot) /\ op.done + chunk <= sectors_for_bytes(e.size)
                  /\ sectors_for_bytes(e.size) <= e.capacity
                  /\ Len(buf) = chunk * SECTOR_SIZE
                  /\ \A i \in 1..(chunk * SECTOR_SIZE) :
                        buf[i] = data[Byte0(e) + op.done * SECTOR_SIZE + i - 1]
                  /\ data' = Patched((next_free_lba + op.done) * SECTOR_SIZE, buf)
                  /\ data' \in [DataBytes -> Byte]
                  /\ op' = [op EXCEPT !.done = @ + chunk] /\ op.stage = "move"
<1> DEFINE e == directory[op.slot]
           k == sectors_for_bytes(e.size)
<1>1. /\ op.stage = "move" /\ op.done < k /\ op.call = "write" /\ op.slot \in Slots
      /\ op.done \in Nat /\ Used(directory, op.slot) /\ data \in [DataBytes -> Byte]
  BY UfsAssumption DEF MoveSectors, StructureInv, OpInv, Operation, Used, TypeOK, Writing, Formatting
<1>2. e \in Entry /\ Fits(e, next_free_lba) /\ next_free_lba \in 0..UFS_DATA_END
  BY <1>1, MemFile
<1>3. k \in Nat /\ k <= e.capacity
  BY <1>2, RoundsUp DEF Entry, Fits
<1>4. PICK chunk \in Nat \ {0} : /\ chunk = Min(k - op.done, MOVE_SECTORS)
                                 /\ op.done + chunk <= k
  <2>1. MOVE_SECTORS \in Nat \ {0}
    BY Sizes
  <2> QED
    BY <1>1, <1>3, <2>1 DEF Min
<1> DEFINE buf == [i \in 1..(chunk * SECTOR_SIZE) |->
                        data[(e.start_lba + op.done) * SECTOR_SIZE + i - 1]]
<1>5. /\ data' = Patched((next_free_lba + op.done) * SECTOR_SIZE, buf)
      /\ op' = [op EXCEPT !.done = @ + chunk]
  BY <1>4 DEF MoveSectors
<1>6. /\ (e.start_lba + op.done) * SECTOR_SIZE = Byte0(e) + op.done * SECTOR_SIZE
      /\ op.done * SECTOR_SIZE \in Nat /\ chunk * SECTOR_SIZE \in Nat
      /\ e.capacity * SECTOR_SIZE \in Nat /\ Byte0(e) \in Nat
      /\ op.done * SECTOR_SIZE + chunk * SECTOR_SIZE <= e.capacity * SECTOR_SIZE
  <2>1. e.start_lba \in Nat /\ e.capacity \in Nat
    BY <1>2 DEF Entry
  <2>2. (op.done + chunk) * SECTOR_SIZE = op.done * SECTOR_SIZE + chunk * SECTOR_SIZE
    BY <1>1, <1>4, SectorRun
  <2>3. op.done + chunk <= e.capacity
    BY <1>1, <1>3, <1>4, <2>1
  <2>4. (op.done + chunk) * SECTOR_SIZE <= e.capacity * SECTOR_SIZE
    BY <1>1, <1>4, <2>1, <2>3, SectorOrder
  <2> QED
    BY <1>1, <1>4, <2>1, <2>2, <2>4, SectorRun, SectorOrder, Sizes DEF Byte0
<1>7. ASSUME NEW i \in 1..(chunk * SECTOR_SIZE)
      PROVE  /\ (e.start_lba + op.done) * SECTOR_SIZE + i - 1
                  = Byte0(e) + op.done * SECTOR_SIZE + i - 1
             /\ data[Byte0(e) + op.done * SECTOR_SIZE + i - 1] \in Byte
  <2>1. PICK a \in Nat, b \in Nat, c \in Nat, d \in Nat :
           /\ a = Byte0(e) /\ b = op.done * SECTOR_SIZE /\ c = chunk * SECTOR_SIZE
           /\ d = e.capacity * SECTOR_SIZE
    BY <1>6
  <2>2. b + i \in 1..d
    BY <1>6, <2>1
  <2>3. Byte0(e) + (b + i) - 1 \in DataBytes
    BY <1>2, <2>1, <2>2, ByteInside
  <2>4. Byte0(e) + (b + i) - 1 = a + b + i - 1
    BY <2>1
  <2> QED
    BY <1>1, <1>6, <2>1, <2>3, <2>4
<1>8. buf \in Seq(Byte) /\ Len(buf) = chunk * SECTOR_SIZE
  BY <1>6, <1>7
<1>9. \A i \in 1..(chunk * SECTOR_SIZE) : buf[i] = data[Byte0(e) + op.done * SECTOR_SIZE + i - 1]
  BY <1>7
<1> HIDE DEF buf
<1>10. data' \in [DataBytes -> Byte]
  BY <1>1, <1>5, <1>8, PatchedIs
<1> QED
  BY <1>1, <1>3, <1>4, <1>5, <1>8, <1>9, <1>10

(* A step of the loops in ufs_write_at and ensure_capacity changes the data *)
(* area and the progress of the call.                                       *)
LEMMA LoopStructure ==
    ASSUME StructureInv, NEW d \in Nat, op.stage \in {"move", "data"},
           op' = [op EXCEPT !.done = d], data' \in [DataBytes -> Byte],
           UNCHANGED <<memVars, superblock, disk_dir, calls, faults>>
    PROVE  StructureInv'
<1>1. op \in Operation
  BY DEF StructureInv, OpInv
<1>2. /\ op' \in Operation /\ op'.stage = op.stage /\ op'.call = op.call /\ op'.slot = op.slot
      /\ op'.name = op.name /\ op'.offset = op.offset /\ op'.buf = op.buf
  BY <1>1 DEF Operation
<1>3. Needed' = Needed
  BY <1>2 DEF Needed
<1>4. /\ InPlace(op.slot, Needed)' <=> InPlace(op.slot, Needed)
      /\ HasRoom(NewCapacity(directory[op.slot].capacity, sectors_for_bytes(Needed)))'
            <=> HasRoom(NewCapacity(directory[op.slot].capacity, sectors_for_bytes(Needed)))
  BY <1>2, <1>3 DEF InPlace, HasRoom, memVars, NewCapacity, sectors_for_bytes, Passes
<1>5. OpInv'
  BY <1>2, <1>4 DEF StructureInv, OpInv, Formatting, Writing, memVars
<1> QED
  BY <1>1, <1>2, <1>5, StructureStage DEF Growing, Formatting, StructureInv, TypeOK, Operation

(* One round of the copy *)
LEMMA MoveStructure ==
    ASSUME StructureInv, MoveSectors
    PROVE  StructureInv'
<1>1. PICK chunk \in Nat \ {0}, buf \in Seq(Byte) :
         /\ data' \in [DataBytes -> Byte]
         /\ op' = [op EXCEPT !.done = @ + chunk] /\ op.stage = "move"
  BY MoveRound
<1>2. op.done + chunk \in Nat /\ op' = [op EXCEPT !.done = op.done + chunk]
  BY <1>1 DEF StructureInv, OpInv, Operation
<1> QED
  BY <1>1, <1>2, LoopStructure DEF MoveSectors

(* One round of the loop in ufs_write_at: which bytes go where *)
LEMMA WriteRound ==
    ASSUME StructureInv, WriteSector
    PROVE  LET e == directory[op.slot]
           IN  \E chunk \in Nat \ {0}, src \in Seq(Byte) :
                  /\ Used(directory, op.slot) /\ op.done + chunk <= Len(op.buf)
                  /\ Len(src) = chunk /\ \A i \in 1..chunk : src[i] = op.buf[op.done + i]
                  /\ data' = Patched(Byte0(e) + (op.offset + op.done), src)
                  /\ data' \in [DataBytes -> Byte]
                  /\ op' = [op EXCEPT !.done = @ + chunk] /\ op.stage = "data"
<1> DEFINE e == directory[op.slot]
           cur == op.offset + op.done
<1>1. /\ op.stage = "data" /\ op.done < Len(op.buf) /\ op.call = "write" /\ op.slot \in Slots
      /\ op.done \in Nat /\ op.offset \in Nat /\ op.buf \in Seq(Byte)
      /\ Used(directory, op.slot) /\ data \in [DataBytes -> Byte]
  BY UfsAssumption DEF WriteSector, StructureInv, OpInv, Operation, Used, TypeOK, Writing, Formatting
<1>2. PICK L \in Nat : L = Len(op.buf)
  BY <1>1
<1>3. PICK r \in Nat : r = SECTOR_SIZE - (cur % SECTOR_SIZE) /\ r > 0
  <2>1. PICK d \in Nat \ {0} : d = SECTOR_SIZE
    BY Sizes
  <2>2. PICK c \in Nat : c = cur
    BY <1>1
  <2>3. c % d \in 0..(d - 1)
    OBVIOUS
  <2> QED
    BY <2>1, <2>2, <2>3
<1>4. PICK chunk \in Nat \ {0} : /\ chunk = Min(SECTOR_SIZE - (cur % SECTOR_SIZE), Len(op.buf) - op.done)
                                 /\ op.done + chunk <= L
  BY <1>1, <1>2, <1>3 DEF Min
<1> DEFINE src == SubSeq(op.buf, op.done + 1, op.done + chunk)
<1>5. /\ data' = Patched(e.start_lba * SECTOR_SIZE + cur, src)
      /\ op' = [op EXCEPT !.done = @ + chunk]
  BY <1>4 DEF WriteSector
<1>6. src \in Seq(Byte) /\ Len(src) = chunk /\ \A i \in 1..chunk : src[i] = op.buf[op.done + i]
  <2>1. PICK q \in Seq(Byte), m \in Nat, n \in Nat :
           q = op.buf /\ m = op.done + 1 /\ n = op.done + chunk /\ 1 <= m /\ m <= n /\ n <= Len(q)
    BY <1>1, <1>2, <1>4
  <2>2. \A i \in m..n : q[i] \in Byte
    BY <2>1
  <2>3. /\ SubSeq(q, m, n) \in Seq(Byte) /\ Len(SubSeq(q, m, n)) = n - m + 1
        /\ \A i \in 1..(n - m + 1) : SubSeq(q, m, n)[i] = q[m + i - 1]
    BY <2>1, <2>2, SubSeqProperties, SMTT(60)
  <2>4. src = SubSeq(q, m, n) /\ n - m + 1 = chunk
    BY <1>1, <1>4, <2>1
  <2>5. \A i \in 1..chunk : m + i - 1 = op.done + i
    BY <1>1, <2>1
  <2> HIDE DEF src
  <2> QED
    BY <2>1, <2>3, <2>4, <2>5
<1> HIDE DEF src
<1>7. data' \in [DataBytes -> Byte]
  BY <1>1, <1>5, <1>6, PatchedIs
<1> QED
  BY <1>1, <1>2, <1>4, <1>5, <1>6, <1>7 DEF Byte0

(* One round of the write *)
LEMMA WriteSectorStructure ==
    ASSUME StructureInv, WriteSector
    PROVE  StructureInv'
<1>1. PICK chunk \in Nat \ {0}, src \in Seq(Byte) :
         /\ data' \in [DataBytes -> Byte]
         /\ op' = [op EXCEPT !.done = @ + chunk] /\ op.stage = "data"
  BY WriteRound
<1>2. op.done + chunk \in Nat /\ op' = [op EXCEPT !.done = op.done + chunk]
  BY <1>1 DEF StructureInv, OpInv, Operation
<1> QED
  BY <1>1, <1>2, LoopStructure DEF WriteSector

(* The entry that Relocate leaves *)
LEMMA RelocatedEntry ==
    ASSUME StructureInv, Relocate
    PROVE  LET old == directory[op.slot]
               cap == NewCapacity(old.capacity, sectors_for_bytes(Needed))
               e   == [old EXCEPT !.start_lba = next_free_lba, !.capacity = cap]
           IN  /\ op.stage = "move" /\ op.call = "write" /\ op.slot \in Slots
               /\ Used(directory, op.slot) /\ old \in Entry /\ Fits(old, next_free_lba)
               /\ cap \in Nat /\ cap >= old.capacity
               /\ next_free_lba \in Nat /\ next_free_lba + cap \in 0..UFS_DATA_END
               /\ directory' = [directory EXCEPT ![op.slot] = e] /\ e \in Entry
               /\ Fits(e, next_free_lba + cap) /\ Needed \in Nat /\ Needed <= cap * SECTOR_SIZE
               /\ \A t \in Slots : (t # op.slot /\ Used(directory, t)) => Apart(e, directory[t])
<1> DEFINE old == directory[op.slot]
           k   == sectors_for_bytes(Needed)
           cap == NewCapacity(old.capacity, k)
           e   == [old EXCEPT !.start_lba = next_free_lba, !.capacity = cap]
<1>1. /\ op.stage = "move" /\ op.call = "write" /\ op.slot \in Slots /\ op.offset \in Nat
      /\ op.buf \in Seq(Byte) /\ Used(directory, op.slot) /\ HasRoom(cap)
      /\ directory \in [Slots -> Entry]
  BY UfsAssumption DEF Relocate, StructureInv, OpInv, Operation, Used, TypeOK, Writing, Formatting
<1>2. old \in Entry /\ Fits(old, next_free_lba) /\ next_free_lba \in 0..UFS_DATA_END
  BY <1>1, MemFile
<1>3. Needed \in Nat
  BY <1>1 DEF Needed
<1>4. k \in Nat /\ Needed <= k * SECTOR_SIZE
  BY <1>3, RoundsUp
<1>5. old.capacity \in Nat /\ old.start_lba \in Nat /\ old.size \in Nat
  BY <1>2 DEF Entry
<1>6. cap \in Nat /\ cap >= k /\ cap >= old.capacity
  BY <1>4, <1>5, NewCapacityIsEnough
<1> HIDE DEF cap, k
<1>7. next_free_lba \in Nat /\ next_free_lba + cap \in 0..UFS_DATA_END
  BY <1>1, <1>2, <1>6, Sizes DEF HasRoom
<1>8. /\ Needed <= cap * SECTOR_SIZE /\ old.size <= cap * SECTOR_SIZE
  <2>1. /\ k * SECTOR_SIZE <= cap * SECTOR_SIZE /\ k * SECTOR_SIZE \in Nat
        /\ old.capacity * SECTOR_SIZE <= cap * SECTOR_SIZE
        /\ old.capacity * SECTOR_SIZE \in Nat /\ cap * SECTOR_SIZE \in Nat
    BY <1>4, <1>5, <1>6, SectorOrder, Sizes
  <2> QED
    BY <1>2, <1>3, <1>4, <1>5, <2>1 DEF Fits
<1>9. directory' = [directory EXCEPT ![op.slot] = e]
  <2>1. directory' = [directory EXCEPT ![op.slot].start_lba = next_free_lba,
                                       ![op.slot].capacity = cap]
    BY DEF Relocate, cap, k
  <2> QED
    BY <1>1, <2>1
<1>10. e \in Entry /\ e.start_lba = next_free_lba /\ e.capacity = cap /\ e.name = old.name
       /\ e.size = old.size
  <2>1. cap \in 0..UFS_DATA_END
    BY <1>6, <1>7, Sizes
  <2> QED
    BY <1>2, <2>1 DEF Entry
<1> HIDE DEF e
<1>11. Fits(e, next_free_lba + cap)
  BY <1>7, <1>6, <1>8, <1>10 DEF Fits
<1>12. ASSUME NEW t \in Slots, t # op.slot, Used(directory, t)
       PROVE  Apart(e, directory[t])
  <2>1. Apart(old, directory[t]) /\ directory[t] \in Entry /\ Fits(directory[t], next_free_lba)
    BY <1>1, <1>12, MemFile DEF StructureInv, Sound
  <2> QED
    BY <1>10, <2>1 DEF Apart, Fits
<1> QED
  BY <1>1, <1>2, <1>3, <1>6, <1>7, <1>8, <1>9, <1>10, <1>11, <1>12 DEF cap, e, k

(* The file has its new sectors, in memory. *)
LEMMA RelocateStructure ==
    ASSUME StructureInv, Relocate
    PROVE  StructureInv'
<1> DEFINE old == directory[op.slot]
<1>1. PICK cap \in Nat, e \in Entry :
         /\ cap = NewCapacity(old.capacity, sectors_for_bytes(Needed))
         /\ e = [old EXCEPT !.start_lba = next_free_lba, !.capacity = cap]
         /\ op.stage = "move" /\ op.call = "write" /\ op.slot \in Slots
         /\ Used(directory, op.slot) /\ old \in Entry
         /\ next_free_lba \in Nat /\ next_free_lba + cap \in 0..UFS_DATA_END
         /\ directory' = [directory EXCEPT ![op.slot] = e]
         /\ Fits(e, next_free_lba + cap) /\ Needed \in Nat /\ Needed <= cap * SECTOR_SIZE
         /\ \A t \in Slots : (t # op.slot /\ Used(directory, t)) => Apart(e, directory[t])
  BY RelocatedEntry
<1>2. /\ next_free_lba' = next_free_lba + cap
      /\ op' = [op EXCEPT !.stage = "grow_dir", !.done = 0]
      /\ UNCHANGED <<ufs_ready, cached_file_count, diskVars, stored, calls, faults>>
  BY <1>1 DEF Relocate
<1>3. /\ directory \in [Slots -> Entry] /\ Sound(directory, next_free_lba) /\ op \in Operation
      /\ superblock.next_free = next_free_lba /\ ufs_ready /\ op.name \in Name
      /\ old.name = op.name /\ op.buf # <<>>
  BY <1>1 DEF StructureInv, TypeOK, OpInv, Pointers, Growing, Formatting
<1>4. e.name = old.name /\ e.capacity = cap
  BY <1>1 DEF Entry
<1>5. directory' \in [Slots -> Entry] /\ Sound(directory', next_free_lba')
  <2>1. next_free_lba <= next_free_lba + cap /\ next_free_lba + cap \in Nat
    BY <1>1
  <2> QED
    BY <1>1, <1>2, <1>3, <2>1, ReplacedEntry
<1>6. cached_file_count' = count_used_entries(directory')
  <2>1. Used(directory', op.slot)
    BY <1>1, <1>3, <1>4 DEF Used
  <2> QED
    BY <1>1, <1>2, <1>3, <2>1, UsedCount DEF StructureInv
<1>7. /\ op' \in Operation /\ op'.stage = "grow_dir" /\ op'.call = "write" /\ op'.slot = op.slot
      /\ op'.name = op.name /\ op'.offset = op.offset /\ op'.buf = op.buf
  BY <1>1, <1>2, <1>3 DEF Operation, Stage
<1>8. TypeOK'
  BY <1>1, <1>2, <1>5, <1>7 DEF StructureInv, TypeOK, diskVars, Operation
<1>9. OpInv'
  <2>1. Needed' = Needed
    BY <1>7 DEF Needed
  <2>2. directory'[op.slot] = e
    BY <1>1, <1>3
  <2>3. InPlace(op.slot, Needed)'
    BY <1>1, <1>4, <1>7, <2>1, <2>2 DEF InPlace
  <2> QED
    BY <1>2, <1>3, <1>4, <1>7, <2>2, <2>3 DEF OpInv, Formatting, Writing
<1>10. Pointers'
  BY <1>2, <1>3, <1>7 DEF StructureInv, Pointers, Growing, diskVars
<1>11. DiskSound'
  BY <1>1, <1>2, <1>7 DEF StructureInv, DiskSound, diskVars
<1>12. SameExtents'
  <2> SUFFICES ASSUME NEW t \in Slots, t # op.slot, Used(directory', t),
                      directory'[t].capacity > 0
               PROVE  SamePlace(directory'[t], disk_dir[t])
    BY <1>2, <1>7 DEF SameExtents, SamePlace, diskVars
  <2>1. directory'[t] = directory[t]
    BY <1>1, <1>3
  <2> QED
    BY <1>1, <2>1 DEF StructureInv, SameExtents, SamePlace, Used
<1> QED
  BY <1>5, <1>6, <1>8, <1>9, <1>10, <1>11, <1>12 DEF StructureInv

(* The loop of ufs_write_at is over. *)
LEMMA EndWriteStructure ==
    ASSUME StructureInv, EndWrite
    PROVE  StructureInv'
<1> DEFINE s == op.slot
<1>1. /\ op.stage = "data" /\ op.call = "write" /\ s \in Slots /\ op.offset \in Nat
      /\ op.buf \in Seq(Byte) /\ Used(directory, s) /\ op \in Operation /\ ufs_ready
      /\ op.name \in Name /\ directory[s].name = op.name /\ op.buf # <<>>
      /\ directory \in [Slots -> Entry] /\ Sound(directory, next_free_lba)
      /\ UNCHANGED <<ufs_ready, cached_file_count, next_free_lba, diskVars, calls, faults>>
  BY UfsAssumption DEF EndWrite, StructureInv, OpInv, Operation, Used, TypeOK, Writing, Formatting
<1>2. /\ directory[s] \in Entry /\ Fits(directory[s], next_free_lba)
      /\ next_free_lba \in 0..UFS_DATA_END /\ next_free_lba \in Nat
  <2>1. /\ directory[s] \in Entry /\ Fits(directory[s], next_free_lba)
        /\ next_free_lba \in 0..UFS_DATA_END
    BY <1>1, MemFile
  <2> QED
    BY <2>1, Sizes
<1>3. Needed \in Nat /\ Needed <= directory[s].capacity * SECTOR_SIZE
  BY <1>1 DEF Needed, StructureInv, OpInv, InPlace
<1>4. CASE Needed > directory[s].size
  <2> DEFINE e == [directory[s] EXCEPT !.size = Needed]
  <2>1. directory' = [directory EXCEPT ![s] = e] /\ op' = [op EXCEPT !.stage = "dir"]
    BY <1>4 DEF EndWrite
  <2>2. e \in Entry /\ SamePlace(directory[s], e) /\ e.size <= e.capacity * SECTOR_SIZE
    BY <1>2, <1>3 DEF Entry, SamePlace
  <2> HIDE DEF e
  <2>3. /\ directory' \in [Slots -> Entry] /\ Sound(directory', next_free_lba)
        /\ Used(directory', s)
    BY <1>1, <1>2, <2>1, <2>2, EntryInPlace
  <2>4. cached_file_count' = count_used_entries(directory')
    BY <1>1, <2>1, <2>2, <2>3, UsedCount DEF StructureInv
  <2>5. /\ op' \in Operation /\ op'.stage = "dir" /\ op'.call = "write" /\ op'.slot = s
        /\ op'.name = op.name /\ op'.buf = op.buf
    BY <1>1, <2>1 DEF Operation, Stage
  <2>6. TypeOK'
    BY <1>1, <2>3, <2>5 DEF StructureInv, TypeOK, diskVars, Operation
  <2>7. OpInv'
    <3>1. directory'[s].name = op.name
      BY <1>1, <2>1, <2>2 DEF SamePlace
    <3> QED
      BY <1>1, <2>5, <3>1 DEF OpInv, Formatting, Writing
  <2>8. Pointers' /\ DiskSound'
    BY <1>1, <2>5 DEF StructureInv, Pointers, DiskSound, Growing, diskVars
  <2>9. SameExtents'
    <3> SUFFICES ASSUME NEW t \in Slots, Used(directory', t), directory'[t].capacity > 0
                 PROVE  SamePlace(directory'[t], disk_dir[t])
      BY <1>1, <2>5 DEF SameExtents, SamePlace, diskVars
    <3>1. SamePlace(directory[t], directory'[t])
      <4>1. CASE t = s
        BY <1>1, <2>1, <2>2, <4>1
      <4>2. CASE t # s
        BY <1>1, <2>1, <4>2 DEF SamePlace
      <4> QED
        BY <4>1, <4>2
    <3>2. Used(directory, t) /\ directory[t].capacity > 0
      BY <3>1 DEF SamePlace, Used
    <3> QED
      BY <1>1, <3>1, <3>2 DEF StructureInv, SameExtents, SamePlace
  <2> QED
    BY <1>1, <2>3, <2>4, <2>6, <2>7, <2>8, <2>9 DEF StructureInv
<1>5. CASE ~ (Needed > directory[s].size)
  <2>1. op' = Idle /\ UNCHANGED directory
    BY <1>5 DEF EndWrite
  <2>2. OpInv'
    BY <1>1, <2>1, ZeroTypes DEF OpInv, Formatting, Writing, Idle
  <2> QED
    BY <1>1, <2>1, <2>2, StructureStage, Sizes
       DEF diskVars, memVars, Idle, Growing, Formatting, StructureInv, TypeOK, Stage
<1> QED
  BY <1>4, <1>5

(* What holds in every state, in one place *)
LEMMA StructureFacts ==
    ASSUME StructureInv
    PROVE  /\ directory \in [Slots -> Entry] /\ disk_dir \in [Slots -> Entry]
           /\ next_free_lba \in 0..UFS_DATA_END /\ data \in [DataBytes -> Byte]
           /\ superblock.magic \in BOOLEAN /\ superblock.next_free \in 0..UFS_DATA_END
           /\ op \in Operation /\ op.slot \in Slots /\ op.stage \in Stage
           /\ op.done \in Nat /\ op.offset \in Nat /\ op.buf \in Seq(Byte)
           /\ op.name \in Name \union {NoName}
           /\ Sound(directory, next_free_lba)
           /\ op.stage \notin Growing => Sound(disk_dir, superblock.next_free)
           /\ op.stage = "grow_sb" => Sound(disk_dir, next_free_lba)
           /\ (op # Idle \/ ufs_ready) /\ op.stage \notin Growing =>
                 superblock.next_free = next_free_lba
<1>1. (op # Idle \/ ufs_ready) /\ op.stage \notin Growing => superblock.next_free = next_free_lba
  <2>1. CASE ufs_ready
    BY <2>1 DEF StructureInv, Pointers
  <2>2. CASE ~ ufs_ready /\ op # Idle
    <3>1. op.stage \in Formatting
      BY <2>2 DEF StructureInv, OpInv
    <3> QED
      BY <2>2, <3>1 DEF StructureInv, Pointers
  <2> QED
    BY <2>1, <2>2
<1> QED
  BY <1>1 DEF StructureInv, TypeOK, OpInv, Operation, DiskSound, Growing

(* The stages, told apart *)
LEMMA StageCases ==
    ASSUME StructureInv
    PROVE  /\ op.stage \in {"dir", "sb"} \union Writing => ufs_ready /\ op.name \in Name
           /\ op.stage \in Formatting => ~ ufs_ready /\ op.name = NoName
           /\ op.stage = "idle" => op.name = NoName
  BY DEF StructureInv, OpInv, Formatting, Writing, Idle

(* The directory is written to its last sector. *)
DirectoryDone ==
    /\ persist_directory
    /\ ~ (op.sectors + 1 < UFS_DIR_SECTORS)

(* One of its sectors is written, not the last. *)
LEMMA SectorWritten ==
    ASSUME StructureInv, persist_directory, ~ DirectoryDone
    PROVE  /\ op' = [op EXCEPT !.sectors = @ + 1] /\ op.stage \in {"dir", "grow_dir", "format_dir"}
           /\ op' \in Operation /\ op'.stage = op.stage /\ op'.call = op.call
           /\ op'.slot = op.slot /\ op'.name = op.name /\ op'.offset = op.offset
           /\ op'.buf = op.buf /\ op'.done = op.done /\ op'.result = op.result
           /\ UNCHANGED <<memVars, diskVars, stored, calls, faults>>
<1>1. /\ op' = [op EXCEPT !.sectors = @ + 1] /\ op.stage \in {"dir", "grow_dir", "format_dir"}
      /\ UNCHANGED <<memVars, diskVars, stored, calls, faults>>
  BY DEF persist_directory, DirectoryDone, diskVars
<1>2. op \in Operation /\ op.sectors + 1 \in Nat
  BY StructureFacts DEF Operation
<1> QED
  BY <1>1, <1>2 DEF Operation

LEMMA SectorStructure ==
    ASSUME StructureInv, persist_directory, ~ DirectoryDone
    PROVE  StructureInv'
<1>1. OpInv'
  <2>1. Needed' = Needed
    BY SectorWritten DEF Needed
  <2>2. InPlace(op.slot, Needed)' <=> InPlace(op.slot, Needed)
    BY <2>1, SectorWritten DEF InPlace, memVars
  <2> QED
    BY <2>2, SectorWritten DEF StructureInv, OpInv, Formatting, Writing, memVars
<1>2. TypeOK' /\ Pointers' /\ DiskSound' /\ SameExtents'
  BY SectorWritten DEF StructureInv, TypeOK, Pointers, DiskSound, SameExtents, memVars, diskVars
<1> QED
  BY <1>1, <1>2, SectorWritten DEF StructureInv, memVars

(* persist_directory *)
LEMMA DirectoryStructure ==
    ASSUME StructureInv, persist_directory, DirectoryDone
    PROVE  StructureInv'
<1>1. /\ op.stage \in {"dir", "grow_dir", "format_dir"} /\ disk_dir' = directory
      /\ UNCHANGED <<memVars, superblock, data, stored, calls, faults>>
      /\ op' = [op EXCEPT !.sectors = 0,
                          !.stage = CASE @ = "dir" -> "sb"
                                      [] @ = "grow_dir" -> "grow_sb"
                                      [] @ = "format_dir" -> "format_sb"]
  BY DEF persist_directory, DirectoryDone
<1>2. PICK stage \in {"sb", "grow_sb", "format_sb"} :
         /\ op' = [op EXCEPT !.sectors = 0, !.stage = stage]
         /\ op.stage = "dir" <=> stage = "sb"
         /\ op.stage = "grow_dir" <=> stage = "grow_sb"
         /\ op.stage = "format_dir" <=> stage = "format_sb"
  <2>1. op \in Operation
    BY StructureFacts
  <2> QED
    BY <1>1, <2>1
<1>3. /\ op' \in Operation /\ op'.stage = stage /\ op'.call = op.call /\ op'.slot = op.slot
      /\ op'.name = op.name /\ op'.offset = op.offset /\ op'.buf = op.buf
  BY <1>2, StructureFacts DEF Operation, Stage
<1>4. TypeOK'
  BY <1>1, <1>3 DEF StructureInv, TypeOK, memVars, Operation
<1>5. OpInv'
  <2>1. Needed' = Needed
    BY <1>3 DEF Needed
  <2>2. InPlace(op.slot, Needed)' <=> InPlace(op.slot, Needed)
    BY <1>1, <1>3, <2>1 DEF InPlace, memVars
  <2> QED
    BY <1>1, <1>2, <1>3, <2>2 DEF StructureInv, OpInv, Formatting, Writing, memVars
<1>6. Pointers'
  BY <1>1, <1>2, <1>3 DEF StructureInv, Pointers, memVars, Growing, Formatting
<1>7. DiskSound'
  <2>1. CASE stage = "grow_sb"
    BY <1>1, <1>3, <2>1, StructureFacts DEF DiskSound, memVars
  <2>2. CASE stage # "grow_sb"
    <3>1. op # Idle /\ op.stage \notin Growing
      BY <1>1, <1>2, <2>2 DEF Idle, Growing
    <3> QED
      BY <1>1, <1>3, <2>2, <3>1, StructureFacts DEF DiskSound, memVars
  <2> QED
    BY <2>1, <2>2
<1>8. SameExtents'
  BY <1>1 DEF SameExtents, memVars
<1> QED
  BY <1>1, <1>4, <1>5, <1>6, <1>7, <1>8 DEF StructureInv, memVars

(* persist_superblock *)
LEMMA SuperblockStructure ==
    ASSUME StructureInv, persist_superblock
    PROVE  StructureInv'
<1>1. /\ op.stage \in {"sb", "grow_sb", "format_sb"} /\ ufs_ready' = TRUE
      /\ superblock' = [magic |-> TRUE, next_free |-> next_free_lba]
      /\ op' = IF op.stage = "grow_sb" THEN [op EXCEPT !.stage = "data"] ELSE Idle
      /\ UNCHANGED <<directory, cached_file_count, next_free_lba, disk_dir, data, calls, faults>>
  BY DEF persist_superblock
<1>2. Sound(disk_dir, next_free_lba)
  <2>1. CASE op.stage = "grow_sb"
    BY <2>1, StructureFacts
  <2>2. CASE op.stage # "grow_sb"
    BY <1>1, <2>2, StructureFacts DEF Idle, Growing
  <2> QED
    BY <2>1, <2>2
<1>3. op' \in Operation /\ op'.stage \in {"idle", "data"} /\ op'.slot \in Slots
  BY <1>1, StructureFacts, ZeroTypes DEF Operation, Stage, Idle
<1>4. TypeOK'
  BY <1>1, <1>3, StructureFacts DEF StructureInv, TypeOK, Stage
<1>5. OpInv'
  <2>1. CASE op.stage = "grow_sb"
    <3>1. /\ op'.stage = "data" /\ op'.call = op.call /\ op'.slot = op.slot
          /\ op'.name = op.name /\ op'.offset = op.offset /\ op'.buf = op.buf
      BY <1>1, <2>1, StructureFacts DEF Operation
    <3>2. Needed' = Needed
      BY <3>1 DEF Needed
    <3>3. InPlace(op.slot, Needed)' <=> InPlace(op.slot, Needed)
      BY <1>1, <3>1, <3>2 DEF InPlace
    <3> QED
      BY <1>1, <1>3, <2>1, <3>1, <3>3 DEF StructureInv, OpInv, Formatting, Writing
  <2>2. CASE op.stage # "grow_sb"
    BY <1>1, <2>2, ZeroTypes DEF OpInv, Idle, Formatting, Writing
  <2> QED
    BY <2>1, <2>2
<1>6. Pointers' /\ DiskSound'
  BY <1>1, <1>2, <1>3 DEF Pointers, DiskSound
<1>7. SameExtents'
  BY <1>1, <1>3 DEF StructureInv, SameExtents
<1> QED
  BY <1>1, <1>4, <1>5, <1>6, <1>7, StructureFacts DEF StructureInv

(* A fault is counted. *)
LEMMA FaultCounted ==
    ASSUME StructureInv, Fault
    PROVE  faults' \in 0..MaxFaults /\ calls' = calls
<1>1. MaxFaults \in Nat /\ faults \in 0..MaxFaults
  BY UfsAssumption DEF StructureInv, TypeOK
<1> QED
  BY <1>1 DEF Fault

(* The call in progress is over. *)
LEMMA IdleInv ==
    ASSUME op' = Idle
    PROVE  OpInv'
  BY ZeroTypes DEF OpInv, Idle, Formatting, Writing

(* What a fault finds on disk, given the moment it falls into *)
LEMMA MomentCases ==
    /\ Moment # "torn" => OnDisk \in {disk_dir, directory}
    /\ Moment \in {op.stage, "torn", "grow_sb"}
    /\ (op.stage = "grow_dir" /\ Moment \notin {"torn", "grow_sb"}) => OnDisk = disk_dir
<1>1. CASE OnDisk \notin {disk_dir, directory}
  BY <1>1 DEF Moment
<1>2. CASE OnDisk \in {disk_dir, directory} /\ OnDisk = directory /\ OnDisk # disk_dir
           /\ op.stage = "grow_dir"
  BY <1>2 DEF Moment
<1>3. CASE OnDisk \in {disk_dir, directory}
           /\ ~ (OnDisk = directory /\ OnDisk # disk_dir /\ op.stage = "grow_dir")
  BY <1>3 DEF Moment
<1> QED
  BY <1>1, <1>2, <1>3

(* A failed write that is tolerated *)
LEMMA AtaMoment ==
    ASSUME FaultsOutsideMoves, AtaFails
    PROVE  /\ op.stage \in AtaFailsAt /\ op.stage \notin Growing
           /\ OnDisk \in {disk_dir, directory}
<1>1. Moment \in AtaFailsAt /\ Moment \notin {"torn", "grow_sb", "grow_dir"}
  BY DEF AtaFails, FaultsOutsideMoves, Growing
<1> QED
  BY <1>1, MomentCases DEF Growing

(* ata_write_sectors fails outside a move. *)
LEMMA AtaFailsStructure ==
    ASSUME FaultsOutsideMoves, StructureInv, AtaFails
    PROVE  StructureInv'
<1>1. /\ op.stage \in AtaFailsAt /\ op.stage \notin Growing /\ faults' \in 0..MaxFaults
      /\ OnDisk \in {disk_dir, directory}
      /\ UNCHANGED <<directory, cached_file_count, next_free_lba, data, calls>>
  BY FaultCounted, AtaMoment DEF AtaFails
<1>2. CASE /\ op.stage \in Formatting
           /\ op' = IF op.stage = "format_dir"
                    THEN [op EXCEPT !.stage = "format_sb", !.sectors = 0] ELSE Idle
           /\ ufs_ready' = (op.stage = "format_sb")
           /\ disk_dir' = OnDisk
           /\ UNCHANGED <<superblock, stored>>
  <2>1. /\ op' \in Operation /\ op'.stage \in {"format_sb", "idle"} /\ op'.slot \in Slots
        /\ op'.stage = "idle" <=> op.stage = "format_sb"
    BY <1>2, StructureFacts, ZeroTypes DEF Operation, Stage, Idle, Formatting
  <2>2. TypeOK'
    BY <1>1, <1>2, <2>1, StructureFacts DEF StructureInv, TypeOK, Stage
  <2>3. OpInv'
    <3>1. CASE op.stage = "format_sb"
      BY <1>2, <3>1, IdleInv
    <3>2. CASE op.stage = "format_dir"
      <4>1. op'.stage = "format_sb" /\ op'.call = op.call /\ op'.name = op.name
        BY <1>2, <3>2, StructureFacts DEF Operation
      <4> QED
        BY <1>2, <2>1, <3>2, <4>1 DEF StructureInv, OpInv, Formatting, Writing
    <3> QED
      BY <1>2, <3>1, <3>2 DEF Formatting
  <2>4. superblock.next_free = next_free_lba
    BY <1>1, <1>2, StructureFacts DEF Idle, Formatting
  <2>5. /\ directory = ZeroDirectory /\ ~ superblock.magic
        /\ Sound(disk_dir, next_free_lba) /\ Sound(directory, next_free_lba)
    BY <1>1, <1>2, <2>4, StageCases, StructureFacts DEF StructureInv, Pointers
  <2>6. DiskSound'
    BY <1>1, <1>2, <2>1, <2>4, <2>5 DEF DiskSound
  <2>7. SameExtents'
    BY <1>1, <2>5, ZeroTypes DEF SameExtents
  <2>8. Pointers'
    BY <1>1, <1>2, <2>1, <2>4, <2>5 DEF StructureInv, OpInv, Pointers, Formatting
  <2> QED
    BY <1>1, <1>2, <2>2, <2>3, <2>6, <2>7, <2>8 DEF StructureInv
<1>3. CASE /\ op.stage \in {"move", "data"} /\ op' = Idle
           /\ UNCHANGED <<ufs_ready, superblock, disk_dir>>
  <2>1. OpInv' /\ op'.stage = "idle" /\ op'.slot \in Slots
    BY <1>3, IdleInv, Sizes DEF Idle
  <2>2. data' \in [DataBytes -> Byte] /\ calls' \in 0..MaxCalls
    BY <1>1 DEF StructureInv, TypeOK
  <2> QED
    BY <1>1, <1>3, <2>1, <2>2, StructureStage DEF memVars, Growing, Formatting, Stage
<1>4. CASE /\ op.stage \in {"dir", "sb"} /\ op' = Idle /\ UNCHANGED ufs_ready
           /\ \/ op.stage = "dir" /\ disk_dir' = directory /\ UNCHANGED superblock
              \/ /\ op.stage = "sb" /\ UNCHANGED disk_dir
                 /\ superblock' = [magic |-> TRUE, next_free |-> next_free_lba]
              \/ UNCHANGED <<superblock, disk_dir>>
  <2>1. OpInv' /\ op'.stage = "idle" /\ op'.slot \in Slots
    BY <1>4, IdleInv, Sizes DEF Idle
  <2>2. /\ superblock.next_free = next_free_lba /\ ufs_ready
        /\ Sound(disk_dir, next_free_lba) /\ Sound(directory, next_free_lba)
    BY <1>1, <1>4, StructureFacts, StageCases DEF Idle
  <2>3. /\ disk_dir' \in {directory, disk_dir} /\ superblock'.next_free = next_free_lba
        /\ superblock' \in [magic : BOOLEAN, next_free : 0..UFS_DATA_END]
        /\ ~ superblock'.magic => ~ superblock.magic
    <3>1. /\ superblock \in [magic : BOOLEAN, next_free : 0..UFS_DATA_END]
          /\ next_free_lba \in 0..UFS_DATA_END
      BY DEF StructureInv, TypeOK
    <3>2. CASE UNCHANGED superblock
      BY <1>4, <2>2, <3>1, <3>2
    <3>3. CASE superblock' = [magic |-> TRUE, next_free |-> next_free_lba]
      BY <1>4, <3>1, <3>3
    <3> QED
      BY <1>4, <3>2, <3>3
  <2>4. TypeOK'
    BY <1>1, <1>4, <2>1, <2>3, StructureFacts DEF StructureInv, TypeOK, Stage
  <2>5. Pointers'
    BY <1>1, <1>4, <2>1, <2>2, <2>3 DEF StructureInv, Pointers
  <2>6. DiskSound'
    BY <2>1, <2>2, <2>3 DEF DiskSound
  <2>7. SameExtents'
    BY <1>1, <1>4, <2>1, <2>3 DEF StructureInv, SameExtents
  <2> QED
    BY <1>1, <2>1, <2>4, <2>5, <2>6, <2>7 DEF StructureInv
<1> QED
  <2>1. /\ op.stage = "grow_dir" => op.stage \in Growing
        /\ op.stage = "grow_sb" => op.stage \in Growing
    BY DEF Growing
  <2> QED
    BY <1>1, <1>2, <1>3, <1>4, <2>1 DEF AtaFails, Formatting

(* The power goes at a tolerated moment. *)
LEMMA PowerMoment ==
    ASSUME FaultsOutsideMoves, PowerLoss
    PROVE  /\ op.stage # "grow_sb" /\ OnDisk \in {disk_dir, directory}
           /\ op.stage = "grow_dir" => OnDisk = disk_dir
<1>1. Moment \in PowerLossAt /\ Moment \notin {"torn", "grow_sb"}
  BY DEF PowerLoss, FaultsOutsideMoves
<1> QED
  BY <1>1, MomentCases

(* The power goes, outside a move. *)
LEMMA PowerLossStructure ==
    ASSUME FaultsOutsideMoves, StructureInv, PowerLoss
    PROVE  StructureInv'
<1>1. /\ op.stage # "grow_sb" /\ faults' \in 0..MaxFaults /\ calls' = calls
      /\ ufs_ready' = FALSE /\ directory' = ZeroDirectory /\ cached_file_count' = 0
      /\ next_free_lba' = UFS_DATA_LBA /\ op' = Idle
      /\ disk_dir' = OnDisk /\ OnDisk \in {disk_dir, directory}
      /\ op.stage = "grow_dir" => OnDisk = disk_dir
      /\ UNCHANGED <<superblock, data>>
  BY FaultCounted, PowerMoment DEF PowerLoss
<1>2. OpInv' /\ op'.stage = "idle" /\ op'.slot \in Slots
  BY <1>1, IdleInv, Sizes DEF Idle
<1>3. TypeOK'
  <2>1. UFS_DATA_LBA \in 0..UFS_DATA_END /\ 0 \in 0..UFS_MAX_ENTRIES
    BY Sizes, UfsAssumption
  <2>2. /\ disk_dir' \in [Slots -> Entry] /\ data' \in [DataBytes -> Byte]
        /\ superblock' \in [magic : BOOLEAN, next_free : 0..UFS_DATA_END]
        /\ calls' \in 0..MaxCalls
    BY <1>1 DEF StructureInv, TypeOK
  <2> QED
    BY <1>1, <1>2, <2>1, <2>2, ZeroTypes DEF TypeOK, Stage
<1>4. Pointers' /\ SameExtents'
  BY <1>1, <1>2, ZeroTypes DEF StructureInv, Pointers, SameExtents, Formatting
<1>5. DiskSound'
  <2>1. CASE OnDisk = disk_dir
    BY <1>1, <1>2, <2>1 DEF StructureInv, DiskSound
  <2>2. CASE OnDisk = directory /\ op.stage \notin Growing
    <3>1. superblock.next_free = next_free_lba
      BY <2>2, StructureFacts DEF PowerLoss
    <3> QED
      BY <1>1, <1>2, <2>2, <3>1, StructureFacts DEF DiskSound
  <2> QED
    BY <1>1, <2>1, <2>2 DEF Growing
<1> QED
  BY <1>1, <1>2, <1>3, <1>4, <1>5, ZeroSound, ZeroCount DEF StructureInv

(* Nothing happens. *)
LEMMA StutterStructure ==
    ASSUME StructureInv, UNCHANGED vars
    PROVE  StructureInv'
<1>1. OpInv'
  BY DEF StructureInv, OpInv, vars, memVars, diskVars, InPlace, HasRoom, Needed,
         NewCapacity, sectors_for_bytes, Passes
<1> QED
  BY <1>1 DEF StructureInv, TypeOK, Pointers, DiskSound, SameExtents, vars, memVars, diskVars

(* Every step keeps the structure. *)
LEMMA StructureNext ==
    ASSUME FaultsOutsideMoves, StructureInv, Area, [Next]_vars
    PROVE  StructureInv'
<1>1. ASSUME NEW n \in Name, NEW u \in Uid, ufs_create(n, u) PROVE StructureInv'
  BY <1>1, CreateStructure
<1>2. ASSUME NEW s \in Slots,
             \/ ufs_delete(s)
             \/ \E p \in Perm : ufs_chmod(s, p)
             \/ ufs_truncate(s, 0)
             \/ \E offset \in Offset, buf \in Buffer : ufs_write_at(s, offset, buf)
      PROVE  StructureInv'
  BY <1>2, DeleteStructure, ChmodStructure, TruncateStructure, WriteStructure
<1> QED
  BY <1>1, <1>2, MountStructure, FormatStructure, MoveStructure, RelocateStructure,
     WriteSectorStructure, EndWriteStructure, SectorStructure, DirectoryStructure,
     SuperblockStructure, AtaFailsStructure, PowerLossStructure, StutterStructure DEF Next

(* A directory of files in the data area keeps that when one of its entries *)
(* is replaced.                                                             *)
LEMMA AreaEntry ==
    ASSUME StructureInv, Area, NEW s \in Slots, NEW e \in Entry, Above(e),
           directory' = [directory EXCEPT ![s] = e],
           next_free_lba' >= UFS_DATA_LBA, UNCHANGED diskVars
    PROVE  Area'
<1>1. \A t \in Slots : directory'[t] = IF t = s THEN e ELSE directory[t]
  BY StructureFacts
<1>2. \A t \in Slots : Above(directory'[t]) /\ Above(disk_dir'[t])
  BY <1>1 DEF Area, diskVars
<1> QED
  BY <1>2 DEF Area, diskVars

(* Every step keeps the files in the data area: only ensure_capacity hands  *)
(* out sectors.                                                             *)
LEMMA AreaNext ==
    ASSUME FaultsOutsideMoves, StructureInv, Area, [Next]_vars
    PROVE  Area'
<1> DEFINE Same == UNCHANGED <<directory, next_free_lba, superblock, disk_dir>>
<1>1. Same => Area'
  BY DEF Area
<1>2. next_free_lba >= UFS_DATA_LBA /\ \A s \in Slots : directory[s] \in Entry /\ Above(directory[s])
  BY StructureFacts DEF Area
<1>3. \A s \in Slots : Above(ZeroDirectory[s])
  BY DEF ZeroDirectory, ZeroEntry, Above
<1>4. UFS_DATA_LBA >= UFS_DATA_LBA /\ UFS_DATA_LBA \in Nat
  BY UfsAssumption
<1>5. CASE ufs_init
  <2>1. /\ directory' = disk_dir /\ UNCHANGED <<superblock, disk_dir>>
        /\ next_free_lba' \in {superblock.next_free, UFS_DATA_LBA}
    BY <1>5 DEF ufs_init, diskVars
  <2> QED
    BY <1>4, <2>1 DEF Area
<1>6. CASE format_fresh
  <2>1. /\ directory' = ZeroDirectory /\ next_free_lba' = UFS_DATA_LBA
        /\ UNCHANGED <<superblock, disk_dir>>
    BY <1>6 DEF format_fresh, diskVars
  <2> QED
    BY <1>3, <1>4, <2>1 DEF Area
<1>7. ASSUME NEW n \in Name, NEW u \in Uid, ufs_create(n, u) PROVE Area'
  <2> DEFINE e == [ZeroEntry EXCEPT !.name = n, !.owner = u]
  <2>1. PICK s \in Slots : /\ directory' = [directory EXCEPT ![s] = e]
                           /\ UNCHANGED <<next_free_lba, diskVars>>
    BY <1>7 DEF ufs_create
  <2>2. e \in Entry /\ Above(e)
    BY ZeroTypes, UfsAssumption, Sizes DEF ZeroEntry, Entry, Above
  <2> HIDE DEF e
  <2> QED
    BY <1>2, <2>1, <2>2, AreaEntry
<1>8. ASSUME NEW s \in Slots, ufs_delete(s) PROVE Area'
  <2> DEFINE e == [directory[s] EXCEPT !.name = NoName]
  <2>1. directory' = [directory EXCEPT ![s] = e] /\ UNCHANGED <<next_free_lba, diskVars>>
    BY <1>8 DEF ufs_delete
  <2>2. e \in Entry /\ Above(e)
    BY <1>2 DEF Entry, Above
  <2> HIDE DEF e
  <2> QED
    BY <1>2, <2>1, <2>2, AreaEntry
<1>9. ASSUME NEW s \in Slots, NEW p \in Perm, ufs_chmod(s, p) PROVE Area'
  <2> DEFINE e == [directory[s] EXCEPT !.perm = p]
  <2>1. directory' = [directory EXCEPT ![s] = e] /\ UNCHANGED <<next_free_lba, diskVars>>
    BY <1>9 DEF ufs_chmod
  <2>2. e \in Entry /\ Above(e)
    BY <1>2 DEF Entry, Above
  <2> HIDE DEF e
  <2> QED
    BY <1>2, <2>1, <2>2, AreaEntry
<1>10. ASSUME NEW s \in Slots, ufs_truncate(s, 0) PROVE Area'
  <2> DEFINE e == [directory[s] EXCEPT !.size = 0]
  <2>1. directory' = [directory EXCEPT ![s] = e] /\ UNCHANGED <<next_free_lba, diskVars>>
    BY <1>10 DEF ufs_truncate
  <2>2. e \in Entry /\ Above(e)
    BY <1>2 DEF Entry, Above
  <2> HIDE DEF e
  <2> QED
    BY <1>2, <2>1, <2>2, AreaEntry
<1>11. ASSUME NEW s \in Slots, NEW offset \in Offset, NEW buf \in Buffer,
              ufs_write_at(s, offset, buf)
       PROVE  Area'
  BY <1>1, <1>11 DEF ufs_write_at, memVars, diskVars
<1>12. CASE MoveSectors \/ WriteSector
  BY <1>1, <1>12 DEF MoveSectors, WriteSector, memVars
<1>13. CASE Relocate
  <2> DEFINE cap == NewCapacity(directory[op.slot].capacity, sectors_for_bytes(Needed))
             e == [directory[op.slot] EXCEPT !.start_lba = next_free_lba, !.capacity = cap]
  <2>1. /\ directory' = [directory EXCEPT ![op.slot] = e] /\ next_free_lba' = next_free_lba + cap
        /\ UNCHANGED diskVars
    BY <1>13 DEF Relocate
  <2>2. cap \in Nat /\ e \in Entry /\ op.slot \in Slots
    BY <1>13, StructureFacts, RelocatedEntry DEF Relocate
  <2>3. e.start_lba = next_free_lba
    BY <1>2, StructureFacts DEF Entry
  <2>4. Above(e)
    BY <1>2, <2>3 DEF Above
  <2>5. next_free_lba' >= UFS_DATA_LBA
    <3> HIDE DEF cap
    <3> QED
      BY <1>2, <1>4, <2>1, <2>2, StructureFacts
  <2> HIDE DEF e
  <2> QED
    BY <2>1, <2>2, <2>4, <2>5, AreaEntry
<1>14. CASE EndWrite
  <2>1. CASE UNCHANGED directory
    BY <1>1, <1>14, <2>1 DEF EndWrite, diskVars
  <2>2. CASE directory' = [directory EXCEPT ![op.slot].size = Needed]
    <3> DEFINE e == [directory[op.slot] EXCEPT !.size = Needed]
    <3>1. directory' = [directory EXCEPT ![op.slot] = e] /\ UNCHANGED <<next_free_lba, diskVars>>
      BY <1>14, <2>2 DEF EndWrite
    <3>2. op.slot \in Slots /\ Needed \in Nat
      BY StructureFacts DEF Needed
    <3>3. e \in Entry /\ Above(e)
      BY <1>2, <3>2 DEF Entry, Above
    <3> HIDE DEF e
    <3> QED
      BY <1>2, <3>1, <3>2, <3>3, AreaEntry
  <2> QED
    BY <1>14, <2>1, <2>2 DEF EndWrite
<1>15. CASE persist_directory
  <2>1. disk_dir' \in {disk_dir, directory} /\ UNCHANGED <<directory, next_free_lba, superblock>>
    BY <1>15 DEF persist_directory, memVars
  <2> QED
    BY <2>1 DEF Area
<1>16. CASE persist_superblock
  <2>1. /\ superblock'.next_free = next_free_lba /\ UNCHANGED <<directory, next_free_lba, disk_dir>>
    BY <1>16 DEF persist_superblock
  <2> QED
    BY <2>1 DEF Area
<1>17. CASE AtaFails
  <2>1. /\ disk_dir' \in {disk_dir, directory} /\ UNCHANGED <<directory, next_free_lba>>
        /\ superblock' = superblock \/ superblock' = [magic |-> TRUE, next_free |-> next_free_lba]
    BY <1>17, AtaMoment DEF AtaFails
  <2>2. superblock'.next_free \in {superblock.next_free, next_free_lba}
    BY <2>1
  <2> QED
    BY <2>1, <2>2 DEF Area
<1>18. CASE PowerLoss
  <2>1. /\ disk_dir' \in {disk_dir, directory} /\ directory' = ZeroDirectory
        /\ next_free_lba' = UFS_DATA_LBA /\ UNCHANGED superblock
    BY <1>18, PowerMoment DEF PowerLoss
  <2> QED
    BY <1>3, <1>4, <2>1 DEF Area
<1>19. CASE UNCHANGED vars
  BY <1>1, <1>19 DEF vars, memVars, diskVars
<1> HIDE DEF Same
<1> QED
  BY <1>5, <1>6, <1>7, <1>8, <1>9, <1>10, <1>11, <1>12, <1>13, <1>14, <1>15, <1>16, <1>17,
     <1>18, <1>19 DEF Next

(* At first no file has sectors. *)
LEMMA AreaInit ==
    ASSUME Init
    PROVE  Area
  BY UfsAssumption DEF Init, Area, Above, ZeroDirectory, ZeroEntry

(* The invariant gives the property: intervals that lie apart are disjoint. *)
LEMMA SoundFromStructure ==
    ASSUME StructureInv, Area
    PROVE  DirectorySound
<1>1. ASSUME NEW s \in Slots, NEW t \in Slots, s # t, Used(directory, s), Used(directory, t)
      PROVE  /\ directory[s].name # directory[t].name
             /\ Extent(directory, s) \intersect Extent(directory, t) = {}
  <2>1. Apart(directory[s], directory[t])
    BY <1>1, StructureFacts DEF Sound
  <2>2. PICK a \in Nat, c \in Nat, b \in Nat, d \in Nat :
           /\ a = directory[s].start_lba /\ c = directory[s].capacity
           /\ b = directory[t].start_lba /\ d = directory[t].capacity
    <3>1. directory[s] \in Entry /\ directory[t] \in Entry
      BY StructureFacts
    <3> QED
      BY <3>1, Sizes DEF Entry
  <2>3. c = 0 \/ d = 0 \/ a + c <= b \/ b + d <= a
    BY <2>1, <2>2 DEF Apart
  <2>4. (a..(a + c - 1)) \intersect (b..(b + d - 1)) = {}
    BY <2>3
  <2> QED
    BY <2>1, <2>2, <2>4 DEF Apart, Extent
<1> QED
  BY <1>1, StructureFacts DEF StructureInv, DirectorySound, Sound, Fits, Area, Above

(* Whatever calls are made, fail or are cut off, as long as no fault falls  *)
(* between the directory and the superblock of ensure_capacity or leaves a  *)
(* directory on disk that is neither the old nor the new one: no two files  *)
(* of ufs.c share a sector, none lies outside the data area or in the free  *)
(* part of it, names are unique and the count of files is exact.            *)
THEOREM DirectoryStaysSound ==
    ASSUME FaultsOutsideMoves
    PROVE  Spec => []DirectorySound
<1>1. Init => StructureInv /\ Area
  BY StructureInit, AreaInit
<1>2. StructureInv /\ Area /\ [Next]_vars => StructureInv' /\ Area'
  BY StructureNext, AreaNext
<1>3. StructureInv /\ Area => DirectorySound
  BY SoundFromStructure
<1> QED
  BY <1>1, <1>2, <1>3, PTL DEF Spec

(***************************************************************************)
(* Part 6.  The invariant of the history: what stored has to do with the   *)
(* files in memory and on disk                                             *)
(***************************************************************************)

(* After the directory has been written, disk and memory agree on it. *)
SameDirs == op.stage \in {"sb", "grow_sb", "format_sb"} => disk_dir = directory

(* The call in progress has not yet changed what a reader sees of n. *)
Untouched(n) == n # op.name \/ op.stage \in {"move", "grow_dir", "grow_sb"}

(* A settled file that the call in progress has not touched is on disk and  *)
(* in memory as the calls before left it; after a mount all are settled.    *)
Settlement ==
    /\ stored \in [Name -> File \union {NoFile, Unsettled}]
    /\ ~ ufs_ready => \A n \in Name : stored[n] # Unsettled
    /\ \A n \in Name : (stored[n] # Unsettled /\ Untouched(n)) =>
          stored[n] = OldView[n] /\ (ufs_ready => stored[n] = MemView[n])

(* A call other than a write has made its file what it was asked to, in     *)
(* memory; until its directory counts on disk, the old file is there.       *)
Results ==
    /\ (op.stage \in {"dir", "sb"} /\ op.call # "write") => MemView[op.name] = op.result
    /\ (op.stage = "dir" /\ op.call # "write") \/ (op.stage = "sb" /\ ~ superblock.magic) =>
          stored[op.name] \in {OldView[op.name], Unsettled}

(* ensure_capacity has copied the first done sectors of the file. *)
Copied ==
    /\ op.stage \in Growing => op.done = 0
    /\ op.stage = "move" =>
          LET e == directory[op.slot]
          IN  /\ op.done <= sectors_for_bytes(e.size)
              /\ \A i \in 1..(op.done * SECTOR_SIZE) :
                    data[next_free_lba * SECTOR_SIZE + i - 1] = data[Byte0(e) + i - 1]

(* The file being written: the first done bytes of the buffer are in place, *)
(* the others are as they were, and the entry on disk is the old one until  *)
(* the directory is written.                                                *)
Halfway(e, old) ==
    /\ superblock.magic
    /\ old \in File /\ old.owner = e.owner /\ old.perm = e.perm
    /\ IF op.stage = "data" THEN Len(old.bytes) = e.size ELSE Len(old.bytes) < e.size
    /\ \A i \in 1..Len(old.bytes) :
          i - op.offset \notin 1..op.done => data[Byte0(e) + i - 1] = old.bytes[i]
    /\ op.stage # "sb" => disk_dir[op.slot] = [e EXCEPT !.size = Len(old.bytes)]

(* A write whose first sector of data may be on disk *)
Overwriting == op.stage = "data" \/ (op.stage \in {"dir", "sb"} /\ op.call = "write")

(* What a write has done so far to the file in memory, and to the file the  *)
(* calls before have left if that is settled                                *)
Overwrites ==
    Overwriting =>
        LET e == directory[op.slot]
        IN  /\ op.done \in 0..Len(op.buf) /\ InPlace(op.slot, Needed)
            /\ op.stage # "data" => op.done = Len(op.buf) /\ e.size = Needed
            /\ \A i \in 1..op.done : data[Byte0(e) + op.offset + i - 1] = op.buf[i]
            /\ stored[op.name] # Unsettled => Halfway(e, stored[op.name])

(* The invariant of the history *)
HistoryInv == SameDirs /\ Settlement /\ Results /\ Copied /\ Overwrites

(* Failed writes that leave the files as they were: none between the        *)
(* directory and the superblock of a file that moves, and none of the       *)
(* directory of a disk that is being formatted, which format_fresh ignores. *)
FaultsTolerated == FaultsOutsideMoves /\ "format_dir" \notin AtaFailsAt

(* Two directories under which a name leads to the same bytes *)
LEMMA SameView ==
    ASSUME NEW d1 \in [Slots -> Entry], NEW f1, Sound(d1, f1), NEW D1,
           NEW d2 \in [Slots -> Entry], NEW f2, Sound(d2, f2), NEW D2, NEW n \in Name,
           \A s \in Slots : /\ d1[s].name = n <=> d2[s].name = n
                            /\ d1[s].name = n => FileOf(D1, d1[s]) = FileOf(D2, d2[s])
    PROVE  ViewIn(D1, d1, n) = ViewIn(D2, d2, n)
<1>1. /\ \A s \in Slots : d1[s].name = n => ViewIn(D1, d1, n) = FileOf(D1, d1[s])
      /\ (\A s \in Slots : d1[s].name # n) => ViewIn(D1, d1, n) = NoFile
  BY ViewOfFile
<1>2. /\ \A s \in Slots : d2[s].name = n => ViewIn(D2, d2, n) = FileOf(D2, d2[s])
      /\ (\A s \in Slots : d2[s].name # n) => ViewIn(D2, d2, n) = NoFile
  BY ViewOfFile
<1> QED
  BY <1>1, <1>2

(* Changing one entry changes what is found under its names, no others. *)
LEMMA OtherNames ==
    ASSUME NEW d1 \in [Slots -> Entry], NEW f1, Sound(d1, f1), NEW D, NEW n \in Name,
           NEW d2 \in [Slots -> Entry], NEW f2, Sound(d2, f2), NEW s \in Slots,
           \A t \in Slots : t # s => d2[t] = d1[t], d1[s].name # n, d2[s].name # n
    PROVE  ViewIn(D, d2, n) = ViewIn(D, d1, n)
<1>1. ASSUME NEW t \in Slots
      PROVE  /\ d1[t].name = n <=> d2[t].name = n
             /\ d1[t].name = n => FileOf(D, d1[t]) = FileOf(D, d2[t])
  <2>1. CASE t = s
    BY <2>1
  <2>2. CASE t # s
    BY <2>2
  <2> QED
    BY <2>1, <2>2
<1>2. ViewIn(D, d1, n) = ViewIn(D, d2, n)
  BY <1>1, SameView
<1> QED
  BY <1>2

(* The same bytes, the same file *)
LEMMA SameFile ==
    ASSUME NEW e \in Entry, NEW f \in Entry, NEW D1, NEW D2,
           f.size = e.size, f.owner = e.owner, f.perm = e.perm,
           \A i \in 1..e.size : D1[Byte0(e) + i - 1] = D2[Byte0(f) + i - 1]
    PROVE  FileOf(D1, e) = FileOf(D2, f)
<1>1. [i \in 1..e.size |-> D1[Byte0(e) + i - 1]] = [i \in 1..f.size |-> D2[Byte0(f) + i - 1]]
  OBVIOUS
<1> QED
  BY <1>1 DEF FileOf

(* What a reader finds is a file or nothing. *)
LEMMA ViewTypes ==
    ASSUME StructureInv, NEW n \in Name
    PROVE  /\ MemView[n] \in File \union {NoFile} /\ OldView[n] \in File \union {NoFile}
           /\ MemView[n] # Unsettled /\ OldView[n] # Unsettled
<1>1. ASSUME NEW dir \in [Slots -> Entry], NEW free \in 0..UFS_DATA_END, Sound(dir, free)
      PROVE  ViewIn(data, dir, n) \in File \union {NoFile}
  <2>1. CASE \E s \in Slots : dir[s].name = n
    <3>1. PICK s \in Slots : dir[s].name = n
      BY <2>1
    <3>2. ViewIn(data, dir, n) = FileOf(data, dir[s])
      BY <1>1, <3>1, ViewOfFile
    <3>3. dir[s] \in Entry /\ Fits(dir[s], free)
      BY <1>1, <3>1, UfsAssumption DEF Sound, Used
    <3> QED
      BY <1>1, <3>2, <3>3, FileType, StructureFacts
  <2>2. CASE \A s \in Slots : dir[s].name # n
    BY <1>1, <2>2, ViewOfFile
  <2> QED
    BY <2>1, <2>2
<1>2. PICK free \in 0..UFS_DATA_END : Sound(disk_dir, free)
  BY StructureFacts DEF StructureInv, DiskSound
<1>3. /\ ViewIn(data, directory, n) \in File \union {NoFile}
      /\ ViewIn(data, disk_dir, n) \in File \union {NoFile}
  BY <1>1, <1>2, StructureFacts
<1>4. MemView[n] \in File \union {NoFile} /\ OldView[n] \in File \union {NoFile}
  BY <1>3, Views
<1> QED
  BY <1>4, UfsAssumption

(* The same after a step *)
LEMMA ViewTypesNext ==
    StructureInv' =>
        \A n \in Name : /\ MemView'[n] \in File \union {NoFile} /\ MemView'[n] # Unsettled
                        /\ OldView'[n] \in File \union {NoFile} /\ OldView'[n] # Unsettled
<1> DEFINE Typed == \A n \in Name :
              /\ MemView[n] \in File \union {NoFile} /\ MemView[n] # Unsettled
              /\ OldView[n] \in File \union {NoFile} /\ OldView[n] # Unsettled
<1>1. StructureInv => Typed
  BY ViewTypes
<1> HIDE DEF Typed
<1>2. StructureInv' => Typed'
  BY <1>1, PTL
<1> QED
  BY <1>2 DEF Typed

(* Without a call in progress there is nothing but the files. *)
LEMMA HistoryAtRest ==
    ASSUME Settlement', op'.stage \in {"idle", "format_dir"}
    PROVE  HistoryInv'
  BY DEF HistoryInv, SameDirs, Results, Copied, Growing, Overwrites, Overwriting

(* Settlement when memory and disk both hold what is stored *)
LEMMA AllSettled ==
    ASSUME StructureInv', DOMAIN stored' = Name, stored' = [n \in Name |-> stored'[n]],
           \A n \in Name : stored'[n] = OldView'[n] /\ (ufs_ready' => stored'[n] = MemView'[n])
    PROVE  Settlement'
  BY ViewTypesNext DEF Settlement

(***************************************************************************)
(* Part 7.  Every step keeps the history                                   *)
(***************************************************************************)

(* At first there are no files. *)
LEMMA HistoryInit ==
    ASSUME Init
    PROVE  HistoryInv
<1>1. \A n \in Name : OldView[n] = NoFile
  BY DEF Init, OldView
<1>2. Settlement
  BY <1>1, UfsAssumption DEF Init, Settlement
<1> QED
  BY <1>2 DEF HistoryInv, SameDirs, Results, Copied, Growing, Overwrites, Overwriting, Init, Idle

(* Directories and free sectors after a step, in one place *)
LEMMA FactsNext ==
    ASSUME StructureInv'
    PROVE  /\ directory' \in [Slots -> Entry] /\ disk_dir' \in [Slots -> Entry]
           /\ data' \in [DataBytes -> Byte] /\ next_free_lba' \in 0..UFS_DATA_END
           /\ Sound(directory', next_free_lba')
           /\ \E free \in 0..UFS_DATA_END : Sound(disk_dir', free)
<1>1. /\ directory' \in [Slots -> Entry] /\ disk_dir' \in [Slots -> Entry]
      /\ data' \in [DataBytes -> Byte] /\ next_free_lba' \in 0..UFS_DATA_END
      /\ superblock'.next_free \in 0..UFS_DATA_END
  BY DEF StructureInv, TypeOK
<1>2. Sound(directory', next_free_lba')
  BY DEF StructureInv
<1>3. \E free \in 0..UFS_DATA_END : Sound(disk_dir', free)
  BY <1>1 DEF StructureInv, DiskSound
<1> QED
  BY <1>1, <1>2, <1>3

(* The views after a step that leaves the bytes, the directory on disk or   *)
(* the one in memory alone                                                  *)
LEMMA SameViews ==
    ASSUME UNCHANGED data
    PROVE  /\ UNCHANGED directory => \A n \in Name : MemView'[n] = MemView[n]
           /\ UNCHANGED <<superblock, disk_dir>> => \A n \in Name : OldView'[n] = OldView[n]
  BY Views

(* Without a call in progress, settled files are the same everywhere. *)
LEMMA AtRest ==
    ASSUME HistoryInv, op = Idle, NEW n \in Name, stored[n] # Unsettled
    PROVE  stored[n] = OldView[n] /\ (ufs_ready => stored[n] = MemView[n])
<1>1. Untouched(n)
  BY UfsAssumption DEF Untouched, Idle
<1> QED
  BY <1>1 DEF HistoryInv, Settlement

(* A call other than a write has changed its entry in memory. *)
LEMMA HistoryBegins ==
    ASSUME StructureInv, StructureInv', HistoryInv, ufs_ready, op = Idle,
           NEW s \in Slots, NEW e \in Entry, directory' = [directory EXCEPT ![s] = e],
           NEW call \in Calls \ {"none", "write"}, NEW name \in Name, NEW result,
           Begin(call, s, name, result),
           directory[s].name \in {name, NoName}, e.name \in {name, NoName},
           ViewIn(data, directory', name) = result,
           UNCHANGED <<ufs_ready, diskVars, stored>>
    PROVE  HistoryInv'
<1>1. /\ op'.stage = "dir" /\ op'.call = call /\ op'.name = name /\ op'.result = result
  BY DEF Begin, Idle
<1>2. ASSUME NEW n \in Name, n # name
      PROVE  MemView'[n] = MemView[n]
  <2>1. /\ directory' \in [Slots -> Entry] /\ Sound(directory', next_free_lba')
        /\ directory \in [Slots -> Entry] /\ Sound(directory, next_free_lba)
    BY FactsNext, StructureFacts
  <2>2. directory'[s] = e /\ \A t \in Slots : t # s => directory'[t] = directory[t]
    BY <2>1
  <2>3. directory[s].name # n /\ directory'[s].name # n
    BY <1>2, <2>2, UfsAssumption
  <2>4. ViewIn(data, directory', n) = ViewIn(data, directory, n)
    <3>1. PICK d1 \in [Slots -> Entry], d2 \in [Slots -> Entry] : d1 = directory /\ d2 = directory'
      BY <2>1
    <3>2. /\ Sound(d1, next_free_lba) /\ Sound(d2, next_free_lba') /\ d1[s].name # n
          /\ d2[s].name # n /\ \A t \in Slots : t # s => d2[t] = d1[t]
      BY <2>1, <2>2, <2>3, <3>1
    <3>3. ViewIn(data, d2, n) = ViewIn(data, d1, n)
      BY <3>2, OtherNames
    <3> QED
      BY <3>1, <3>3
  <2> QED
    BY <2>4, Views DEF diskVars
<1>3. MemView'[name] = result
  BY Views DEF diskVars
<1>4. \A n \in Name : OldView'[n] = OldView[n]
  BY SameViews DEF diskVars
<1>5. \A n \in Name : stored[n] # Unsettled => stored[n] = OldView[n] /\ stored[n] = MemView[n]
  BY AtRest
<1>6. Settlement'
  <2>1. stored' \in [Name -> File \union {NoFile, Unsettled}]
    BY DEF HistoryInv, Settlement
  <2>2. \A n \in Name : Untouched(n)' => n # name
    BY <1>1 DEF Untouched
  <2> QED
    BY <1>2, <1>4, <1>5, <2>1, <2>2 DEF Settlement
<1>7. Results'
  BY <1>1, <1>3, <1>4, <1>5 DEF Results
<1> QED
  BY <1>1, <1>6, <1>7 DEF HistoryInv, SameDirs, Copied, Growing, Overwrites, Overwriting, Calls

(* ufs_create: an empty file *)
LEMMA CreateHistory ==
    ASSUME StructureInv, StructureInv', HistoryInv,
           NEW name \in Name, NEW owner_uid \in Uid, ufs_create(name, owner_uid)
    PROVE  HistoryInv'
<1> DEFINE e == [ZeroEntry EXCEPT !.name = name, !.owner = owner_uid]
           r == [owner |-> owner_uid, perm |-> 0, bytes |-> <<>>]
<1>1. PICK s \in Slots :
        /\ Call /\ ~ Used(directory, s) /\ directory' = [directory EXCEPT ![s] = e]
        /\ Begin("create", s, name, r) /\ UNCHANGED <<ufs_ready, diskVars, stored>>
  BY DEF ufs_create
<1>2. /\ e \in Entry /\ e.name = name /\ e.size = 0 /\ e.owner = owner_uid /\ e.perm = 0
  BY ZeroTypes, UfsAssumption, Sizes DEF ZeroEntry, Entry
<1> HIDE DEF e
<1>3. ViewIn(data, directory', name) = FileOf(data, e)
  <2>1. directory' \in [Slots -> Entry] /\ Sound(directory', next_free_lba')
    BY FactsNext
  <2>2. directory'[s] = e
    BY <1>1, StructureFacts
  <2> QED
    BY <1>2, <2>1, <2>2, ViewOfFile
<1>4. FileOf(data, e) = r
  <2>1. [i \in 1..0 |-> data[Byte0(e) + i - 1]] = <<>>
    OBVIOUS
  <2> QED
    BY <1>2, <2>1 DEF FileOf
<1> HIDE DEF r
<1> QED
  BY <1>1, <1>2, <1>3, <1>4, CallCounted, HistoryBegins DEF Used, Calls

(* ufs_delete: no file *)
LEMMA DeleteHistory ==
    ASSUME StructureInv, StructureInv', HistoryInv, NEW s \in Slots, ufs_delete(s)
    PROVE  HistoryInv'
<1> DEFINE name == directory[s].name
           e == [directory[s] EXCEPT !.name = NoName]
<1>1. /\ Call /\ Used(directory, s) /\ directory' = [directory EXCEPT ![s] = e]
      /\ Begin("delete", s, name, NoFile) /\ UNCHANGED <<ufs_ready, diskVars, stored>>
  BY DEF ufs_delete, handle_valid
<1>2. e \in Entry /\ e.name = NoName /\ name \in Name
  BY <1>1, MemFile DEF Entry
<1> HIDE DEF e
<1>3. ViewIn(data, directory', name) = NoFile
  <2>1. directory' \in [Slots -> Entry] /\ Sound(directory', next_free_lba')
    BY FactsNext
  <2>2. ASSUME NEW t \in Slots
        PROVE  directory'[t].name # name
    <3>1. CASE t = s
      BY <1>1, <1>2, <3>1, StructureFacts, UfsAssumption
    <3>2. CASE t # s
      <4>1. directory'[t] = directory[t]
        BY <1>1, <3>2, StructureFacts
      <4>2. Used(directory, t) => Apart(directory[s], directory[t])
        BY <1>1, <3>2, StructureFacts DEF Sound
      <4> QED
        BY <1>2, <4>1, <4>2, UfsAssumption DEF Used, Apart
    <3> QED
      BY <3>1, <3>2
  <2> QED
    BY <1>2, <2>1, <2>2, ViewOfFile
<1> HIDE DEF name
<1> QED
  <2>1. directory[s].name \in {name, NoName}
    BY DEF name
  <2> QED
    BY <1>1, <1>2, <1>3, <2>1, CallCounted, HistoryBegins DEF Calls

(* ufs_chmod and ufs_truncate: what memory shows of the file after them *)
LEMMA InPlaceHistory ==
    ASSUME StructureInv, StructureInv', HistoryInv, NEW s \in Slots, Call, Used(directory, s),
           NEW e \in Entry, e.name = directory[s].name,
           directory' = [directory EXCEPT ![s] = e],
           NEW call \in Calls \ {"none", "write"},
           Begin(call, s, directory[s].name, FileOf(data, e)),
           UNCHANGED <<ufs_ready, diskVars, stored>>
    PROVE  HistoryInv'
<1>1. directory' \in [Slots -> Entry] /\ Sound(directory', next_free_lba')
  BY FactsNext
<1>2. directory'[s] = e /\ directory[s].name \in Name
  BY StructureFacts, MemFile
<1>3. ViewIn(data, directory', directory[s].name) = FileOf(data, e)
  <2>1. PICK n \in Name : n = directory[s].name
    BY <1>2
  <2>2. directory'[s].name = n => ViewIn(data, directory', n) = FileOf(data, directory'[s])
    BY <1>1, ViewOfFile, ZenonT(60)
  <2> QED
    BY <1>2, <2>1, <2>2
<1> QED
  BY <1>2, <1>3, CallCounted, HistoryBegins

(* ufs_chmod *)
LEMMA ChmodHistory ==
    ASSUME StructureInv, StructureInv', HistoryInv, NEW s \in Slots, NEW perm \in Perm,
           ufs_chmod(s, perm)
    PROVE  HistoryInv'
<1> DEFINE f == directory[s]
           e == [f EXCEPT !.perm = perm]
<1>1. /\ Call /\ Used(directory, s) /\ directory' = [directory EXCEPT ![s] = e]
      /\ Begin("chmod", s, f.name, [MemView[f.name] EXCEPT !.perm = perm])
      /\ UNCHANGED <<ufs_ready, diskVars, stored>>
  BY DEF ufs_chmod, handle_valid
<1>2. f \in Entry /\ MemView[f.name] = FileOf(data, f)
  BY <1>1, MemFile
<1>3. /\ e \in Entry /\ e.name = f.name /\ e.perm = perm /\ e.owner = f.owner
      /\ e.size = f.size /\ Byte0(e) = Byte0(f)
  BY <1>2 DEF Entry, Byte0
<1>4. [FileOf(data, f) EXCEPT !.perm = perm] = FileOf(data, e)
  <2> DEFINE b == [i \in 1..f.size |-> data[Byte0(f) + i - 1]]
  <2>1. [i \in 1..e.size |-> data[Byte0(e) + i - 1]] = b
    BY <1>3
  <2>2. /\ FileOf(data, f) = [owner |-> f.owner, perm |-> f.perm, bytes |-> b]
        /\ FileOf(data, e) = [owner |-> f.owner, perm |-> perm, bytes |-> b]
    BY <1>3, <2>1 DEF FileOf
  <2> HIDE DEF b
  <2> QED
    BY <2>2
<1>5. Begin("chmod", s, f.name, FileOf(data, e))
  BY <1>1, <1>2, <1>4
<1> HIDE DEF e
<1> QED
  BY <1>1, <1>3, <1>5, InPlaceHistory DEF Calls

(* ufs_truncate *)
LEMMA TruncateHistory ==
    ASSUME StructureInv, StructureInv', HistoryInv, NEW s \in Slots, ufs_truncate(s, 0)
    PROVE  HistoryInv'
<1> DEFINE f == directory[s]
           e == [f EXCEPT !.size = 0]
<1>1. /\ Call /\ Used(directory, s) /\ directory' = [directory EXCEPT ![s] = e]
      /\ Begin("truncate", s, f.name, [MemView[f.name] EXCEPT !.bytes = SubSeq(@, 1, 0)])
      /\ UNCHANGED <<ufs_ready, diskVars, stored>>
  BY DEF ufs_truncate, handle_valid
<1>2. f \in Entry /\ MemView[f.name] = FileOf(data, f) /\ FileOf(data, f) \in File
  BY <1>1, MemFile
<1>3. /\ e \in Entry /\ e.name = f.name /\ e.perm = f.perm /\ e.owner = f.owner /\ e.size = 0
  BY <1>2 DEF Entry
<1>4. [FileOf(data, f) EXCEPT !.bytes = SubSeq(@, 1, 0)] = FileOf(data, e)
  <2>1. PICK q \in Seq(Byte) : q = FileOf(data, f).bytes
    BY <1>2 DEF File
  <2>2. SubSeq(q, 1, 0) = <<>>
    OBVIOUS
  <2>3. [i \in 1..0 |-> data[Byte0(e) + i - 1]] = <<>>
    OBVIOUS
  <2>4. [FileOf(data, f) EXCEPT !.bytes = SubSeq(@, 1, 0)] = [FileOf(data, f) EXCEPT !.bytes = <<>>]
    BY <2>1, <2>2
  <2>5. [FileOf(data, f) EXCEPT !.bytes = <<>>] = FileOf(data, e)
    <3> DEFINE b == [i \in 1..f.size |-> data[Byte0(f) + i - 1]]
    <3>1. /\ FileOf(data, f) = [owner |-> f.owner, perm |-> f.perm, bytes |-> b]
          /\ FileOf(data, e) = [owner |-> f.owner, perm |-> f.perm, bytes |-> <<>>]
      BY <1>3, <2>3 DEF FileOf
    <3> HIDE DEF b
    <3> QED
      BY <3>1
  <2> QED
    BY <2>4, <2>5
<1>5. Begin("truncate", s, f.name, FileOf(data, e))
  BY <1>1, <1>2, <1>4
<1> HIDE DEF e
<1> QED
  BY <1>1, <1>3, <1>5, InPlaceHistory DEF Calls

(* ufs_init: memory shows what the disk holds. *)
LEMMA MountHistory ==
    ASSUME StructureInv, StructureInv', HistoryInv, ufs_init
    PROVE  HistoryInv'
<1>1. /\ ~ ufs_ready /\ op = Idle /\ superblock.magic /\ directory' = disk_dir
      /\ UNCHANGED <<diskVars, op, stored>>
  BY DEF ufs_init
<1>2. \A n \in Name : OldView'[n] = OldView[n] /\ MemView'[n] = OldView[n]
  BY <1>1, Views DEF diskVars
<1>3. \A n \in Name : stored[n] # Unsettled /\ stored[n] = OldView[n]
  BY <1>1, AtRest DEF HistoryInv, Settlement
<1>4. stored' \in [Name -> File \union {NoFile, Unsettled}]
  BY <1>1 DEF HistoryInv, Settlement
<1>5. Settlement'
  BY <1>1, <1>2, <1>3, <1>4 DEF Settlement
<1> QED
  BY <1>1, <1>5, HistoryAtRest DEF Idle

(* format_fresh: there was nothing, and there is nothing. *)
LEMMA FormatHistory ==
    ASSUME HistoryInv, format_fresh
    PROVE  HistoryInv'
<1>1. /\ ~ ufs_ready /\ op = Idle /\ op' = [Idle EXCEPT !.stage = "format_dir"]
      /\ UNCHANGED <<ufs_ready, diskVars, stored>>
  BY DEF format_fresh
<1>2. \A n \in Name : OldView'[n] = OldView[n]
  BY <1>1, SameViews DEF diskVars
<1>3. \A n \in Name : stored[n] # Unsettled /\ stored[n] = OldView[n]
  BY <1>1, AtRest DEF HistoryInv, Settlement
<1>4. Settlement'
  BY <1>1, <1>2, <1>3 DEF HistoryInv, Settlement
<1> QED
  BY <1>1, <1>4, HistoryAtRest DEF Idle

(* Entries with the same fields are the same. *)
LEMMA SameEntry ==
    ASSUME NEW e \in Entry, NEW f \in Entry, SamePlace(e, f),
           f.size = e.size, f.owner = e.owner, f.perm = e.perm
    PROVE  f = e
  BY DEF Entry, SamePlace

(* A file that has sectors and looks the same in memory and on disk has the *)
(* same entry in both.                                                      *)
LEMMA SettledEntry ==
    ASSUME StructureInv, NEW s \in Slots, Used(directory, s), directory[s].capacity > 0,
           op.stage # "grow_dir", OldView[directory[s].name] = MemView[directory[s].name]
    PROVE  superblock.magic /\ disk_dir[s] = directory[s]
<1> DEFINE e == directory[s]
           f == disk_dir[s]
<1>1. /\ e \in Entry /\ e.name \in Name /\ Fits(e, next_free_lba)
      /\ next_free_lba \in 0..UFS_DATA_END
      /\ MemView[e.name] = FileOf(data, e) /\ FileOf(data, e) \in File
  BY MemFile
<1>2. OldView[e.name] # NoFile
  BY <1>1, UfsAssumption
<1>3. superblock.magic /\ OldView[e.name] = ViewIn(data, disk_dir, e.name)
  BY <1>1, <1>2, Views
<1>4. SamePlace(e, f)
  BY DEF StructureInv, SameExtents, SamePlace
<1>5. f \in Entry /\ disk_dir \in [Slots -> Entry] /\ data \in [DataBytes -> Byte]
  BY StructureFacts
<1>6. PICK free \in 0..UFS_DATA_END : Sound(disk_dir, free)
  BY StructureFacts DEF StructureInv, DiskSound
<1>7. ViewIn(data, disk_dir, e.name) = FileOf(data, f)
  <2>1. PICK n \in Name : n = e.name
    BY <1>1
  <2>2. f.name = n => ViewIn(data, disk_dir, n) = FileOf(data, f)
    BY <1>5, <1>6, ViewOfFile
  <2> QED
    BY <1>4, <2>1, <2>2 DEF SamePlace
<1>8. Fits(f, free)
  <2>1. Used(disk_dir, s)
    BY <1>1, <1>4, UfsAssumption DEF Used, SamePlace
  <2> QED
    BY <1>6, <2>1 DEF Sound
<1>9. /\ FileOf(data, e).owner = e.owner /\ FileOf(data, e).perm = e.perm
      /\ Len(FileOf(data, e).bytes) = e.size
  BY <1>1, <1>5, FileType
<1>10. /\ FileOf(data, f).owner = f.owner /\ FileOf(data, f).perm = f.perm
       /\ Len(FileOf(data, f).bytes) = f.size
  BY <1>5, <1>6, <1>8, FileType
<1>11. FileOf(data, e) = FileOf(data, f)
  BY <1>1, <1>3, <1>7
<1>12. f = e
  BY <1>1, <1>4, <1>5, <1>9, <1>10, <1>11, SameEntry
<1> QED
  BY <1>3, <1>12

(* The file of a write, and its place *)
LEMMA WrittenFile ==
    ASSUME StructureInv, op.call = "write", op.stage # "idle"
    PROVE  /\ op.slot \in Slots /\ Used(directory, op.slot) /\ op.name \in Name /\ ufs_ready
           /\ directory[op.slot] \in Entry /\ directory[op.slot].name = op.name
           /\ Fits(directory[op.slot], next_free_lba) /\ next_free_lba \in 0..UFS_DATA_END
           /\ op.offset \in Nat /\ op.done \in Nat /\ op.buf \in Seq(Byte)
           /\ op.buf # <<>> /\ Len(op.buf) \in Nat \ {0} /\ Needed \in Nat \ {0}
           /\ Needed = op.offset + Len(op.buf)
           /\ MemView[op.name] = FileOf(data, directory[op.slot])
           /\ FileOf(data, directory[op.slot]) \in File
<1>1. /\ op.slot \in Slots /\ op.name \in Name /\ directory[op.slot].name = op.name /\ ufs_ready
      /\ op.offset \in Nat /\ op.done \in Nat /\ op.buf \in Seq(Byte) /\ op.buf # <<>>
  BY DEF StructureInv, OpInv, Operation, Formatting
<1>2. Used(directory, op.slot)
  BY <1>1, UfsAssumption DEF Used
<1>3. Len(op.buf) \in Nat \ {0}
  BY <1>1
<1> QED
  BY <1>1, <1>2, <1>3, MemFile DEF Needed

(* Files that need bytes and have them have sectors. *)
LEMMA HasSectors ==
    ASSUME NEW e \in Entry, NEW n \in Nat \ {0}, n <= e.capacity * SECTOR_SIZE
    PROVE  e.capacity > 0
<1>1. PICK c \in Nat : c = e.capacity
  BY DEF Entry
<1>2. c # 0
  BY <1>1, Sizes
<1> QED
  BY <1>1, <1>2

(* A file that is settled in memory and on disk is at the beginning of a    *)
(* write.                                                                   *)
LEMMA WriteBegins ==
    ASSUME StructureInv, op.stage = "data", op.done = 0, OldView[op.name] = MemView[op.name],
           NEW old, old = MemView[op.name]
    PROVE  Halfway(directory[op.slot], old)
<1> DEFINE e == directory[op.slot]
<1>1. op.call = "write" /\ InPlace(op.slot, Needed)
  BY DEF StructureInv, OpInv, Writing
<1>2. /\ op.slot \in Slots /\ Used(directory, op.slot) /\ e.name = op.name /\ e \in Entry
      /\ Needed \in Nat \ {0} /\ old = FileOf(data, e) /\ old \in File
      /\ Fits(e, next_free_lba) /\ next_free_lba \in 0..UFS_DATA_END
  BY <1>1, WrittenFile
<1>3. e.capacity > 0
  BY <1>1, <1>2, HasSectors DEF InPlace
<1>4. superblock.magic /\ disk_dir[op.slot] = e
  BY <1>2, <1>3, SettledEntry
<1>5. /\ old.owner = e.owner /\ old.perm = e.perm /\ Len(old.bytes) = e.size
      /\ \A i \in 1..e.size : old.bytes[i] = data[Byte0(e) + i - 1]
  BY <1>2, StructureFacts, FileType
<1>6. [e EXCEPT !.size = Len(old.bytes)] = e
  BY <1>2, <1>5 DEF Entry
<1> QED
  BY <1>2, <1>4, <1>5, <1>6 DEF Halfway

(* The same for the state after a step *)
LEMMA WriteBeginsNext ==
    (StructureInv /\ op.stage = "data" /\ op.done = 0 /\ OldView[op.name] = MemView[op.name])' =>
        Halfway(directory[op.slot], MemView[op.name])'
<1>1. StructureInv /\ op.stage = "data" /\ op.done = 0 /\ OldView[op.name] = MemView[op.name] =>
        Halfway(directory[op.slot], MemView[op.name])
  BY WriteBegins
<1> QED
  BY <1>1, PTL

(* ufs_write_at has changed nothing yet. *)
LEMMA WriteHistory ==
    ASSUME StructureInv, StructureInv', HistoryInv, NEW s \in Slots, NEW offset \in Offset,
           NEW buf \in Buffer, ufs_write_at(s, offset, buf)
    PROVE  HistoryInv'
<1>1. Call /\ Used(directory, s) /\ UNCHANGED <<memVars, diskVars, stored>>
  BY DEF ufs_write_at, handle_valid
<1>2. ufs_ready /\ op = Idle
  BY <1>1, CallCounted
<1>3. /\ op'.stage \in {"data", "move"} /\ op'.done = 0 /\ op'.buf = buf
      /\ op'.name = directory[s].name /\ op'.slot = s
  BY DEF ufs_write_at, Idle
<1>4. \A n \in Name : OldView'[n] = OldView[n] /\ MemView'[n] = MemView[n]
  BY <1>1, SameViews DEF diskVars, memVars
<1>5. \A n \in Name : stored[n] # Unsettled => stored[n] = OldView[n] /\ stored[n] = MemView[n]
  BY <1>2, AtRest
<1>6. Settlement'
  BY <1>1, <1>2, <1>4, <1>5 DEF HistoryInv, Settlement, memVars
<1>7. Copied'
  <2>1. op'.done * SECTOR_SIZE = 0
    BY <1>3, Sizes
  <2>2. \A i \in 1..0 : FALSE
    OBVIOUS
  <2>3. 0 <= sectors_for_bytes(directory[s].size)' 
    <3>1. directory[s].size \in Nat
      BY <1>1, MemFile DEF Entry
    <3> QED
      BY <1>1, <3>1, RoundsUp DEF memVars, sectors_for_bytes
  <2> QED
    BY <1>3, <2>1, <2>2, <2>3 DEF Copied, Growing, sectors_for_bytes
<1>8. Overwrites'
  <2>1. CASE op'.stage = "data"
    <3>1. op'.done \in 0..Len(op'.buf)
      BY <1>3, UfsAssumption
    <3>2. InPlace(op.slot, Needed)'
      BY <2>1 DEF StructureInv, OpInv
    <3>3. stored'[op'.name] # Unsettled => Halfway(directory[op.slot], stored[op.name])'
      <4>1. op'.name \in Name
        BY <1>1, <1>3, MemFile
      <4>2. stored'[op'.name] # Unsettled =>
               OldView'[op'.name] = MemView'[op'.name] /\ stored'[op'.name] = MemView'[op'.name]
        BY <1>1, <1>4, <1>5, <4>1
      <4> QED
        BY <1>3, <2>1, <4>2, WriteBeginsNext DEF Halfway
    <3> QED
      BY <1>3, <2>1, <3>1, <3>2, <3>3 DEF Overwrites
  <2>2. CASE op'.stage = "move"
    BY <2>2 DEF Overwrites, Overwriting
  <2> QED
    BY <1>3, <2>1, <2>2
<1> QED
  BY <1>3, <1>6, <1>7, <1>8 DEF HistoryInv, SameDirs, Results

(* A file whose bytes stay looks the same. *)
LEMMA SameBytes ==
    ASSUME NEW dir \in [Slots -> Entry], NEW free, Sound(dir, free), NEW n \in Name,
           NEW D1, NEW D2,
           \A s \in Slots : dir[s].name = n =>
              \A i \in 1..(dir[s].capacity * SECTOR_SIZE) :
                 D1[Byte0(dir[s]) + i - 1] = D2[Byte0(dir[s]) + i - 1]
    PROVE  ViewIn(D1, dir, n) = ViewIn(D2, dir, n)
<1>1. ASSUME NEW s \in Slots, dir[s].name = n
      PROVE  FileOf(D1, dir[s]) = FileOf(D2, dir[s])
  <2>1. PICK e \in Entry : e = dir[s]
    OBVIOUS
  <2>2. e.size \in Nat /\ e.size <= e.capacity * SECTOR_SIZE /\ e.capacity * SECTOR_SIZE \in Nat
    BY <1>1, <2>1, UfsAssumption, Sizes DEF Sound, Fits, Used, Entry
  <2>3. 1..e.size \subseteq 1..(e.capacity * SECTOR_SIZE)
    BY <2>2
  <2>4. \A i \in 1..e.size : D1[Byte0(e) + i - 1] = D2[Byte0(e) + i - 1]
    BY <1>1, <2>1, <2>3
  <2> QED
    BY <2>1, <2>4, SameFile
<1> QED
  BY <1>1, SameView

(* The call in progress in a step of its loops *)
LEMMA LoopStep ==
    ASSUME StructureInv, NEW d \in Nat, op' = [op EXCEPT !.done = d]
    PROVE  /\ op'.stage = op.stage /\ op'.call = op.call /\ op'.slot = op.slot
           /\ op'.name = op.name /\ op'.offset = op.offset /\ op'.buf = op.buf
           /\ op'.result = op.result /\ op'.done = d
<1>1. op \in Operation
  BY StructureFacts
<1> QED
  BY <1>1 DEF Operation

(* A settled file stays so while its views and the stage stay. *)
LEMMA SettlementStays ==
    ASSUME HistoryInv, UNCHANGED <<ufs_ready, stored>>,
           \A n \in Name : Untouched(n)' =>
              Untouched(n) /\ OldView'[n] = OldView[n] /\ MemView'[n] = MemView[n]
    PROVE  Settlement'
  BY DEF HistoryInv, Settlement

(* One round of the copy: it writes to the free part of the disk only. *)
LEMMA MoveHistory ==
    ASSUME StructureInv, StructureInv', HistoryInv, MoveSectors
    PROVE  HistoryInv'
<1> DEFINE e == directory[op.slot]
           k == sectors_for_bytes(e.size)
<1>1. PICK chunk \in Nat \ {0}, buf \in Seq(Byte) :
         /\ Used(directory, op.slot) /\ op.done + chunk <= k /\ k <= e.capacity
         /\ Len(buf) = chunk * SECTOR_SIZE
         /\ \A i \in 1..(chunk * SECTOR_SIZE) :
               buf[i] = data[Byte0(e) + op.done * SECTOR_SIZE + i - 1]
         /\ data' = Patched((next_free_lba + op.done) * SECTOR_SIZE, buf)
         /\ op' = [op EXCEPT !.done = @ + chunk] /\ op.stage = "move"
  BY MoveRound
<1>2. UNCHANGED <<memVars, superblock, disk_dir, stored>>
  BY DEF MoveSectors
<1>3. /\ op.slot \in Slots /\ op.done \in Nat /\ e \in Entry /\ Fits(e, next_free_lba)
      /\ next_free_lba \in 0..UFS_DATA_END /\ data \in [DataBytes -> Byte]
      /\ op.done + chunk \in Nat
  BY <1>1, MemFile, StructureFacts
<1>4. /\ op'.stage = "move" /\ op'.slot = op.slot /\ op'.name = op.name
      /\ op'.done = op.done + chunk
  <2>1. op' = [op EXCEPT !.done = op.done + chunk]
    BY <1>1, StructureFacts DEF Operation
  <2> QED
    BY <1>1, <1>3, <2>1, LoopStep
<1>5. PICK x \in Nat, y \in Nat, z \in Nat, u \in Nat, w \in Nat :
         /\ x = e.capacity /\ y = e.start_lba /\ z = next_free_lba /\ u = op.done
         /\ w = UFS_DATA_END /\ u + chunk <= x
  <2>1. k \in Nat /\ e.capacity \in Nat /\ e.start_lba \in Nat
    <3>1. e.size \in Nat /\ e.capacity \in 0..UFS_DATA_END /\ e.start_lba \in 0..UFS_DATA_END
      BY <1>3 DEF Entry
    <3>2. e.capacity \in Nat /\ e.start_lba \in Nat
      BY <3>1, Sizes
    <3>3. k \in Nat
      BY <3>1, RoundsUp
    <3> QED
      BY <3>2, <3>3
  <2>2. next_free_lba \in Nat /\ UFS_DATA_END \in Nat
    BY <1>3, Sizes
  <2>3. op.done + chunk <= e.capacity
    <3> HIDE DEF k, e
    <3> QED
      BY <1>1, <1>3, <2>1
  <2> QED
    BY <1>3, <2>1, <2>2, <2>3
<1>6. PICK N \in Nat, B \in Nat, b \in Nat, c \in Nat, d \in Nat, v \in Nat :
         /\ N = z * SECTOR_SIZE /\ B = y * SECTOR_SIZE /\ b = u * SECTOR_SIZE
         /\ c = chunk * SECTOR_SIZE /\ d = x * SECTOR_SIZE /\ v = w * SECTOR_SIZE
  <2>1. /\ x * SECTOR_SIZE \in Nat /\ y * SECTOR_SIZE \in Nat /\ z * SECTOR_SIZE \in Nat
        /\ u * SECTOR_SIZE \in Nat /\ chunk * SECTOR_SIZE \in Nat /\ w * SECTOR_SIZE \in Nat
    BY Sizes
  <2> QED
    BY <2>1
<1>7. /\ N = next_free_lba * SECTOR_SIZE /\ B = Byte0(e) /\ b = op.done * SECTOR_SIZE
       /\ d = e.capacity * SECTOR_SIZE /\ v = UFS_DATA_END * SECTOR_SIZE
       /\ Len(buf) = c
  BY <1>1, <1>5, <1>6 DEF Byte0
<1>8. (next_free_lba + op.done) * SECTOR_SIZE = N + b /\ (op.done + chunk) * SECTOR_SIZE = b + c
  <2>1. /\ (u + chunk) * SECTOR_SIZE = u * SECTOR_SIZE + chunk * SECTOR_SIZE
        /\ (z + u) * SECTOR_SIZE = z * SECTOR_SIZE + u * SECTOR_SIZE
    BY SectorRun
  <2> QED
    BY <1>5, <1>6, <2>1
<1>9. b + c <= d
  <2>1. (u + chunk) * SECTOR_SIZE <= x * SECTOR_SIZE
    BY <1>5, SectorOrder, SMTT(60)
  <2> QED
    BY <1>5, <1>6, <1>8, <2>1
<1>10. N + d <= v
  <2> DEFINE cap == NewCapacity(e.capacity, sectors_for_bytes(Needed))
  <2>1. HasRoom(cap)
    BY <1>1 DEF StructureInv, OpInv
  <2>2. Needed \in Nat
    BY <1>1, WrittenFile DEF StructureInv, OpInv, Writing
  <2>3. sectors_for_bytes(Needed) \in Nat
    BY <2>2, RoundsUp
  <2>4. cap \in Nat /\ cap >= x
    BY <1>5, <2>3, NewCapacityIsEnough
  <2> HIDE DEF cap
  <2>5. z + x <= w
    BY <1>5, <2>1, <2>4 DEF HasRoom
  <2>6. (z + x) * SECTOR_SIZE <= w * SECTOR_SIZE
    BY <2>5, SectorOrder
  <2>7. (z + x) * SECTOR_SIZE = z * SECTOR_SIZE + x * SECTOR_SIZE
    BY SectorRun
  <2> QED
    BY <1>5, <1>6, <2>6, <2>7
<1>11. \A p \in DataBytes : data'[p] = IF p - (N + b) + 1 \in 1..c THEN buf[p - (N + b) + 1]
                                      ELSE data[p]
  <2>1. data' = Patched(N + b, buf)
    BY <1>1, <1>8
  <2>2. \A p \in DataBytes : data'[p] = IF p - (N + b) + 1 \in 1..Len(buf)
                                        THEN buf[p - (N + b) + 1] ELSE data[p]
    BY <1>3, <2>1, PatchedIs
  <2> QED
    BY <1>7, <2>2
<1>12. \A p \in DataBytes : p < N => data'[p] = data[p]
  <2>1. DataBytes \subseteq Nat
    BY DEF DataBytes
  <2>2. \A p \in Nat : p < N => ~ (p - (N + b) + 1 \in 1..c)
    OBVIOUS
  <2> QED
    BY <1>11, <2>1, <2>2
<1>13. ASSUME NEW dir \in [Slots -> Entry], Sound(dir, next_free_lba), NEW n \in Name
       PROVE  ViewIn(data', dir, n) = ViewIn(data, dir, n)
  <2>1. ASSUME NEW s \in Slots, dir[s].name = n, NEW i \in 1..(dir[s].capacity * SECTOR_SIZE)
        PROVE  data'[Byte0(dir[s]) + i - 1] = data[Byte0(dir[s]) + i - 1]
    <3>1. dir[s] \in Entry /\ Fits(dir[s], next_free_lba)
      BY <1>13, <2>1, UfsAssumption DEF Sound, Used
    <3>2. /\ Byte0(dir[s]) + i - 1 \in DataBytes
          /\ Byte0(dir[s]) + i - 1 < next_free_lba * SECTOR_SIZE
      BY <1>3, <2>1, <3>1, ByteInside
    <3> QED
      BY <1>12, <1>7, <3>2
  <2> QED
    BY <1>13, <2>1, SameBytes
<1>14. \A n \in Name : MemView'[n] = MemView[n] /\ OldView'[n] = OldView[n]
  <2>1. Sound(directory, next_free_lba) /\ Sound(disk_dir, next_free_lba)
    BY <1>1, StructureFacts, SMTT(60) DEF Idle, Growing
  <2> QED
    BY <1>2, <1>13, <2>1, StructureFacts, Views DEF memVars
<1>15. Settlement'
  <2>1. \A n \in Name : Untouched(n)
    BY <1>1 DEF Untouched
  <2> QED
    BY <1>2, <1>14, <2>1, SettlementStays DEF memVars
<1>16. Copied'
  <2>1. op'.done <= sectors_for_bytes(directory'[op'.slot].size)
    BY <1>1, <1>2, <1>4 DEF memVars
  <2>2. ASSUME NEW i \in 1..(b + c)
        PROVE  data'[N + i - 1] = data'[B + i - 1]
    <3>1. B + i - 1 \in DataBytes /\ B + i - 1 < N
      <4>1. i \in 1..(e.capacity * SECTOR_SIZE)
        BY <1>7, <1>9
      <4> QED
        BY <1>3, <1>7, <4>1, ByteInside
    <3>2. data'[B + i - 1] = data[B + i - 1]
      BY <1>12, <3>1
    <3>3. N + i - 1 \in DataBytes
      <4>1. N + i - 1 \in 0..(v - 1)
        BY <1>10, <1>9
      <4> QED
        BY <1>7, <4>1 DEF DataBytes
    <3>4. CASE i <= b
      <4>1. data'[N + i - 1] = data[N + i - 1]
        <5>1. ~ ((N + i - 1) - (N + b) + 1 \in 1..c)
          BY <3>4
        <5> QED
          BY <1>11, <3>3, <5>1
      <4>2. data[N + i - 1] = data[B + i - 1]
        <5>1. i \in 1..b
          BY <3>4
        <5> QED
          BY <1>1, <1>7, <5>1 DEF HistoryInv, Copied
      <4> QED
        BY <3>2, <4>1, <4>2
    <3>5. CASE ~ (i <= b)
      <4>1. PICK j \in 1..c : j = i - b
        BY <3>5
      <4>2. (N + i - 1) - (N + b) + 1 = j /\ B + b + j - 1 = B + i - 1
        BY <4>1
      <4>3. data'[N + i - 1] = buf[j]
        BY <1>11, <3>3, <4>2
      <4>4. buf[j] = data[B + b + j - 1]
        BY <1>1, <1>6, <1>7
      <4> QED
        BY <3>2, <4>2, <4>3, <4>4
    <3> QED
      BY <3>4, <3>5
  <2>3. /\ op'.done * SECTOR_SIZE = b + c /\ next_free_lba' * SECTOR_SIZE = N
        /\ Byte0(directory'[op'.slot]) = B
    BY <1>2, <1>4, <1>7, <1>8 DEF memVars
  <2> HIDE DEF e, k
  <2> QED
    BY <1>4, <2>1, <2>2, <2>3 DEF Copied, Growing, Byte0
<1> QED
  BY <1>4, <1>15, <1>16 DEF HistoryInv, SameDirs, Results, Overwrites, Overwriting

(* The entry points to the copy: nothing a reader sees has changed. *)
LEMMA RelocateHistory ==
    ASSUME StructureInv, StructureInv', HistoryInv, Relocate
    PROVE  HistoryInv'
<1> DEFINE old == directory[op.slot]
<1>1. PICK cap \in Nat, e \in Entry :
         /\ e = [old EXCEPT !.start_lba = next_free_lba, !.capacity = cap]
         /\ op.stage = "move" /\ op.slot \in Slots /\ old \in Entry /\ Used(directory, op.slot)
         /\ Fits(old, next_free_lba) /\ directory' = [directory EXCEPT ![op.slot] = e]
  BY RelocatedEntry
<1>2. /\ op' = [op EXCEPT !.stage = "grow_dir", !.done = 0]
      /\ op.done >= sectors_for_bytes(old.size)
      /\ UNCHANGED <<ufs_ready, diskVars, stored>>
  BY DEF Relocate
<1>3. op'.stage = "grow_dir" /\ op'.done = 0
  BY <1>2, StructureFacts DEF Operation
<1>4. /\ e.name = old.name /\ e.size = old.size /\ e.owner = old.owner /\ e.perm = old.perm
      /\ e.start_lba = next_free_lba
  BY <1>1 DEF Entry
<1>5. FileOf(data, old) = FileOf(data, e)
  <2> DEFINE k == sectors_for_bytes(old.size)
  <2>1. old.size \in Nat /\ k \in Nat /\ old.size <= k * SECTOR_SIZE
    BY <1>1, RoundsUp DEF Entry
  <2>2. op.done = k
    BY <1>1, <1>2, <2>1, StructureFacts DEF HistoryInv, Copied
  <2>3. PICK d \in Nat : d = op.done * SECTOR_SIZE
    BY <2>1, <2>2, SectorOrder
  <2>4. 1..old.size \subseteq 1..d
    BY <2>1, <2>2, <2>3
  <2>5. \A i \in 1..d : data[next_free_lba * SECTOR_SIZE + i - 1] = data[Byte0(old) + i - 1]
    BY <1>1, <2>3 DEF HistoryInv, Copied
  <2>6. \A i \in 1..old.size : data[Byte0(old) + i - 1] = data[Byte0(e) + i - 1]
    BY <1>4, <2>4, <2>5 DEF Byte0
  <2>7. PICK o \in Entry : o = old
    BY <1>1
  <2> HIDE DEF old
  <2> QED
    BY <1>4, <2>6, <2>7, SameFile
<1>6. ASSUME NEW n \in Name
      PROVE  ViewIn(data, directory', n) = ViewIn(data, directory, n)
  <2>1. PICK d1 \in [Slots -> Entry], d2 \in [Slots -> Entry] :
           /\ d1 = directory /\ d2 = directory'
           /\ Sound(d1, next_free_lba) /\ Sound(d2, next_free_lba')
    BY StructureFacts, FactsNext
  <2>2. ASSUME NEW s \in Slots
        PROVE  /\ d2[s].name = n <=> d1[s].name = n
               /\ d2[s].name = n => FileOf(data, d2[s]) = FileOf(data, d1[s])
    <3>1. CASE s = op.slot
      BY <1>1, <1>4, <1>5, <2>1, <3>1
    <3>2. CASE s # op.slot
      BY <1>1, <2>1, <3>2
    <3> QED
      BY <3>1, <3>2
  <2>3. ViewIn(data, d2, n) = ViewIn(data, d1, n)
    BY <2>1, <2>2, SameView
  <2> QED
    BY <2>1, <2>3
<1>7. \A n \in Name : MemView'[n] = MemView[n] /\ OldView'[n] = OldView[n]
  BY <1>2, <1>6, Views, SameViews DEF diskVars
<1>8. Settlement'
  <2>1. \A n \in Name : Untouched(n)
    BY <1>1 DEF Untouched
  <2> QED
    BY <1>2, <1>7, <2>1, SettlementStays
<1> QED
  BY <1>3, <1>8 DEF HistoryInv, SameDirs, Results, Copied, Overwrites, Overwriting

(* One round of the loop in ufs_write_at, byte by byte *)
LEMMA WriteBytes ==
    ASSUME StructureInv, WriteSector
    PROVE  LET first == Byte0(directory[op.slot]) + op.offset + op.done
           IN  \E chunk \in Nat \ {0} :
                  /\ op.done + chunk <= Len(op.buf) /\ op.stage = "data" /\ first \in Nat
                  /\ op' = [op EXCEPT !.done = op.done + chunk]
                  /\ \A p \in DataBytes :
                        data'[p] = IF p - first + 1 \in 1..chunk
                                   THEN op.buf[op.done + (p - first + 1)] ELSE data[p]
<1> DEFINE e == directory[op.slot]
           first == Byte0(e) + op.offset + op.done
<1>1. PICK chunk \in Nat \ {0}, src \in Seq(Byte) :
         /\ op.done + chunk <= Len(op.buf) /\ op.stage = "data"
         /\ Len(src) = chunk /\ \A i \in 1..chunk : src[i] = op.buf[op.done + i]
         /\ data' = Patched(Byte0(e) + (op.offset + op.done), src)
         /\ op' = [op EXCEPT !.done = @ + chunk]
  BY WriteRound
<1>2. /\ op.done \in Nat /\ op.offset \in Nat /\ e \in Entry /\ data \in [DataBytes -> Byte]
      /\ op \in Operation
  BY StructureFacts
<1>3. Byte0(e) \in Nat
  <2>1. e.start_lba \in Nat
    BY <1>2, Sizes DEF Entry
  <2> QED
    BY <2>1, Sizes DEF Byte0
<1>4. first \in Nat /\ Byte0(e) + (op.offset + op.done) = first
  BY <1>2, <1>3
<1>5. op' = [op EXCEPT !.done = op.done + chunk]
  BY <1>1, <1>2 DEF Operation
<1> HIDE DEF first
<1>6. \A p \in DataBytes : data'[p] = IF p - first + 1 \in 1..Len(src)
                                      THEN src[p - first + 1] ELSE data[p]
  <2>1. data' = Patched(first, src)
    BY <1>1, <1>4
  <2> QED
    BY <1>2, <2>1, PatchedIs
<1>7. \A p \in DataBytes : data'[p] = IF p - first + 1 \in 1..chunk
                                      THEN op.buf[op.done + (p - first + 1)] ELSE data[p]
  BY <1>1, <1>6
<1> QED
  BY <1>1, <1>4, <1>5, <1>7 DEF first

(* A write leaves other files alone, in any sound directory that gives its  *)
(* file the same sectors.                                                   *)
LEMMA WriteLeaves ==
    ASSUME StructureInv, WriteSector, NEW dir \in [Slots -> Entry],
           NEW free \in 0..UFS_DATA_END, Sound(dir, free),
           SamePlace(directory[op.slot], dir[op.slot]), NEW n \in Name, n # op.name
    PROVE  ViewIn(data', dir, n) = ViewIn(data, dir, n)
<1> DEFINE e == directory[op.slot]
           first == Byte0(e) + op.offset + op.done
<1>1. PICK chunk \in Nat \ {0} :
         /\ op.done + chunk <= Len(op.buf) /\ op.stage = "data" /\ first \in Nat
         /\ \A p \in DataBytes :
               data'[p] = IF p - first + 1 \in 1..chunk
                          THEN op.buf[op.done + (p - first + 1)] ELSE data[p]
  BY WriteBytes
<1>2. op.call = "write" /\ InPlace(op.slot, Needed)
  BY <1>1 DEF StructureInv, OpInv, Writing
<1>3. /\ op.slot \in Slots /\ op.name \in Name /\ e.name = op.name /\ e \in Entry
      /\ op.done \in Nat /\ op.offset \in Nat /\ Len(op.buf) \in Nat
      /\ Needed = op.offset + Len(op.buf)
  BY <1>1, <1>2, WrittenFile
<1>4. PICK g \in Entry : /\ g = dir[op.slot] /\ g.name = op.name /\ Byte0(g) = Byte0(e)
                         /\ g.capacity = e.capacity
  BY <1>3 DEF SamePlace, Byte0
<1>5. PICK B \in Nat, o \in Nat, d \in Nat, c \in Nat :
         /\ B = Byte0(g) /\ o = op.offset /\ d = op.done /\ c = g.capacity * SECTOR_SIZE
         /\ first = B + o + d /\ o + d + chunk <= c
  <2>1. g.start_lba \in Nat /\ g.capacity \in Nat
    <3>1. g.start_lba \in 0..UFS_DATA_END /\ g.capacity \in 0..UFS_DATA_END
      BY DEF Entry
    <3> QED
      BY <3>1, Sizes
  <2>2. Byte0(g) \in Nat /\ g.capacity * SECTOR_SIZE \in Nat
    BY <2>1, Sizes DEF Byte0
  <2>3. op.offset + Len(op.buf) <= g.capacity * SECTOR_SIZE
    BY <1>2, <1>3, <1>4 DEF InPlace
  <2>4. first = Byte0(g) + op.offset + op.done
    BY <1>4
  <2> HIDE DEF e, first
  <2>5. PICK c \in Nat : c = g.capacity * SECTOR_SIZE
    BY <2>2
  <2>6. op.offset + op.done + chunk <= c
    <3>1. op.offset + Len(op.buf) <= c /\ op.done + chunk <= Len(op.buf)
      BY <1>1, <2>3, <2>5
    <3> QED
      BY <1>3, <3>1
  <2> QED
    BY <1>3, <2>2, <2>4, <2>5, <2>6
<1>6. ASSUME NEW s \in Slots, dir[s].name = n, NEW i \in 1..(dir[s].capacity * SECTOR_SIZE)
      PROVE  data'[Byte0(dir[s]) + i - 1] = data[Byte0(dir[s]) + i - 1]
  <2>1. PICK f \in Entry : f = dir[s]
    OBVIOUS
  <2>2. Fits(f, free) /\ Apart(g, f)
    BY <1>3, <1>4, <1>6, <2>1, UfsAssumption DEF Sound, Used
  <2>3. PICK p \in DataBytes : p = Byte0(f) + i - 1
    BY <1>6, <2>1, <2>2, ByteInside
  <2>4. ASSUME p - first + 1 \in 1..chunk
        PROVE  FALSE
    <3>1. PICK q \in Nat : q = p
      BY DEF DataBytes
    <3> HIDE DEF first
    <3>2. PICK j \in 1..chunk : j = q - (B + o + d) + 1
      BY <1>5, <2>4, <3>1
    <3>3. o + d + j \in 1..c /\ B + (o + d + j) - 1 = q
      BY <1>5, <3>2
    <3>4. o + d + j \in 1..(g.capacity * SECTOR_SIZE)
      BY <1>5, <3>3
    <3>5. Byte0(g) + (o + d + j) - 1 # Byte0(f) + i - 1
      BY <1>6, <2>1, <2>2, <3>4, BytesApart
    <3> QED
      BY <1>5, <2>3, <3>1, <3>3, <3>5
  <2>5. data'[p] = data[p]
    BY <1>1, <2>4
  <2> QED
    BY <2>1, <2>3, <2>5
<1> QED
  BY <1>6, SameBytes

(* One round of the write *)
LEMMA WriteSectorHistory ==
    ASSUME StructureInv, StructureInv', HistoryInv, WriteSector
    PROVE  HistoryInv'
<1> DEFINE e == directory[op.slot]
           old == stored[op.name]
           first == Byte0(e) + op.offset + op.done
<1>1. PICK chunk \in Nat \ {0} :
         /\ op.done + chunk <= Len(op.buf) /\ op.stage = "data" /\ first \in Nat
         /\ op' = [op EXCEPT !.done = op.done + chunk]
         /\ \A p \in DataBytes :
               data'[p] = IF p - first + 1 \in 1..chunk
                          THEN op.buf[op.done + (p - first + 1)] ELSE data[p]
  BY WriteBytes
<1>2. UNCHANGED <<memVars, superblock, disk_dir, stored>>
  BY DEF WriteSector
<1>3. op.call = "write" /\ InPlace(op.slot, Needed)
  BY <1>1 DEF StructureInv, OpInv, Writing
<1>4. /\ op.slot \in Slots /\ op.name \in Name /\ e.name = op.name /\ e \in Entry /\ ufs_ready
      /\ op.done \in Nat /\ op.offset \in Nat /\ Len(op.buf) \in Nat
      /\ Needed = op.offset + Len(op.buf) /\ Needed \in Nat \ {0}
      /\ Used(directory, op.slot) /\ Fits(e, next_free_lba) /\ next_free_lba \in 0..UFS_DATA_END
  BY <1>1, <1>3, WrittenFile
<1>5. /\ op'.stage = "data" /\ op'.call = op.call /\ op'.slot = op.slot /\ op'.name = op.name
      /\ op'.offset = op.offset /\ op'.buf = op.buf /\ op'.done = op.done + chunk
      /\ op.done + chunk \in Nat
  BY <1>1, <1>4, LoopStep
<1>6. ASSUME NEW n \in Name, n # op.name
      PROVE  MemView'[n] = MemView[n] /\ OldView'[n] = OldView[n]
  <2>1. SamePlace(e, directory[op.slot]) /\ SamePlace(e, disk_dir[op.slot])
    <3>1. e.capacity > 0
      BY <1>3, <1>4, HasSectors DEF InPlace
    <3> QED
      BY <1>1, <1>4, <3>1 DEF StructureInv, SameExtents, SamePlace
  <2>2. /\ Sound(directory, next_free_lba) /\ Sound(disk_dir, next_free_lba)
        /\ directory \in [Slots -> Entry] /\ disk_dir \in [Slots -> Entry]
    BY <1>1, StructureFacts DEF Idle, Growing
  <2>3. /\ ViewIn(data', directory, n) = ViewIn(data, directory, n)
        /\ ViewIn(data', disk_dir, n) = ViewIn(data, disk_dir, n)
    BY <1>4, <1>6, <2>1, <2>2, WriteLeaves
  <2> QED
    BY <1>2, <2>3, Views DEF memVars
<1>7. Settlement'
  <2>1. \A n \in Name : Untouched(n)' => n # op.name
    BY <1>5 DEF Untouched
  <2> QED
    BY <1>2, <1>6, <2>1, SettlementStays DEF Untouched, memVars
<1>8. /\ op.done \in 0..Len(op.buf)
      /\ \A i \in 1..op.done : data[Byte0(e) + op.offset + i - 1] = op.buf[i]
      /\ old # Unsettled => Halfway(e, old)
  BY <1>1 DEF HistoryInv, Overwrites, Overwriting
<1>9. PICK B \in Nat, o \in Nat, d \in Nat, c \in Nat, m \in Nat :
         /\ B = Byte0(e) /\ o = op.offset /\ d = op.done /\ c = e.capacity * SECTOR_SIZE
         /\ m = Len(op.buf) /\ first = B + o + d /\ o + m <= c /\ d + chunk <= m
  <2>1. e.start_lba \in Nat /\ e.capacity \in Nat
    <3>1. e.start_lba \in 0..UFS_DATA_END /\ e.capacity \in 0..UFS_DATA_END
      BY <1>4 DEF Entry
    <3> QED
      BY <3>1, Sizes
  <2>2. Byte0(e) \in Nat /\ e.capacity * SECTOR_SIZE \in Nat
    BY <2>1, Sizes DEF Byte0
  <2>3. op.offset + Len(op.buf) <= e.capacity * SECTOR_SIZE
    BY <1>3, <1>4 DEF InPlace
  <2>4. first = Byte0(e) + op.offset + op.done
    OBVIOUS
  <2> HIDE DEF e, first
  <2> QED
    BY <1>1, <1>4, <2>2, <2>3, <2>4
<1>10. first = B + o + d /\ o + m <= c /\ d + chunk <= m
  BY <1>9
<1>11. ASSUME NEW j \in Nat \ {0}, j <= c
       PROVE  data'[B + j - 1] = IF j - (o + d) \in 1..chunk THEN op.buf[j - o]
                                 ELSE data[B + j - 1]
  <2>1. B + j - 1 \in DataBytes
    <3>1. j \in 1..(e.capacity * SECTOR_SIZE)
      BY <1>9, <1>11
    <3> QED
      BY <1>4, <1>9, <3>1, ByteInside
  <2>2. (B + j - 1) - first + 1 = j - (o + d) /\ op.done + (j - (o + d)) = j - o
    <3>1. (B + j - 1) - (B + o + d) + 1 = j - (o + d) /\ d + (j - (o + d)) = j - o
      OBVIOUS
    <3> HIDE DEF first
    <3> QED
      BY <1>9, <1>10, <3>1
  <2> HIDE DEF first
  <2> QED
    BY <1>1, <2>1, <2>2
<1>12. ASSUME NEW i \in 1..(d + chunk)
       PROVE  data'[B + o + i - 1] = op.buf[i]
  <2>1. PICK j \in Nat \ {0} : /\ j = o + i /\ j <= c /\ B + j - 1 = B + o + i - 1 /\ j - o = i
                               /\ j - (o + d) = i - d
    <3> HIDE DEF first
    <3>1. o + i \in Nat \ {0} /\ o + i <= c
      BY <1>10
    <3>2. /\ B + (o + i) - 1 = B + o + i - 1 /\ (o + i) - o = i
          /\ (o + i) - (o + d) = i - d
      OBVIOUS
    <3> QED
      BY <3>1, <3>2
  <2>2. CASE i <= d
    <3>1. ~ (j - (o + d) \in 1..chunk) /\ i \in 1..d
      BY <2>1, <2>2
    <3>2. data'[B + o + i - 1] = data[B + o + i - 1]
      BY <1>11, <2>1, <3>1
    <3> QED
      BY <1>8, <1>9, <3>1, <3>2
  <2>3. CASE ~ (i <= d)
    <3>1. j - (o + d) \in 1..chunk
      BY <2>1, <2>3
    <3> QED
      BY <1>11, <2>1, <3>1
  <2> QED
    BY <2>2, <2>3
<1>13. ASSUME old # Unsettled
       PROVE  Halfway(directory[op.slot], stored[op.name])'
  <2>1. /\ superblock.magic /\ old \in File /\ old.owner = e.owner /\ old.perm = e.perm
        /\ Len(old.bytes) = e.size /\ disk_dir[op.slot] = [e EXCEPT !.size = Len(old.bytes)]
        /\ \A i \in 1..Len(old.bytes) :
              i - op.offset \notin 1..op.done => data[Byte0(e) + i - 1] = old.bytes[i]
    BY <1>1, <1>8, <1>13 DEF Halfway
  <2>2. ASSUME NEW i \in 1..Len(old.bytes), i - o \notin 1..(d + chunk)
        PROVE  data'[B + i - 1] = old.bytes[i]
    <3>1. e.size \in Nat /\ e.size <= c
      BY <1>4, <1>9 DEF Fits, Entry
    <3>2. PICK z \in Nat : z = Len(old.bytes) /\ z <= c
      BY <2>1, <3>1
    <3>3. i \in Nat \ {0} /\ i <= c /\ ~ (i - (o + d) \in 1..chunk) /\ i - o \notin 1..d
      BY <2>2, <3>2
    <3>4. data'[B + i - 1] = data[B + i - 1]
      BY <1>11, <3>3
    <3> QED
      BY <1>9, <2>1, <2>2, <3>3, <3>4
  <2>3. /\ e = directory'[op'.slot] /\ old = stored'[op'.name]
    BY <1>2, <1>5 DEF memVars
  <2> HIDE DEF e, old, first
  <2>4. \A i \in 1..Len(old.bytes) :
           i - op'.offset \notin 1..op'.done => data'[Byte0(e) + i - 1] = old.bytes[i]
    BY <1>5, <1>9, <2>2
  <2> QED
    BY <1>2, <1>5, <2>1, <2>3, <2>4, SMTT(60) DEF Halfway, Byte0
<1>14. Overwrites'
  <2>1. op'.done \in 0..Len(op'.buf)
    <3>1. d + chunk \in 0..m
      BY <1>9
    <3> QED
      BY <1>5, <1>9, <3>1
  <2>2. InPlace(op.slot, Needed)'
    BY <1>5 DEF StructureInv, OpInv
  <2>3. \A i \in 1..op'.done : data'[Byte0(directory'[op'.slot]) + op'.offset + i - 1] = op'.buf[i]
    BY <1>2, <1>5, <1>9, <1>12 DEF memVars
  <2> HIDE DEF e, old, first
  <2> QED
    BY <1>2, <1>5, <1>13, <2>1, <2>2, <2>3 DEF Overwrites, Byte0, old
<1> QED
  BY <1>5, <1>7, <1>14 DEF HistoryInv, SameDirs, Results, Copied, Growing

(* A finished write has made of its file what was asked for.                *)
LEMMA WriteResult ==
    ASSUME StructureInv, HistoryInv, op.call = "write", Overwriting, op.done = Len(op.buf),
           stored[op.name] # Unsettled
    PROVE  Outcome(stored[op.name]) = MemView[op.name]
<1> DEFINE e == directory[op.slot]
           old == stored[op.name]
           now == Contents(directory, op.slot)
<1>1. /\ e \in Entry /\ op.slot \in Slots /\ MemView[op.name] = FileOf(data, e)
      /\ op.offset \in Nat /\ op.buf \in Seq(Byte)
  BY WrittenFile DEF Overwriting
<1>2. /\ \A i \in 1..op.done : data[Byte0(e) + op.offset + i - 1] = op.buf[i]
      /\ Halfway(e, old)
  BY DEF HistoryInv, Overwrites
<1>3. now = [i \in 1..e.size |-> data[Byte0(e) + i - 1]]
  BY DEF Contents, Byte0
<1>4. e.size \in Nat /\ Byte0(e) \in Nat
  <2>1. e.start_lba \in 0..UFS_DATA_END /\ e.size \in Nat
    BY <1>1 DEF Entry
  <2> QED
    BY <2>1, Sizes DEF Byte0
<1>5. /\ old \in File /\ old.owner = e.owner /\ old.perm = e.perm
      /\ DOMAIN old.bytes = 1..Len(old.bytes)
      /\ \A i \in 1..Len(old.bytes) :
            i - op.offset \notin 1..op.done => data[Byte0(e) + i - 1] = old.bytes[i]
  BY <1>2 DEF Halfway, File
<1>6. DOMAIN op.buf = 1..op.done
  BY <1>1
<1> HIDE DEF e, old
<1>7. ASSUME NEW i \in 1..e.size
      PROVE  (IF InRange(i) THEN op.buf[i - op.offset]
              ELSE IF i \in DOMAIN old.bytes THEN old.bytes[i] ELSE now[i])
                = data[Byte0(e) + i - 1]
  <2>1. CASE InRange(i)
    <3>1. PICK B \in Nat, o \in Nat, k \in Nat :
             B = Byte0(e) /\ o = op.offset /\ k = i - o
      BY <1>1, <1>4, <1>6, <2>1 DEF InRange
    <3>2. i - op.offset = k /\ k \in 1..op.done /\ B + o + k - 1 = B + i - 1
      BY <1>6, <2>1, <3>1 DEF InRange
    <3> QED
      BY <1>2, <2>1, <3>1, <3>2
  <2>2. CASE ~ InRange(i)
    <3>1. i - op.offset \notin 1..op.done
      BY <1>6, <2>2 DEF InRange
    <3> QED
      BY <1>3, <1>5, <2>2, <3>1
  <2> QED
    BY <2>1, <2>2
<1>8. Overlaid(old.bytes, now) = now
  <2>1. DOMAIN now = 1..e.size /\ \A i \in 1..e.size : now[i] = data[Byte0(e) + i - 1]
    BY <1>3
  <2> HIDE DEF now
  <2>2. Overlaid(old.bytes, now) = [i \in 1..e.size |-> data[Byte0(e) + i - 1]]
    BY <1>7, <2>1 DEF Overlaid
  <2> QED
    BY <1>3, <2>2
<1>9. old = [owner |-> e.owner, perm |-> e.perm, bytes |-> old.bytes]
  BY <1>5 DEF File
<1>10. [old EXCEPT !.bytes = Overlaid(@, now)] = FileOf(data, e)
  <2>1. [old EXCEPT !.bytes = Overlaid(@, now)] = [owner |-> e.owner, perm |-> e.perm, bytes |-> now]
    <3> HIDE DEF now
    <3> QED
      BY <1>8, <1>9
  <2> QED
    BY <1>3, <2>1 DEF FileOf
<1>11. Outcome(old) = [old EXCEPT !.bytes = Overlaid(@, now)]
  BY DEF Outcome, old
<1> QED
  BY <1>1, <1>10, <1>11 DEF e, old

(* While a file is being written, the disk still shows it as memory did     *)
(* before it grew.                                                          *)
LEMMA DiskShowsOld ==
    ASSUME StructureInv, HistoryInv, op.call = "write", op.stage \in {"data", "dir"},
           stored[op.name] # Unsettled
    PROVE  LET e == directory[op.slot]
               f == disk_dir[op.slot]
           IN  /\ OldView[op.name] = FileOf(data, f) /\ SamePlace(e, f)
               /\ f = [e EXCEPT !.size = Len(stored[op.name].bytes)]
               /\ f \in Entry /\ \E free \in 0..UFS_DATA_END : Fits(f, free)
<1> DEFINE e == directory[op.slot]
           f == disk_dir[op.slot]
<1>1. /\ e \in Entry /\ op.slot \in Slots /\ op.name \in Name /\ e.name = op.name
      /\ Used(directory, op.slot) /\ Needed \in Nat \ {0}
  BY WrittenFile
<1>2. InPlace(op.slot, Needed) /\ Halfway(e, stored[op.name])
  BY DEF HistoryInv, Overwrites, Overwriting
<1>3. superblock.magic /\ f = [e EXCEPT !.size = Len(stored[op.name].bytes)]
  BY <1>2 DEF Halfway
<1>4. f \in Entry /\ disk_dir \in [Slots -> Entry]
  BY <1>1, StructureFacts
<1>5. SamePlace(e, f)
  BY <1>1, <1>3 DEF SamePlace, Entry
<1>6. PICK free \in 0..UFS_DATA_END : Sound(disk_dir, free)
  BY StructureFacts DEF StructureInv, DiskSound
<1>7. f.name = op.name
  BY <1>1, <1>5 DEF SamePlace
<1>8. Fits(f, free)
  BY <1>1, <1>6, <1>7, UfsAssumption DEF Sound, Used
<1>9. ViewIn(data, disk_dir, op.name) = FileOf(data, f)
  BY <1>1, <1>4, <1>6, <1>7, ViewOfFile
<1> QED
  BY <1>1, <1>3, <1>4, <1>5, <1>8, <1>9, Views

(* Settlement at the end of a call: of its file, too, memory and disk show  *)
(* what is stored.                                                          *)
LEMMA SettlementAtEnd ==
    ASSUME StructureInv, HistoryInv, UNCHANGED ufs_ready, op.name \in Name, NEW file,
           file \in File \union {NoFile, Unsettled},
           stored' = [n \in Name |-> IF n = op.name THEN file ELSE stored[n]],
           file # Unsettled \/ ufs_ready,
           file # Unsettled => file = OldView'[op.name] /\ file = MemView'[op.name],
           \A n \in Name \ {op.name} : stored[n] # Unsettled =>
              stored[n] = OldView'[n] /\ (ufs_ready => stored[n] = MemView'[n])
    PROVE  Settlement'
  BY DEF HistoryInv, Settlement

(* The loop of ufs_write_at is over. *)
LEMMA EndWriteHistory ==
    ASSUME StructureInv, StructureInv', HistoryInv, EndWrite
    PROVE  HistoryInv'
<1> DEFINE s == op.slot
           e == directory[s]
           old == stored[op.name]
<1>1. /\ op.stage = "data" /\ op.done = Len(op.buf)
      /\ UNCHANGED <<ufs_ready, next_free_lba, diskVars>>
  BY DEF EndWrite
<1>2. op.call = "write" /\ InPlace(s, Needed)
  BY <1>1 DEF StructureInv, OpInv, Writing
<1>3. /\ s \in Slots /\ op.name \in Name /\ e.name = op.name /\ e \in Entry /\ ufs_ready
      /\ Needed \in Nat /\ op \in Operation /\ op.done \in 0..Len(op.buf)
      /\ MemView[op.name] = FileOf(data, e) /\ directory \in [Slots -> Entry]
  BY <1>1, <1>2, WrittenFile, StructureFacts
<1>4. /\ \A i \in 1..op.done : data[Byte0(e) + op.offset + i - 1] = op.buf[i]
      /\ old # Unsettled => Halfway(e, old)
  BY <1>1 DEF HistoryInv, Overwrites, Overwriting
<1>5. \A n \in Name : OldView'[n] = OldView[n]
  BY <1>1, SameViews DEF diskVars
<1>6. \A n \in Name \ {op.name} : stored[n] # Unsettled =>
         stored[n] = OldView[n] /\ stored[n] = MemView[n]
  BY <1>3 DEF HistoryInv, Settlement, Untouched
<1>7. CASE Needed > e.size
  <2> DEFINE g == [e EXCEPT !.size = Needed]
  <2>1. directory' = [directory EXCEPT ![s] = g] /\ op' = [op EXCEPT !.stage = "dir"] /\ UNCHANGED stored
    BY <1>7 DEF EndWrite
  <2>2. /\ op'.stage = "dir" /\ op'.call = "write" /\ op'.slot = s /\ op'.name = op.name
        /\ op'.offset = op.offset /\ op'.buf = op.buf /\ op'.done = op.done
    BY <1>2, <1>3, <2>1 DEF Operation
  <2>3. /\ directory'[s] = g /\ g.size = Needed /\ SamePlace(e, g) /\ g.owner = e.owner
        /\ g.perm = e.perm /\ Byte0(g) = Byte0(e)
    BY <1>3, <2>1 DEF SamePlace, Entry, Byte0
  <2>4. ASSUME NEW n \in Name, n # op.name
        PROVE  MemView'[n] = MemView[n]
    <3>1. PICK d1 \in [Slots -> Entry], d2 \in [Slots -> Entry] : 
             /\ d1 = directory /\ d2 = directory'
             /\ Sound(d1, next_free_lba) /\ Sound(d2, next_free_lba')
      BY StructureFacts, FactsNext
    <3>2. d1[s].name # n /\ d2[s].name # n /\ \A t \in Slots : t # s => d2[t] = d1[t]
      BY <1>3, <2>1, <2>3, <2>4, <3>1 DEF SamePlace
    <3>3. ViewIn(data, d2, n) = ViewIn(data, d1, n)
      BY <1>3, <3>1, <3>2, OtherNames
    <3> QED
      BY <1>1, <3>1, <3>3, Views DEF diskVars
  <2>5. Settlement'
    <3>1. \A n \in Name : Untouched(n)' => n # op.name
      BY <2>2 DEF Untouched
    <3> QED
      BY <1>1, <1>5, <2>1, <2>4, <3>1, SettlementStays DEF Untouched
  <2>6. Overwrites'
    <3>1. Needed' = Needed
      BY <2>2 DEF Needed
    <3>2. InPlace(op.slot, Needed)'
      BY <1>2, <2>2, <2>3, <3>1 DEF InPlace, SamePlace
    <3>3. old # Unsettled => Halfway(directory[op.slot], stored[op.name])'
      <4> HAVE old # Unsettled
      <4>1. /\ superblock.magic /\ old \in File /\ old.owner = e.owner /\ old.perm = e.perm
            /\ Len(old.bytes) = e.size
            /\ \A i \in 1..Len(old.bytes) :
                  i - op.offset \notin 1..op.done => data[Byte0(e) + i - 1] = old.bytes[i]
            /\ disk_dir[s] = [e EXCEPT !.size = Len(old.bytes)]
        BY <1>1, <1>4 DEF Halfway
      <4>2. [e EXCEPT !.size = Len(old.bytes)] = [g EXCEPT !.size = Len(old.bytes)]
        BY <1>3 DEF Entry
      <4>3. Len(old.bytes) < g.size /\ directory'[op'.slot] = g /\ stored'[op'.name] = old
        BY <1>7, <2>1, <2>2, <2>3, <4>1
      <4> HIDE DEF g, e, old
      <4> QED
        BY <1>1, <2>2, <2>3, <4>1, <4>2, <4>3 DEF Halfway, Byte0, diskVars
    <3> HIDE DEF g, e
    <3> QED
      BY <1>1, <1>3, <1>4, <2>1, <2>2, <2>3, <3>1, <3>2, <3>3
         DEF Overwrites, Overwriting, Byte0, diskVars
  <2> QED
    BY <2>2, <2>5, <2>6 DEF HistoryInv, SameDirs, Results, Copied, Growing
<1>8. CASE ~ (Needed > e.size)
  <2>1. op' = Idle /\ stored' = Ended /\ UNCHANGED directory
    BY <1>8 DEF EndWrite
  <2>2. \A n \in Name : MemView'[n] = MemView[n]
    BY <1>1, <2>1, SameViews DEF diskVars
  <2>3. old # Unsettled => Outcome(old) = MemView[op.name] /\ OldView[op.name] = MemView[op.name]
    <3> HAVE old # Unsettled
    <3>1. Outcome(old) = MemView[op.name]
      BY <1>1, <1>2, WriteResult DEF Overwriting
    <3>2. /\ OldView[op.name] = FileOf(data, disk_dir[s])
          /\ disk_dir[s] = [e EXCEPT !.size = Len(old.bytes)]
      BY <1>1, <1>2, DiskShowsOld
    <3>3. Len(old.bytes) = e.size
      BY <1>1, <1>4 DEF Halfway
    <3>4. disk_dir[s] = e
      BY <1>3, <3>2, <3>3 DEF Entry
    <3> QED
      BY <1>3, <3>1, <3>2, <3>4
  <2>4. old = Unsettled => Outcome(old) = Unsettled
    BY DEF Outcome
  <2>5. Outcome(old) \in File \union {NoFile, Unsettled}
    BY <1>3, <2>3, <2>4, ViewTypes
  <2>6. stored' = [n \in Name |-> IF n = op.name THEN Outcome(old) ELSE stored[n]]
    BY <2>1 DEF Ended
  <2>7. Outcome(old) # Unsettled =>
           Outcome(old) = OldView'[op.name] /\ Outcome(old) = MemView'[op.name]
    BY <1>3, <1>5, <2>2, <2>3, <2>4
  <2>8. Settlement'
    <3> HIDE DEF old
    <3> QED
      BY <1>1, <1>3, <1>5, <1>6, <2>2, <2>5, <2>6, <2>7, SettlementAtEnd
  <2> QED
    BY <2>1, <2>8, HistoryAtRest DEF Idle
<1> QED
  BY <1>7, <1>8

(* What the disk shows once it holds the directory in memory *)
LEMMA DirectoryWritten ==
    ASSUME disk_dir' = directory, UNCHANGED <<directory, data>>, NEW n \in Name
    PROVE  /\ MemView'[n] = MemView[n]
           /\ OldView'[n] = IF superblock'.magic THEN MemView[n] ELSE NoFile
  BY Views

(* persist_directory: the disk shows what memory does, if it counts. *)
LEMMA DirectoryHistory ==
    ASSUME StructureInv, StructureInv', HistoryInv, persist_directory, DirectoryDone
    PROVE  HistoryInv'
<1>1. /\ op.stage \in {"dir", "grow_dir", "format_dir"} /\ disk_dir' = directory
      /\ UNCHANGED <<ufs_ready, directory, superblock, data, stored>>
      /\ op' = [op EXCEPT !.sectors = 0,
                          !.stage = CASE @ = "dir" -> "sb"
                                      [] @ = "grow_dir" -> "grow_sb"
                                      [] @ = "format_dir" -> "format_sb"]
  BY DEF persist_directory, DirectoryDone, memVars
<1>2. PICK stage \in {"sb", "grow_sb", "format_sb"} :
         /\ op' = [op EXCEPT !.sectors = 0, !.stage = stage]
         /\ op.stage = "dir" <=> stage = "sb"
         /\ op.stage = "grow_dir" <=> stage = "grow_sb"
         /\ op.stage = "format_dir" <=> stage = "format_sb"
  <2>1. op \in Operation
    BY StructureFacts
  <2> QED
    BY <1>1, <2>1
<1>3. /\ op'.stage = stage /\ op'.call = op.call /\ op'.slot = op.slot /\ op'.name = op.name
      /\ op'.offset = op.offset /\ op'.buf = op.buf /\ op'.done = op.done
      /\ op'.result = op.result
  BY <1>2, StructureFacts DEF Operation
<1>4. \A n \in Name : /\ MemView'[n] = MemView[n]
                      /\ OldView'[n] = IF superblock.magic THEN MemView[n] ELSE NoFile
  BY <1>1, DirectoryWritten
<1>5. ASSUME NEW n \in Name, stored[n] # Unsettled, Untouched(n)'
      PROVE  stored[n] = OldView'[n] /\ (ufs_ready => stored[n] = MemView'[n])
  <2>1. Untouched(n)
    BY <1>2, <1>3, <1>5 DEF Untouched
  <2>2. stored[n] = OldView[n] /\ (ufs_ready => stored[n] = MemView[n])
    BY <1>5, <2>1 DEF HistoryInv, Settlement
  <2>3. ~ superblock.magic => OldView[n] = NoFile
    BY DEF OldView
  <2>4. ~ ufs_ready => ~ superblock.magic
    BY <1>1, StageCases DEF StructureInv, Pointers, Formatting, Writing
  <2> QED
    BY <1>4, <2>2, <2>3, <2>4
<1>6. Settlement'
  BY <1>1, <1>5 DEF HistoryInv, Settlement
<1>7. SameDirs'
  BY <1>1 DEF SameDirs
<1>8. Results'
  <2>1. CASE stage = "sb"
    <3>1. op.name \in Name /\ op.stage = "dir"
      BY <1>2, <2>1, StageCases
    <3>2. op.call # "write" => MemView'[op.name] = op.result
      BY <1>4, <3>1 DEF HistoryInv, Results
    <3>3. ~ superblock.magic => stored[op.name] \in {OldView'[op.name], Unsettled}
      <4> HAVE ~ superblock.magic
      <4>1. OldView[op.name] = NoFile /\ OldView'[op.name] = NoFile
        BY <1>4, <3>1 DEF OldView
      <4>2. CASE op.call = "write"
        BY <3>1, <4>2 DEF HistoryInv, Overwrites, Overwriting, Halfway
      <4>3. CASE op.call # "write"
        BY <3>1, <4>1, <4>3 DEF HistoryInv, Results
      <4> QED
        BY <4>2, <4>3
    <3> QED
      BY <1>1, <1>3, <2>1, <3>2, <3>3 DEF Results
  <2>2. CASE stage # "sb"
    BY <1>3, <2>2 DEF Results
  <2> QED
    BY <2>1, <2>2
<1>9. Copied'
  BY <1>2, <1>3 DEF HistoryInv, Copied, Growing
<1>10. Overwrites'
  <2>1. CASE stage = "sb" /\ op.call = "write"
    <3> DEFINE e == directory[op.slot]
    <3>1. op.stage = "dir"
      BY <1>2, <2>1
    <3>2. /\ op.done \in 0..Len(op.buf) /\ InPlace(op.slot, Needed)
          /\ op.done = Len(op.buf) /\ e.size = Needed
          /\ \A i \in 1..op.done : data[Byte0(e) + op.offset + i - 1] = op.buf[i]
          /\ stored[op.name] # Unsettled => Halfway(e, stored[op.name])
      BY <2>1, <3>1 DEF HistoryInv, Overwrites, Overwriting
    <3>3. Needed' = Needed
      BY <1>3 DEF Needed
    <3>4. InPlace(op.slot, Needed)'
      BY <1>1, <1>3, <3>2, <3>3 DEF InPlace
    <3>5. stored[op.name] # Unsettled => Halfway(directory[op.slot], stored[op.name])'
      BY <1>1, <1>3, <2>1, <3>1, <3>2 DEF Halfway, Byte0
    <3> QED
      BY <1>1, <1>3, <2>1, <3>2, <3>3, <3>4, <3>5 DEF Overwrites, Overwriting, Byte0
  <2>2. CASE ~ (stage = "sb" /\ op.call = "write")
    BY <1>3, <2>2 DEF Overwrites, Overwriting
  <2> QED
    BY <2>1, <2>2
<1> QED
  BY <1>6, <1>7, <1>8, <1>9, <1>10 DEF HistoryInv

(* persist_superblock: everything is settled. *)
LEMMA SuperblockHistory ==
    ASSUME StructureInv, StructureInv', HistoryInv, persist_superblock
    PROVE  HistoryInv'
<1>1. /\ op.stage \in {"sb", "grow_sb", "format_sb"} /\ ufs_ready' = TRUE
      /\ superblock' = [magic |-> TRUE, next_free |-> next_free_lba]
      /\ op' = IF op.stage = "grow_sb" THEN [op EXCEPT !.stage = "data"] ELSE Idle
      /\ stored' = Settled(IF op.stage = "sb" THEN Ended ELSE stored, MemView)
      /\ UNCHANGED <<directory, disk_dir, data>>
  BY DEF persist_superblock
<1>2. disk_dir = directory
  BY <1>1 DEF HistoryInv, SameDirs
<1>3. \A n \in Name : MemView'[n] = MemView[n] /\ OldView'[n] = MemView[n]
  <2>1. disk_dir' = directory /\ superblock'.magic
    BY <1>1, <1>2
  <2> QED
    BY <1>1, <2>1, DirectoryWritten
<1>4. ASSUME NEW n \in Name
      PROVE  stored'[n] = MemView[n]
  <2>1. CASE op.stage = "sb" /\ n = op.name
    <3>1. stored'[n] = IF Outcome(stored[n]) = Unsettled THEN MemView[n] ELSE Outcome(stored[n])
      BY <1>1, <2>1 DEF Settled, Ended
    <3>2. CASE stored[n] = Unsettled
      BY <3>1, <3>2 DEF Outcome
    <3>3. CASE stored[n] # Unsettled /\ op.call = "write"
      <4>1. Overwriting /\ op.done = Len(op.buf)
        BY <2>1, <3>3 DEF HistoryInv, Overwrites, Overwriting
      <4>2. Outcome(stored[n]) = MemView[n]
        BY <2>1, <3>3, <4>1, WriteResult
      <4> QED
        BY <3>1, <4>2
    <3>4. CASE stored[n] # Unsettled /\ op.call # "write"
      <4>1. Outcome(stored[n]) = op.result
        BY <3>4 DEF Outcome
      <4>2. op.result = MemView[n]
        BY <2>1, <3>4 DEF HistoryInv, Results
      <4> QED
        BY <3>1, <4>1, <4>2
    <3> QED
      BY <3>2, <3>3, <3>4
  <2>2. CASE ~ (op.stage = "sb" /\ n = op.name)
    <3>1. stored'[n] = IF stored[n] = Unsettled THEN MemView[n] ELSE stored[n]
      BY <1>1, <2>2 DEF Settled, Ended
    <3>2. stored[n] # Unsettled => stored[n] = MemView[n]
      <4> HAVE stored[n] # Unsettled
      <4>1. Untouched(n)
        <5>1. op.stage = "format_sb" => n # op.name
          BY StageCases, UfsAssumption DEF Formatting
        <5> QED
          BY <1>1, <2>2, <5>1 DEF Untouched
      <4>2. stored[n] = OldView[n] /\ (ufs_ready => stored[n] = MemView[n])
        BY <4>1 DEF HistoryInv, Settlement
      <4>3. CASE ufs_ready
        BY <4>2, <4>3
      <4>4. CASE ~ ufs_ready
        <5>1. ~ superblock.magic /\ directory = ZeroDirectory
          BY <1>1, <4>4, StageCases DEF StructureInv, Pointers, Formatting, Writing
        <5>2. OldView[n] = NoFile
          BY <5>1 DEF OldView
        <5>3. MemView[n] = NoFile
          <6>1. \A s \in Slots : directory[s].name # n
            BY <5>1, ZeroTypes, UfsAssumption DEF Used
          <6>2. ViewIn(data, directory, n) = NoFile
            BY <6>1 DEF ViewIn
          <6> QED
            BY <6>2, Views
        <5> QED
          BY <4>2, <5>2, <5>3
      <4> QED
        BY <4>3, <4>4
    <3> QED
      BY <3>1, <3>2
  <2> QED
    BY <2>1, <2>2
<1>5. Settlement'
  <2>1. DOMAIN stored' = Name /\ stored' = [n \in Name |-> stored'[n]]
    BY <1>1 DEF Settled
  <2> QED
    BY <1>3, <1>4, <2>1, AllSettled
<1>6. CASE op.stage = "grow_sb"
  <2>1. /\ op'.stage = "data" /\ op'.call = op.call /\ op'.slot = op.slot /\ op'.name = op.name
        /\ op'.offset = op.offset /\ op'.buf = op.buf /\ op'.done = 0
    BY <1>1, <1>6, StructureFacts DEF Operation, HistoryInv, Copied, Growing
  <2>2. op.name \in Name
    BY <1>6, StageCases DEF Writing
  <2>3. OldView'[op'.name] = MemView'[op'.name] /\ stored'[op'.name] = MemView'[op'.name]
    BY <1>3, <1>4, <2>1, <2>2
  <2>4. Halfway(directory[op.slot], stored[op.name])'
    BY <2>1, <2>3, WriteBeginsNext DEF Halfway
  <2>5. InPlace(op.slot, Needed)'
    BY <2>1 DEF StructureInv, OpInv
  <2>6. op'.done \in 0..Len(op'.buf)
    BY <2>1, StructureFacts
  <2>7. Overwrites'
    BY <2>1, <2>4, <2>5, <2>6 DEF Overwrites
  <2> QED
    BY <1>5, <2>1, <2>7 DEF HistoryInv, SameDirs, Results, Copied, Growing
<1>7. CASE op.stage # "grow_sb"
  BY <1>1, <1>5, <1>7, HistoryAtRest DEF Idle
<1> QED
  BY <1>6, <1>7

(* A failed write ends the call; what it leaves on disk of other files is   *)
(* what memory shows.                                                       *)
LEMMA AtaFailsHistory ==
    ASSUME FaultsTolerated, StructureInv, StructureInv', HistoryInv, AtaFails
    PROVE  HistoryInv'
<1>1. /\ op.stage \in AtaFailsAt /\ op.stage \notin Growing /\ op.stage # "format_dir"
      /\ OnDisk \in {disk_dir, directory} /\ UNCHANGED <<directory, data>>
  BY AtaMoment DEF AtaFails, FaultsTolerated
<1>2. CASE /\ op.stage = "format_sb" /\ op' = Idle
           /\ UNCHANGED <<superblock, stored>>
  <2>1. /\ ~ ufs_ready /\ ~ superblock.magic /\ directory = ZeroDirectory /\ op.name = NoName
    BY <1>2, StageCases DEF StructureInv, Pointers, Formatting
  <2>2. \A n \in Name : stored[n] # Unsettled /\ stored[n] = OldView[n]
    BY <2>1, UfsAssumption DEF HistoryInv, Settlement, Untouched
  <2>3. ASSUME NEW n \in Name
        PROVE  OldView'[n] = OldView[n] /\ OldView[n] = NoFile /\ MemView'[n] = NoFile
    <3>1. OldView'[n] = NoFile /\ MemView'[n] = MemView[n] /\ OldView[n] = NoFile
      BY <1>1, <1>2, <2>1, SameViews DEF OldView
    <3>2. \A s \in Slots : directory[s].name # n
      BY <2>1, ZeroTypes, UfsAssumption DEF Used
    <3>3. ViewIn(data, directory, n) = NoFile
      BY <3>2 DEF ViewIn
    <3> QED
      BY <3>1, <3>3, Views
  <2>4. Settlement'
    BY <1>2, <2>2, <2>3 DEF HistoryInv, Settlement
  <2> QED
    BY <1>2, <2>4, HistoryAtRest DEF Idle
<1>3. CASE /\ op.stage \in {"move", "data"} /\ op' = Idle
           /\ stored' = [stored EXCEPT ![op.name] =
                            IF @ = Unsettled THEN @ ELSE MemView[op.name]]
           /\ UNCHANGED <<ufs_ready, superblock, disk_dir>>
  <2> DEFINE old == stored[op.name]
             file == IF old = Unsettled THEN old ELSE MemView[op.name]
  <2>1. op.name \in Name /\ ufs_ready /\ op.call = "write"
    BY <1>3, StageCases DEF StructureInv, OpInv, Writing
  <2>2. \A n \in Name : OldView'[n] = OldView[n] /\ MemView'[n] = MemView[n]
    BY <1>1, <1>3, SameViews
  <2>3. old # Unsettled => OldView[op.name] = MemView[op.name]
    <3> HAVE old # Unsettled
    <3>1. CASE op.stage = "move"
      BY <2>1, <3>1 DEF HistoryInv, Settlement, Untouched
    <3>2. CASE op.stage = "data"
      <4> DEFINE e == directory[op.slot]
      <4>1. /\ OldView[op.name] = FileOf(data, disk_dir[op.slot])
            /\ disk_dir[op.slot] = [e EXCEPT !.size = Len(old.bytes)]
        BY <2>1, <3>2, DiskShowsOld
      <4>2. Len(old.bytes) = e.size
        BY <3>2 DEF HistoryInv, Overwrites, Overwriting, Halfway
      <4>3. e \in Entry /\ MemView[op.name] = FileOf(data, e)
        BY <2>1, <3>2, WrittenFile
      <4>4. disk_dir[op.slot] = e
        BY <4>1, <4>2, <4>3 DEF Entry
      <4> QED
        BY <4>1, <4>3, <4>4
    <3> QED
      BY <1>3, <3>1, <3>2
  <2>4. stored' = [n \in Name |-> IF n = op.name THEN file ELSE stored[n]]
    BY <1>3, <2>1 DEF HistoryInv, Settlement
  <2>5. file \in File \union {NoFile, Unsettled}
    BY <2>1, ViewTypes
  <2>6. file # Unsettled => file = OldView'[op.name] /\ file = MemView'[op.name]
    BY <2>1, <2>2, <2>3
  <2>7. \A n \in Name \ {op.name} : stored[n] # Unsettled =>
           stored[n] = OldView'[n] /\ stored[n] = MemView'[n]
    BY <2>1, <2>2 DEF HistoryInv, Settlement, Untouched
  <2>8. Settlement'
    <3> HIDE DEF file
    <3> QED
      BY <1>3, <2>1, <2>4, <2>5, <2>6, <2>7, SettlementAtEnd
  <2> QED
    BY <1>3, <2>8, HistoryAtRest DEF Idle
<1>4. CASE /\ op.stage \in {"dir", "sb"} /\ op' = Idle /\ stored' = CutOff /\ UNCHANGED ufs_ready
           /\ \/ op.stage = "dir" /\ disk_dir' = directory /\ UNCHANGED superblock
              \/ /\ op.stage = "sb" /\ UNCHANGED disk_dir
                 /\ superblock' = [magic |-> TRUE, next_free |-> next_free_lba]
              \/ UNCHANGED <<superblock, disk_dir>>
  <2>1. op.name \in Name /\ ufs_ready
    BY <1>4, StageCases
  <2>2. ASSUME NEW n \in Name \ {op.name}, stored[n] # Unsettled
        PROVE  stored[n] = OldView'[n] /\ stored[n] = MemView'[n]
    <3>1. stored[n] = OldView[n] /\ stored[n] = MemView[n]
      BY <2>1, <2>2 DEF HistoryInv, Settlement, Untouched
    <3>2. CASE op.stage = "dir" /\ disk_dir' = directory /\ UNCHANGED superblock
      <4>1. /\ MemView'[n] = MemView[n]
            /\ OldView'[n] = IF superblock.magic THEN MemView[n] ELSE NoFile
        BY <1>1, <3>2, DirectoryWritten
      <4>2. ~ superblock.magic => OldView[n] = NoFile
        BY DEF OldView
      <4> QED
        BY <3>1, <4>1, <4>2
    <3>3. CASE /\ op.stage = "sb" /\ UNCHANGED disk_dir
               /\ superblock' = [magic |-> TRUE, next_free |-> next_free_lba]
      <4>1. disk_dir' = directory /\ superblock'.magic
        BY <3>3 DEF HistoryInv, SameDirs
      <4> QED
        BY <1>1, <3>1, <4>1, DirectoryWritten
    <3>4. CASE UNCHANGED <<superblock, disk_dir>>
      BY <1>1, <3>1, <3>4, SameViews
    <3> QED
      BY <1>4, <3>2, <3>3, <3>4
  <2>3. stored' = [n \in Name |-> IF n = op.name THEN Unsettled ELSE stored[n]]
    BY <1>4 DEF CutOff
  <2>4. Settlement'
    BY <1>4, <2>1, <2>2, <2>3, SettlementAtEnd
  <2> QED
    BY <1>4, <2>4, HistoryAtRest DEF Idle
<1> QED
  <2>1. /\ op.stage = "grow_dir" => op.stage \in Growing
        /\ op.stage = "grow_sb" => op.stage \in Growing
    BY DEF Growing
  <2> QED
    BY <1>1, <1>2, <1>3, <1>4, <2>1 DEF AtaFails

(* What the disk shows, given what is on it *)
LEMMA DiskShows ==
    ASSUME NEW n \in Name
    PROVE  DiskView[n] = IF superblock.magic THEN ViewIn(data, OnDisk, n) ELSE NoFile
<1>1. View(OnDisk, n) = ViewIn(data, OnDisk, n)
  BY DEF View, ViewIn, FileOf, Contents, ufs_find, Byte0
<1> QED
  BY <1>1 DEF DiskView

(* The power goes: what is stored is what the disk shows. *)
LEMMA PowerLossHistory ==
    ASSUME FaultsTolerated, StructureInv, StructureInv', HistoryInv, PowerLoss
    PROVE  HistoryInv'
<1>1. /\ ufs_ready' = FALSE /\ op' = Idle /\ stored' = Settled(CutOff, DiskView)
      /\ disk_dir' = OnDisk /\ OnDisk \in {disk_dir, directory} /\ (ufs_ready \/ op # Idle)
      /\ UNCHANGED <<superblock, data>>
  BY PowerMoment DEF PowerLoss, FaultsTolerated
<1>2. \A n \in Name : OldView'[n] = DiskView[n]
  BY <1>1, Views, DiskShows
<1>3. ASSUME NEW n \in Name
      PROVE  stored'[n] = DiskView[n]
  <2>1. stored'[n] = IF n = op.name \/ stored[n] = Unsettled THEN DiskView[n] ELSE stored[n]
    BY <1>1 DEF Settled, CutOff
  <2>2. ASSUME n # op.name, stored[n] # Unsettled
        PROVE  stored[n] = DiskView[n]
    <3>1. stored[n] = OldView[n] /\ (ufs_ready => stored[n] = MemView[n])
      BY <2>2 DEF HistoryInv, Settlement, Untouched
    <3>2. CASE ~ superblock.magic \/ OnDisk = disk_dir
      BY <3>1, <3>2, Views, DiskShows
    <3>3. CASE superblock.magic /\ OnDisk = directory
      <4>1. ufs_ready
        BY <1>1, <3>3 DEF StructureInv, OpInv, Pointers
      <4> QED
        BY <3>1, <3>3, <4>1, Views, DiskShows
    <3> QED
      BY <1>1, <3>2, <3>3
  <2> QED
    BY <2>1, <2>2
<1>4. DOMAIN stored' = Name /\ stored' = [n \in Name |-> stored'[n]]
  BY <1>1 DEF Settled
<1>5. Settlement'
  BY <1>1, <1>2, <1>3, <1>4, AllSettled
<1> QED
  BY <1>1, <1>5, HistoryAtRest DEF Idle

(* Nothing happens, but perhaps to a sector of the directory. *)
LEMMA SameHistory ==
    ASSUME HistoryInv,
           UNCHANGED <<ufs_ready, directory, next_free_lba, superblock, disk_dir, data, stored>>,
           op'.stage = op.stage, op'.call = op.call, op'.slot = op.slot, op'.name = op.name,
           op'.offset = op.offset, op'.buf = op.buf, op'.done = op.done, op'.result = op.result
    PROVE  HistoryInv'
<1>1. UNCHANGED <<ufs_ready, directory, next_free_lba, superblock, disk_dir, data, stored>>
  OBVIOUS
<1>2. /\ \A n \in Name : OldView'[n] = OldView[n] /\ MemView'[n] = MemView[n]
      /\ \A n \in Name : Untouched(n)' <=> Untouched(n)
  BY <1>1, SameViews DEF Untouched
<1>3. SameDirs' /\ Settlement'
  BY <1>1, <1>2 DEF HistoryInv, SameDirs, Settlement
<1>4. MemView' = MemView /\ OldView' = OldView
  BY <1>2 DEF MemView, OldView
<1>5. Results'
  BY <1>1, <1>4 DEF HistoryInv, Results
<1>6. Copied'
  BY <1>1 DEF HistoryInv, Copied, Byte0, sectors_for_bytes
<1>7. Overwrites'
  <2>1. Needed' = Needed
    BY <1>1 DEF Needed
  <2>2. InPlace(op.slot, Needed)' <=> InPlace(op.slot, Needed)
    BY <1>1, <2>1 DEF InPlace
  <2>3. Halfway(directory[op.slot], stored[op.name])' <=> Halfway(directory[op.slot], stored[op.name])
    BY <1>1 DEF Halfway, Byte0
  <2> QED
    BY <1>1, <2>1, <2>2, <2>3 DEF HistoryInv, Overwrites, Overwriting, Byte0
<1> QED
  BY <1>3, <1>5, <1>6, <1>7 DEF HistoryInv

LEMMA StutterHistory ==
    ASSUME HistoryInv, UNCHANGED vars
    PROVE  HistoryInv'
  BY SameHistory DEF vars, memVars, diskVars

(* A sector of the directory is written, not the last. *)
LEMMA SectorHistory ==
    ASSUME StructureInv, HistoryInv, persist_directory, ~ DirectoryDone
    PROVE  HistoryInv'
  BY SameHistory, SectorWritten DEF memVars, diskVars

(* Every step keeps the history. *)
LEMMA HistoryNext ==
    ASSUME FaultsTolerated, StructureInv, StructureInv', HistoryInv, [Next]_vars
    PROVE  HistoryInv'
<1>1. ASSUME NEW n \in Name, NEW u \in Uid, ufs_create(n, u) PROVE HistoryInv'
  BY <1>1, CreateHistory
<1>2. ASSUME NEW s \in Slots,
             \/ ufs_delete(s)
             \/ \E p \in Perm : ufs_chmod(s, p)
             \/ ufs_truncate(s, 0)
             \/ \E offset \in Offset, buf \in Buffer : ufs_write_at(s, offset, buf)
      PROVE  HistoryInv'
  BY <1>2, DeleteHistory, ChmodHistory, TruncateHistory, WriteHistory
<1> QED
  BY <1>1, <1>2, MountHistory, FormatHistory, MoveHistory, RelocateHistory,
     WriteSectorHistory, EndWriteHistory, SectorHistory, DirectoryHistory,
     SuperblockHistory, AtaFailsHistory, PowerLossHistory, StutterHistory DEF Next

(***************************************************************************)
(* Part 8.  The write of the directory: how the two directories differ      *)
(* while its sectors are written one after the other                        *)
(***************************************************************************)

WritingDir == {"dir", "grow_dir"}

(* Sectors are counted only while the directory is written. *)
SectorsCounted == op.sectors # 0 => op.stage \in WritingDir \union {"format_dir"}

(* Slot s may differ on disk and in memory: every file that either gives it *)
(* is unsettled or is the file of the call in progress.                     *)
MayDiffer(s) ==
    \A m \in {directory[s].name, disk_dir[s].name} \ {NoName} :
        stored[m] = Unsettled \/ (op.stage \in WritingDir /\ s = op.slot /\ m = op.name)

Agree == ufs_ready => \A s \in Slots : directory[s] = disk_dir[s] \/ MayDiffer(s)

(* The file of the call is in its slot or nowhere. *)
OneSlot == op.stage \in WritingDir => \A t \in Slots : directory[t].name = op.name => t = op.slot

(* The changes that calls other than ufs_create make to an entry *)
Changed(d, e) ==
    \/ e = [d EXCEPT !.name = NoName]
    \/ e = [d EXCEPT !.perm = e.perm]
    \/ e = [d EXCEPT !.size = e.size]
    \/ e = [d EXCEPT !.start_lba = e.start_lba, !.capacity = e.capacity]

Change ==
    (op.stage \in WritingDir /\ op.call # "create" /\ stored[op.name] # Unsettled) =>
        Changed(disk_dir[op.slot], directory[op.slot])

DirsInv == SectorsCounted /\ Agree /\ OneSlot /\ Change

(* A call, or the move of a file, begins to write the directory. *)
LEMMA DirsBegin ==
    ASSUME StructureInv, DirsInv, ufs_ready, op.stage \notin WritingDir,
           NEW s \in Slots, NEW e \in Entry, NEW name \in Name, NEW call,
           directory' = [directory EXCEPT ![s] = e], UNCHANGED <<ufs_ready, disk_dir, stored>>,
           op'.stage \in WritingDir, op'.slot = s, op'.name = name, op'.call = call,
           op'.sectors = 0,
           e.name \in {name, NoName}, directory[s].name \in {name, NoName},
           \A t \in Slots : t # s => directory[t].name # name,
           call # "create" => directory[s].name = name /\ Changed(directory[s], e)
    PROVE  DirsInv'
<1>1. directory'[s] = e /\ \A t \in Slots : t # s => directory'[t] = directory[t]
  BY StructureFacts
<1>2. \A t \in Slots : \/ directory[t] = disk_dir[t]
                       \/ \A m \in {directory[t].name, disk_dir[t].name} \ {NoName} :
                             stored[m] = Unsettled
  BY DEF DirsInv, Agree, MayDiffer
<1>3. ASSUME NEW t \in Slots
      PROVE  directory'[t] = disk_dir'[t] \/ MayDiffer(t)'
  <2>1. CASE t # s
    BY <1>1, <1>2, <2>1 DEF MayDiffer
  <2>2. CASE t = s
    <3>1. \A m \in {e.name, disk_dir[s].name} \ {NoName} : stored[m] = Unsettled \/ m = name
      BY <1>2, <2>2
    <3> QED
      BY <1>1, <2>2, <3>1 DEF MayDiffer
  <2> QED
    BY <2>1, <2>2
<1>4. Change'
  <2> SUFFICES ASSUME call # "create", stored[name] # Unsettled
               PROVE  Changed(disk_dir[s], e)
    BY <1>1 DEF Change
  <2>1. disk_dir[s] = directory[s]
    BY <1>2, UfsAssumption
  <2> QED
    BY <2>1
<1>5. OneSlot'
  BY <1>1 DEF OneSlot
<1> QED
  BY <1>3, <1>4, <1>5 DEF DirsInv, SectorsCounted, Agree

(* The directory is not being written, and differs on disk no more than     *)
(* before.                                                                  *)
LEMMA DirsQuiet ==
    ASSUME StructureInv, StructureInv', DirsInv, op'.stage \notin WritingDir, op'.sectors = 0,
           \/ ~ ufs_ready'
           \/ directory' = disk_dir'
           \/ /\ UNCHANGED <<ufs_ready, directory, disk_dir>>
              /\ \A m \in Name : (stored[m] = Unsettled \/ (op.stage \in WritingDir /\ m = op.name))
                                    => stored'[m] = Unsettled
    PROVE  DirsInv'
<1>1. Agree'
  <2>1. CASE ~ ufs_ready' \/ directory' = disk_dir'
    BY <2>1 DEF Agree
  <2>2. CASE /\ UNCHANGED <<ufs_ready, directory, disk_dir>>
             /\ \A m \in Name : (stored[m] = Unsettled \/ (op.stage \in WritingDir /\ m = op.name))
                                   => stored'[m] = Unsettled
    <3> SUFFICES ASSUME ufs_ready, NEW s \in Slots, directory[s] # disk_dir[s],
                        NEW m \in {directory[s].name, disk_dir[s].name} \ {NoName}
                 PROVE  stored'[m] = Unsettled
      BY <2>2 DEF Agree, MayDiffer
    <3>1. stored[m] = Unsettled \/ (op.stage \in WritingDir /\ m = op.name)
      BY DEF DirsInv, Agree, MayDiffer
    <3>2. directory[s] \in Entry /\ disk_dir[s] \in Entry
      BY StructureFacts
    <3>3. m \in Name
      BY <3>2 DEF Entry
    <3> QED
      BY <2>2, <3>1, <3>3
  <2> QED
    BY <2>1, <2>2
<1> QED
  BY <1>1 DEF DirsInv, SectorsCounted, OneSlot, Change

(* Nothing happens, but perhaps to a sector of the directory. *)
LEMMA DirsSame ==
    ASSUME DirsInv, UNCHANGED <<ufs_ready, directory, disk_dir, stored>>,
           op'.stage = op.stage, op'.slot = op.slot, op'.name = op.name, op'.call = op.call,
           op'.sectors = op.sectors \/ op.stage \in WritingDir \union {"format_dir"}
    PROVE  DirsInv'
<1>1. \A s \in Slots : MayDiffer(s)' <=> MayDiffer(s)
  BY DEF MayDiffer
<1>2. Agree'
  BY <1>1 DEF DirsInv, Agree
<1> QED
  BY <1>2 DEF DirsInv, SectorsCounted, OneSlot, Change

(* A call on slot s that is not a write changes the entry to e. *)
LEMMA DirsCall ==
    ASSUME StructureInv, DirsInv, Call, NEW s \in Slots, NEW e \in Entry, NEW name \in Name,
           NEW call, NEW result, directory' = [directory EXCEPT ![s] = e],
           Begin(call, s, name, result), UNCHANGED <<ufs_ready, diskVars, stored>>,
           e.name \in {name, NoName}, directory[s].name \in {name, NoName},
           \A t \in Slots : t # s => directory[t].name # name,
           call # "create" => directory[s].name = name /\ Changed(directory[s], e)
    PROVE  DirsInv'
<1>1. ufs_ready /\ op.stage \notin WritingDir
  BY DEF Call, Idle, WritingDir
<1>2. /\ op'.stage \in WritingDir /\ op'.slot = s /\ op'.name = name /\ op'.call = call
      /\ op'.sectors = 0
  BY DEF Begin, Idle, WritingDir
<1>3. UNCHANGED <<ufs_ready, disk_dir, stored>>
  BY DEF diskVars
<1> HIDE DEF Begin, Call
<1> QED
  BY <1>1, <1>2, <1>3, DirsBegin

(* Names are unique in memory. *)
LEMMA OtherSlots ==
    ASSUME StructureInv, NEW s \in Slots, Used(directory, s)
    PROVE  /\ directory[s] \in Entry /\ directory[s].name \in Name
           /\ \A t \in Slots : t # s => directory[t].name # directory[s].name
<1>1. directory[s] \in Entry /\ directory[s].name \in Name
  BY MemFile
<1>2. \A t \in Slots : (t # s /\ Used(directory, t)) => Apart(directory[s], directory[t])
  BY StructureFacts DEF Sound
<1> QED
  BY <1>1, <1>2 DEF Used, Apart

(* Every call begins in agreement. *)
LEMMA DirsCalls ==
    ASSUME StructureInv, DirsInv,
           \/ \E n \in Name, u \in Uid : ufs_create(n, u)
           \/ \E s \in Slots : \/ ufs_delete(s)
                               \/ \E p \in Perm : ufs_chmod(s, p)
                               \/ ufs_truncate(s, 0)
    PROVE  DirsInv'
<1>1. ASSUME NEW n \in Name, NEW u \in Uid, ufs_create(n, u) PROVE DirsInv'
  <2> DEFINE e == [ZeroEntry EXCEPT !.name = n, !.owner = u]
             r == [owner |-> u, perm |-> 0, bytes |-> <<>>]
  <2>1. PICK s \in Slots :
           /\ Call /\ \A x \in Slots : ~ ufs_find(directory, n, x)
           /\ ~ Used(directory, s) /\ directory' = [directory EXCEPT ![s] = e]
           /\ Begin("create", s, n, r) /\ UNCHANGED <<ufs_ready, diskVars, stored>>
    BY <1>1 DEF ufs_create
  <2>2. e \in Entry /\ e.name = n
    BY ZeroTypes, UfsAssumption, Sizes DEF ZeroEntry, Entry
  <2>3. directory[s].name = NoName /\ \A t \in Slots : directory[t].name # n
    BY <2>1 DEF Used, ufs_find
  <2> HIDE DEF e, r
  <2> QED
    BY <2>1, <2>2, <2>3, DirsCall
<1>2. ASSUME NEW s \in Slots, ufs_delete(s) PROVE DirsInv'
  <2> DEFINE e == [directory[s] EXCEPT !.name = NoName]
  <2>1. /\ Call /\ Used(directory, s) /\ directory' = [directory EXCEPT ![s] = e]
        /\ Begin("delete", s, directory[s].name, NoFile)
        /\ UNCHANGED <<ufs_ready, diskVars, stored>>
    BY <1>2 DEF ufs_delete, handle_valid
  <2>2. e \in Entry /\ e.name = NoName /\ Changed(directory[s], e)
    BY <2>1, OtherSlots DEF Entry, Changed
  <2> HIDE DEF e
  <2> QED
    BY <2>1, <2>2, OtherSlots, DirsCall, ZenonT(60)
<1>3. ASSUME NEW s \in Slots, NEW p \in Perm, ufs_chmod(s, p) PROVE DirsInv'
  <2> DEFINE e == [directory[s] EXCEPT !.perm = p]
             r == [MemView[directory[s].name] EXCEPT !.perm = p]
  <2>1. /\ Call /\ Used(directory, s) /\ directory' = [directory EXCEPT ![s] = e]
        /\ Begin("chmod", s, directory[s].name, r) /\ UNCHANGED <<ufs_ready, diskVars, stored>>
    BY <1>3 DEF ufs_chmod, handle_valid
  <2>2. e \in Entry /\ e.name = directory[s].name /\ e.perm = p
    BY <2>1, OtherSlots DEF Entry
  <2>3. Changed(directory[s], e)
    BY <2>2 DEF Changed
  <2> HIDE DEF e, r
  <2> QED
    BY <2>1, <2>2, <2>3, OtherSlots, DirsCall, ZenonT(60)
<1>4. ASSUME NEW s \in Slots, ufs_truncate(s, 0) PROVE DirsInv'
  <2> DEFINE e == [directory[s] EXCEPT !.size = 0]
             r == [MemView[directory[s].name] EXCEPT !.bytes = SubSeq(@, 1, 0)]
  <2>1. /\ Call /\ Used(directory, s) /\ directory' = [directory EXCEPT ![s] = e]
        /\ Begin("truncate", s, directory[s].name, r) /\ UNCHANGED <<ufs_ready, diskVars, stored>>
    BY <1>4 DEF ufs_truncate, handle_valid
  <2>2. e \in Entry /\ e.name = directory[s].name /\ e.size = 0
    BY <2>1, OtherSlots DEF Entry
  <2>3. Changed(directory[s], e)
    BY <2>2 DEF Changed
  <2> HIDE DEF e, r
  <2> QED
    BY <2>1, <2>2, <2>3, OtherSlots, DirsCall, ZenonT(60)
<1> QED
  BY <1>1, <1>2, <1>3, <1>4

(* So does the move of a file, and the new length of a file that has grown. *)
LEMMA DirsGrow ==
    ASSUME StructureInv, StructureInv', HistoryInv, DirsInv, Relocate \/ EndWrite
    PROVE  DirsInv'
<1>1. /\ op.stage \in {"move", "data"} /\ op.stage \notin WritingDir /\ op.sectors = 0
      /\ ufs_ready /\ op.name \in Name /\ op.slot \in Slots /\ op.call = "write"
      /\ directory[op.slot].name = op.name
  <2>1. op.stage \in {"move", "data"}
    BY DEF Relocate, EndWrite
  <2> QED
    BY <2>1, StageCases, StructureFacts
    DEF StructureInv, OpInv, Writing, WritingDir, DirsInv, SectorsCounted
<1>2. Used(directory, op.slot) /\ op \in Operation
  BY <1>1, UfsAssumption, StructureFacts DEF Used
<1>0. PICK slot \in Slots, name \in Name :
        /\ slot = op.slot /\ name = op.name /\ directory[slot].name = name
        /\ \A t \in Slots : t # slot => directory[t].name # name
  BY <1>1, <1>2, OtherSlots
<1>3. CASE Relocate
  <2> DEFINE e == [directory[op.slot] EXCEPT !.start_lba = next_free_lba,
                      !.capacity = NewCapacity(directory[op.slot].capacity,
                                               sectors_for_bytes(Needed))]
  <2>1. /\ directory' = [directory EXCEPT ![op.slot] = e]
        /\ op' = [op EXCEPT !.stage = "grow_dir", !.done = 0]
        /\ UNCHANGED <<ufs_ready, disk_dir, stored>>
    BY <1>3 DEF Relocate, diskVars
  <2>2. /\ e \in Entry /\ e.name = op.name /\ directory[op.slot] \in Entry
    <3>1. e \in Entry /\ directory[op.slot] \in Entry
      BY <1>3, RelocatedEntry
    <3> QED
      BY <1>1, <3>1 DEF Entry
  <2>3. Changed(directory[op.slot], e)
    <3> DEFINE c == NewCapacity(directory[op.slot].capacity, sectors_for_bytes(Needed))
    <3>1. e.start_lba = next_free_lba /\ e.capacity = c
      BY <2>2 DEF Entry
    <3>2. e = [directory[op.slot] EXCEPT !.start_lba = next_free_lba, !.capacity = c]
      OBVIOUS
    <3> HIDE DEF c, e
    <3> QED
      BY <3>1, <3>2 DEF Changed
  <2> HIDE DEF e
  <2>4. /\ op'.stage \in WritingDir /\ op'.slot = op.slot /\ op'.name = op.name
        /\ op'.call = op.call /\ op'.sectors = 0
    BY <1>1, <1>2, <2>1 DEF Operation, WritingDir
  <2> QED
    <3>1. PICK d \in Entry : d = e
      BY <2>1, <2>2, <2>4
    <3>2. /\ op'.slot = slot /\ op'.name = name /\ Changed(directory[slot], d)
          /\ directory' = [directory EXCEPT ![slot] = d] /\ d.name = name
          /\ op'.call = "write" /\ op'.stage \in WritingDir /\ op'.sectors = 0
          /\ ufs_ready /\ op.stage \notin WritingDir
      BY <1>0, <1>1, <2>1, <2>2, <2>3, <2>4, <3>1
    <3>3. UNCHANGED <<ufs_ready, disk_dir, stored>>
      BY <2>1
    <3> QED
      BY <1>0, <3>2, <3>3, DirsBegin
<1>4. CASE EndWrite /\ Needed > directory[op.slot].size
  <2> DEFINE e == [directory[op.slot] EXCEPT !.size = Needed]
  <2>1. /\ directory' = [directory EXCEPT ![op.slot] = e]
        /\ op' = [op EXCEPT !.stage = "dir"] /\ UNCHANGED <<ufs_ready, disk_dir, stored>>
    BY <1>4 DEF EndWrite, diskVars
  <2>2. Needed \in Nat /\ directory[op.slot] \in Entry
    BY <1>1, StructureFacts DEF Needed
  <2>3. e \in Entry /\ e.name = op.name /\ e.size = Needed
    BY <1>1, <2>2 DEF Entry
  <2>4. Changed(directory[op.slot], e)
    BY <2>3 DEF Changed
  <2> HIDE DEF e
  <2>5. /\ op'.stage \in WritingDir /\ op'.slot = op.slot /\ op'.name = op.name
        /\ op'.call = op.call /\ op'.sectors = 0
    BY <1>1, <1>2, <2>1 DEF Operation, WritingDir
  <2> QED
    <3>1. PICK d \in Entry : d = e
      BY <2>1, <2>3, <2>5
    <3>2. /\ op'.slot = slot /\ op'.name = name /\ Changed(directory[slot], d)
          /\ directory' = [directory EXCEPT ![slot] = d] /\ d.name = name
          /\ op'.call = "write" /\ op'.stage \in WritingDir /\ op'.sectors = 0
          /\ ufs_ready /\ op.stage \notin WritingDir
      BY <1>0, <1>1, <2>1, <2>3, <2>4, <2>5, <3>1
    <3>3. UNCHANGED <<ufs_ready, disk_dir, stored>>
      BY <2>1
    <3> QED
      BY <1>0, <3>2, <3>3, DirsBegin
<1>5. CASE EndWrite /\ ~ (Needed > directory[op.slot].size)
  <2>1. op' = Idle /\ stored' = Ended /\ UNCHANGED <<ufs_ready, directory, disk_dir>>
    BY <1>5 DEF EndWrite, diskVars
  <2>2. \A m \in Name : stored[m] = Unsettled => stored'[m] = Unsettled
    BY <2>1 DEF Ended, Outcome
  <2> QED
    BY <1>1, <2>1, <2>2, DirsQuiet DEF Idle, WritingDir
<1> QED
  BY <1>3, <1>4, <1>5

(* Every step keeps the agreement. *)
LEMMA DirsNext ==
    ASSUME FaultsTolerated, StructureInv, StructureInv', HistoryInv, DirsInv, [Next]_vars
    PROVE  DirsInv'
<1>0. op \in Operation /\ (op.stage \notin WritingDir \union {"format_dir"} => op.sectors = 0)
  BY StructureFacts DEF DirsInv, SectorsCounted
<1>1. CASE ufs_init
  <2>1. directory' = disk_dir' /\ op' = Idle
    BY <1>1 DEF ufs_init, diskVars
  <2> QED
    BY <2>1, DirsQuiet DEF Idle, WritingDir
<1>2. CASE format_fresh
  <2>1. ~ ufs_ready' /\ op'.stage = "format_dir" /\ op'.sectors = 0
    BY <1>2 DEF format_fresh, Idle
  <2> QED
    BY <2>1, DirsQuiet DEF WritingDir
<1>3. ASSUME NEW s \in Slots, NEW offset \in Offset, NEW buf \in Buffer,
             ufs_write_at(s, offset, buf)
      PROVE  DirsInv'
  <2>1. /\ op.stage \notin WritingDir /\ op'.stage \in {"data", "move"} /\ op'.sectors = 0
        /\ UNCHANGED <<ufs_ready, directory, disk_dir, stored>>
    BY <1>3 DEF ufs_write_at, handle_valid, Call, Idle, memVars, diskVars, WritingDir
  <2> QED
    BY <2>1, DirsQuiet DEF WritingDir
<1>4. CASE MoveSectors \/ WriteSector
  <2>1. /\ op.stage \in {"move", "data"} /\ op'.stage = op.stage /\ op'.sectors = op.sectors
        /\ UNCHANGED <<ufs_ready, directory, disk_dir, stored>>
    BY <1>0, <1>4 DEF MoveSectors, WriteSector, memVars, Operation
  <2> QED
    BY <1>0, <2>1, DirsQuiet DEF WritingDir
<1>5. CASE persist_directory /\ ~ DirectoryDone
  BY <1>5, SectorWritten, DirsSame DEF memVars, diskVars, WritingDir
<1>6. CASE persist_directory /\ DirectoryDone
  <2>1. /\ disk_dir' = directory /\ directory' = directory
        /\ op'.stage \in {"sb", "grow_sb", "format_sb"} /\ op'.sectors = 0
    BY <1>0, <1>6 DEF persist_directory, DirectoryDone, memVars, Operation
  <2> QED
    BY <2>1, DirsQuiet DEF WritingDir
<1>7. CASE persist_superblock
  <2>1. op.stage \in {"sb", "grow_sb", "format_sb"} /\ UNCHANGED <<directory, disk_dir>>
    BY <1>7 DEF persist_superblock
  <2>2. directory' = disk_dir'
    BY <2>1 DEF HistoryInv, SameDirs
  <2>3. op'.stage \in {"data", "idle"} /\ op'.sectors = 0
    BY <1>0, <1>7, <2>1 DEF persist_superblock, Idle, Operation, WritingDir
  <2> QED
    BY <2>2, <2>3, DirsQuiet DEF WritingDir
<1>8. CASE AtaFails
  <2>1. /\ op.stage # "format_dir" /\ op.stage \notin Growing /\ UNCHANGED directory
        /\ OnDisk \in {disk_dir, directory}
    BY <1>8, AtaMoment DEF AtaFails, FaultsTolerated
  <2>2. op' = Idle
    BY <1>8, <2>1 DEF AtaFails
  <2>3. CASE op.stage \in {"format_sb", "sb"}
    <3>1. disk_dir' \in {disk_dir, directory} /\ disk_dir = directory
      BY <1>8, <2>1, <2>3 DEF AtaFails, HistoryInv, SameDirs
    <3> QED
      BY <2>1, <2>2, <3>1, DirsQuiet DEF Idle, WritingDir
  <2>4. CASE op.stage \in {"move", "data"}
    <3>1. /\ UNCHANGED <<ufs_ready, disk_dir>>
          /\ stored' = [stored EXCEPT ![op.name] =
                           IF @ = Unsettled THEN @ ELSE MemView[op.name]]
      BY <1>8, <2>4 DEF AtaFails
    <3>2. stored \in [Name -> File \union {NoFile, Unsettled}]
      BY DEF HistoryInv, Settlement
    <3>3. \A m \in Name : stored[m] = Unsettled => stored'[m] = Unsettled
      BY <3>1, <3>2
    <3> QED
      BY <2>1, <2>2, <2>4, <3>1, <3>3, DirsQuiet DEF Idle, WritingDir
  <2>5. CASE op.stage = "dir"
    <3>1. /\ disk_dir' \in {disk_dir, directory} /\ stored' = CutOff /\ UNCHANGED ufs_ready
      BY <1>8, <2>1, <2>5 DEF AtaFails
    <3>2. \A m \in Name : stored[m] = Unsettled \/ m = op.name => stored'[m] = Unsettled
      BY <3>1 DEF CutOff
    <3> QED
      BY <2>1, <2>2, <3>1, <3>2, DirsQuiet DEF Idle, WritingDir
  <2> QED
    BY <1>8, <2>1, <2>3, <2>4, <2>5 DEF AtaFails, Growing
<1>9. CASE PowerLoss
  <2>1. ~ ufs_ready' /\ op' = Idle
    BY <1>9 DEF PowerLoss
  <2> QED
    BY <2>1, DirsQuiet DEF Idle, WritingDir
<1>10. CASE UNCHANGED vars
  BY <1>10, DirsSame DEF vars, memVars, diskVars
<1> QED
  BY <1>1, <1>2, <1>3, <1>4, <1>5, <1>6, <1>7, <1>8, <1>9, <1>10, DirsCalls, DirsGrow DEF Next

(* At first there is nothing to write. *)
LEMMA DirsInit ==
    ASSUME Init
    PROVE  DirsInv
  BY DEF Init, Idle, DirsInv, SectorsCounted, Agree, OneSlot, Change, WritingDir

(* Field by field, the disk has the old entry or the new one. *)
LEMMA EntryFields ==
    ASSUME StructureInv, NEW s \in Slots
    PROVE  LET x == OnDisk[s]
               d == disk_dir[s]
               e == directory[s]
           IN  /\ x \in Entry /\ d \in Entry /\ e \in Entry
               /\ x.name \in {d.name, e.name} /\ x.start_lba \in {d.start_lba, e.start_lba}
               /\ x.size \in {d.size, e.size} /\ x.capacity \in {d.capacity, e.capacity}
               /\ x.owner \in {d.owner, e.owner} /\ x.perm \in {d.perm, e.perm}
<1>1. disk_dir[s] \in Entry /\ directory[s] \in Entry
  BY StructureFacts
<1>2. CASE op.sectors = 0
  BY <1>1, <1>2 DEF OnDisk
<1>3. CASE op.sectors # 0
  <2>1. OnDisk[s] = EntryOnDisk(s)
    BY <1>3 DEF OnDisk
  <2> QED
    BY <1>1, <2>1 DEF EntryOnDisk, Entry
<1> QED
  BY <1>2, <1>3

(* An entry on disk is the old one or the new one, or leads to the same     *)
(* file as one of them, unless ufs_create has written half of it.           *)
LEMMA OldOrNew ==
    ASSUME StructureInv, DirsInv, ufs_ready, op.stage \in WritingDir, NEW n \in Name,
           stored[n] # Unsettled,
           ~ (n = op.name /\ op.call = "create" /\ HalfWritten(op.slot))
    PROVE  \/ \A s \in Slots : /\ OnDisk[s].name = n <=> disk_dir[s].name = n
                               /\ OnDisk[s].name = n =>
                                     FileOf(data, OnDisk[s]) = FileOf(data, disk_dir[s])
           \/ \A s \in Slots : /\ OnDisk[s].name = n <=> directory[s].name = n
                               /\ OnDisk[s].name = n =>
                                     FileOf(data, OnDisk[s]) = FileOf(data, directory[s])
<1> DEFINE Like(s, f) == /\ OnDisk[s].name = n <=> f.name = n
                         /\ OnDisk[s].name = n => FileOf(data, OnDisk[s]) = FileOf(data, f)
<1>1. ASSUME NEW s \in Slots, ~ (n = op.name /\ s = op.slot)
      PROVE  Like(s, disk_dir[s]) /\ Like(s, directory[s])
  <2>1. OnDisk[s].name \in {disk_dir[s].name, directory[s].name}
    BY EntryFields
  <2>2. CASE disk_dir[s].name # n /\ directory[s].name # n
    BY <2>1, <2>2
  <2>3. CASE disk_dir[s].name = n \/ directory[s].name = n
    <3>1. ~ MayDiffer(s)
      BY <1>1, <2>3, UfsAssumption DEF MayDiffer
    <3>2. directory[s] = disk_dir[s]
      BY <3>1 DEF DirsInv, Agree
    <3>3. OnDisk[s] = disk_dir[s]
      <4>1. /\ OnDisk[s] \in Entry /\ disk_dir[s] \in Entry
            /\ OnDisk[s].name = disk_dir[s].name /\ OnDisk[s].start_lba = disk_dir[s].start_lba
            /\ OnDisk[s].size = disk_dir[s].size /\ OnDisk[s].capacity = disk_dir[s].capacity
            /\ OnDisk[s].owner = disk_dir[s].owner /\ OnDisk[s].perm = disk_dir[s].perm
        BY <3>2, EntryFields
      <4> QED
        BY <4>1 DEF Entry
    <3> QED
      BY <3>2, <3>3
  <2> QED
    BY <2>2, <2>3
<1>2. CASE n # op.name
  BY <1>1, <1>2
<1>3. CASE n = op.name
  <2> DEFINE s == op.slot
             x == OnDisk[s]
             d == disk_dir[s]
             e == directory[s]
  <2>1. s \in Slots
    BY StructureFacts
  <2>2. /\ x \in Entry /\ d \in Entry /\ e \in Entry
        /\ x.name \in {d.name, e.name} /\ x.start_lba \in {d.start_lba, e.start_lba}
        /\ x.size \in {d.size, e.size} /\ x.capacity \in {d.capacity, e.capacity}
        /\ x.owner \in {d.owner, e.owner} /\ x.perm \in {d.perm, e.perm}
    BY <2>1, EntryFields
  <2>3. \/ x = d \/ x = e
        \/ x.name = d.name /\ FileOf(data, x) = FileOf(data, d)
        \/ x.name = e.name /\ FileOf(data, x) = FileOf(data, e)
    <3>1. CASE op.call = "create"
      BY <1>3, <3>1 DEF HalfWritten
    <3>2. CASE op.call # "create"
      <4>1. Changed(d, e)
        BY <1>3, <3>2 DEF DirsInv, Change
      <4> HIDE DEF x, d, e, s
      <4>2. CASE e = [d EXCEPT !.name = NoName]
        BY <2>2, <4>2 DEF Entry
      <4>3. CASE e = [d EXCEPT !.perm = e.perm]
        BY <2>2, <4>3 DEF Entry
      <4>4. CASE e = [d EXCEPT !.size = e.size]
        BY <2>2, <4>4 DEF Entry
      <4>5. CASE e = [d EXCEPT !.start_lba = e.start_lba, !.capacity = e.capacity]
        <5>1. /\ e.name = d.name /\ e.size = d.size /\ e.owner = d.owner /\ e.perm = d.perm
          BY <2>2, <4>5 DEF Entry
        <5> QED
          BY <2>2, <5>1 DEF FileOf, Byte0
      <4> QED
        BY <4>1, <4>2, <4>3, <4>4, <4>5 DEF Changed
    <3> QED
      BY <3>1, <3>2
  <2>4. Like(s, d) \/ Like(s, e)
    BY <2>3
  <2>5. \A t \in Slots \ {s} : Like(t, disk_dir[t]) /\ Like(t, directory[t])
    BY <1>1, <1>3
  <2> QED
    <3> HIDE DEF Like
    <3>1. \/ \A t \in Slots : Like(t, disk_dir[t])
          \/ \A t \in Slots : Like(t, directory[t])
      BY <2>4, <2>5
    <3> QED
      BY <3>1 DEF Like
<1> QED
  BY <1>2, <1>3

(* Two directories that lead to the same file lead to it. *)
LEMMA LikeDirectory ==
    ASSUME NEW d \in [Slots -> Entry], NEW free, Sound(d, free), NEW n \in Name, NEW c,
           \A s \in Slots : /\ c[s].name = n <=> d[s].name = n
                            /\ c[s].name = n => FileOf(data, c[s]) = FileOf(data, d[s])
    PROVE  ViewIn(data, c, n) = ViewIn(data, d, n)
<1>1. CASE \E s \in Slots : c[s].name = n
  <2> DEFINE x == CHOOSE t \in Slots : c[t].name = n
  <2>1. x \in Slots /\ c[x].name = n
    BY <1>1
  <2>2. ViewIn(data, c, n) = FileOf(data, c[x])
    BY <1>1 DEF ViewIn
  <2> HIDE DEF x
  <2>3. ViewIn(data, d, n) = FileOf(data, d[x])
    BY <2>1, ViewOfFile
  <2> QED
    BY <2>1, <2>2, <2>3
<1>2. CASE \A s \in Slots : c[s].name # n
  BY <1>2, ViewOfFile DEF ViewIn
<1> QED
  BY <1>1, <1>2

(* What the next mount would find of a file is what it would have found     *)
(* before the directory was written, or what memory shows.                  *)
LEMMA DiskShowsOldOrNew ==
    ASSUME StructureInv, DirsInv, NEW n \in Name, stored[n] # Unsettled,
           ~ (n = op.name /\ op.call = "create" /\ HalfWritten(op.slot))
    PROVE  \/ DiskView[n] = OldView[n]
           \/ op.stage \in WritingDir /\ DiskView[n] = MemView[n]
<1>1. CASE ~ superblock.magic \/ OnDisk = disk_dir
  BY <1>1, Views, DiskShows
<1>2. CASE superblock.magic /\ OnDisk # disk_dir
  <2>1. op.sectors # 0
    BY <1>2 DEF OnDisk
  <2>2. op.stage # "format_dir"
    BY <1>2, StageCases DEF StructureInv, Pointers, Formatting
  <2>3. op.stage \in WritingDir
    BY <2>1, <2>2 DEF DirsInv, SectorsCounted
  <2>4. ufs_ready
    BY <2>3, StageCases DEF WritingDir, Writing
  <2>5. PICK free : Sound(disk_dir, free)
    BY DEF StructureInv, DiskSound
  <2>6. \/ ViewIn(data, OnDisk, n) = ViewIn(data, disk_dir, n)
        \/ ViewIn(data, OnDisk, n) = ViewIn(data, directory, n)
    BY <2>3, <2>4, <2>5, OldOrNew, LikeDirectory, StructureFacts
  <2> QED
    BY <1>2, <2>3, <2>6, Views, DiskShows
<1> QED
  BY <1>1, <1>2

(***************************************************************************)
(* Part 9.  The properties                                                 *)
(***************************************************************************)

(* A file that no call is working on shows what is stored. *)
LEMMA SurviveFromHistory ==
    ASSUME HistoryInv
    PROVE  ContentsSurvive
  BY DEF HistoryInv, Settlement, Untouched, ContentsSurvive

(* What a power loss would leave of the file of a write: old bytes, new     *)
(* bytes in their places, or what the disk held in the gap.                 *)
LEMMA WriteTears ==
    ASSUME StructureInv, HistoryInv, op.call = "write", op.stage \in {"data", "dir", "sb"},
           stored[op.name] # Unsettled, NEW now,
           now = OldView[op.name] \/ (op.stage = "dir" /\ now = MemView[op.name])
    PROVE  LET old == stored[op.name]
           IN  /\ now # NoFile /\ now.owner = old.owner /\ now.perm = old.perm
               /\ Len(now.bytes) = Len(old.bytes) \/ Len(now.bytes) = Needed
               /\ \A i \in DOMAIN now.bytes :
                     \/ i \in DOMAIN old.bytes /\ now.bytes[i] = old.bytes[i]
                     \/ InRange(i) /\ now.bytes[i] = op.buf[i - op.offset]
                     \/ i > Len(old.bytes) /\ ~ InRange(i)
<1> DEFINE e == directory[op.slot]
           old == stored[op.name]
<1>1. /\ e \in Entry /\ op.slot \in Slots /\ op.name \in Name /\ e.name = op.name
      /\ op.offset \in Nat /\ op.buf \in Seq(Byte) /\ op.done \in Nat
      /\ Fits(e, next_free_lba) /\ next_free_lba \in 0..UFS_DATA_END
      /\ MemView[op.name] = FileOf(data, e) /\ data \in [DataBytes -> Byte]
  BY WrittenFile, StructureFacts
<1>2. /\ op.done \in 0..Len(op.buf)
      /\ op.stage # "data" => e.size = Needed
      /\ \A i \in 1..op.done : data[Byte0(e) + op.offset + i - 1] = op.buf[i]
      /\ Halfway(e, old)
  BY DEF HistoryInv, Overwrites, Overwriting
<1>3. /\ superblock.magic /\ old \in File /\ old.owner = e.owner /\ old.perm = e.perm
      /\ DOMAIN old.bytes = 1..Len(old.bytes) /\ Len(old.bytes) \in Nat
      /\ \A i \in 1..Len(old.bytes) :
            i - op.offset \notin 1..op.done => data[Byte0(e) + i - 1] = old.bytes[i]
  BY <1>2 DEF Halfway, File
<1>4. PICK f \in Entry, free \in 0..UFS_DATA_END :
         /\ now = FileOf(data, f) /\ Fits(f, free) /\ SamePlace(e, f)
         /\ f.owner = e.owner /\ f.perm = e.perm
         /\ f.size = Len(old.bytes) \/ f.size = Needed
         /\ op.stage = "data" => f.size = Len(old.bytes)
  <2>1. CASE op.stage \in {"data", "dir"} /\ now = OldView[op.name]
    <3> DEFINE g == disk_dir[op.slot]
    <3>1. /\ now = FileOf(data, g) /\ SamePlace(e, g) /\ g = [e EXCEPT !.size = Len(old.bytes)]
          /\ g \in Entry /\ \E free \in 0..UFS_DATA_END : Fits(g, free)
      BY <2>1, DiskShowsOld
    <3>2. g.size = Len(old.bytes) /\ g.owner = e.owner /\ g.perm = e.perm
      BY <1>1, <3>1 DEF Entry
    <3> HIDE DEF e, old, g
    <3> QED
      BY <3>1, <3>2
  <2>2. CASE op.stage = "sb" \/ (op.stage = "dir" /\ now = MemView[op.name])
    <3>1. op.stage = "sb" => disk_dir = directory
      BY DEF HistoryInv, SameDirs
    <3>2. now = MemView[op.name]
      BY <1>1, <1>3, <2>2, <3>1, Views
    <3>3. e.size = Needed /\ SamePlace(e, e)
      BY <1>2, <2>2 DEF SamePlace
    <3> HIDE DEF e, old
    <3> QED
      BY <1>1, <2>2, <3>2, <3>3
  <2> QED
    BY <2>1, <2>2
<1>5. /\ now \in File /\ now.owner = f.owner /\ now.perm = f.perm /\ Len(now.bytes) = f.size
      /\ DOMAIN now.bytes = 1..f.size /\ f.size \in Nat
      /\ \A i \in 1..f.size : now.bytes[i] = data[Byte0(e) + i - 1]
  <2>1. /\ FileOf(data, f) \in File
        /\ FileOf(data, f).owner = f.owner /\ FileOf(data, f).perm = f.perm
        /\ Len(FileOf(data, f).bytes) = f.size /\ DOMAIN FileOf(data, f).bytes = 1..f.size
        /\ \A i \in 1..f.size : FileOf(data, f).bytes[i] = data[Byte0(f) + i - 1]
    BY <1>1, <1>4, FileType
  <2>2. Byte0(f) = Byte0(e) /\ f.size \in Nat
    BY <1>4 DEF SamePlace, Byte0, Entry
  <2> QED
    BY <1>4, <2>1, <2>2
<1>6. PICK B \in Nat : B = Byte0(e)
  <2>1. e.start_lba \in 0..UFS_DATA_END
    BY <1>1 DEF Entry
  <2> QED
    BY <2>1, Sizes DEF Byte0
<1> HIDE DEF e, old
<1>7. ASSUME NEW i \in 1..f.size
      PROVE  \/ i \in DOMAIN old.bytes /\ now.bytes[i] = old.bytes[i]
             \/ InRange(i) /\ now.bytes[i] = op.buf[i - op.offset]
             \/ i > Len(old.bytes) /\ ~ InRange(i)
  <2>1. now.bytes[i] = data[B + i - 1] /\ i \in Nat \ {0}
    BY <1>5, <1>6
  <2>2. CASE i - op.offset \in 1..op.done
    <3>1. PICK k \in 1..op.done : k = i - op.offset
      BY <2>2
    <3>2. k \in 1..Len(op.buf)
      BY <1>1, <1>2
    <3>3. B + op.offset + k - 1 = B + i - 1
      BY <1>1, <3>1
    <3>4. data[B + i - 1] = op.buf[k]
      BY <1>2, <1>6, <3>3
    <3>5. InRange(i)
      BY <1>1, <3>1, <3>2 DEF InRange
    <3> QED
      BY <2>1, <3>1, <3>4, <3>5
  <2>3. CASE i - op.offset \notin 1..op.done /\ i <= Len(old.bytes)
    <3>1. i \in 1..Len(old.bytes)
      BY <1>3, <2>1, <2>3
    <3> QED
      BY <1>3, <1>6, <2>1, <2>3, <3>1
  <2>4. CASE i - op.offset \notin 1..op.done /\ ~ (i <= Len(old.bytes))
    <3>1. i > Len(old.bytes)
      BY <1>3, <2>1, <2>4
    <3>2. CASE InRange(i)
      <4>1. op.done = Len(op.buf)
        <5>1. op.stage # "data"
          <6>1. CASE op.stage = "data"
            <7>1. f.size = Len(old.bytes)
              BY <1>4, <6>1
            <7> QED
              BY <3>1, <7>1
          <6> QED
            BY <6>1
        <5> QED
          BY <5>1 DEF HistoryInv, Overwrites, Overwriting
      <4>2. i - op.offset \in 1..op.done
        BY <1>1, <3>2, <4>1 DEF InRange
      <4> QED
        BY <2>4, <4>2
    <3> QED
      BY <3>1, <3>2
  <2> QED
    BY <2>2, <2>3, <2>4
<1> QED
  BY <1>3, <1>4, <1>5, <1>7, UfsAssumption DEF old

(* The disk never shows more than one file torn. *)
LEMMA TearsFromHistory ==
    ASSUME StructureInv, HistoryInv, DirsInv
    PROVE  PowerLossTearsOneFile
<1> SUFFICES ASSUME NEW n \in Name, stored[n] # Unsettled, stored[n] # DiskView[n],
                    ~ (n = op.name /\ op.call = "create" /\ HalfWritten(op.slot))
             PROVE  LET old == stored[n]
                        now == DiskView[n]
                    IN  \/ n = op.name /\ op.call # "write" /\ now = op.result
                        \/ /\ n = op.name /\ op.call = "write"
                           /\ now # NoFile /\ now.owner = old.owner /\ now.perm = old.perm
                           /\ Len(now.bytes) = Len(old.bytes) \/ Len(now.bytes) = Needed
                           /\ \A i \in DOMAIN now.bytes :
                                 \/ i \in DOMAIN old.bytes /\ now.bytes[i] = old.bytes[i]
                                 \/ InRange(i) /\ now.bytes[i] = op.buf[i - op.offset]
                                 \/ i > Len(old.bytes) /\ ~ InRange(i)
  BY DEF PowerLossTearsOneFile
<1> DEFINE now == DiskView[n]
<1>1. now = OldView[n] \/ (op.stage \in WritingDir /\ now = MemView[n])
  BY DiskShowsOldOrNew
<1>2. /\ ~ Untouched(n)
      /\ op.stage \in {"dir", "grow_dir"} => ufs_ready
  <2>1. op.stage \in {"dir", "grow_dir"} => ufs_ready
    BY StageCases DEF Writing
  <2> QED
    BY <1>1, <2>1 DEF HistoryInv, Settlement, WritingDir
<1>3. n = op.name /\ op.stage \in {"data", "dir", "sb"}
  <2>1. op.stage \in Stage /\ (op.stage \in Formatting \union {"idle"} => op.name = NoName)
    BY StructureFacts, StageCases
  <2> QED
    BY <1>2, <2>1, UfsAssumption DEF Untouched, Stage, Formatting
<1>4. now = OldView[op.name] \/ (op.stage = "dir" /\ now = MemView[op.name])
  BY <1>1, <1>3 DEF WritingDir
<1>5. CASE op.call = "write"
  <2> HIDE DEF now
  <2>1. /\ now # NoFile /\ now.owner = stored[op.name].owner /\ now.perm = stored[op.name].perm
        /\ Len(now.bytes) = Len(stored[op.name].bytes) \/ Len(now.bytes) = Needed
        /\ \A i \in DOMAIN now.bytes :
              \/ i \in DOMAIN stored[op.name].bytes /\ now.bytes[i] = stored[op.name].bytes[i]
              \/ InRange(i) /\ now.bytes[i] = op.buf[i - op.offset]
              \/ i > Len(stored[op.name].bytes) /\ ~ InRange(i)
    BY <1>3, <1>4, <1>5, WriteTears
  <2> QED
    BY <1>3, <1>5, <2>1 DEF now
<1>6. CASE op.call # "write"
  <2>1. op.stage \in {"dir", "sb"} /\ MemView[n] = op.result
    BY <1>3, <1>6 DEF HistoryInv, Results, StructureInv, OpInv, Writing
  <2>2. CASE now = MemView[n]
    BY <1>3, <1>6, <2>1, <2>2
  <2>3. CASE now = OldView[n] /\ op.stage = "dir"
    BY <1>3, <1>6, <2>3 DEF HistoryInv, Results
  <2>4. CASE now = OldView[n] /\ op.stage = "sb"
    <3>1. superblock.magic
      BY <1>3, <2>4 DEF HistoryInv, Results
    <3>2. disk_dir = directory
      BY <2>4 DEF HistoryInv, SameDirs
    <3>3. now = MemView[n]
      BY <2>4, <3>1, <3>2, Views
    <3> QED
      BY <2>2, <3>3
  <2> QED
    BY <1>1, <2>1, <2>2, <2>3, <2>4
<1> QED
  BY <1>5, <1>6

(* The invariant *)
UfsInv == StructureInv /\ Area /\ HistoryInv /\ DirsInv

(* Every reachable state is sound and keeps the history. *)
LEMMA Inductive ==
    ASSUME FaultsTolerated
    PROVE  Spec => []UfsInv
<1>1. Init => UfsInv
  BY StructureInit, AreaInit, HistoryInit, DirsInit DEF UfsInv
<1>2. UfsInv /\ [Next]_vars => UfsInv'
  <2> SUFFICES ASSUME UfsInv, [Next]_vars
               PROVE  UfsInv'
    OBVIOUS
  <2>1. StructureInv' /\ Area'
    BY StructureNext, AreaNext DEF UfsInv, FaultsTolerated
  <2>2. HistoryInv' /\ DirsInv'
    BY <2>1, HistoryNext, DirsNext DEF UfsInv
  <2> QED
    BY <2>1, <2>2 DEF UfsInv
<1> QED
  BY <1>1, <1>2, PTL DEF Spec

(* Files keep the contents, owner and permissions that the calls have given *)
(* them, whatever calls on other files are made, fail or are cut off: but   *)
(* for the faults that FaultsTolerated leaves out.                          *)
THEOREM FilesSurviveFaults ==
    ASSUME FaultsTolerated
    PROVE  Spec => []ContentsSurvive
<1>1. Spec => []UfsInv
  BY Inductive
<1>2. UfsInv => ContentsSurvive
  BY SurviveFromHistory DEF UfsInv
<1> QED
  BY <1>1, <1>2, PTL

(* After faults that FaultsTolerated lets happen, at any moment, also       *)
(* between two sectors of the directory, the disk holds every file as the   *)
(* calls left it, but for the one being changed: that is as before or as    *)
(* after, a written file byte by byte; only of a file being created may     *)
(* the disk have half the entry.                                            *)
THEOREM PowerLossTearsOnlyOne ==
    ASSUME FaultsTolerated
    PROVE  Spec => []PowerLossTearsOneFile
<1>1. Spec => []UfsInv
  BY Inductive
<1>2. UfsInv => PowerLossTearsOneFile
  BY TearsFromHistory DEF UfsInv
<1> QED
  BY <1>1, <1>2, PTL
=============================================================================
