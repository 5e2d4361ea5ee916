---------------------------- MODULE UsersProofs -----------------------------
(***************************************************************************)
(* The file systems and the accounts of module Users are correct for every *)
(* number of programs, descriptors, files, sectors and accounts.           *)
(***************************************************************************)
EXTENDS Users, FiniteSetTheorems, WellFoundedInduction, TLAPS

(***************************************************************************)
(* Part 1.  Induction, lowest elements, repeated doubling                  *)
(***************************************************************************)

(* Every non-empty set of natural numbers has a least element. *)
LEMMA LeastElement ==
    ASSUME NEW T \in SUBSET Nat, T # {}
    PROVE  \E m \in T : \A n \in T : m <= n
<1> DEFINE R == {ss \in Nat \X Nat : ss[1] < ss[2]}
<1>1. IsWellFoundedOn(R, Nat)
  BY NatLessThanWellFounded DEF OpToRel
<1>2. PICK x \in T : \A y \in T : ~ (<<y, x>> \in R)
  <2> HIDE DEF R
  <2> QED
    BY <1>1, WFMin
<1>3. ASSUME NEW y \in T
      PROVE  x <= y
  <2>1. y < x => <<y, x>> \in R
    OBVIOUS
  <2> QED
    BY <1>2, <2>1
<1> QED
  BY <1>3

(* Induction up to a bound, for a set in place of a predicate. *)
LEMMA InductionUpTo ==
    ASSUME NEW max \in Nat, NEW T, 0 \in T,
           \A n \in 0..(max - 1) : n \in T => n + 1 \in T
    PROVE  0..max \subseteq T
<1> DEFINE B == {n \in 0..max : n \notin T}
<1>1. CASE B # {}
  <2>1. B \in SUBSET Nat
    OBVIOUS
  <2>2. PICK m \in B : \A n \in B : m <= n
    <3> HIDE DEF B
    <3> QED
      BY <1>1, <2>1, LeastElement
  <2>3. m - 1 \in 0..(max - 1) /\ m - 1 \notin B
    BY <2>2
  <2>4. m - 1 \in T
    BY <2>3
  <2> QED
    BY <2>2, <2>3, <2>4
<1> QED
  BY <1>1

(* Lowest is defined for every set of slots that is not empty. *)
LEMMA LowestIs ==
    ASSUME NEW S \in SUBSET Nat, S # {}
    PROVE  Lowest(S) \in S /\ \A y \in S : Lowest(S) <= y
<1>1. \E x \in S : \A y \in S : x <= y
  BY LeastElement
<1> QED
  BY <1>1 DEF Lowest

(* What a step function computes from a value on, as a function. *)
LEMMA Iterates ==
    ASSUME NEW D, NEW a \in D, NEW F \in [D -> D], NEW max \in Nat
    PROVE  \E f \in [0..max -> D] :
              f[0] = a /\ \A n \in 0..(max - 1) : f[n + 1] = F[f[n]]
<1> DEFINE Is(f, m) == f[0] = a /\ \A n \in 0..(m - 1) : f[n + 1] = F[f[n]]
           T == {m \in Nat : \E f \in [0..m -> D] : Is(f, m)}
<1>1. 0 \in T
  <2>1. [n \in 0..0 |-> a] \in [0..0 -> D] /\ Is([n \in 0..0 |-> a], 0)
    OBVIOUS
  <2> QED
    BY <2>1
<1>2. ASSUME NEW m \in Nat, m \in T
      PROVE  m + 1 \in T
  <2>1. PICK f \in [0..m -> D] : Is(f, m)
    BY <1>2
  <2> DEFINE g == [n \in 0..(m + 1) |-> IF n <= m THEN f[n] ELSE F[f[m]]]
  <2>2. f[m] \in D
    OBVIOUS
  <2>3. g \in [0..(m + 1) -> D]
    BY <2>2
  <2>4. g[0] = a
    BY <2>1
  <2>5. ASSUME NEW n \in 0..m
        PROVE  g[n + 1] = F[g[n]]
    <3>1. CASE n = m
      BY <3>1
    <3>2. CASE n \in 0..(m - 1)
      <4>1. g[n + 1] = f[n + 1] /\ g[n] = f[n]
        BY <3>2
      <4> QED
        BY <2>1, <3>2, <4>1
    <3> QED
      BY <3>1, <3>2
  <2>6. Is(g, m + 1)
    <3> HIDE DEF g
    <3> QED
      BY <2>4, <2>5
  <2> HIDE DEF g, Is
  <2> QED
    BY <2>3, <2>6
<1>3. 0..max \subseteq T
  <2>1. \A n \in 0..(max - 1) : n \in T => n + 1 \in T
    <3> HIDE DEF T
    <3> QED
      BY <1>2
  <2> HIDE DEF T
  <2> QED
    BY <1>1, <2>1, InductionUpTo
<1> QED
  BY <1>3

(* The values that the loop of Doubled goes through. *)
LEMMA DoublingPasses ==
    ASSUME NEW from \in Nat, NEW needed \in Nat
    PROVE  \E f \in [0..needed -> Nat] :
              /\ f[0] = from
              /\ \A n \in 0..(needed - 1) :
                    f[n + 1] = IF f[n] < needed THEN 2 * f[n] ELSE f[n]
<1>1. PICK F \in [Nat -> Nat] : \A x \in Nat : F[x] = IF x < needed THEN 2 * x ELSE x
  <2> DEFINE G == [x \in Nat |-> IF x < needed THEN 2 * x ELSE x]
  <2>1. G \in [Nat -> Nat] /\ \A x \in Nat : G[x] = IF x < needed THEN 2 * x ELSE x
    OBVIOUS
  <2> HIDE DEF G
  <2> QED
    BY <2>1
<1> DEFINE Iterable(D) ==
       \A a \in D : \A S \in [D -> D] : \A max \in Nat : \E f \in [0..max -> D] :
          f[0] = a /\ \A n \in 0..(max - 1) : f[n + 1] = S[f[n]]
<1>2. \A D : Iterable(D)
  BY Iterates, Zenon
<1>3. Iterable(Nat)
  <2> HIDE DEF Iterable
  <2> QED
    BY <1>2
<1>4. PICK f \in [0..needed -> Nat] :
         f[0] = from /\ \A n \in 0..(needed - 1) : f[n + 1] = F[f[n]]
  BY <1>3, ZenonT(60)
<1>5. ASSUME NEW n \in 0..(needed - 1)
      PROVE  f[n + 1] = IF f[n] < needed THEN 2 * f[n] ELSE f[n]
  <2>1. PICK v \in Nat : v = f[n]
    OBVIOUS
  <2>2. f[n + 1] = F[v]
    BY <1>4, <2>1
  <2> QED
    BY <1>1, <2>1, <2>2
<1> QED
  BY <1>4, <1>5

(* The loop that doubles a capacity ends with one that is large enough. *)
LEMMA DoubledIsEnough ==
    ASSUME NEW from \in Nat \ {0}, NEW needed \in Nat
    PROVE  /\ Doubled(from, needed) \in Nat
           /\ Doubled(from, needed) >= needed
           /\ Doubled(from, needed) >= from
<1>1. PICK f \in [0..needed -> Nat] :
         /\ f[0] = from
         /\ \A n \in 0..(needed - 1) :
               f[n + 1] = IF f[n] < needed THEN 2 * f[n] ELSE f[n]
  <2>1. from \in Nat
    OBVIOUS
  <2> QED
    BY <2>1, DoublingPasses, Zenon
<1>4. f = [k \in 0..needed |->
             IF k = 0 THEN from ELSE IF f[k - 1] < needed THEN 2 * f[k - 1] ELSE f[k - 1]]
  <2>1. ASSUME NEW k \in 0..needed, k # 0
        PROVE  f[k] = IF f[k - 1] < needed THEN 2 * f[k - 1] ELSE f[k - 1]
    <3>1. k - 1 \in 0..(needed - 1) /\ (k - 1) + 1 = k
      BY <2>1
    <3> QED
      BY <1>1, <3>1
  <2> QED
    BY <1>1, <2>1
<1>5. PICK g : /\ g = Passes(from, needed)
               /\ g = [k \in 0..needed |->
                    IF k = 0 THEN from ELSE IF g[k - 1] < needed THEN 2 * g[k - 1] ELSE g[k - 1]]
  BY <1>4, Zenon DEF Passes
<1>6. /\ g[0] = from
      /\ \A n \in 0..(needed - 1) :
            g[n + 1] = IF g[n] < needed THEN 2 * g[n] ELSE g[n]
  <2>1. ASSUME NEW n \in 0..(needed - 1)
        PROVE  g[n + 1] = IF g[n] < needed THEN 2 * g[n] ELSE g[n]
    <3>1. n + 1 \in 0..needed /\ n + 1 # 0 /\ (n + 1) - 1 = n
      OBVIOUS
    <3> QED
      BY <1>5, <3>1
  <2>2. 0 \in 0..needed
    OBVIOUS
  <2>3. g[0] = from
    BY <1>5, <2>2
  <2> QED
    BY <2>1, <2>3
<1> DEFINE T == {n \in Nat : /\ g[n] \in Nat /\ g[n] >= from
                             /\ g[n] >= needed \/ g[n] > n}
<1>7. 0 \in T
  BY <1>6
<1>8. ASSUME NEW n \in 0..(needed - 1), n \in T
      PROVE  n + 1 \in T
  <2>1. PICK v \in Nat : v = g[n] /\ v >= from /\ (v >= needed \/ v > n)
    BY <1>8
  <2>2. PICK w \in Nat : w = g[n + 1] /\ w = IF v < needed THEN 2 * v ELSE v
    BY <1>6, <2>1, SMTT(60)
  <2>3. w >= from /\ (w >= needed \/ w > n + 1)
    BY <2>1, <2>2, SMTT(60)
  <2>4. n + 1 \in Nat
    OBVIOUS
  <2> QED
    BY <2>2, <2>3, <2>4, Zenon
<1>9. needed \in T
  <2>1. 0..needed \subseteq T
    <3> HIDE DEF T
    <3> QED
      BY <1>7, <1>8, InductionUpTo
  <2> HIDE DEF T
  <2> QED
    BY <2>1
<1> QED
  BY <1>5, <1>9 DEF Doubled

(***************************************************************************)
(* Part 2.  Sectors and bytes                                              *)
(***************************************************************************)

(* The address of the first byte of a sector *)
Sec(x) == x * SECTOR_SIZE

(* Sectors follow each other without gaps. *)
LEMMA SecFacts ==
    /\ \A x \in Nat : Sec(x) \in Nat
    /\ \A x, y \in Nat : Sec(x + y) = Sec(x) + Sec(y)
    /\ \A x, y \in Nat : x <= y => Sec(x) <= Sec(y)
    /\ \A x, y \in Nat : Sec(x) < Sec(y) => x < y
    /\ Sec(0) = 0
<1>1. SECTOR_SIZE \in Nat /\ SECTOR_SIZE > 0
  BY FilesAssumption
<1>2. \A x \in Nat : Sec(x) \in Nat
  BY <1>1 DEF Sec
<1>3. \A x, y \in Nat : Sec(x + y) = Sec(x) + Sec(y)
  BY <1>1 DEF Sec
<1>4. ASSUME NEW x \in Nat, NEW y \in Nat, x <= y
      PROVE  Sec(x) <= Sec(y)
  <2>1. y - x \in Nat /\ y = x + (y - x)
    BY <1>4
  <2>2. Sec(y) = Sec(x) + Sec(y - x)
    BY <1>3, <2>1
  <2> QED
    BY <1>2, <2>1, <2>2
<1>5. ASSUME NEW x \in Nat, NEW y \in Nat, Sec(x) < Sec(y)
      PROVE  x < y
  <2>1. y <= x => Sec(y) <= Sec(x)
    BY <1>4
  <2> QED
    BY <1>2, <1>5, <2>1
<1>6. Sec(0) = 0
  BY <1>1 DEF Sec
<1> QED
  BY <1>2, <1>3, <1>4, <1>5, <1>6

(* sectors_for_bytes is the least number of sectors that hold n bytes. *)
LEMMA SectorsFor ==
    ASSUME NEW n \in Nat
    PROVE  /\ sectors_for_bytes(n) \in Nat
           /\ n <= Sec(sectors_for_bytes(n))
           /\ \A c \in Nat : n <= Sec(c) => sectors_for_bytes(n) <= c
<1>1. PICK d \in Nat \ {0} : d = SECTOR_SIZE
  BY FilesAssumption
<1>2. n + d - 1 \in Nat
  OBVIOUS
<1>3. PICK q \in Nat, r \in 0..(d - 1) : /\ q = (n + d - 1) \div d
                                         /\ n + d - 1 = d * q + r
  BY <1>2
<1>4. sectors_for_bytes(n) = q
  BY <1>1, <1>3 DEF sectors_for_bytes
<1>5. PICK m \in Nat : m = d * q /\ m = q * d
  OBVIOUS
<1>6. n <= m
  BY <1>3, <1>5
<1>7. ASSUME NEW c \in Nat, n <= Sec(c)
      PROVE  q <= c
  <2>1. PICK k \in Nat : k = c * d /\ k = Sec(c)
    BY <1>1 DEF Sec
  <2>2. CASE c < q
    <3>1. q - c \in Nat /\ q - c >= 1 /\ q = c + (q - c)
      BY <2>2
    <3>2. PICK e \in Nat : e = q - c /\ e >= 1
      BY <3>1
    <3>3. (c + e) * d = c * d + e * d /\ e * d >= d
      BY <3>2
    <3>4. m = (c + e) * d
      BY <1>5, <3>1, <3>2
    <3>5. PICK x \in Nat : x = e * d
      OBVIOUS
    <3>6. m = k + x /\ x >= d
      BY <2>1, <3>3, <3>4, <3>5
    <3> QED
      BY <1>3, <1>5, <1>7, <2>1, <3>6
  <2> QED
    BY <2>2
<1> QED
  BY <1>1, <1>4, <1>5, <1>6, <1>7 DEF Sec

(***************************************************************************)
(* Part 3.  The invariant of UFS                                           *)
(***************************************************************************)

DirEntry == [name : Names \cup {NoName}, start : 0..UFS_DATA_END_LBA, size : Nat,
             cap : 0..UFS_DATA_RESERVED_SECTORS, owner : Nat, perm : Perms]

LiveFiles == {s \in UfsSlots : handle_valid(s)}

(* The byte at address a is in the extent of directory entry d. *)
InExtent(d, a) == Sec(d.start) <= a /\ a < Sec(d.start + d.cap)

(* The extents of two directory entries have no sector in common. *)
Apart(d, e) ==
    \/ d.cap = 0 \/ e.cap = 0
    \/ d.start + d.cap <= e.start
    \/ e.start + e.cap <= d.start

UfsTypes ==
    /\ directory \in [UfsSlots -> DirEntry]
    /\ next_free_lba \in UFS_DATA_LBA..UFS_DATA_END_LBA
    /\ DOMAIN data = DataBytes
    /\ incs \in Nat /\ inc \in [UfsSlots -> 0..incs]
    /\ stray.hollow \subseteq 0..incs /\ stray.mixed \subseteq 0..incs
    /\ stray.reach \in Nat

UniqueNames ==
    \A s, t \in LiveFiles : directory[s].name = directory[t].name => s = t

(* Extents lie below the next free sector and apart from each other. *)
Extents ==
    /\ \A s \in LiveFiles :
          \/ directory[s].cap = 0
          \/ /\ UFS_DATA_LBA <= directory[s].start
             /\ directory[s].start + directory[s].cap <= next_free_lba
    /\ \A s, t \in LiveFiles : s # t => Apart(directory[s], directory[t])

(* A file that is not hollow fits. *)
Fitting ==
    \A s \in LiveFiles :
        inc[s] \notin stray.hollow => directory[s].size <= Sec(directory[s].cap)

(* An extent holds bytes of its own file only, and sectors that no extent   *)
(* and no copy of a hollow file has reached hold none.                      *)
OwnBytes ==
    /\ \A s \in LiveFiles : inc[s] \notin stray.hollow \cup stray.mixed =>
          \A a \in DataBytes : InExtent(directory[s], a) => data[a].of \in {0, inc[s]}
    /\ \A a \in DataBytes :
          (Sec(next_free_lba) <= a /\ Sec(stray.reach) <= a) => data[a].of = 0

UfsInv == UfsTypes /\ UniqueNames /\ Extents /\ Fitting /\ OwnBytes

(* The invariant says what ExtentHoldsFile says. *)
LEMMA ExtentsHoldFiles == UfsInv => ExtentHoldsFile
<1> SUFFICES ASSUME UfsInv
    PROVE  ExtentHoldsFile
  OBVIOUS
<1>1. UfsSlots \ FreeEntries = LiveFiles
  BY DEF FreeEntries, LiveFiles
<1>2. ASSUME NEW s \in LiveFiles
      PROVE  /\ directory[s].start \in Nat /\ directory[s].cap \in Nat
             /\ Extent(s) = {directory[s].start + i : i \in 0..(directory[s].cap - 1)}
  BY FilesAssumption DEF UfsInv, UfsTypes, DirEntry, LiveFiles, Extent, UFS_DATA_END_LBA
<1>3. ASSUME NEW s \in LiveFiles, inc[s] \notin stray.hollow
      PROVE  directory[s].size <= directory[s].cap * SECTOR_SIZE
  BY <1>3 DEF UfsInv, Fitting, Sec
<1>4. next_free_lba \in Nat /\ UFS_DATA_LBA \in Nat
  BY FilesAssumption DEF UfsInv, UfsTypes, UFS_DATA_END_LBA
<1>5. ASSUME NEW s \in LiveFiles
      PROVE  Extent(s) \subseteq UFS_DATA_LBA..(next_free_lba - 1)
  <2>1. PICK st \in Nat, cp \in Nat : st = directory[s].start /\ cp = directory[s].cap
    BY <1>2
  <2>2. cp = 0 \/ (UFS_DATA_LBA <= st /\ st + cp <= next_free_lba)
    BY <2>1 DEF UfsInv, Extents
  <2> QED
    BY <1>2, <1>4, <2>1, <2>2
<1>6. ASSUME NEW s \in LiveFiles, NEW t \in LiveFiles, s # t
      PROVE  Extent(s) \cap Extent(t) = {}
  <2>1. PICK st \in Nat, cp \in Nat : st = directory[s].start /\ cp = directory[s].cap
    BY <1>2
  <2>2. PICK tt \in Nat, tp \in Nat : tt = directory[t].start /\ tp = directory[t].cap
    BY <1>2
  <2>3. cp = 0 \/ tp = 0 \/ st + cp <= tt \/ tt + tp <= st
    BY <1>6, <2>1, <2>2 DEF UfsInv, Extents, Apart
  <2>4. \A x \in Extent(s) : x \in Nat /\ st <= x /\ x < st + cp
    BY <1>2, <2>1
  <2>5. \A x \in Extent(t) : x \in Nat /\ tt <= x /\ x < tt + tp
    BY <1>2, <2>2
  <2> QED
    BY <2>3, <2>4, <2>5
<1> QED
  BY <1>1, <1>3, <1>5, <1>6 DEF ExtentHoldsFile

(***************************************************************************)
(* Part 4.  The invariants of memfs, the descriptors and the accounts      *)
(***************************************************************************)

Buffer == UNION {[0..(m - 1) -> Procs \cup {Junk}] : m \in Nat}

MemEntry == [name : Names \cup {NoName}, data : Buffer, size : Nat, in_use : BOOLEAN]

Descriptor == [kind : {"UNUSED", "UFS", "MEMFS"}, handle : Nat, cursor : Nat]

(* Descriptors lead to slots that exist. *)
FdsInv ==
    /\ fds \in [Procs -> [Fds -> Descriptor]]
    /\ \A p \in Procs, f \in Fds :
          /\ fds[p][f].kind = "UFS" => fds[p][f].handle \in UfsSlots
          /\ fds[p][f].kind = "MEMFS" => fds[p][f].handle \in DOMAIN entries

(* Every file fits its buffer. *)
GoodEntry == {e \in MemEntry : /\ e.size <= capacity(e)
                               /\ e.in_use => e.name \in Names /\ capacity(e) > 0}

MemTypes ==
    /\ \E n \in Nat : entries \in [0..(n - 1) -> GoodEntry]
    /\ written \in [Names -> Seq(Procs)]

MemNames ==
    \A g, h \in DOMAIN entries :
        (entries[g].in_use /\ entries[h].in_use /\ entries[g].name = entries[h].name) => g = h

(* Entry e holds the bytes w. *)
Holds(e, w) == e.size = Len(w) /\ \A i \in 1..e.size : e.data[i - 1] = w[i]

MemContents ==
    \A h \in DOMAIN entries : entries[h].in_use => Holds(entries[h], written[entries[h].name])

MemCursors ==
    \A p \in Procs, f \in Fds : fds[p][f].kind = "MEMFS" =>
        /\ entries[fds[p][f].handle].in_use
        /\ fds[p][f].cursor <= entries[fds[p][f].handle].size

MemInv == MemTypes /\ MemNames /\ MemContents /\ MemCursors

AccountTable == [Slots -> [user : Logins \cup {NoName}, uid : Nat, hash : Nat]]

(* The entry of the account file: the kernel's own, empty or complete *)
PasswdEntry(d) ==
    /\ d.owner = 0 /\ d.perm = {}
    /\ d.size \in {0, USER_MAX_ACCOUNTS} /\ d.size <= Sec(d.cap)

(* The account file, when it is complete, holds the accounts that were      *)
(* acknowledged last; while persist works on it, it is empty.               *)
AccInv ==
    /\ accounts \in AccountTable /\ acked \in AccountTable
    /\ \A s \in ufs_find(PASSWD_FILE) : PasswdEntry(directory[s])
    /\ \A s \in PasswdFound : Loaded(s) = acked
    /\ (pc \in {"off", "open"} /\ PasswdFound = {}) => acked = seed_defaults
    /\ pc \in {"chmod", "write"} => PasswdFound = {}
    /\ pc = "run" => accounts = acked /\ PasswdFound # {}

Rest ==
    /\ pc \in {"off", "open", "chmod", "write", "run"}
    /\ uid \in [Procs -> Nat]
    /\ mix \in Mixes /\ calls \in 0..mix.max /\ losses \in 0..MaxPowerLosses

(* The inductive invariant *)
Inv == UfsInv /\ FdsInv /\ MemInv /\ AccInv /\ NoLeak /\ Rest

(***************************************************************************)
(* Part 5.  The functions of UFS keep its invariant                        *)
(***************************************************************************)

(* The constants and the fields of an entry are numbers. *)
LEMMA UfsNumbers ==
    /\ UFS_DATA_LBA \in Nat /\ UFS_DATA_END_LBA \in Nat /\ UFS_DATA_RESERVED_SECTORS \in Nat
    /\ UFS_DATA_END_LBA = UFS_DATA_LBA + UFS_DATA_RESERVED_SECTORS
    /\ UFS_DATA_LBA >= UFS_DATA_RESERVED_SECTORS
    /\ DataBytes = Sec(UFS_DATA_LBA)..(Sec(UFS_DATA_END_LBA) - 1)
    /\ \A a \in DataBytes : a \in Nat
    /\ \A d \in DirEntry : d.start \in Nat /\ d.size \in Nat /\ d.cap \in Nat
<1>1. /\ UFS_DATA_LBA \in Nat /\ UFS_DATA_END_LBA \in Nat /\ UFS_DATA_RESERVED_SECTORS \in Nat
      /\ UFS_DATA_END_LBA = UFS_DATA_LBA + UFS_DATA_RESERVED_SECTORS
      /\ UFS_DATA_LBA >= UFS_DATA_RESERVED_SECTORS
  BY FilesAssumption DEF UFS_DATA_END_LBA
<1>2. DataBytes = Sec(UFS_DATA_LBA)..(Sec(UFS_DATA_END_LBA) - 1)
  BY DEF DataBytes, Sec
<1>3. Sec(UFS_DATA_LBA) \in Nat /\ Sec(UFS_DATA_END_LBA) \in Nat
  BY <1>1, SecFacts
<1>4. \A a \in DataBytes : a \in Nat
  BY <1>2, <1>3
<1>5. \A d \in DirEntry : d.start \in Nat /\ d.size \in Nat /\ d.cap \in Nat
  BY <1>1 DEF DirEntry
<1> QED
  BY <1>1, <1>2, <1>4, <1>5

(* An extent without sectors has no bytes and is apart from every other. *)
LEMMA NoExtent ==
    ASSUME NEW d \in DirEntry, d.cap = 0, NEW a \in Nat
    PROVE  ~ InExtent(d, a)
<1>1. PICK x \in Nat : x = d.start
  BY UfsNumbers
<1>2. d.start + d.cap = x
  BY <1>1
<1>3. PICK k \in Nat : k = Sec(x)
  BY SecFacts
<1> QED
  BY <1>1, <1>2, <1>3 DEF InExtent

(* A change of the directory alone: live files keep their extents and do    *)
(* not become larger, and new ones are empty.                               *)
LEMMA UfsKept ==
    ASSUME UfsInv,
           directory' \in [UfsSlots -> DirEntry],
           UNCHANGED <<next_free_lba, data, stray>>,
           incs' \in Nat, incs <= incs', inc' \in [UfsSlots -> 0..incs'],
           UniqueNames',
           \A s \in LiveFiles' :
              \/ /\ s \in LiveFiles /\ inc'[s] = inc[s]
                 /\ directory'[s].start = directory[s].start
                 /\ directory'[s].cap = directory[s].cap
                 /\ directory'[s].size <= directory[s].size
              \/ directory'[s].cap = 0 /\ directory'[s].size = 0
    PROVE  UfsInv'
<1> USE UfsNumbers
<1>1. UfsTypes'
  BY DEF UfsInv, UfsTypes
<1>2. ASSUME NEW s \in LiveFiles'
      PROVE  \/ directory'[s].cap = 0
             \/ /\ UFS_DATA_LBA <= directory'[s].start
                /\ directory'[s].start + directory'[s].cap <= next_free_lba'
  BY <1>2 DEF UfsInv, Extents
<1>3. ASSUME NEW s \in LiveFiles', NEW t \in LiveFiles', s # t
      PROVE  Apart(directory'[s], directory'[t])
  BY <1>3 DEF UfsInv, Extents, Apart
<1>4. ASSUME NEW s \in LiveFiles', inc'[s] \notin stray'.hollow
      PROVE  directory'[s].size <= Sec(directory'[s].cap)
  <2>1. CASE directory'[s].cap = 0 /\ directory'[s].size = 0
    BY <2>1, SecFacts
  <2>2. CASE /\ s \in LiveFiles /\ inc'[s] = inc[s]
             /\ directory'[s].cap = directory[s].cap
             /\ directory'[s].size <= directory[s].size
    <3>1. directory[s].size <= Sec(directory[s].cap)
      BY <1>4, <2>2 DEF UfsInv, Fitting
    <3>2. directory[s] \in DirEntry /\ directory'[s] \in DirEntry
      BY DEF UfsInv, UfsTypes, LiveFiles
    <3>3. directory[s].size \in Nat /\ directory'[s].size \in Nat /\ Sec(directory[s].cap) \in Nat
      BY <3>2, SecFacts
    <3> QED
      BY <2>2, <3>1, <3>3
  <2> QED
    BY <2>1, <2>2
<1>5. ASSUME NEW s \in LiveFiles', inc'[s] \notin stray'.hollow \cup stray'.mixed,
             NEW a \in DataBytes, InExtent(directory'[s], a)
      PROVE  data'[a].of \in {0, inc'[s]}
  <2>1. directory'[s] \in DirEntry /\ a \in Nat
    BY DEF LiveFiles
  <2>2. directory'[s].cap # 0
    BY <1>5, <2>1, NoExtent
  <2>3. s \in LiveFiles /\ inc'[s] = inc[s] /\ InExtent(directory[s], a)
    BY <1>5, <2>2 DEF InExtent
  <2> QED
    BY <1>5, <2>3 DEF UfsInv, OwnBytes
<1>6. OwnBytes'
  BY <1>5 DEF UfsInv, OwnBytes
<1>7. Extents'
  BY <1>2, <1>3 DEF Extents
<1>8. Fitting'
  BY <1>4 DEF Fitting
<1> QED
  BY <1>1, <1>6, <1>7, <1>8 DEF UfsInv

(* One entry of the directory is replaced. *)
LEMMA EntryWritten ==
    ASSUME UfsInv, NEW s \in UfsSlots, NEW d \in DirEntry,
           directory' = [directory EXCEPT ![s] = d]
    PROVE  /\ directory' \in [UfsSlots -> DirEntry]
           /\ directory'[s] = d
           /\ \A t \in UfsSlots : t # s => directory'[t] = directory[t]
           /\ \A t \in LiveFiles' : t = s \/ t \in LiveFiles
  BY DEF UfsInv, UfsTypes, LiveFiles, handle_valid

(* ufs_create takes a free slot for a file without bytes. *)
LEMMA CreateEffect ==
    ASSUME UfsInv, NEW name \in Names, NEW me \in Nat, ufs_create(name, me)
    PROVE  /\ Lowest(FreeEntries) \in UfsSlots /\ Lowest(FreeEntries) \notin LiveFiles
           /\ directory' \in [UfsSlots -> DirEntry]
           /\ directory'[Lowest(FreeEntries)].name = name
           /\ directory'[Lowest(FreeEntries)].owner = me
           /\ directory'[Lowest(FreeEntries)].perm = {}
           /\ directory'[Lowest(FreeEntries)].size = 0
           /\ directory'[Lowest(FreeEntries)].cap = 0
           /\ \A t \in UfsSlots : t # Lowest(FreeEntries) =>
                 directory'[t] = directory[t] /\ inc'[t] = inc[t]
           /\ \A t \in UfsSlots : directory[t].name # name
           /\ UNCHANGED <<next_free_lba, data, stray>>
           /\ UfsInv'
<1>1. FreeEntries \in SUBSET Nat /\ FreeEntries # {}
  BY DEF ufs_create, FreeEntries, UfsSlots
<1>2. PICK n : n = Lowest(FreeEntries) /\ n \in FreeEntries
  BY <1>1, LowestIs
<1>3. n \in UfsSlots /\ n \notin LiveFiles
  BY <1>2 DEF FreeEntries, LiveFiles
<1>4. PICK d \in DirEntry :
         /\ d = NewEntry(name, me)
         /\ d.name = name /\ d.owner = me /\ d.perm = {} /\ d.size = 0 /\ d.cap = 0
  <2>1. NoEntry \in DirEntry /\ NoEntry.perm = {} /\ NoEntry.size = 0 /\ NoEntry.cap = 0
    BY UfsNumbers DEF NoEntry, DirEntry, Perms
  <2>2. PICK q \in DirEntry : q = NoEntry /\ q.perm = {} /\ q.size = 0 /\ q.cap = 0
    BY <2>1
  <2>3. /\ [q EXCEPT !.name = name, !.owner = me] \in DirEntry
        /\ [q EXCEPT !.name = name, !.owner = me].name = name
        /\ [q EXCEPT !.name = name, !.owner = me].owner = me
        /\ [q EXCEPT !.name = name, !.owner = me].perm = q.perm
        /\ [q EXCEPT !.name = name, !.owner = me].size = q.size
        /\ [q EXCEPT !.name = name, !.owner = me].cap = q.cap
    BY Zenon DEF DirEntry
  <2>4. NewEntry(name, me) = [q EXCEPT !.name = name, !.owner = me]
    BY <2>2, Zenon DEF NewEntry
  <2> QED
    BY <2>2, <2>3, <2>4, Zenon
<1>5. directory' = [directory EXCEPT ![n] = d]
  BY <1>2, <1>4 DEF ufs_create
<1>6. /\ directory' \in [UfsSlots -> DirEntry]
      /\ directory'[n] = d
      /\ \A t \in UfsSlots : t # n => directory'[t] = directory[t]
      /\ \A t \in LiveFiles' : t = n \/ t \in LiveFiles
  BY <1>3, <1>5, EntryWritten
<1>7. \A t \in UfsSlots : directory[t].name # name
  BY DEF ufs_create, ufs_find
<1>8. /\ inc' = [inc EXCEPT ![n] = incs + 1] /\ incs' = incs + 1
      /\ UNCHANGED <<next_free_lba, data, stray>>
  BY <1>2 DEF ufs_create
<1>9. /\ incs' \in Nat /\ incs <= incs' /\ inc' \in [UfsSlots -> 0..incs']
      /\ \A t \in UfsSlots : t # n => inc'[t] = inc[t]
  BY <1>3, <1>8 DEF UfsInv, UfsTypes
<1>10. UniqueNames'
  <2>1. ASSUME NEW s \in LiveFiles', NEW t \in LiveFiles',
               directory'[s].name = directory'[t].name, s # t
        PROVE  FALSE
    <3>1. s \in UfsSlots /\ t \in UfsSlots
      BY DEF LiveFiles
    <3>2. CASE s = n
      BY <1>4, <1>6, <1>7, <2>1, <3>1, <3>2
    <3>3. CASE t = n
      BY <1>4, <1>6, <1>7, <2>1, <3>1, <3>3
    <3>4. CASE s # n /\ t # n
      BY <1>6, <2>1, <3>1, <3>4 DEF UfsInv, UniqueNames
    <3> QED
      BY <3>2, <3>3, <3>4
  <2> QED
    BY <2>1 DEF UniqueNames
<1>11. ASSUME NEW s \in LiveFiles'
       PROVE  \/ /\ s \in LiveFiles /\ inc'[s] = inc[s]
                 /\ directory'[s].start = directory[s].start
                 /\ directory'[s].cap = directory[s].cap
                 /\ directory'[s].size <= directory[s].size
              \/ directory'[s].cap = 0 /\ directory'[s].size = 0
  <2>1. CASE s = n
    BY <1>4, <1>6, <2>1
  <2>2. CASE s # n
    <3>1. s \in LiveFiles /\ s \in UfsSlots
      BY <1>6, <2>2 DEF LiveFiles
    <3>2. directory[s].size \in Nat
      BY <3>1, UfsNumbers DEF UfsInv, UfsTypes
    <3> QED
      BY <1>6, <1>9, <2>2, <3>1, <3>2
  <2> QED
    BY <2>1, <2>2
<1>12. UfsInv'
  BY <1>6, <1>8, <1>9, <1>10, <1>11, UfsKept
<1> QED
  BY <1>2, <1>3, <1>4, <1>6, <1>7, <1>8, <1>9, <1>12

(* One field of a live entry is changed; the file does not become larger.   *)
LEMMA EntryChanged ==
    ASSUME UfsInv, NEW s \in LiveFiles, NEW d \in DirEntry,
           directory' = [directory EXCEPT ![s] = d],
           UNCHANGED <<next_free_lba, data, inc, incs, stray>>,
           d.start = directory[s].start, d.cap = directory[s].cap,
           d.size <= directory[s].size,
           d.name = NoName \/ d.name = directory[s].name
    PROVE  /\ directory' \in [UfsSlots -> DirEntry]
           /\ directory'[s] = d
           /\ \A t \in UfsSlots : t # s => directory'[t] = directory[t]
           /\ UfsInv'
<1>1. s \in UfsSlots
  BY DEF LiveFiles
<1>2. /\ directory' \in [UfsSlots -> DirEntry]
      /\ directory'[s] = d
      /\ \A t \in UfsSlots : t # s => directory'[t] = directory[t]
      /\ \A t \in LiveFiles' : t = s \/ t \in LiveFiles
  BY <1>1, EntryWritten
<1>3. \A t \in LiveFiles' : /\ t \in LiveFiles /\ t \in UfsSlots
                            /\ directory'[t].name = directory[t].name
  BY <1>2 DEF LiveFiles, handle_valid
<1>4. UniqueNames'
  BY <1>3 DEF UfsInv, UniqueNames
<1>5. ASSUME NEW t \in LiveFiles'
      PROVE  /\ t \in LiveFiles /\ inc'[t] = inc[t]
             /\ directory'[t].start = directory[t].start
             /\ directory'[t].cap = directory[t].cap
             /\ directory'[t].size <= directory[t].size
  <2>1. CASE t = s
    BY <1>2, <2>1
  <2>2. CASE t # s
    <3>1. directory[t].size \in Nat
      BY <1>3, UfsNumbers DEF UfsInv, UfsTypes
    <3> QED
      BY <1>2, <1>3, <2>2, <3>1
  <2> QED
    BY <2>1, <2>2
<1>6. incs' \in Nat /\ incs <= incs' /\ inc' \in [UfsSlots -> 0..incs']
  BY DEF UfsInv, UfsTypes
<1>7. UfsInv'
  BY <1>2, <1>4, <1>5, <1>6, UfsKept
<1> QED
  BY <1>2, <1>7

(* What ufs_delete leaves of an entry. *)
LEMMA DeleteEffect ==
    ASSUME UfsInv, NEW s \in LiveFiles, ufs_delete(s)
    PROVE  /\ directory' \in [UfsSlots -> DirEntry]
           /\ directory'[s].name = NoName
           /\ \A t \in UfsSlots : t # s => directory'[t] = directory[t]
           /\ UNCHANGED <<next_free_lba, data, inc, incs, stray>>
           /\ UfsInv'
<1>1. PICK q \in DirEntry : q = directory[s]
  BY DEF UfsInv, UfsTypes, LiveFiles
<1>2. /\ [q EXCEPT !.name = NoName] \in DirEntry
      /\ [q EXCEPT !.name = NoName].name = NoName
      /\ [q EXCEPT !.name = NoName].start = q.start
      /\ [q EXCEPT !.name = NoName].cap = q.cap
      /\ [q EXCEPT !.name = NoName].size = q.size
  BY Zenon DEF DirEntry
<1>3. PICK d \in DirEntry : /\ d = [q EXCEPT !.name = NoName]
                            /\ d.name = NoName /\ d.start = q.start
                            /\ d.cap = q.cap /\ d.size = q.size
  BY <1>2, Zenon
<1>4. directory' = [directory EXCEPT ![s] = d]
  BY <1>1, <1>3, Zenon DEF ufs_delete
<1>5. UNCHANGED <<next_free_lba, data, inc, incs, stray>>
  BY DEF ufs_delete
<1>6. q.size \in Nat
  BY UfsNumbers
<1>7. /\ d.start = directory[s].start /\ d.cap = directory[s].cap
      /\ d.size <= directory[s].size
      /\ d.name = NoName \/ d.name = directory[s].name
  BY <1>1, <1>3, <1>6
<1>8. /\ directory' \in [UfsSlots -> DirEntry]
      /\ directory'[s] = d
      /\ \A t \in UfsSlots : t # s => directory'[t] = directory[t]
      /\ UfsInv'
  BY <1>4, <1>5, <1>7, EntryChanged
<1> QED
  BY <1>1, <1>3, <1>5, <1>8

(* What ufs_chmod leaves of an entry. *)
LEMMA ChmodEffect ==
    ASSUME UfsInv, NEW s \in LiveFiles, NEW perm \in Perms, ufs_chmod(s, perm)
    PROVE  /\ directory' \in [UfsSlots -> DirEntry]
           /\ directory'[s].perm = perm
           /\ directory'[s].name = directory[s].name
           /\ directory'[s].owner = directory[s].owner
           /\ directory'[s].start = directory[s].start
           /\ directory'[s].cap = directory[s].cap
           /\ directory'[s].size = directory[s].size
           /\ \A t \in UfsSlots : t # s => directory'[t] = directory[t]
           /\ UNCHANGED <<next_free_lba, data, inc, incs, stray>>
           /\ UfsInv'
<1>1. PICK q \in DirEntry : q = directory[s]
  BY DEF UfsInv, UfsTypes, LiveFiles
<1>2. /\ [q EXCEPT !.perm = perm] \in DirEntry
      /\ [q EXCEPT !.perm = perm].perm = perm
      /\ [q EXCEPT !.perm = perm].name = q.name
      /\ [q EXCEPT !.perm = perm].owner = q.owner
      /\ [q EXCEPT !.perm = perm].start = q.start
      /\ [q EXCEPT !.perm = perm].cap = q.cap
      /\ [q EXCEPT !.perm = perm].size = q.size
  BY Zenon DEF DirEntry
<1>3. PICK d \in DirEntry : /\ d = [q EXCEPT !.perm = perm]
                            /\ d.perm = perm /\ d.name = q.name /\ d.owner = q.owner
                            /\ d.start = q.start /\ d.cap = q.cap /\ d.size = q.size
  BY <1>2, Zenon
<1>4. directory' = [directory EXCEPT ![s] = d]
  BY <1>1, <1>3, Zenon DEF ufs_chmod
<1>5. UNCHANGED <<next_free_lba, data, inc, incs, stray>>
  BY DEF ufs_chmod
<1>6. q.size \in Nat
  BY UfsNumbers
<1>7. /\ d.start = directory[s].start /\ d.cap = directory[s].cap
      /\ d.size <= directory[s].size
      /\ d.name = NoName \/ d.name = directory[s].name
  BY <1>1, <1>3, <1>6
<1>8. /\ directory' \in [UfsSlots -> DirEntry]
      /\ directory'[s] = d
      /\ \A t \in UfsSlots : t # s => directory'[t] = directory[t]
      /\ UfsInv'
  BY <1>4, <1>5, <1>7, EntryChanged
<1> QED
  BY <1>1, <1>3, <1>5, <1>8

(* What ufs_truncate leaves of an entry. *)
LEMMA TruncateEffect ==
    ASSUME UfsInv, NEW s \in LiveFiles, ufs_truncate(s)
    PROVE  /\ directory' \in [UfsSlots -> DirEntry]
           /\ directory'[s].size = 0
           /\ directory'[s].name = directory[s].name
           /\ directory'[s].owner = directory[s].owner
           /\ directory'[s].perm = directory[s].perm
           /\ directory'[s].start = directory[s].start
           /\ directory'[s].cap = directory[s].cap
           /\ \A t \in UfsSlots : t # s => directory'[t] = directory[t]
           /\ UNCHANGED <<next_free_lba, data, inc, incs, stray>>
           /\ UfsInv'
<1>1. PICK q \in DirEntry : q = directory[s]
  BY DEF UfsInv, UfsTypes, LiveFiles
<1>2. /\ [q EXCEPT !.size = 0] \in DirEntry
      /\ [q EXCEPT !.size = 0].size = 0
      /\ [q EXCEPT !.size = 0].name = q.name
      /\ [q EXCEPT !.size = 0].owner = q.owner
      /\ [q EXCEPT !.size = 0].perm = q.perm
      /\ [q EXCEPT !.size = 0].start = q.start
      /\ [q EXCEPT !.size = 0].cap = q.cap
  BY DEF DirEntry
<1>3. PICK d \in DirEntry : /\ d = [q EXCEPT !.size = 0]
                            /\ d.size = 0 /\ d.name = q.name /\ d.owner = q.owner
                            /\ d.perm = q.perm /\ d.start = q.start /\ d.cap = q.cap
  BY <1>2, Zenon
<1>4. directory' = [directory EXCEPT ![s] = d]
  BY <1>1, <1>3, Zenon DEF ufs_truncate
<1>5. UNCHANGED <<next_free_lba, data, inc, incs, stray>>
  BY DEF ufs_truncate
<1>6. q.size \in Nat
  BY UfsNumbers
<1>7. /\ d.start = directory[s].start /\ d.cap = directory[s].cap
      /\ d.size <= directory[s].size
      /\ d.name = NoName \/ d.name = directory[s].name
  BY <1>1, <1>3, <1>6
<1>8. /\ directory' \in [UfsSlots -> DirEntry]
      /\ directory'[s] = d
      /\ \A t \in UfsSlots : t # s => directory'[t] = directory[t]
      /\ UfsInv'
  BY <1>4, <1>5, <1>7, EntryChanged
<1> QED
  BY <1>1, <1>3, <1>5, <1>8

(* What ufs_write_at does to the directory entry, the sectors and the bytes *)
(* when ensure_capacity leaves the file where it is.                        *)
WroteInPlace(s, offset, len, src) ==
    /\ directory'[s].start = directory[s].start
    /\ directory'[s].cap = directory[s].cap
    /\ next_free_lba' = next_free_lba
    /\ len > 0 => offset + len <= Sec(directory[s].cap)
    /\ stray'.hollow = IF len = 0 /\ directory'[s].size > Sec(directory[s].cap)
                       THEN stray.hollow \cup {inc[s]} ELSE stray.hollow
    /\ stray'.mixed = stray.mixed /\ stray'.reach = stray.reach
    /\ \A a \in DataBytes : data'[a] =
          IF a >= Sec(directory[s].start) + offset /\ a < Sec(directory[s].start) + offset + len
          THEN [of |-> inc[s], val |-> src[a - (Sec(directory[s].start) + offset)]]
          ELSE data[a]

(* The same when ensure_capacity moves the file. *)
WroteMoved(s, offset, len, src) ==
    /\ len > 0
    /\ directory'[s].start = next_free_lba
    /\ directory'[s].cap > 0 /\ directory'[s].cap >= directory[s].cap
    /\ next_free_lba' = next_free_lba + directory'[s].cap
    /\ offset + len <= Sec(directory'[s].cap)
    /\ stray'.hollow = stray.hollow
    /\ stray'.mixed = IF next_free_lba < stray.reach
                      THEN stray.mixed \cup {inc[s]} ELSE stray.mixed
    /\ stray'.reach \in Nat /\ stray'.reach >= stray.reach
    /\ \/ stray'.reach >= next_free_lba + sectors_for_bytes(directory[s].size)
       \/ next_free_lba' >= next_free_lba + sectors_for_bytes(directory[s].size)
    /\ \A a \in DataBytes : data'[a] =
          IF a >= Sec(next_free_lba) + offset /\ a < Sec(next_free_lba) + offset + len
          THEN [of |-> inc[s], val |-> src[a - (Sec(next_free_lba) + offset)]]
          ELSE IF a >= Sec(next_free_lba)
                  /\ a - Sec(next_free_lba) < Sec(sectors_for_bytes(directory[s].size))
          THEN ByteAt(data, Sec(directory[s].start) + (a - Sec(next_free_lba)))
          ELSE data[a]

(* The capacity that ensure_capacity computes holds the bytes needed. *)
LEMMA NewCapacity ==
    ASSUME NEW s \in UfsSlots, directory[s].cap \in Nat, NEW needed \in Nat
    PROVE  LET c == new_capacity_sectors(s, needed)
           IN  c \in Nat /\ c > 0 /\ c >= directory[s].cap /\ needed <= Sec(c)
<1>1. PICK k \in Nat : k = sectors_for_bytes(needed) /\ needed <= Sec(k)
  BY SectorsFor
<1>2. PICK b \in Nat \ {0} : /\ b = IF directory[s].cap = 0 THEN 1 ELSE directory[s].cap
                             /\ b >= directory[s].cap
  OBVIOUS
<1>3. PICK c : c = new_capacity_sectors(s, needed) /\ c = Doubled(b, k)
  BY <1>1, <1>2 DEF new_capacity_sectors
<1>4. c \in Nat /\ c >= k /\ c >= b
  BY <1>3, DoubledIsEnough
<1>5. Sec(k) <= Sec(c) /\ Sec(k) \in Nat /\ Sec(c) \in Nat
  BY <1>4, SecFacts
<1> QED
  BY <1>1, <1>2, <1>3, <1>4, <1>5

(* What ufs_write_at does. *)
Wrote(s, offset, len, src) ==
    /\ s \in LiveFiles
    /\ directory' \in [UfsSlots -> DirEntry]
    /\ \A t \in UfsSlots : t # s => directory'[t] = directory[t]
    /\ directory'[s].name = directory[s].name
    /\ directory'[s].owner = directory[s].owner
    /\ directory'[s].perm = directory[s].perm
    /\ directory'[s].size = (IF offset + len > directory[s].size
                             THEN offset + len ELSE directory[s].size)
    /\ next_free_lba' \in UFS_DATA_LBA..UFS_DATA_END_LBA
    /\ DOMAIN data' = DataBytes
    /\ UNCHANGED <<inc, incs>>
    /\ WroteInPlace(s, offset, len, src) \/ WroteMoved(s, offset, len, src)

(* ufs_write_at does what Wrote says. *)
LEMMA WriteEffect ==
    ASSUME UfsInv, NEW s \in UfsSlots, NEW offset \in Nat, NEW len \in Nat, NEW src,
           ufs_write_at(s, offset, len, src)
    PROVE  Wrote(s, offset, len, src)
<1> DEFINE needed == offset + len
           n == IF len > 0 THEN needed ELSE 0
           m == ufs_ensure_capacity(s, n)
           size == IF needed > directory[s].size THEN needed ELSE directory[s].size
<1>1. PICK q \in DirEntry : q = directory[s]
  BY DEF UfsInv, UfsTypes
<1>2. q.start \in Nat /\ q.cap \in Nat /\ q.size \in Nat /\ size \in Nat
  BY <1>1, UfsNumbers
<1>3. next_free_lba \in Nat /\ UFS_DATA_LBA <= next_free_lba
      /\ next_free_lba <= UFS_DATA_END_LBA
  BY UfsNumbers DEF UfsInv, UfsTypes
<1>4. /\ s \in LiveFiles
      /\ len > 0 => HasRoom(s, needed)
      /\ next_free_lba' = m.next
      /\ DOMAIN data' = DataBytes
      /\ UNCHANGED <<inc, incs>>
  BY DEF ufs_write_at, LiveFiles
<1>5. directory' = [directory EXCEPT ![s].start = m.start, ![s].cap = m.cap, ![s].size = size]
  BY Zenon DEF ufs_write_at
<1>6. \A a \in DataBytes :
         data'[a] = IF a >= Sec(m.start) + offset /\ a < Sec(m.start) + offset + len
                    THEN [of |-> inc[s], val |-> src[a - (Sec(m.start) + offset)]]
                    ELSE m.data[a]
  BY DEF ufs_write_at, Sec
<1>7. stray' = Strays(s, size, len, m)
  BY Zenon DEF ufs_write_at
<1>8. ASSUME NEW st \in 0..UFS_DATA_END_LBA, NEW cp \in 0..UFS_DATA_RESERVED_SECTORS,
             m.start = st, m.cap = cp
      PROVE  /\ directory' \in [UfsSlots -> DirEntry]
             /\ \A t \in UfsSlots : t # s => directory'[t] = directory[t]
             /\ directory'[s].name = directory[s].name
             /\ directory'[s].owner = directory[s].owner
             /\ directory'[s].perm = directory[s].perm
             /\ directory'[s].size = size
             /\ directory'[s].start = st /\ directory'[s].cap = cp
  <2>1. PICK z \in Nat : z = size
    BY <1>2
  <2>2. /\ [q EXCEPT !.start = st, !.cap = cp, !.size = z] \in DirEntry
        /\ [q EXCEPT !.start = st, !.cap = cp, !.size = z].name = q.name
        /\ [q EXCEPT !.start = st, !.cap = cp, !.size = z].owner = q.owner
        /\ [q EXCEPT !.start = st, !.cap = cp, !.size = z].perm = q.perm
        /\ [q EXCEPT !.start = st, !.cap = cp, !.size = z].start = st
        /\ [q EXCEPT !.start = st, !.cap = cp, !.size = z].cap = cp
        /\ [q EXCEPT !.start = st, !.cap = cp, !.size = z].size = z
    BY Zenon DEF DirEntry
  <2>3. PICK d \in DirEntry :
           /\ d = [q EXCEPT !.start = st, !.cap = cp, !.size = z]
           /\ d.name = q.name /\ d.owner = q.owner /\ d.perm = q.perm
           /\ d.start = st /\ d.cap = cp /\ d.size = z
    BY <2>2, Zenon
  <2>4. directory' = [directory EXCEPT ![s] = d]
    <3> HIDE DEF m, size
    <3> QED
      BY <1>1, <1>5, <1>8, <2>1, <2>3, Zenon
  <2>5. /\ directory' \in [UfsSlots -> DirEntry]
        /\ directory'[s] = d
        /\ \A t \in UfsSlots : t # s => directory'[t] = directory[t]
    BY <2>4, EntryWritten
  <2> QED
    BY <1>1, <2>1, <2>3, <2>5
<1>9. CASE ~ Grows(s, n)
  <2>1. m.start = q.start /\ m.cap = q.cap /\ m.next = next_free_lba /\ m.data = data
    BY <1>1, <1>9 DEF ufs_ensure_capacity
  <2>2. q.start \in 0..UFS_DATA_END_LBA /\ q.cap \in 0..UFS_DATA_RESERVED_SECTORS
    BY DEF DirEntry
  <2>3. len > 0 => offset + len <= Sec(q.cap)
    <3>1. ~ (n > Sec(q.cap))
      BY <1>1, <1>9, Zenon DEF Grows, Sec
    <3>2. PICK k \in Nat : k = Sec(q.cap)
      BY <1>2, SecFacts
    <3>3. ~ (n > k)
      BY <3>1, <3>2
    <3> QED
      BY <3>2, <3>3
  <2>4. /\ directory' \in [UfsSlots -> DirEntry]
        /\ \A t \in UfsSlots : t # s => directory'[t] = directory[t]
        /\ directory'[s].name = directory[s].name
        /\ directory'[s].owner = directory[s].owner
        /\ directory'[s].perm = directory[s].perm
        /\ directory'[s].size = size
        /\ directory'[s].start = q.start /\ directory'[s].cap = q.cap
    <3> HIDE DEF m, size
    <3> QED
      BY <1>8, <2>1, <2>2
  <2>5. /\ stray'.hollow = IF len = 0 /\ size > Sec(q.cap)
                           THEN stray.hollow \cup {inc[s]} ELSE stray.hollow
        /\ stray'.mixed = stray.mixed /\ stray'.reach = stray.reach
    <3> HIDE DEF m, size
    <3> QED
      BY <1>7, <2>1 DEF Strays, Sec
  <2>6. WroteInPlace(s, offset, len, src)
    <3> HIDE DEF m
    <3> QED
      BY <1>1, <1>4, <1>6, <2>1, <2>3, <2>4, <2>5 DEF WroteInPlace
  <2>7. next_free_lba' \in UFS_DATA_LBA..UFS_DATA_END_LBA
    BY <1>3, <1>4, <2>1, UfsNumbers
  <2> QED
    BY <1>4, <2>4, <2>6, <2>7 DEF Wrote
<1>10. CASE Grows(s, n)
  <2>1. len > 0 /\ n = needed
    BY <1>1, <1>2, <1>10, SecFacts DEF Grows, Sec
  <2>2. PICK c \in Nat : /\ c = new_capacity_sectors(s, n)
                         /\ c > 0 /\ c >= q.cap /\ needed <= Sec(c)
    BY <1>1, <1>2, <2>1, NewCapacity
  <2>3. m.start = next_free_lba /\ m.cap = c /\ m.next = next_free_lba + c
        /\ m.data = MovedData(s)
    BY <1>10, <2>2 DEF ufs_ensure_capacity
  <2>4. next_free_lba + c <= UFS_DATA_END_LBA
    BY <1>4, <1>10, <2>1, <2>2 DEF HasRoom
  <2>5. next_free_lba \in 0..UFS_DATA_END_LBA /\ c \in 0..UFS_DATA_RESERVED_SECTORS
    BY <1>3, <2>4, UfsNumbers
  <2>6. /\ directory' \in [UfsSlots -> DirEntry]
        /\ \A t \in UfsSlots : t # s => directory'[t] = directory[t]
        /\ directory'[s].name = directory[s].name
        /\ directory'[s].owner = directory[s].owner
        /\ directory'[s].perm = directory[s].perm
        /\ directory'[s].size = size
        /\ directory'[s].start = next_free_lba /\ directory'[s].cap = c
    <3> HIDE DEF m, size
    <3> QED
      BY <1>8, <2>3, <2>5
  <2>7. PICK k \in Nat : k = sectors_for_bytes(directory[s].size)
    BY <1>1, <1>2, SectorsFor
  <2>8. /\ stray'.hollow = stray.hollow
        /\ stray'.mixed = IF next_free_lba < stray.reach
                          THEN stray.mixed \cup {inc[s]} ELSE stray.mixed
        /\ stray'.reach = IF next_free_lba + k > next_free_lba + c
                              /\ next_free_lba + k > stray.reach
                          THEN next_free_lba + k ELSE stray.reach
    <3>1. next_free_lba + c # next_free_lba /\ len # 0
      BY <1>3, <2>1, <2>2
    <3> HIDE DEF m, size
    <3> QED
      BY <1>7, <2>3, <2>7, <3>1 DEF Strays
  <2>9. /\ stray'.reach \in Nat /\ stray'.reach >= stray.reach
        /\ stray'.reach >= next_free_lba + k \/ next_free_lba + c >= next_free_lba + k
    <3>1. stray.reach \in Nat
      BY DEF UfsInv, UfsTypes
    <3> QED
      BY <1>3, <2>8, <3>1
  <2>10. \A a \in DataBytes : MovedData(s)[a] =
            IF a >= Sec(next_free_lba) /\ a - Sec(next_free_lba) < Sec(k)
            THEN ByteAt(data, Sec(directory[s].start) + (a - Sec(next_free_lba)))
            ELSE data[a]
    <3>1. Sec(next_free_lba) \in Nat /\ \A a \in DataBytes : a \in Nat
      BY <1>3, SecFacts, UfsNumbers
    <3>2. \A a \in DataBytes : a - Sec(next_free_lba) >= 0 <=> a >= Sec(next_free_lba)
      BY <3>1
    <3> QED
      BY <2>7, <3>2, Zenon DEF MovedData, Sec
  <2>11. WroteMoved(s, offset, len, src)
    <3> HIDE DEF m
    <3> QED
      BY <1>1, <1>4, <1>6, <2>1, <2>2, <2>3, <2>6, <2>7, <2>8, <2>9, <2>10 DEF WroteMoved
  <2>12. next_free_lba' \in UFS_DATA_LBA..UFS_DATA_END_LBA
    BY <1>3, <1>4, <2>3, <2>4, UfsNumbers
  <2> QED
    BY <1>4, <2>6, <2>11, <2>12 DEF Wrote
<1> QED
  BY <1>9, <1>10

(* Extents that are apart share no byte. *)
LEMMA ApartBytes ==
    ASSUME NEW d \in DirEntry, NEW e \in DirEntry, Apart(d, e), NEW a \in Nat,
           InExtent(d, a)
    PROVE  ~ InExtent(e, a)
<1>1. PICK ds \in Nat, dc \in Nat, es \in Nat, ec \in Nat :
         ds = d.start /\ dc = d.cap /\ es = e.start /\ ec = e.cap
  BY UfsNumbers
<1>2. PICK A \in Nat, B \in Nat, C \in Nat, D \in Nat :
         A = Sec(ds) /\ B = Sec(ds + dc) /\ C = Sec(es) /\ D = Sec(es + ec)
  <2>1. ds + dc \in Nat /\ es + ec \in Nat
    OBVIOUS
  <2>2. /\ Sec(ds) \in Nat /\ Sec(ds + dc) \in Nat
        /\ Sec(es) \in Nat /\ Sec(es + ec) \in Nat
    BY <2>1, SecFacts
  <2> QED
    BY <2>2
<1>3. A <= a /\ a < B
  BY <1>1, <1>2 DEF InExtent
<1>4. dc # 0 /\ (ec = 0 => C = D)
  <2>1. ds + 0 = ds /\ es + 0 = es
    OBVIOUS
  <2> QED
    BY <1>2, <1>3, <2>1
<1>5. ec = 0 \/ ds + dc <= es \/ es + ec <= ds
  BY <1>1, <1>4 DEF Apart
<1>6. C = D \/ B <= C \/ D <= A
  <2>1. ds + dc \in Nat /\ es + ec \in Nat
    OBVIOUS
  <2> QED
    BY <1>2, <1>4, <1>5, <2>1, SecFacts
<1>7. ~ (C <= a /\ a < D)
  BY <1>3, <1>6
<1> QED
  BY <1>1, <1>2, <1>7 DEF InExtent

(* ufs_write_at changes no byte in the extent of another file. *)
LEMMA WriteSparesOthers ==
    ASSUME UfsInv, NEW s \in UfsSlots, NEW offset \in Nat, NEW len \in Nat, NEW src,
           Wrote(s, offset, len, src),
           NEW t \in LiveFiles, t # s, NEW a \in DataBytes, InExtent(directory[t], a)
    PROVE  data'[a] = data[a]
<1>1. PICK d \in DirEntry, e \in DirEntry : d = directory[s] /\ e = directory[t]
  BY DEF UfsInv, UfsTypes, LiveFiles
<1>2. a \in Nat
  BY UfsNumbers
<1>3. CASE WroteInPlace(s, offset, len, src)
  <2>1. PICK A \in Nat, K \in Nat : A = Sec(d.start) /\ K = Sec(d.cap)
    BY UfsNumbers, SecFacts
  <2>2. Sec(d.start + d.cap) = A + K
    BY <2>1, UfsNumbers, SecFacts
  <2>3. Apart(d, e)
    BY <1>1 DEF UfsInv, Extents, Wrote
  <2>4. ~ InExtent(d, a)
    BY <1>1, <1>2, <2>3, ApartBytes
  <2>5. ~ (A <= a /\ a < A + K)
    BY <2>1, <2>2, <2>4 DEF InExtent
  <2>6. len > 0 => offset + len <= K
    BY <1>1, <1>3, <2>1 DEF WroteInPlace
  <2>7. ~ (a >= A + offset /\ a < A + offset + len)
    BY <1>2, <2>5, <2>6
  <2> QED
    BY <1>1, <1>3, <2>1, <2>7 DEF WroteInPlace
<1>4. CASE WroteMoved(s, offset, len, src)
  <2>1. next_free_lba \in Nat
    BY UfsNumbers DEF UfsInv, UfsTypes
  <2>2. PICK N \in Nat : N = Sec(next_free_lba)
    BY <2>1, SecFacts
  <2>3. e.cap # 0
    BY <1>1, <1>2, NoExtent
  <2>4. PICK x \in Nat : x = e.start + e.cap /\ x <= next_free_lba
    BY <1>1, <2>3, UfsNumbers DEF UfsInv, Extents
  <2>5. PICK X \in Nat : X = Sec(x)
    BY SecFacts
  <2>6. X <= N
    BY <2>1, <2>2, <2>4, <2>5, SecFacts
  <2>7. a < X
    BY <1>1, <2>4, <2>5 DEF InExtent
  <2>8. ~ (a >= N) /\ ~ (a >= N + offset)
    BY <1>2, <2>6, <2>7
  <2> QED
    BY <1>4, <2>2, <2>8 DEF WroteMoved
<1> QED
  BY <1>3, <1>4 DEF Wrote

(* The files and their incarnations are the same after a write, and what is *)
(* not hollow or mixed afterwards was neither before.                       *)
LEMMA WriteKeepsFiles ==
    ASSUME UfsInv, NEW s \in UfsSlots, NEW offset \in Nat, NEW len \in Nat, NEW src,
           Wrote(s, offset, len, src)
    PROVE  /\ LiveFiles' = LiveFiles
           /\ UfsTypes' /\ UniqueNames'
           /\ stray.hollow \subseteq stray'.hollow
           /\ stray.mixed \subseteq stray'.mixed
<1>1. \A t \in UfsSlots : directory'[t].name = directory[t].name
  BY DEF Wrote
<1>2. LiveFiles' = LiveFiles
  BY <1>1 DEF LiveFiles, handle_valid
<1>3. UniqueNames'
  BY <1>1, <1>2 DEF UfsInv, UniqueNames, LiveFiles
<1>4. /\ stray.hollow \subseteq stray'.hollow /\ stray.mixed \subseteq stray'.mixed
      /\ stray'.hollow \subseteq stray.hollow \cup {inc[s]}
      /\ stray'.mixed \subseteq stray.mixed \cup {inc[s]}
      /\ stray'.reach \in Nat
  <2>1. stray.reach \in Nat
    BY DEF UfsInv, UfsTypes
  <2>2. CASE WroteInPlace(s, offset, len, src)
    BY <2>1, <2>2 DEF WroteInPlace
  <2>3. CASE WroteMoved(s, offset, len, src)
    BY <2>3 DEF WroteMoved
  <2> QED
    BY <2>2, <2>3 DEF Wrote
<1>5. inc[s] \in 0..incs
  BY DEF UfsInv, UfsTypes
<1>6. stray'.hollow \subseteq 0..incs /\ stray'.mixed \subseteq 0..incs
  BY <1>4, <1>5 DEF UfsInv, UfsTypes
<1>7. UfsTypes'
  BY <1>4, <1>6 DEF UfsInv, UfsTypes, Wrote
<1> QED
  BY <1>2, <1>3, <1>4, <1>7

(* A write leaves the extents apart and below the next free sector. *)
LEMMA WriteExtents ==
    ASSUME UfsInv, NEW s \in UfsSlots, NEW offset \in Nat, NEW len \in Nat, NEW src,
           Wrote(s, offset, len, src)
    PROVE  Extents'
<1>1. LiveFiles' = LiveFiles /\ s \in LiveFiles /\ LiveFiles \subseteq UfsSlots
  BY WriteKeepsFiles DEF Wrote, LiveFiles
<1>2. \A t \in LiveFiles : t # s => directory'[t] = directory[t]
  BY <1>1 DEF Wrote
<1>3. ASSUME NEW t \in LiveFiles
      PROVE  directory[t].start \in Nat /\ directory[t].cap \in Nat
  BY <1>1, UfsNumbers DEF UfsInv, UfsTypes
<1>4. next_free_lba \in Nat /\ UFS_DATA_LBA <= next_free_lba
  BY UfsNumbers DEF UfsInv, UfsTypes
<1>5. CASE WroteInPlace(s, offset, len, src)
  <2>1. \A t \in LiveFiles : /\ directory'[t].start = directory[t].start
                             /\ directory'[t].cap = directory[t].cap
    BY <1>2, <1>5 DEF WroteInPlace
  <2>2. next_free_lba' = next_free_lba
    BY <1>5 DEF WroteInPlace
  <2> QED
    BY <1>1, <2>1, <2>2 DEF UfsInv, Extents, Apart
<1>6. CASE WroteMoved(s, offset, len, src)
  <2>1. /\ directory'[s].start = next_free_lba
        /\ next_free_lba' = next_free_lba + directory'[s].cap
    BY <1>6 DEF WroteMoved
  <2>2. PICK c \in Nat : c = directory'[s].cap
    BY UfsNumbers DEF Wrote
  <2>3. ASSUME NEW t \in LiveFiles, t # s
        PROVE  \/ directory'[t].cap = 0
               \/ /\ UFS_DATA_LBA <= directory'[t].start
                  /\ directory'[t].start + directory'[t].cap <= next_free_lba
    BY <1>2, <2>3 DEF UfsInv, Extents
  <2>4. ASSUME NEW t \in LiveFiles'
        PROVE  \/ directory'[t].cap = 0
               \/ /\ UFS_DATA_LBA <= directory'[t].start
                  /\ directory'[t].start + directory'[t].cap <= next_free_lba'
    <3>1. CASE t = s
      <4>1. next_free_lba + c <= next_free_lba + c
        BY <1>4
      <4> QED
        BY <1>4, <2>1, <2>2, <3>1, <4>1
    <3>2. CASE t # s
      <4>1. PICK x \in Nat, y \in Nat : x = directory'[t].start /\ y = directory'[t].cap
        BY <1>1, <1>2, <1>3, <3>2
      <4>2. y = 0 \/ (UFS_DATA_LBA <= x /\ x + y <= next_free_lba)
        BY <1>1, <2>3, <3>2, <4>1
      <4>3. y = 0 \/ (UFS_DATA_LBA <= x /\ x + y <= next_free_lba + c)
        BY <1>4, <4>2
      <4> QED
        BY <2>1, <2>2, <4>1, <4>3
    <3> QED
      BY <3>1, <3>2
  <2>5. ASSUME NEW t \in LiveFiles', NEW u \in LiveFiles', t # u
        PROVE  Apart(directory'[t], directory'[u])
    <3>1. CASE t = s
      BY <1>1, <2>1, <2>3, <2>5, <3>1 DEF Apart
    <3>2. CASE u = s
      BY <1>1, <2>1, <2>3, <2>5, <3>2 DEF Apart
    <3>3. CASE t # s /\ u # s
      BY <1>1, <1>2, <2>5, <3>3 DEF UfsInv, Extents
    <3> QED
      BY <3>1, <3>2, <3>3
  <2> QED
    BY <2>4, <2>5 DEF Extents
<1> QED
  BY <1>5, <1>6 DEF Wrote

(* After a write every file that is not hollow fits. *)
LEMMA WriteFitting ==
    ASSUME UfsInv, NEW s \in UfsSlots, NEW offset \in Nat, NEW len \in Nat, NEW src,
           Wrote(s, offset, len, src)
    PROVE  Fitting'
<1> SUFFICES ASSUME NEW t \in LiveFiles', inc'[t] \notin stray'.hollow
             PROVE  directory'[t].size <= Sec(directory'[t].cap)
  BY DEF Fitting
<1>1. t \in LiveFiles /\ inc'[t] = inc[t] /\ inc[t] \notin stray.hollow /\ t \in UfsSlots
  BY WriteKeepsFiles DEF Wrote, LiveFiles
<1>2. directory[t].size <= Sec(directory[t].cap)
  BY <1>1 DEF UfsInv, Fitting
<1>3. CASE t # s
  BY <1>1, <1>2, <1>3 DEF Wrote
<1>4. CASE t = s
  <2>1. PICK d \in DirEntry, e \in DirEntry : d = directory[s] /\ e = directory'[s]
    BY DEF UfsInv, UfsTypes, Wrote
  <2>2. PICK z \in Nat, c \in Nat, b \in Nat : z = d.size /\ c = d.cap /\ b = e.cap
    BY UfsNumbers
  <2>3. PICK C \in Nat, B \in Nat : C = Sec(c) /\ B = Sec(b)
    BY SecFacts
  <2>4. z <= C
    BY <1>2, <1>4, <2>1, <2>2, <2>3
  <2>5. PICK w \in Nat : w = e.size /\ w = IF offset + len > z THEN offset + len ELSE z
    BY <2>1, <2>2 DEF Wrote
  <2>6. w <= B
    <3>1. CASE WroteInPlace(s, offset, len, src)
      <4>1. B = C
        BY <2>1, <2>2, <2>3, <3>1 DEF WroteInPlace
      <4>2. len > 0 => offset + len <= C
        BY <2>1, <2>2, <2>3, <3>1 DEF WroteInPlace
      <4>3. len = 0 => ~ (w > C)
        <5>1. len = 0 => inc[s] \notin stray'.hollow
          BY <1>1, <1>4
        <5>2. (len = 0 /\ w > C) => stray'.hollow = stray.hollow \cup {inc[s]}
          BY <2>1, <2>2, <2>3, <2>5, <3>1 DEF WroteInPlace
        <5> QED
          BY <5>1, <5>2
      <4> QED
        BY <2>4, <2>5, <4>1, <4>2, <4>3
    <3>2. CASE WroteMoved(s, offset, len, src)
      <4>1. offset + len <= B /\ c <= b
        BY <2>1, <2>2, <2>3, <3>2 DEF WroteMoved
      <4>2. C <= B
        BY <2>3, <4>1, SecFacts
      <4> QED
        BY <2>4, <2>5, <4>1, <4>2
    <3> QED
      BY <3>1, <3>2 DEF Wrote
  <2> QED
    BY <1>4, <2>1, <2>2, <2>3, <2>5, <2>6
<1> QED
  BY <1>3, <1>4

(* The bytes that ensure_capacity copies for a file that fits are bytes of  *)
(* the file's old extent.                                                   *)
LEMMA CopiedBytes ==
    ASSUME UfsInv, NEW s \in LiveFiles, inc[s] \notin stray.hollow \cup stray.mixed,
           NEW i \in Nat, i < Sec(sectors_for_bytes(directory[s].size))
    PROVE  ByteAt(data, Sec(directory[s].start) + i).of \in {0, inc[s]}
<1>1. PICK d \in DirEntry : d = directory[s]
  BY DEF UfsInv, UfsTypes, LiveFiles
<1>2. PICK z \in Nat, c \in Nat, b \in Nat : z = d.size /\ c = d.cap /\ b = d.start
  BY UfsNumbers
<1>3. PICK k \in Nat : k = sectors_for_bytes(z) /\ (z <= Sec(c) => k <= c)
  BY SectorsFor
<1>4. z <= Sec(c)
  BY <1>1, <1>2 DEF UfsInv, Fitting
<1>5. PICK K \in Nat, C \in Nat, B \in Nat : /\ K = Sec(k) /\ C = Sec(c) /\ B = Sec(b)
                                             /\ Sec(b + c) = B + C
  <2>1. Sec(k) \in Nat /\ Sec(c) \in Nat /\ Sec(b) \in Nat /\ Sec(b + c) = Sec(b) + Sec(c)
    BY SecFacts
  <2> QED
    BY <2>1
<1>6. K <= C
  BY <1>3, <1>4, <1>5, SecFacts
<1>7. i < K
  BY <1>1, <1>2, <1>3, <1>5
<1>8. B <= B + i /\ B + i < B + C
  BY <1>6, <1>7
<1>9. InExtent(d, B + i)
  BY <1>2, <1>5, <1>8 DEF InExtent
<1>10. CASE B + i \in DataBytes
  <2>1. data[B + i].of \in {0, inc[s]}
    BY <1>1, <1>9, <1>10 DEF UfsInv, OwnBytes
  <2> QED
    BY <1>1, <1>2, <1>5, <1>10, <2>1 DEF ByteAt
<1>11. CASE B + i \notin DataBytes
  BY <1>1, <1>2, <1>5, <1>11 DEF ByteAt, Nobody
<1> QED
  BY <1>10, <1>11

(* After a write an extent still holds bytes of its own file only. *)
LEMMA WriteOwnBytes ==
    ASSUME UfsInv, NEW s \in UfsSlots, NEW offset \in Nat, NEW len \in Nat, NEW src,
           Wrote(s, offset, len, src),
           NEW t \in LiveFiles', inc'[t] \notin stray'.hollow \cup stray'.mixed,
           NEW a \in DataBytes, InExtent(directory'[t], a)
    PROVE  data'[a].of \in {0, inc'[t]}
<1>1. /\ t \in LiveFiles /\ t \in UfsSlots /\ inc'[t] = inc[t]
      /\ inc[t] \notin stray.hollow \cup stray.mixed
  BY WriteKeepsFiles DEF Wrote, LiveFiles
<1>2. a \in Nat
  BY UfsNumbers
<1>3. CASE t # s
  <2>1. InExtent(directory[t], a)
    BY <1>1, <1>3 DEF Wrote
  <2>2. data'[a] = data[a]
    BY <1>1, <1>3, <2>1, WriteSparesOthers
  <2> QED
    BY <1>1, <2>1, <2>2 DEF UfsInv, OwnBytes
<1>4. CASE t = s /\ WroteInPlace(s, offset, len, src)
  <2>1. InExtent(directory[s], a)
    BY <1>4 DEF WroteInPlace, InExtent
  <2>2. data[a].of \in {0, inc[s]}
    BY <1>1, <1>4, <2>1 DEF UfsInv, OwnBytes
  <2>3. data'[a] = data[a] \/ data'[a].of = inc[s]
    <3>1. PICK B : B = Sec(directory[s].start) + offset
      OBVIOUS
    <3>2. data'[a] = IF a >= B /\ a < B + len
                     THEN [of |-> inc[s], val |-> src[a - B]] ELSE data[a]
      BY <1>4, <3>1 DEF WroteInPlace
    <3> QED
      BY <3>2
  <2> QED
    BY <1>1, <1>4, <2>2, <2>3
<1>5. CASE t = s /\ WroteMoved(s, offset, len, src)
  <2>1. PICK n \in Nat, r \in Nat : n = next_free_lba /\ r = stray.reach
    <3>1. next_free_lba \in Nat /\ stray.reach \in Nat
      BY UfsNumbers DEF UfsInv, UfsTypes
    <3> QED
      BY <3>1
  <2>2. PICK N \in Nat, R \in Nat : N = Sec(n) /\ R = Sec(r)
    BY SecFacts
  <2>3. N <= a
    BY <1>5, <2>1, <2>2 DEF WroteMoved, InExtent
  <2>4. ~ (n < r)
    <3>1. n < r => stray'.mixed = stray.mixed \cup {inc[s]}
      BY <1>5, <2>1 DEF WroteMoved
    <3> QED
      BY <1>1, <1>5, <3>1
  <2>5. R <= N
    BY <2>2, <2>4, SecFacts
  <2>6. data[a].of = 0
    <3>1. Sec(next_free_lba) <= a /\ Sec(stray.reach) <= a
      BY <1>2, <2>1, <2>2, <2>3, <2>5
    <3> QED
      BY <3>1 DEF UfsInv, OwnBytes
  <2>7. PICK i \in Nat : i = a - N
    BY <1>2, <2>3
  <2>8. \/ data'[a].of = inc[s] \/ data'[a] = data[a]
        \/ /\ i < Sec(sectors_for_bytes(directory[s].size))
           /\ data'[a] = ByteAt(data, Sec(directory[s].start) + i)
    <3>1. data'[a] =
            IF a >= N + offset /\ a < N + offset + len
            THEN [of |-> inc[s], val |-> src[a - (N + offset)]]
            ELSE IF a >= N /\ i < Sec(sectors_for_bytes(directory[s].size))
            THEN ByteAt(data, Sec(directory[s].start) + i)
            ELSE data[a]
      BY <1>5, <2>1, <2>2, <2>7 DEF WroteMoved
    <3> QED
      BY <3>1
  <2>9. i < Sec(sectors_for_bytes(directory[s].size)) =>
           ByteAt(data, Sec(directory[s].start) + i).of \in {0, inc[s]}
    BY <1>1, <1>5, CopiedBytes
  <2> QED
    BY <1>1, <1>5, <2>6, <2>8, <2>9
<1> QED
  BY <1>3, <1>4, <1>5 DEF Wrote

(* After a write the sectors that nothing has reached hold no file's bytes. *)
LEMMA WriteFree ==
    ASSUME UfsInv, NEW s \in UfsSlots, NEW offset \in Nat, NEW len \in Nat, NEW src,
           Wrote(s, offset, len, src),
           NEW a \in DataBytes, Sec(next_free_lba') <= a, Sec(stray'.reach) <= a
    PROVE  data'[a].of = 0
<1>1. a \in Nat
  BY UfsNumbers
<1>2. PICK n \in Nat, r \in Nat : n = next_free_lba /\ r = stray.reach
  BY UfsNumbers DEF UfsInv, UfsTypes
<1>3. PICK N \in Nat, R \in Nat : N = Sec(n) /\ R = Sec(r)
  BY SecFacts
<1>4. (N <= a /\ R <= a) => data[a].of = 0
  BY <1>2, <1>3 DEF UfsInv, OwnBytes
<1>5. CASE WroteInPlace(s, offset, len, src)
  <2>1. N <= a /\ R <= a
    BY <1>2, <1>3, <1>5 DEF WroteInPlace
  <2>2. PICK d \in DirEntry : d = directory[s]
    BY DEF UfsInv, UfsTypes
  <2>3. PICK b \in Nat, c \in Nat : b = d.start /\ c = d.cap
    BY UfsNumbers
  <2>4. PICK B \in Nat, C \in Nat : B = Sec(b) /\ C = Sec(c) /\ Sec(b + c) = B + C
    <3>1. Sec(c) \in Nat /\ Sec(b) \in Nat /\ Sec(b + c) = Sec(b) + Sec(c)
      BY SecFacts
    <3> QED
      BY <3>1
  <2>5. c = 0 => C = 0
    BY <2>4, SecFacts
  <2>6. c = 0 \/ b + c <= n
    BY <1>2, <2>2, <2>3 DEF UfsInv, Extents, Wrote
  <2>7. c = 0 \/ B + C <= N
    BY <1>3, <2>4, <2>6, SecFacts
  <2>8. len > 0 => offset + len <= C
    BY <1>5, <2>2, <2>3, <2>4 DEF WroteInPlace
  <2>9. ~ (a >= B + offset /\ a < B + offset + len)
    BY <1>1, <2>1, <2>5, <2>7, <2>8
  <2>10. data'[a] = data[a]
    BY <1>5, <2>2, <2>3, <2>4, <2>9 DEF WroteInPlace
  <2> QED
    BY <1>4, <2>1, <2>10
<1>6. CASE WroteMoved(s, offset, len, src)
  <2>1. PICK c \in Nat, p \in Nat : c = directory'[s].cap /\ p = stray'.reach /\ p >= r
    BY <1>2, <1>6, UfsNumbers DEF WroteMoved, Wrote
  <2>2. PICK C \in Nat, P \in Nat : C = Sec(c) /\ P = Sec(p) /\ Sec(n + c) = N + C
    BY <1>3, SecFacts
  <2>3. N + C <= a /\ P <= a /\ R <= P
    <3>1. N + C <= a
      BY <1>2, <1>6, <2>1, <2>2 DEF WroteMoved
    <3>2. R <= P
      BY <1>3, <2>1, <2>2, SecFacts
    <3> QED
      BY <2>1, <2>2, <3>1, <3>2
  <2>4. PICK k \in Nat : k = sectors_for_bytes(directory[s].size)
    <3>1. directory[s].size \in Nat
      BY UfsNumbers DEF UfsInv, UfsTypes
    <3> QED
      BY <3>1, SectorsFor
  <2>5. PICK K \in Nat : K = Sec(k) /\ Sec(n + k) = N + K
    BY <1>3, SecFacts
  <2>6. p >= n + k \/ n + c >= n + k
    BY <1>2, <1>6, <2>1, <2>4 DEF WroteMoved
  <2>7. P >= N + K \/ N + C >= N + K
    <3>1. n + k \in Nat /\ n + c \in Nat
      OBVIOUS
    <3> QED
      BY <2>2, <2>5, <2>6, <3>1, SecFacts
  <2>8. offset + len <= C
    BY <1>6, <2>1, <2>2 DEF WroteMoved
  <2>9. ~ (a >= N + offset /\ a < N + offset + len) /\ ~ (a - N < K)
    BY <1>1, <2>3, <2>7, <2>8
  <2>10. data'[a] = data[a]
    BY <1>2, <1>3, <1>6, <2>4, <2>5, <2>9 DEF WroteMoved
  <2>11. N <= a /\ R <= a
    BY <1>1, <2>3
  <2> QED
    BY <1>4, <2>10, <2>11
<1> QED
  BY <1>5, <1>6 DEF Wrote

(* ufs_write_at keeps the invariant of UFS. *)
LEMMA WriteInv ==
    ASSUME UfsInv, NEW s \in UfsSlots, NEW offset \in Nat, NEW len \in Nat, NEW src,
           Wrote(s, offset, len, src)
    PROVE  UfsInv'
<1>1. OwnBytes'
  BY WriteOwnBytes, WriteFree DEF OwnBytes
<1> QED
  BY <1>1, WriteKeepsFiles, WriteExtents, WriteFitting DEF UfsInv

(***************************************************************************)
(* Part 6.  What a system call does to the files of UFS                    *)
(***************************************************************************)

UfsStays == UNCHANGED <<directory, next_free_lba, data, inc, incs, stray>>

(* A step leaves the file in slot t alone: its entry, its incarnation and   *)
(* the bytes of its extent.                                                 *)
Spared(t) ==
    /\ directory'[t] = directory[t] /\ inc'[t] = inc[t]
    /\ \A a \in DataBytes : InExtent(directory[t], a) => data'[a] = data[a]

(* A step changes the file in slot t, and program p has the right to.       *)
Touched(p, t) ==
    /\ Leaves(p, t)
    /\ \/ IsOwner(p, t)
       \/ /\ "OTHER_WRITE" \in ufs_perm(t)
          /\ inc'[t] = inc[t] /\ directory'[t].name = directory[t].name

(* What the calls of a program do to UFS *)
ByRight(p) == UfsInv' /\ \A t \in LiveFiles : Spared(t) \/ Touched(p, t)

(* A call that leaves UFS alone *)
LEMMA UfsUntouched ==
    ASSUME UfsInv, UfsStays, NEW p
    PROVE  ByRight(p)
<1>1. /\ directory' = directory /\ next_free_lba' = next_free_lba /\ data' = data
      /\ inc' = inc /\ incs' = incs /\ stray' = stray
  BY DEF UfsStays
<1>2. LiveFiles' = LiveFiles
  BY <1>1 DEF LiveFiles, handle_valid
<1>3. UfsInv'
  BY <1>1, <1>2 DEF UfsInv, UfsTypes, UniqueNames, Extents, Fitting, OwnBytes
<1> QED
  BY <1>1, <1>3 DEF ByRight, Spared

(* A file found by its name is a live file. *)
LEMMA FoundIsLive ==
    ASSUME NEW name \in Names, NEW s \in ufs_find(name)
    PROVE  s \in LiveFiles /\ s \in UfsSlots /\ directory[s].name = name
  BY FilesAssumption DEF ufs_find, LiveFiles, handle_valid

(* SYS_OPEN of a new file *)
LEMMA CreateByRight ==
    ASSUME UfsInv, NEW p, NEW name \in Names, NEW me \in Nat, ufs_create(name, me)
    PROVE  ByRight(p)
<1>1. /\ UfsInv' /\ data' = data
      /\ \A t \in UfsSlots : t # Lowest(FreeEntries) =>
            directory'[t] = directory[t] /\ inc'[t] = inc[t]
      /\ Lowest(FreeEntries) \notin LiveFiles
  BY CreateEffect
<1> QED
  BY <1>1 DEF ByRight, Spared, LiveFiles

(* SYS_OPEN that truncates *)
LEMMA TruncateByRight ==
    ASSUME UfsInv, NEW p, NEW s \in LiveFiles, ufs_truncate(s),
           MayWrite(p, s), Leaves(p, s)
    PROVE  ByRight(p)
<1>1. /\ UfsInv' /\ UNCHANGED <<next_free_lba, data, inc, incs, stray>>
      /\ directory'[s].name = directory[s].name
      /\ \A t \in UfsSlots : t # s => directory'[t] = directory[t]
  BY TruncateEffect
<1> QED
  BY <1>1 DEF ByRight, Spared, Touched, MayWrite, LiveFiles

(* SYS_REMOVE *)
LEMMA DeleteByRight ==
    ASSUME UfsInv, NEW p, NEW s \in LiveFiles, ufs_delete(s), IsOwner(p, s), Leaves(p, s)
    PROVE  ByRight(p)
<1>1. /\ UfsInv' /\ UNCHANGED <<next_free_lba, data, inc, incs, stray>>
      /\ \A t \in UfsSlots : t # s => directory'[t] = directory[t]
  BY DeleteEffect
<1> QED
  BY <1>1 DEF ByRight, Spared, Touched, LiveFiles

(* SYS_CHMOD *)
LEMMA ChmodByRight ==
    ASSUME UfsInv, NEW p, NEW s \in LiveFiles, NEW perm \in Perms, ufs_chmod(s, perm),
           IsOwner(p, s), Leaves(p, s)
    PROVE  ByRight(p)
<1>1. /\ UfsInv' /\ UNCHANGED <<next_free_lba, data, inc, incs, stray>>
      /\ \A t \in UfsSlots : t # s => directory'[t] = directory[t]
  BY ChmodEffect
<1> QED
  BY <1>1 DEF ByRight, Spared, Touched, LiveFiles

(* SYS_WRITE *)
LEMMA WriteByRight ==
    ASSUME UfsInv, NEW p, NEW s \in UfsSlots, NEW offset \in Nat, NEW len \in Nat, NEW src,
           ufs_write_at(s, offset, len, src), MayWrite(p, s), Leaves(p, s)
    PROVE  ByRight(p)
<1>1. Wrote(s, offset, len, src)
  BY WriteEffect
<1>2. UfsInv'
  BY <1>1, WriteInv
<1>3. ASSUME NEW t \in LiveFiles, t # s
      PROVE  Spared(t)
  <2>1. directory'[t] = directory[t] /\ inc'[t] = inc[t]
    BY <1>1, <1>3 DEF Wrote, LiveFiles
  <2>2. \A a \in DataBytes : InExtent(directory[t], a) => data'[a] = data[a]
    BY <1>1, <1>3, WriteSparesOthers
  <2> QED
    BY <2>1, <2>2 DEF Spared
<1>4. Touched(p, s)
  BY <1>1 DEF Touched, MayWrite, Wrote
<1> QED
  BY <1>2, <1>3, <1>4 DEF ByRight

(* No system call of a program changes a file without the right to. *)
LEMMA CallsByRight ==
    ASSUME Inv, NEW p \in Procs, syscall_handler(p)
    PROVE  ByRight(p)
<1>1. UfsInv /\ uid[p] \in Nat
  BY DEF Inv, Rest
<1>2. /\ \A name \in mix.names : name \in Names
      /\ \A len \in mix.lens : len \in Nat
  BY UsersAssumption DEF Inv, Rest
<1>3. PICK kind \in mix.kinds : Call(p, kind)
  BY DEF syscall_handler
<1>4. CASE UfsOpen(p)
  <2>1. PICK name \in mix.names :
           OpenCreates(p, name) \/ OpenFinds(p, name) \/ OpenTruncates(p, name)
    BY <1>4 DEF UfsOpen
  <2>2. CASE OpenCreates(p, name)
    BY <1>1, <1>2, <2>2, CreateByRight DEF OpenCreates
  <2>3. CASE OpenFinds(p, name)
    <3>1. UfsStays
      BY <2>3 DEF OpenFinds, UfsStays, ufsVars
    <3> QED
      BY <1>1, <3>1, UfsUntouched
  <2>4. CASE OpenTruncates(p, name)
    <3>1. PICK s \in ufs_find(name) : ufs_truncate(s) /\ MayWrite(p, s) /\ Leaves(p, s)
      BY <2>4 DEF OpenTruncates
    <3> QED
      BY <1>1, <1>2, <3>1, FoundIsLive, TruncateByRight
  <2> QED
    BY <2>1, <2>2, <2>3, <2>4
<1>5. CASE \E f \in Fds, len \in mix.lens : UfsRead(p, f, len)
  <2>1. UfsStays
    BY <1>5 DEF UfsRead, UfsStays, ufsVars
  <2> QED
    BY <1>1, <2>1, UfsUntouched
<1>6. CASE \E f \in Fds, len \in mix.lens : UfsWrite(p, f, len)
  <2>1. PICK f \in Fds, len \in mix.lens : UfsWrite(p, f, len)
    BY <1>6
  <2>2. PICK d \in Descriptor : d = fds[p][f]
    BY DEF Inv, FdsInv
  <2>3. /\ d.kind = "UFS" /\ MayWrite(p, d.handle) /\ Leaves(p, d.handle)
        /\ ufs_write_at(d.handle, d.cursor, len, [i \in 0..(len - 1) |-> Plain])
    BY <2>1, <2>2, Zenon DEF UfsWrite
  <2>4. d.handle \in UfsSlots /\ d.cursor \in Nat
    BY <2>2, <2>3 DEF Inv, FdsInv, Descriptor
  <2> QED
    BY <1>1, <1>2, <2>3, <2>4, WriteByRight
<1>7. CASE \/ MemOpen(p)
           \/ \E f \in Fds, len \in mix.lens : MemRead(p, f, len)
           \/ \E f \in Fds, len \in mix.lens : MemWrite(p, f, len)
           \/ \E f \in Fds : fd_close(p, f)
           \/ SYS_LOGIN(p)
           \/ SYS_ADDUSER(p)
  <2>1. UfsStays
    BY <1>7 DEF MemOpen, MemOpenFinds, MemOpenCreates, MemOpenFails, MemRead, MemWrite,
                fd_close, SYS_LOGIN, SYS_ADDUSER, UfsStays, ufsVars
  <2> QED
    BY <1>1, <2>1, UfsUntouched
<1>8. CASE \E name \in mix.names : SYS_REMOVE(p, name)
  <2>1. PICK name \in mix.names : SYS_REMOVE(p, name)
    BY <1>8
  <2>2. PICK s \in ufs_find(name) : ufs_delete(s) /\ IsOwner(p, s) /\ Leaves(p, s)
    BY <2>1 DEF SYS_REMOVE
  <2> QED
    BY <1>1, <1>2, <2>2, FoundIsLive, DeleteByRight
<1>9. CASE \E name \in mix.names, perm \in Perms : SYS_CHMOD(p, name, perm)
  <2>1. PICK name \in mix.names, perm \in Perms : SYS_CHMOD(p, name, perm)
    BY <1>9
  <2>2. PICK s \in ufs_find(name) : ufs_chmod(s, perm) /\ IsOwner(p, s) /\ Leaves(p, s)
    BY <2>1 DEF SYS_CHMOD
  <2> QED
    BY <1>1, <1>2, <2>2, FoundIsLive, ChmodByRight
<1> QED
  BY <1>3, <1>4, <1>5, <1>6, <1>7, <1>8, <1>9, Zenon DEF Call

(* A file that is spared and fits reads the same. *)
LEMMA SparedReads ==
    ASSUME UfsInv, NEW t \in LiveFiles, Spared(t),
           directory[t].size <= Sec(directory[t].cap),
           NEW offset \in Nat, NEW len \in Nat
    PROVE  ufs_read_at(t, offset, len)' = ufs_read_at(t, offset, len)
<1>1. PICK d \in DirEntry : d = directory[t] /\ d = directory'[t]
  BY DEF UfsInv, UfsTypes, LiveFiles, Spared
<1>2. PICK z \in Nat, c \in Nat, b \in Nat : z = d.size /\ c = d.cap /\ b = d.start
  BY UfsNumbers
<1>3. PICK n \in Nat : n = Available(z, offset, len) /\ (n > 0 => offset + n <= z)
  BY DEF Available
<1>4. PICK B \in Nat, C \in Nat : B = Sec(b) /\ C = Sec(c) /\ Sec(b + c) = B + C
  <2>1. Sec(c) \in Nat /\ Sec(b) \in Nat /\ Sec(b + c) = Sec(b) + Sec(c)
    BY SecFacts
  <2> QED
    BY <2>1
<1>5. z <= C
  BY <1>1, <1>2, <1>4
<1>6. ASSUME NEW i \in 0..(n - 1)
      PROVE  ByteAt(data', B + offset + i) = ByteAt(data, B + offset + i)
  <2>1. PICK a \in Nat : a = B + offset + i
    OBVIOUS
  <2>2. B <= a /\ a < B + C
    BY <1>3, <1>5, <2>1
  <2>3. InExtent(d, a)
    BY <1>2, <1>4, <2>2 DEF InExtent
  <2>4. a \in DataBytes => data'[a] = data[a]
    BY <1>1, <2>3 DEF Spared
  <2> QED
    BY <2>1, <2>4 DEF ByteAt
<1>7. ufs_read_at(t, offset, len) = [i \in 0..(n - 1) |-> ByteAt(data, B + offset + i)]
  BY <1>1, <1>2, <1>3, <1>4 DEF ufs_read_at, Sec
<1>8. ufs_read_at(t, offset, len)' = [i \in 0..(n - 1) |-> ByteAt(data', B + offset + i)]
  BY <1>1, <1>2, <1>3, <1>4 DEF ufs_read_at, Sec
<1> QED
  BY <1>6, <1>7, <1>8

(***************************************************************************)
(* Part 7.  The accounts                                                   *)
(***************************************************************************)

(* There is one account file at most. *)
LEMMA OnePasswdFile ==
    ASSUME UfsInv
    PROVE  /\ ufs_find(PASSWD_FILE) \subseteq LiveFiles
           /\ LiveFiles \subseteq UfsSlots
           /\ \A s, t \in ufs_find(PASSWD_FILE) : s = t
           /\ \A s \in ufs_find(PASSWD_FILE) :
                 s \in PasswdFound <=> directory[s].size = USER_MAX_ACCOUNTS
           /\ PasswdFound \subseteq ufs_find(PASSWD_FILE)
<1>1. PASSWD_FILE \in Names
  BY FilesAssumption
<1>2. ufs_find(PASSWD_FILE) \subseteq LiveFiles /\ LiveFiles \subseteq UfsSlots
  BY <1>1, FoundIsLive DEF LiveFiles
<1>3. \A s, t \in ufs_find(PASSWD_FILE) : s = t
  BY <1>2 DEF UfsInv, UniqueNames, ufs_find
<1> QED
  BY <1>2, <1>3 DEF PasswdFound

(* The tables that the kernel starts with. *)
LEMMA FirstAccounts == Blank \in AccountTable /\ seed_defaults \in AccountTable
<1>1. 0 \in Slots /\ 1 \in Slots
  BY UsersAssumption DEF Slots
<1>2. NoAccount \in [user : Logins \cup {NoName}, uid : Nat, hash : Nat]
  BY DEF NoAccount
<1>3. /\ Account(Root, 0, Root) \in [user : Logins \cup {NoName}, uid : Nat, hash : Nat]
      /\ Account(User, UserUid, User) \in [user : Logins \cup {NoName}, uid : Nat, hash : Nat]
  BY UsersAssumption DEF Account
<1>4. Blank \in AccountTable
  BY <1>2 DEF Blank, AccountTable
<1> QED
  BY <1>1, <1>3, <1>4 DEF seed_defaults, AccountTable

(* A step between system calls that spares the account file. *)
LEMMA AccKept ==
    ASSUME UfsInv, AccInv, pc = "run", UfsInv',
           \A t \in ufs_find(PASSWD_FILE) : Spared(t),
           accounts' \in AccountTable, acked' = acked,
           (pc' = "run" /\ accounts' = accounts) \/ pc' = "open"
    PROVE  AccInv'
<1>1. PICK s : s \in PasswdFound /\ s \in ufs_find(PASSWD_FILE) /\ s \in LiveFiles
  BY OnePasswdFile DEF AccInv
<1>2. directory'[s] = directory[s] /\ directory[s].name = PASSWD_FILE /\ s \in UfsSlots
  BY <1>1 DEF Spared, ufs_find
<1>3. s \in ufs_find(PASSWD_FILE)'
  BY <1>2 DEF ufs_find
<1>4. \A x \in UfsSlots : directory'[x].name = PASSWD_FILE => x \in LiveFiles'
  BY FilesAssumption DEF LiveFiles, handle_valid
<1>5. \A t \in ufs_find(PASSWD_FILE)' : t = s
  BY <1>3, <1>4 DEF UfsInv, UniqueNames, ufs_find
<1>6. PasswdEntry(directory[s])
  BY <1>1 DEF AccInv
<1>7. \A t \in ufs_find(PASSWD_FILE)' : PasswdEntry(directory'[t])
  BY <1>2, <1>5, <1>6
<1>8. s \in PasswdFound' /\ \A t \in PasswdFound' : t = s
  BY <1>1, <1>2, <1>3, <1>5 DEF PasswdFound
<1>9. ufs_read_at(s, 0, USER_MAX_ACCOUNTS)' = ufs_read_at(s, 0, USER_MAX_ACCOUNTS)
  <2>1. USER_MAX_ACCOUNTS \in Nat /\ 0 \in Nat
    BY UsersAssumption
  <2>2. Spared(s) /\ directory[s].size <= Sec(directory[s].cap)
    BY <1>1, <1>6 DEF PasswdEntry
  <2> QED
    BY <1>1, <2>1, <2>2, SparedReads
<1>10. Loaded(s)' = Loaded(s)
  BY <1>9 DEF Loaded
<1>11. Loaded(s)' = acked
  BY <1>1, <1>10 DEF AccInv
<1>12. acked \in AccountTable /\ accounts = acked
  BY DEF AccInv
<1> QED
  BY <1>7, <1>8, <1>11, <1>12 DEF AccInv, PasswdEntry

(* The system calls of a program leave the accounts as they should be. *)
LEMMA CallsKeepAccounts ==
    ASSUME Inv, NEW p \in Procs, syscall_handler(p)
    PROVE  AccInv'
<1>1. UfsInv /\ AccInv /\ pc = "run"
  BY DEF Inv, syscall_handler
<1>2. ByRight(p)
  BY CallsByRight
<1>3. ASSUME NEW t \in ufs_find(PASSWD_FILE)
      PROVE  Spared(t)
  <2>1. t \in LiveFiles /\ directory[t].owner = 0 /\ directory[t].perm = {}
        /\ directory[t].name = PASSWD_FILE
    BY <1>1, OnePasswdFile DEF AccInv, PasswdEntry, ufs_find
  <2>2. ~ Touched(p, t)
    BY <2>1 DEF Touched, Leaves, IsOwner, ufs_owner, ufs_perm, LiveFiles
  <2> QED
    BY <1>2, <2>1, <2>2 DEF ByRight
<1>4. acked' = acked /\ ((pc' = "run" /\ accounts' = accounts) \/ pc' = "open")
      /\ accounts' \in AccountTable
  <2>1. accounts \in AccountTable
    BY <1>1 DEF AccInv
  <2>2. CASE Stays
    BY <1>1, <2>1, <2>2 DEF Stays, userVars
  <2>3. CASE SYS_LOGIN(p)
    BY <1>1, <2>1, <2>3 DEF SYS_LOGIN, userVars
  <2>4. CASE SYS_ADDUSER(p)
    <3>1. PICK name \in Logins, password \in Passwords, u \in NewUids :
             users_add(name, password, u)
      BY <2>4 DEF SYS_ADDUSER
    <3> DEFINE free == {i \in Slots : accounts[i].user = NoName}
    <3>2. free \in SUBSET Nat /\ free # {} /\ free \subseteq Slots
      BY <3>1 DEF users_add, Slots
    <3>3. PICK i \in Slots : i = Lowest(free)
      <4> HIDE DEF free
      <4> QED
        BY <3>2, LowestIs
    <3>4. accounts' = [accounts EXCEPT ![i] = Account(name, u, password)] /\ pc' = "open"
      BY <3>1, <3>3 DEF users_add
    <3>5. Account(name, u, password) \in [user : Logins \cup {NoName}, uid : Nat, hash : Nat]
      BY UsersAssumption DEF Account
    <3>6. accounts' \in AccountTable
      BY <2>1, <3>4, <3>5 DEF AccountTable
    <3>7. acked' = acked
      BY <2>4 DEF SYS_ADDUSER
    <3> QED
      BY <3>4, <3>6, <3>7
  <2>5. Stays \/ SYS_LOGIN(p) \/ SYS_ADDUSER(p)
    BY Zenon DEF syscall_handler, Call, UfsOpen, MemOpen
  <2> QED
    BY <2>2, <2>3, <2>4, <2>5
<1> QED
  BY <1>1, <1>2, <1>3, <1>4, AccKept DEF ByRight

(* A step of persist that leaves the one account file empty. *)
LEMMA AccEmptied ==
    ASSUME UfsInv', accounts' = accounts, acked' = acked, AccInv,
           NEW s \in UfsSlots, directory'[s].name = PASSWD_FILE,
           directory'[s].owner = 0, directory'[s].perm = {}, directory'[s].size = 0,
           pc' \in {"chmod", "write"}
    PROVE  AccInv'
<1>1. s \in ufs_find(PASSWD_FILE)'
  BY DEF ufs_find
<1>2. \A x \in UfsSlots : directory'[x].name = PASSWD_FILE => x \in LiveFiles'
  BY FilesAssumption DEF LiveFiles, handle_valid
<1>3. \A t \in ufs_find(PASSWD_FILE)' : t = s
  BY <1>1, <1>2 DEF UfsInv, UniqueNames, ufs_find
<1>4. PICK k \in Nat : k = Sec(directory'[s].cap)
  <2>1. directory'[s].cap \in Nat
    BY UfsNumbers DEF UfsInv, UfsTypes
  <2> QED
    BY <2>1, SecFacts
<1>5. PasswdEntry(directory'[s])
  BY <1>4 DEF PasswdEntry
<1>6. PasswdFound' = {}
  BY <1>3, UsersAssumption DEF PasswdFound
<1> QED
  BY <1>3, <1>5, <1>6 DEF AccInv

(* persist up to its write leaves an empty account file. *)
LEMMA PersistEmpties ==
    ASSUME Inv, PersistCreates \/ PersistTruncates \/ PersistChmods
    PROVE  UfsInv' /\ AccInv'
<1>1. UfsInv /\ AccInv /\ PASSWD_FILE \in Names /\ 0 \in Nat
  BY FilesAssumption DEF Inv
<1>2. CASE PersistCreates
  <2>1. ufs_create(PASSWD_FILE, 0) /\ pc' = "chmod" /\ UNCHANGED <<accounts, acked>>
    BY <1>2 DEF PersistCreates, userVars
  <2>2. PICK n \in UfsSlots : n = Lowest(FreeEntries)
    BY <1>1, <2>1, CreateEffect
  <2>3. /\ UfsInv' /\ directory'[n].name = PASSWD_FILE /\ directory'[n].owner = 0
        /\ directory'[n].perm = {} /\ directory'[n].size = 0
    BY <1>1, <2>1, <2>2, CreateEffect
  <2> QED
    BY <1>1, <2>1, <2>3, AccEmptied
<1>3. CASE PersistTruncates
  <2>1. PICK s \in ufs_find(PASSWD_FILE) : ufs_truncate(s)
    BY <1>3 DEF PersistTruncates
  <2>2. pc' = "write" /\ UNCHANGED <<accounts, acked>>
    BY <1>3 DEF PersistTruncates, userVars
  <2>3. /\ s \in LiveFiles /\ s \in UfsSlots /\ directory[s].name = PASSWD_FILE
        /\ PasswdEntry(directory[s])
    BY <1>1, FoundIsLive DEF AccInv
  <2>4. /\ UfsInv' /\ directory'[s].name = PASSWD_FILE /\ directory'[s].owner = 0
        /\ directory'[s].perm = {} /\ directory'[s].size = 0
    BY <1>1, <2>1, <2>3, TruncateEffect DEF PasswdEntry
  <2> QED
    BY <1>1, <2>2, <2>3, <2>4, AccEmptied
<1>4. CASE PersistChmods
  <2>1. PICK s \in ufs_find(PASSWD_FILE) : ufs_chmod(s, {})
    BY <1>4 DEF PersistChmods
  <2>2. pc = "chmod" /\ pc' = "write" /\ UNCHANGED <<accounts, acked>>
    BY <1>4 DEF PersistChmods, userVars
  <2>3. /\ s \in LiveFiles /\ s \in UfsSlots /\ directory[s].name = PASSWD_FILE
        /\ PasswdEntry(directory[s])
    BY <1>1, FoundIsLive DEF AccInv
  <2>4. directory[s].size = 0
    <3>1. PasswdFound = {}
      BY <1>1, <2>2 DEF AccInv
    <3> QED
      BY <1>1, <2>1, <2>3, <3>1, OnePasswdFile DEF PasswdEntry
  <2>5. {} \in Perms
    BY DEF Perms
  <2>6. /\ UfsInv' /\ directory'[s].name = PASSWD_FILE /\ directory'[s].owner = 0
        /\ directory'[s].perm = {} /\ directory'[s].size = 0
    BY <1>1, <2>1, <2>3, <2>4, <2>5, ChmodEffect DEF PasswdEntry
  <2> QED
    BY <1>1, <2>2, <2>3, <2>6, AccEmptied
<1> QED
  BY <1>2, <1>3, <1>4

(* The whole table, written to a file and read again, is the table. *)
LEMMA WrittenTableReads ==
    ASSUME UfsInv, NEW s \in UfsSlots, accounts \in AccountTable,
           Wrote(s, 0, USER_MAX_ACCOUNTS, accounts), UfsInv',
           directory'[s].size = USER_MAX_ACCOUNTS
    PROVE  Loaded(s)' = accounts /\ directory'[s].size <= Sec(directory'[s].cap)
<1>1. PICK m \in Nat : m = USER_MAX_ACCOUNTS /\ m >= 2
  BY UsersAssumption
<1>2. PICK e \in DirEntry : e = directory'[s] /\ e.size = m
  BY <1>1 DEF Wrote
<1>3. PICK b \in Nat, c \in Nat : b = e.start /\ c = e.cap
  BY UfsNumbers
<1>4. PICK B \in Nat, C \in Nat : B = Sec(b) /\ C = Sec(c) /\ Sec(b + c) = B + C
  <2>1. Sec(c) \in Nat /\ Sec(b) \in Nat /\ Sec(b + c) = Sec(b) + Sec(c)
    BY SecFacts
  <2> QED
    BY <2>1
<1>5. m <= C
  <2>1. CASE WroteInPlace(s, 0, USER_MAX_ACCOUNTS, accounts)
    BY <1>1, <1>2, <1>3, <1>4, <2>1 DEF WroteInPlace
  <2>2. CASE WroteMoved(s, 0, USER_MAX_ACCOUNTS, accounts)
    BY <1>1, <1>2, <1>3, <1>4, <2>2 DEF WroteMoved
  <2> QED
    BY <2>1, <2>2 DEF Wrote
<1>6. c # 0
  BY <1>1, <1>4, <1>5, SecFacts
<1>7. UFS_DATA_LBA <= b /\ b + c <= UFS_DATA_END_LBA
  <2>1. s \in LiveFiles'
    BY DEF Wrote, LiveFiles, handle_valid
  <2>2. next_free_lba' \in Nat /\ next_free_lba' <= UFS_DATA_END_LBA
    BY UfsNumbers DEF Wrote
  <2>3. UFS_DATA_LBA <= b /\ b + c <= next_free_lba'
    BY <1>2, <1>3, <1>6, <2>1 DEF UfsInv, Extents
  <2> QED
    BY <2>2, <2>3, UfsNumbers
<1>8. PICK L \in Nat, E \in Nat : /\ L = Sec(UFS_DATA_LBA) /\ E = Sec(UFS_DATA_END_LBA)
                                  /\ L <= B /\ B + C <= E
  <2>1. Sec(UFS_DATA_LBA) \in Nat /\ Sec(UFS_DATA_END_LBA) \in Nat
    BY SecFacts, UfsNumbers
  <2>2. b + c \in Nat
    OBVIOUS
  <2>3. Sec(UFS_DATA_LBA) <= B /\ B + C <= Sec(UFS_DATA_END_LBA)
    BY <1>4, <1>7, <2>2, SecFacts, UfsNumbers
  <2> QED
    BY <2>1, <2>3
<1>9. ASSUME NEW i \in 0..(m - 1)
      PROVE  ByteAt(data', B + 0 + i).val = accounts[i]
  <2>1. PICK a \in Nat : a = B + 0 + i /\ a >= B /\ a < B + m /\ a - B = i
    OBVIOUS
  <2>2. a \in DataBytes
    BY <1>5, <1>8, <2>1, UfsNumbers
  <2>3. data'[a] = IF a >= B /\ a < B + m
                   THEN [of |-> inc[s], val |-> accounts[a - B]] ELSE data'[a]
    <3>1. B + 0 = B
      OBVIOUS
    <3>2. CASE WroteInPlace(s, 0, USER_MAX_ACCOUNTS, accounts)
      <4>1. B = Sec(directory[s].start)
        BY <1>2, <1>3, <1>4, <3>2 DEF WroteInPlace
      <4>2. data'[a] = IF a >= B + 0 /\ a < B + 0 + m
                       THEN [of |-> inc[s], val |-> accounts[a - (B + 0)]] ELSE data[a]
        BY <1>1, <2>2, <3>2, <4>1 DEF WroteInPlace
      <4> QED
        BY <2>1, <3>1, <4>2
    <3>3. CASE WroteMoved(s, 0, USER_MAX_ACCOUNTS, accounts)
      <4>1. B = Sec(next_free_lba)
        BY <1>2, <1>3, <1>4, <3>3 DEF WroteMoved
      <4>2. (a >= B + 0 /\ a < B + 0 + m) =>
               data'[a] = [of |-> inc[s], val |-> accounts[a - (B + 0)]]
        BY <1>1, <2>2, <3>3, <4>1 DEF WroteMoved
      <4> QED
        BY <2>1, <3>1, <4>2
    <3> QED
      BY <3>2, <3>3 DEF Wrote
  <2>4. data'[a].val = accounts[i]
    BY <2>1, <2>3
  <2> QED
    BY <2>1, <2>2, <2>4 DEF ByteAt
<1>10. Available(m, 0, m) = m
  BY <1>1 DEF Available
<1>11. PICK got : /\ got = ufs_read_at(s, 0, USER_MAX_ACCOUNTS)'
                  /\ got = [i \in 0..(m - 1) |-> ByteAt(data', B + 0 + i)]
  BY <1>1, <1>2, <1>3, <1>4, <1>10 DEF ufs_read_at, Sec
<1>12. Loaded(s)' = [i \in Slots |-> IF i \in DOMAIN got THEN got[i].val ELSE NoAccount]
  BY <1>11 DEF Loaded
<1>13. Slots = 0..(m - 1)
  BY <1>1 DEF Slots
<1>14. Loaded(s)' = [i \in Slots |-> accounts[i]]
  BY <1>9, <1>11, <1>12, <1>13
<1>15. accounts = [i \in Slots |-> accounts[i]]
  BY DEF AccountTable
<1> QED
  BY <1>2, <1>3, <1>4, <1>5, <1>14, <1>15

(* The write of persist makes the accounts in memory the ones on the disk. *)
LEMMA PersistCompletes ==
    ASSUME Inv, PersistWrites
    PROVE  UfsInv' /\ AccInv'
<1>1. UfsInv /\ AccInv /\ PASSWD_FILE \in Names /\ accounts \in AccountTable
  BY FilesAssumption DEF Inv, AccInv
<1>2. PICK s \in ufs_find(PASSWD_FILE) : ufs_write_at(s, 0, USER_MAX_ACCOUNTS, accounts)
  BY DEF PersistWrites
<1>3. pc' = "run" /\ acked' = accounts /\ accounts' = accounts
  BY DEF PersistWrites
<1>4. /\ s \in LiveFiles /\ s \in UfsSlots /\ directory[s].name = PASSWD_FILE
      /\ PasswdEntry(directory[s])
  BY <1>1, FoundIsLive DEF AccInv
<1>5. Wrote(s, 0, USER_MAX_ACCOUNTS, accounts)
  BY <1>1, <1>2, <1>4, WriteEffect, UsersAssumption
<1>6. UfsInv'
  BY <1>1, <1>4, <1>5, WriteInv, UsersAssumption
<1>7. /\ directory'[s].name = PASSWD_FILE /\ directory'[s].owner = 0
      /\ directory'[s].perm = {}
  BY <1>4, <1>5 DEF Wrote, PasswdEntry
<1>8. directory'[s].size = USER_MAX_ACCOUNTS
  <2>1. PICK m \in Nat : m = USER_MAX_ACCOUNTS
    BY UsersAssumption
  <2>2. directory[s].size \in {0, m}
    BY <1>4, <2>1 DEF PasswdEntry
  <2>3. directory'[s].size = IF 0 + m > directory[s].size THEN 0 + m ELSE directory[s].size
    BY <1>5, <2>1 DEF Wrote
  <2> QED
    BY <2>1, <2>2, <2>3
<1>9. Loaded(s)' = accounts /\ directory'[s].size <= Sec(directory'[s].cap)
  BY <1>1, <1>4, <1>5, <1>6, <1>8, WrittenTableReads
<1>10. PasswdEntry(directory'[s])
  BY <1>7, <1>8, <1>9 DEF PasswdEntry
<1>11. s \in ufs_find(PASSWD_FILE)' /\ s \in PasswdFound'
  BY <1>4, <1>7, <1>8 DEF ufs_find, PasswdFound
<1>12. \A x \in UfsSlots : directory'[x].name = PASSWD_FILE => x \in LiveFiles'
  BY FilesAssumption DEF LiveFiles, handle_valid
<1>13. \A t \in ufs_find(PASSWD_FILE)' : t = s
  BY <1>6, <1>11, <1>12 DEF UfsInv, UniqueNames, ufs_find
<1>14. \A t \in PasswdFound' : t = s
  BY <1>13 DEF PasswdFound
<1> QED
  BY <1>1, <1>3, <1>6, <1>9, <1>10, <1>11, <1>13, <1>14 DEF AccInv

(* Power on and off leave the files alone. *)
LEMMA PowerKeepsAccounts ==
    ASSUME Inv, users_init \/ PowerLoss
    PROVE  UfsInv' /\ AccInv'
<1>1. UfsInv /\ AccInv
  BY DEF Inv
<1>2. /\ directory' = directory /\ next_free_lba' = next_free_lba /\ data' = data
      /\ inc' = inc /\ incs' = incs /\ stray' = stray
  BY DEF users_init, PowerLoss, ufsVars
<1>3. UfsInv'
  BY <1>1, <1>2, UfsUntouched DEF UfsStays, ByRight
<1>4. /\ ufs_find(PASSWD_FILE)' = ufs_find(PASSWD_FILE)
      /\ PasswdFound' = PasswdFound
      /\ \A s : Loaded(s)' = Loaded(s)
  BY <1>2 DEF ufs_find, PasswdFound, Loaded, ufs_read_at
<1>5. CASE users_init
  <2>1. acked' = acked /\ pc = "off" /\ acked \in AccountTable
    BY <1>1, <1>5 DEF users_init, AccInv
  <2>2. CASE PasswdFound # {} /\ accounts' = Loaded(Lowest(PasswdFound)) /\ pc' = "run"
    <3>1. PasswdFound \in SUBSET Nat
      BY DEF PasswdFound, ufs_find, UfsSlots
    <3>2. Lowest(PasswdFound) \in PasswdFound
      BY <2>2, <3>1, LowestIs
    <3>3. accounts' = acked
      BY <1>1, <2>2, <3>2 DEF AccInv
    <3> QED
      BY <1>1, <1>2, <1>3, <1>4, <2>1, <2>2, <3>3 DEF AccInv
  <2>3. CASE PasswdFound = {} /\ accounts' = seed_defaults /\ pc' = "open"
    BY <1>1, <1>2, <1>3, <1>4, <2>1, <2>3, FirstAccounts DEF AccInv
  <2> QED
    BY <1>5, <2>2, <2>3 DEF users_init
<1>6. CASE PowerLoss
  <2>1. /\ pc' = "off" /\ accounts' = Blank
        /\ acked' = IF pc \in {"chmod", "write"} THEN seed_defaults ELSE acked
    BY <1>6 DEF PowerLoss
  <2>2. PasswdFound = {} => acked' = seed_defaults
    <3>1. pc \in {"open", "chmod", "write", "run"}
      BY <1>6 DEF PowerLoss, Inv, Rest
    <3> QED
      BY <1>1, <2>1, <3>1 DEF AccInv
  <2>3. \A s \in PasswdFound : acked' = acked
    BY <1>1, <2>1 DEF AccInv
  <2>4. accounts' \in AccountTable /\ acked' \in AccountTable
    BY <1>1, <2>1, FirstAccounts DEF AccInv
  <2> QED
    BY <1>1, <1>2, <1>3, <1>4, <2>1, <2>2, <2>3, <2>4 DEF AccInv
<1> QED
  BY <1>5, <1>6

(***************************************************************************)
(* Part 8.  Descriptors, and what a read delivers                          *)
(***************************************************************************)

(* sched_fd_open fills one free slot of the descriptor table, or none. *)
LEMMA FdOpened ==
    ASSUME fds \in [Procs -> [Fds -> Descriptor]], NEW p \in Procs,
           NEW kind \in {"UFS", "MEMFS"}, NEW handle \in Nat, sched_fd_open(p, kind, handle)
    PROVE  /\ fds' \in [Procs -> [Fds -> Descriptor]]
           /\ \A q \in Procs, f \in Fds :
                 \/ fds'[q][f] = fds[q][f]
                 \/ /\ fds'[q][f].kind = kind /\ fds'[q][f].handle = handle
                    /\ fds'[q][f].cursor = 0
<1>1. CASE FreeFds(p) = {}
  BY <1>1 DEF sched_fd_open
<1>2. CASE FreeFds(p) # {}
  <2>1. FreeFds(p) \in SUBSET Nat /\ FreeFds(p) \subseteq Fds
    BY DEF FreeFds, Fds
  <2>2. PICK g \in Fds : g = Lowest(FreeFds(p))
    BY <1>2, <2>1, LowestIs
  <2>3. PICK d \in Descriptor : /\ d = [kind |-> kind, handle |-> handle, cursor |-> 0]
                                /\ d.kind = kind /\ d.handle = handle /\ d.cursor = 0
    <3>1. kind \in {"UNUSED", "UFS", "MEMFS"} /\ 0 \in Nat
      OBVIOUS
    <3>2. [kind |-> kind, handle |-> handle, cursor |-> 0] \in Descriptor
      BY <3>1, Zenon DEF Descriptor
    <3> QED
      BY <3>2, Zenon
  <2>4. fds' = [fds EXCEPT ![p][g] = d]
    BY <1>2, <2>2, <2>3, Zenon DEF sched_fd_open
  <2> QED
    BY <2>3, <2>4
<1> QED
  BY <1>1, <1>2

MovesCursor(p, f, n) == fds' = [fds EXCEPT ![p][f].cursor = @ + n]

(* A read or a write moves one cursor. *)
LEMMA CursorMoved ==
    ASSUME fds \in [Procs -> [Fds -> Descriptor]], NEW p \in Procs, NEW f \in Fds,
           NEW n \in Nat, MovesCursor(p, f, n)
    PROVE  /\ fds' \in [Procs -> [Fds -> Descriptor]]
           /\ fds'[p][f].kind = fds[p][f].kind /\ fds'[p][f].handle = fds[p][f].handle
           /\ fds'[p][f].cursor = fds[p][f].cursor + n
           /\ \A q \in Procs, g \in Fds : <<q, g>> # <<p, f>> => fds'[q][g] = fds[q][g]
<1>1. PICK d \in Descriptor : d = fds[p][f]
  OBVIOUS
<1>2. d.cursor + n \in Nat
  BY DEF Descriptor
<1>3. PICK c \in Nat : c = d.cursor + n
  BY <1>2
<1>4. /\ [d EXCEPT !.cursor = c] \in Descriptor
      /\ [d EXCEPT !.cursor = c].kind = d.kind
      /\ [d EXCEPT !.cursor = c].handle = d.handle
      /\ [d EXCEPT !.cursor = c].cursor = c
  BY Zenon DEF Descriptor
<1>5. PICK e \in Descriptor : /\ e = [d EXCEPT !.cursor = c]
                              /\ e.kind = d.kind /\ e.handle = d.handle /\ e.cursor = c
  BY <1>4, Zenon
<1>6. fds' = [fds EXCEPT ![p][f] = e]
  BY <1>1, <1>3, <1>5, Zenon DEF MovesCursor
<1>7. /\ fds' \in [Procs -> [Fds -> Descriptor]]
      /\ fds'[p][f] = e
      /\ \A q \in Procs, g \in Fds : <<q, g>> # <<p, f>> => fds'[q][g] = fds[q][g]
  BY <1>6
<1> QED
  BY <1>1, <1>3, <1>5, <1>7

(* A read hands out bytes of the file that was checked, and no others. *)
LEMMA ReadLeaksNothing ==
    ASSUME Inv, NEW p \in Procs, NEW f \in Fds, NEW len \in Nat, UfsRead(p, f, len)
    PROVE  leaks' = {}
<1>1. PICK d \in Descriptor : d = fds[p][f]
  BY DEF Inv, FdsInv
<1>2. PICK s : s = d.handle
  OBVIOUS
<1>3. PICK o \in Nat : o = d.cursor
  BY DEF Descriptor
<1>4. PICK got : got = ufs_read_at(s, o, len)
  OBVIOUS
<1>5. /\ d.kind = "UFS" /\ MayRead(p, s) /\ handle_valid(s)
      /\ leaks' = IF inc[s] \in stray.hollow \cup stray.mixed THEN leaks
                  ELSE leaks \cup ({got[i].of : i \in DOMAIN got} \ Readable(p))
  BY <1>1, <1>2, <1>3, <1>4, Zenon DEF UfsRead, ReadChecked
<1>6. leaks = {} /\ UfsInv
  BY DEF Inv, NoLeak
<1>7. CASE inc[s] \in stray.hollow \cup stray.mixed
  BY <1>5, <1>6, <1>7
<1>8. CASE inc[s] \notin stray.hollow \cup stray.mixed
  <2>1. s \in UfsSlots /\ s \in LiveFiles
    BY <1>1, <1>2, <1>5 DEF Inv, FdsInv, LiveFiles
  <2>2. PICK e \in DirEntry : e = directory[s]
    BY <1>6, <2>1 DEF UfsInv, UfsTypes
  <2>3. PICK z \in Nat, c \in Nat, b \in Nat : z = e.size /\ c = e.cap /\ b = e.start
    BY UfsNumbers
  <2>4. PICK n \in Nat : n = Available(z, o, len) /\ (n > 0 => o + n <= z)
    BY DEF Available
  <2>5. PICK B \in Nat, C \in Nat : B = Sec(b) /\ C = Sec(c) /\ Sec(b + c) = B + C
    <3>1. Sec(c) \in Nat /\ Sec(b) \in Nat /\ Sec(b + c) = Sec(b) + Sec(c)
      BY SecFacts
    <3> QED
      BY <3>1
  <2>6. z <= C
    BY <1>6, <1>8, <2>1, <2>2, <2>3, <2>5 DEF UfsInv, Fitting
  <2>7. got = [i \in 0..(n - 1) |-> ByteAt(data, B + o + i)]
    BY <1>4, <2>2, <2>3, <2>4, <2>5 DEF ufs_read_at, Sec
  <2>8. ASSUME NEW i \in DOMAIN got
        PROVE  got[i].of \in {0, inc[s]}
    <3>1. i \in 0..(n - 1) /\ got[i] = ByteAt(data, B + o + i)
      BY <2>7
    <3>2. PICK a \in Nat : a = B + o + i /\ B <= a /\ a < B + C
      BY <2>4, <2>6, <3>1
    <3>3. InExtent(e, a)
      BY <2>3, <2>5, <3>2 DEF InExtent
    <3>4. a \in DataBytes => data[a].of \in {0, inc[s]}
      BY <1>6, <1>8, <2>1, <2>2, <3>3 DEF UfsInv, OwnBytes
    <3> QED
      BY <3>1, <3>2, <3>4 DEF ByteAt, Nobody
  <2>9. {0, inc[s]} \subseteq Readable(p)
    BY <1>5, <2>1 DEF Readable
  <2> QED
    BY <1>5, <1>6, <1>8, <2>8, <2>9
<1> QED
  BY <1>7, <1>8

(* No call of a program leaks. *)
LEMMA CallsLeakNothing ==
    ASSUME Inv, NEW p \in Procs, syscall_handler(p)
    PROVE  NoLeak'
<1>1. \A len \in mix.lens : len \in Nat
  BY UsersAssumption DEF Inv, Rest
<1>2. CASE \E f \in Fds, len \in mix.lens : UfsRead(p, f, len)
  BY <1>1, <1>2, ReadLeaksNothing DEF NoLeak
<1>3. CASE leaks' = leaks
  BY <1>3 DEF Inv, NoLeak
<1>4. PICK kind \in mix.kinds : Call(p, kind)
  BY DEF syscall_handler
<1>5. leaks' = leaks \/ \E f \in Fds, len \in mix.lens : UfsRead(p, f, len)
  BY <1>4, Zenon DEF Call, UfsOpen, OpenCreates, OpenFinds, OpenTruncates, UfsWrite,
             MemOpen, MemOpenFinds, MemOpenCreates, MemOpenFails, MemRead, MemWrite,
             fd_close, SYS_REMOVE, SYS_CHMOD, SYS_LOGIN, SYS_ADDUSER
<1> QED
  BY <1>2, <1>3, <1>5

(***************************************************************************)
(* Part 9.  Memfs                                                          *)
(***************************************************************************)

(* The capacity of an entry is the size of its buffer. *)
LEMMA CapacityIs ==
    ASSUME NEW e, NEW m \in Nat, DOMAIN e.data = 0..(m - 1)
    PROVE  capacity(e) = m
  BY FS_Interval DEF capacity

(* The entries of the table, one by one. *)
LEMMA EntryFacts ==
    ASSUME NEW e \in GoodEntry
    PROVE  /\ e.in_use \in BOOLEAN /\ e.size \in Nat
           /\ e.name \in Names \cup {NoName}
           /\ e.in_use => e.name \in Names
           /\ \E m \in Nat : /\ e.data \in [0..(m - 1) -> Procs \cup {Junk}]
                             /\ capacity(e) = m /\ e.size <= m /\ (e.in_use => m > 0)
<1>1. e \in MemEntry /\ e.size <= capacity(e)
      /\ (e.in_use => e.name \in Names /\ capacity(e) > 0)
  BY DEF GoodEntry
<1>2. e.data \in Buffer /\ e.in_use \in BOOLEAN /\ e.size \in Nat
      /\ e.name \in Names \cup {NoName}
  BY <1>1 DEF MemEntry
<1>3. PICK m \in Nat : e.data \in [0..(m - 1) -> Procs \cup {Junk}]
  BY <1>2 DEF Buffer
<1>4. capacity(e) = m
  BY <1>3, CapacityIs
<1> QED
  BY <1>1, <1>2, <1>3, <1>4

(* What makes an entry good. *)
LEMMA GoodEntryIs ==
    ASSUME NEW n \in Names \cup {NoName}, NEW m \in Nat,
           NEW b \in [0..(m - 1) -> Procs \cup {Junk}], NEW z \in 0..m, NEW u \in BOOLEAN,
           u => n \in Names /\ m > 0
    PROVE  LET e == [name |-> n, data |-> b, size |-> z, in_use |-> u]
           IN  /\ e \in GoodEntry
               /\ e.name = n /\ e.data = b /\ e.size = z /\ e.in_use = u
<1>1. b \in Buffer
  BY DEF Buffer
<1>2. z \in Nat /\ z <= m
  OBVIOUS
<1>3. [name |-> n, data |-> b, size |-> z, in_use |-> u] \in MemEntry
  BY <1>1, <1>2, Zenon DEF MemEntry
<1>4. PICK e \in MemEntry : /\ e = [name |-> n, data |-> b, size |-> z, in_use |-> u]
                            /\ e.name = n /\ e.data = b /\ e.size = z /\ e.in_use = u
  BY <1>3, Zenon
<1>5. capacity(e) = m
  BY <1>4, CapacityIs
<1>6. e \in GoodEntry
  BY <1>2, <1>4, <1>5 DEF GoodEntry
<1> QED
  BY <1>4, <1>6, Zenon

(* A fresh buffer, and a fresh slot. *)
LEMMA FreshMemory ==
    /\ \A m \in Nat : kmalloc(m) \in [0..(m - 1) -> Procs \cup {Junk}]
    /\ init_entry_slot \in GoodEntry
    /\ init_entry_slot.in_use = FALSE
<1>1. \A m \in Nat : kmalloc(m) \in [0..(m - 1) -> Procs \cup {Junk}]
  BY DEF kmalloc
<1>2. NoName \in Names \cup {NoName} /\ 0 \in Nat /\ 0 \in 0..0 /\ FALSE \in BOOLEAN
  OBVIOUS
<1>3. kmalloc(0) \in [0..(0 - 1) -> Procs \cup {Junk}]
  BY <1>1
<1> QED
  BY <1>1, <1>2, <1>3, GoodEntryIs DEF init_entry_slot

(* The table in which memfs_create finds a free slot has every entry of the *)
(* old one, and such a slot.                                                *)
LEMMA RoomyTableIs ==
    ASSUME MemTypes
    PROVE  \E n \in Nat :
              /\ RoomyTable \in [0..(n - 1) -> GoodEntry]
              /\ \A h \in DOMAIN entries : h \in 0..(n - 1) /\ RoomyTable[h] = entries[h]
              /\ \A h \in 0..(n - 1) : h \notin DOMAIN entries => ~ RoomyTable[h].in_use
              /\ CreateSlot \in 0..(n - 1) /\ ~ RoomyTable[CreateSlot].in_use
<1>1. PICK k \in Nat : entries \in [0..(k - 1) -> GoodEntry]
  BY DEF MemTypes
<1>2. entry_capacity = k
  BY <1>1, FS_Interval DEF entry_capacity
<1>3. PICK n \in Nat :
         /\ RoomyTable \in [0..(n - 1) -> GoodEntry]
         /\ \A h \in DOMAIN entries : h \in 0..(n - 1) /\ RoomyTable[h] = entries[h]
         /\ \A h \in 0..(n - 1) : h \notin DOMAIN entries => ~ RoomyTable[h].in_use
         /\ find_free_slot(RoomyTable) # {}
  <2>1. CASE find_free_slot(entries) = {}
    <3>1. PICK m \in Nat : /\ m = (IF k = 0 THEN MEMFS_INITIAL_CAPACITY ELSE 2 * k)
                           /\ m > k
      BY MemfsAssumption
    <3>2. RoomyTable = [i \in 0..(m - 1) |->
                          IF i \in DOMAIN entries THEN entries[i] ELSE init_entry_slot]
      BY <1>2, <2>1, <3>1 DEF RoomyTable, grow_table
    <3>3. /\ RoomyTable \in [0..(m - 1) -> GoodEntry]
          /\ \A h \in DOMAIN entries : h \in 0..(m - 1) /\ RoomyTable[h] = entries[h]
          /\ \A h \in 0..(m - 1) : h \notin DOMAIN entries => ~ RoomyTable[h].in_use
      <4>1. PICK e \in GoodEntry : e = init_entry_slot /\ ~ e.in_use
        BY FreshMemory
      <4>2. DOMAIN entries = 0..(k - 1) /\ 0..(k - 1) \subseteq 0..(m - 1)
        BY <1>1, <3>1
      <4>3. RoomyTable = [i \in 0..(m - 1) |-> IF i \in 0..(k - 1) THEN entries[i] ELSE e]
        BY <3>2, <4>1, <4>2
      <4>4. RoomyTable \in [0..(m - 1) -> GoodEntry]
        BY <1>1, <4>3
      <4>5. \A h \in 0..(k - 1) : h \in 0..(m - 1) /\ RoomyTable[h] = entries[h]
        BY <4>2, <4>3
      <4>6. \A h \in 0..(m - 1) : h \notin 0..(k - 1) => RoomyTable[h] = e
        BY <4>3
      <4> QED
        BY <4>1, <4>2, <4>4, <4>5, <4>6
    <3>4. k \in 0..(m - 1) /\ k \notin DOMAIN entries
      BY <1>1, <3>1
    <3>5. k \in find_free_slot(RoomyTable)
      BY <3>3, <3>4 DEF find_free_slot
    <3> QED
      BY <3>3, <3>5
  <2>2. CASE find_free_slot(entries) # {}
    <3>1. RoomyTable = entries
      BY <2>2 DEF RoomyTable
    <3> QED
      BY <1>1, <2>2, <3>1
  <2> QED
    BY <2>1, <2>2
<1>4. find_free_slot(RoomyTable) \in SUBSET Nat
  BY <1>3 DEF find_free_slot
<1>5. CreateSlot \in find_free_slot(RoomyTable)
  BY <1>3, <1>4, LowestIs DEF CreateSlot
<1>6. CreateSlot \in 0..(n - 1) /\ ~ RoomyTable[CreateSlot].in_use
  BY <1>3, <1>5 DEF find_free_slot
<1> QED
  BY <1>3, <1>6

(* Files that are still there are still as they were written. *)
LEMMA MemKept ==
    ASSUME MemInv, NEW n \in Nat, entries' \in [0..(n - 1) -> GoodEntry],
           written' = written, FdsInv,
           \A h \in DOMAIN entries : h \in DOMAIN entries' /\ entries'[h] = entries[h],
           \A h \in DOMAIN entries' : h \notin DOMAIN entries => ~ entries'[h].in_use
    PROVE  MemTypes' /\ MemNames' /\ MemContents'
<1>1. MemTypes'
  BY DEF MemInv, MemTypes
<1>2. MemNames'
  BY DEF MemInv, MemNames
<1>3. MemContents'
  BY DEF MemInv, MemContents
<1> QED
  BY <1>1, <1>2, <1>3

(* A step that leaves memfs alone and opens no memfs file keeps its         *)
(* cursors, unless it moves one within its file.                            *)
LEMMA MemUntouched ==
    ASSUME MemInv, FdsInv, entries' = entries, written' = written,
           fds' \in [Procs -> [Fds -> Descriptor]],
           \A p \in Procs, f \in Fds :
              \/ fds'[p][f] = fds[p][f]
              \/ fds'[p][f].kind = "UNUSED"
              \/ fds'[p][f].kind = "UFS" /\ fds'[p][f].handle \in UfsSlots
              \/ /\ fds'[p][f].kind = "MEMFS" /\ fds'[p][f].handle \in DOMAIN entries
                 /\ entries[fds'[p][f].handle].in_use
                 /\ fds'[p][f].cursor <= entries[fds'[p][f].handle].size
    PROVE  MemInv' /\ FdsInv'
<1>1. MemTypes' /\ MemNames' /\ MemContents'
  BY DEF MemInv, MemTypes, MemNames, MemContents
<1>2. MemCursors'
  BY DEF MemInv, MemCursors
<1>3. FdsInv'
  BY DEF FdsInv
<1> QED
  BY <1>1, <1>2, <1>3 DEF MemInv

(* fd_open of a memfs file that exists. *)
LEMMA MemFindKeeps ==
    ASSUME Inv, NEW p \in Procs, NEW name \in Names, MemOpenFinds(p, name)
    PROVE  MemInv' /\ FdsInv'
<1>1. PICK h \in find_slot(name) : sched_fd_open(p, "MEMFS", h)
  BY DEF MemOpenFinds
<1>2. entries' = entries /\ written' = written
  BY DEF MemOpenFinds
<1>3. MemInv /\ FdsInv
  BY DEF Inv
<1>4. h \in DOMAIN entries /\ entries[h].in_use
  BY DEF find_slot
<1>5. PICK z \in Nat : z = entries[h].size /\ 0 <= z
  BY <1>3, <1>4, EntryFacts DEF MemInv, MemTypes
<1>6. h \in Nat
  BY <1>3, <1>4 DEF MemInv, MemTypes
<1>7. /\ fds' \in [Procs -> [Fds -> Descriptor]]
      /\ \A q \in Procs, f \in Fds :
            \/ fds'[q][f] = fds[q][f]
            \/ /\ fds'[q][f].kind = "MEMFS" /\ fds'[q][f].handle = h
               /\ fds'[q][f].cursor = 0
  BY <1>1, <1>3, <1>6, FdOpened DEF FdsInv
<1>8. \A q \in Procs, f \in Fds :
         \/ fds'[q][f] = fds[q][f]
         \/ /\ fds'[q][f].kind = "MEMFS" /\ fds'[q][f].handle \in DOMAIN entries
            /\ entries[fds'[q][f].handle].in_use
            /\ fds'[q][f].cursor <= entries[fds'[q][f].handle].size
  BY <1>4, <1>5, <1>7
<1> QED
  BY <1>2, <1>3, <1>7, <1>8, MemUntouched

(* fd_open of a memfs file for which there is no memory. *)
LEMMA MemFailKeeps ==
    ASSUME Inv, NEW p \in Procs, NEW name \in Names, MemOpenFails(p, name)
    PROVE  MemInv' /\ FdsInv'
<1>1. entries' = RoomyTable /\ written' = written /\ fds' = fds
  BY DEF MemOpenFails, CreateFails
<1>2. MemInv /\ FdsInv
  BY DEF Inv
<1>3. PICK n \in Nat :
         /\ entries' \in [0..(n - 1) -> GoodEntry]
         /\ \A h \in DOMAIN entries : h \in 0..(n - 1) /\ entries'[h] = entries[h]
         /\ \A h \in 0..(n - 1) : h \notin DOMAIN entries => ~ entries'[h].in_use
  BY <1>1, <1>2, RoomyTableIs DEF MemInv
<1>4. MemTypes' /\ MemNames' /\ MemContents'
  BY <1>1, <1>2, <1>3, MemKept
<1>5. MemCursors'
  <2>1. ASSUME NEW q \in Procs, NEW f \in Fds, fds[q][f].kind = "MEMFS"
        PROVE  /\ fds[q][f].handle \in DOMAIN entries
               /\ entries[fds[q][f].handle].in_use
               /\ fds[q][f].cursor <= entries[fds[q][f].handle].size
    BY <1>2, <2>1 DEF FdsInv, MemInv, MemCursors
  <2> QED
    BY <1>1, <1>3, <2>1 DEF MemCursors
<1>6. FdsInv'
  BY <1>1, <1>2, <1>3 DEF FdsInv
<1> QED
  BY <1>4, <1>5, <1>6 DEF MemInv

(* fd_open of a new memfs file. *)
LEMMA MemCreateKeeps ==
    ASSUME Inv, NEW p \in Procs, NEW name \in Names, MemOpenCreates(p, name)
    PROVE  MemInv' /\ FdsInv'
<1>1. MemInv /\ FdsInv /\ find_slot(name) = {}
  BY DEF Inv, MemOpenCreates, memfs_create
<1>0. PICK T, c : T = RoomyTable /\ c = CreateSlot
  OBVIOUS
<1>2. PICK n \in Nat :
         /\ T \in [0..(n - 1) -> GoodEntry]
         /\ \A h \in DOMAIN entries : h \in 0..(n - 1) /\ T[h] = entries[h]
         /\ \A h \in 0..(n - 1) : h \notin DOMAIN entries => ~ T[h].in_use
         /\ c \in 0..(n - 1) /\ ~ T[c].in_use
  BY <1>1, <1>0, RoomyTableIs DEF MemInv
<1>3. PICK e \in GoodEntry :
         /\ e = [name |-> name, data |-> kmalloc(MEMFS_INITIAL_BUFFER_SIZE),
                 size |-> 0, in_use |-> TRUE]
         /\ e.name = name /\ e.size = 0 /\ e.in_use = TRUE
  <2>1. PICK m \in Nat : m = MEMFS_INITIAL_BUFFER_SIZE /\ m > 0
    BY MemfsAssumption
  <2>2. PICK b \in [0..(m - 1) -> Procs \cup {Junk}] : b = kmalloc(m)
    BY FreshMemory
  <2>3. 0 \in 0..m /\ TRUE \in BOOLEAN /\ name \in Names \cup {NoName}
    OBVIOUS
  <2>4. /\ [name |-> name, data |-> b, size |-> 0, in_use |-> TRUE] \in GoodEntry
    BY <2>1, <2>3, GoodEntryIs
  <2> QED
    BY <2>1, <2>2, <2>4, Zenon
<1>4. entries' = [T EXCEPT ![c] = e]
  BY <1>0, <1>3, Zenon DEF MemOpenCreates, memfs_create
<1>5. /\ entries' \in [0..(n - 1) -> GoodEntry] /\ DOMAIN entries' = 0..(n - 1)
      /\ entries'[c] = e
      /\ \A h \in 0..(n - 1) : h # c => entries'[h] = T[h]
  BY <1>2, <1>4
<1>6. /\ written' = [written EXCEPT ![name] = <<>>]
      /\ written \in [Names -> Seq(Procs)]
  BY <1>1 DEF MemOpenCreates, MemInv, MemTypes
<1>7. /\ written' \in [Names -> Seq(Procs)] /\ written'[name] = <<>>
      /\ \A m \in Names : m # name => written'[m] = written[m]
  BY <1>6
<1>8. ASSUME NEW h \in 0..(n - 1), h # c, entries'[h].in_use
      PROVE  /\ h \in DOMAIN entries /\ entries'[h] = entries[h] /\ entries[h].in_use
             /\ entries[h].name # name /\ entries[h].name \in Names
  <2>1. entries'[h] = T[h]
    BY <1>5, <1>8
  <2>2. h \in DOMAIN entries /\ entries'[h] = entries[h] /\ entries[h].in_use
    BY <1>2, <1>8, <2>1
  <2>3. entries[h].name # name
    BY <1>1, <2>2 DEF find_slot
  <2>4. entries[h] \in GoodEntry
    BY <1>2, <2>1, <2>2
  <2> QED
    BY <2>2, <2>3, <2>4, EntryFacts
<1>9. MemTypes'
  BY <1>5, <1>7 DEF MemTypes
<1>10. MemNames'
  <2>1. ASSUME NEW g \in 0..(n - 1), NEW h \in 0..(n - 1), g # h,
               entries'[g].in_use, entries'[h].in_use, entries'[g].name = entries'[h].name
        PROVE  FALSE
    <3>1. CASE g = c
      BY <1>3, <1>5, <1>8, <2>1, <3>1
    <3>2. CASE h = c
      BY <1>3, <1>5, <1>8, <2>1, <3>2
    <3>3. CASE g # c /\ h # c
      BY <1>1, <1>8, <2>1, <3>3 DEF MemInv, MemNames
    <3> QED
      BY <3>1, <3>2, <3>3
  <2> QED
    BY <1>5, <2>1 DEF MemNames
<1>11. MemContents'
  <2>1. ASSUME NEW h \in 0..(n - 1), entries'[h].in_use
        PROVE  Holds(entries'[h], written'[entries'[h].name])
    <3>1. CASE h = c
      <4>1. Len(<<>>) = 0
        OBVIOUS
      <4> QED
        BY <1>3, <1>5, <1>7, <3>1, <4>1 DEF Holds
    <3>2. CASE h # c
      <4>1. Holds(entries[h], written[entries[h].name])
        BY <1>1, <1>8, <2>1, <3>2 DEF MemInv, MemContents
      <4>2. written'[entries[h].name] = written[entries[h].name]
        BY <1>7, <1>8, <2>1, <3>2
      <4> QED
        BY <1>8, <2>1, <3>2, <4>1, <4>2
    <3> QED
      BY <3>1, <3>2
  <2> QED
    BY <1>5, <2>1 DEF MemContents
<1>12. /\ fds' \in [Procs -> [Fds -> Descriptor]]
       /\ \A q \in Procs, f \in Fds :
             \/ fds'[q][f] = fds[q][f]
             \/ /\ fds'[q][f].kind = "MEMFS" /\ fds'[q][f].handle = c
                /\ fds'[q][f].cursor = 0
  <2>1. sched_fd_open(p, "MEMFS", c) /\ c \in Nat
    BY <1>2, <1>0 DEF MemOpenCreates
  <2> QED
    BY <1>1, <2>1, FdOpened DEF FdsInv
<1>13. ASSUME NEW q \in Procs, NEW f \in Fds, fds'[q][f].kind = "MEMFS"
       PROVE  /\ fds'[q][f].handle \in DOMAIN entries'
              /\ entries'[fds'[q][f].handle].in_use
              /\ fds'[q][f].cursor <= entries'[fds'[q][f].handle].size
  <2>1. CASE fds'[q][f] = fds[q][f]
    <3>1. PICK h : h = fds[q][f].handle
      OBVIOUS
    <3>2. h \in DOMAIN entries /\ entries[h].in_use /\ fds[q][f].cursor <= entries[h].size
      BY <1>1, <1>13, <2>1, <3>1 DEF FdsInv, MemInv, MemCursors
    <3>3. h \in 0..(n - 1) /\ T[h] = entries[h] /\ h # c
      BY <1>2, <3>2
    <3> QED
      BY <1>5, <2>1, <3>1, <3>2, <3>3
  <2>2. CASE fds'[q][f].handle = c /\ fds'[q][f].cursor = 0
    BY <1>2, <1>3, <1>5, <2>2
  <2> QED
    BY <1>12, <1>13, <2>1, <2>2
<1>14. MemCursors'
  BY <1>13 DEF MemCursors
<1>15. FdsInv'
  <2>1. \A q \in Procs, f \in Fds : fds'[q][f].kind = "UFS" => fds'[q][f].handle \in UfsSlots
    BY <1>1, <1>12 DEF FdsInv
  <2> QED
    BY <1>12, <1>13, <2>1 DEF FdsInv
<1> QED
  BY <1>9, <1>10, <1>11, <1>14, <1>15 DEF MemInv

(* ensure_capacity makes room for the bytes needed and keeps the file. *)
LEMMA EnsureCapacityKeeps ==
    ASSUME NEW e \in GoodEntry, e.in_use, NEW needed \in Nat
    PROVE  \E k \in Nat :
              /\ ensure_capacity(e, needed) \in [0..(k - 1) -> Procs \cup {Junk}]
              /\ k > 0 /\ k >= needed /\ k >= e.size
              /\ \A i \in 0..(e.size - 1) : ensure_capacity(e, needed)[i] = e.data[i]
<1>1. PICK z \in Nat : z = e.size
  BY EntryFacts
<1>2. PICK m \in Nat : /\ e.data \in [0..(m - 1) -> Procs \cup {Junk}]
                       /\ capacity(e) = m /\ z <= m /\ m > 0
  BY <1>1, EntryFacts
<1>3. PICK b : b = ensure_capacity(e, needed)
  OBVIOUS
<1>4. CASE needed <= m
  <2>1. b = e.data
    BY <1>2, <1>3, <1>4 DEF ensure_capacity
  <2> QED
    BY <1>1, <1>2, <1>3, <1>4, <2>1
<1>5. CASE ~ (needed <= m)
  <2>1. 2 * m \in Nat \ {0}
    BY <1>2
  <2>2. PICK k \in Nat : k = Doubled(2 * m, needed) /\ k >= needed
    BY <2>1, DoubledIsEnough
  <2>3. k > m
    BY <1>5, <2>2
  <2>4. b = [i \in 0..(k - 1) |-> IF i < z THEN e.data[i] ELSE Junk]
    BY <1>1, <1>2, <1>3, <1>5, <2>2 DEF ensure_capacity
  <2>5. \A i \in 0..(k - 1) : i < z => i \in 0..(m - 1)
    BY <1>2
  <2>6. b \in [0..(k - 1) -> Procs \cup {Junk}]
    BY <1>2, <2>4, <2>5
  <2>7. \A i \in 0..(z - 1) : b[i] = e.data[i]
    BY <1>2, <2>3, <2>4
  <2> QED
    BY <1>1, <1>2, <1>3, <2>2, <2>3, <2>6, <2>7
<1> QED
  BY <1>4, <1>5

(* What memfs_write_at makes of an entry. *)
LEMMA MemEntryWritten ==
    ASSUME MemInv, NEW h \in DOMAIN entries, entries[h].in_use,
           NEW o \in Nat, o <= entries[h].size, NEW len \in Nat, NEW p \in Procs,
           memfs_write_at(h, o, len, p)
    PROVE  /\ DOMAIN entries' = DOMAIN entries
           /\ \E n \in Nat : entries' \in [0..(n - 1) -> GoodEntry]
           /\ \A g \in DOMAIN entries : g # h => entries'[g] = entries[g]
           /\ entries'[h].name = entries[h].name /\ entries'[h].in_use
           /\ entries'[h].size = (IF o + len > entries[h].size THEN o + len ELSE entries[h].size)
           /\ \A i \in 0..(entries'[h].size - 1) :
                 entries'[h].data[i] = IF i >= o /\ i < o + len THEN p ELSE entries[h].data[i]
<1>1. PICK n \in Nat : entries \in [0..(n - 1) -> GoodEntry]
  BY DEF MemInv, MemTypes
<1>2. PICK e \in GoodEntry : e = entries[h] /\ e.in_use
  BY <1>1
<1>3. PICK z \in Nat : z = e.size /\ o <= z
  BY <1>2, EntryFacts
<1>4. PICK needed \in Nat : needed = o + len
  OBVIOUS
<1>5. PICK nd : nd = ensure_capacity(e, needed)
  OBVIOUS
<1>6. PICK k \in Nat : /\ nd \in [0..(k - 1) -> Procs \cup {Junk}]
                       /\ k > 0 /\ k >= needed /\ k >= z
                       /\ \A i \in 0..(z - 1) : nd[i] = e.data[i]
  BY <1>2, <1>3, <1>5, EnsureCapacityKeeps, ZenonT(60)
<1>7. PICK b : b = [i \in DOMAIN nd |-> IF i >= o /\ i < needed THEN p ELSE nd[i]]
  OBVIOUS
<1>8. /\ b \in [0..(k - 1) -> Procs \cup {Junk}] /\ DOMAIN b = 0..(k - 1)
      /\ \A i \in 0..(k - 1) : b[i] = IF i >= o /\ i < needed THEN p ELSE nd[i]
  BY <1>6, <1>7
<1>9. PICK y \in Nat : y = (IF needed > z THEN needed ELSE z)
  OBVIOUS
<1>10. y <= k
  BY <1>6, <1>9
<1>11. PICK g \in GoodEntry : /\ g = [e EXCEPT !.data = b, !.size = y]
                              /\ g.name = e.name /\ g.in_use = e.in_use
                              /\ g.data = b /\ g.size = y
  <2>1. e \in MemEntry /\ b \in Buffer
    BY <1>8 DEF GoodEntry, Buffer
  <2>2. /\ [e EXCEPT !.data = b, !.size = y] \in MemEntry
        /\ [e EXCEPT !.data = b, !.size = y].name = e.name
        /\ [e EXCEPT !.data = b, !.size = y].in_use = e.in_use
        /\ [e EXCEPT !.data = b, !.size = y].data = b
        /\ [e EXCEPT !.data = b, !.size = y].size = y
    BY <2>1, Zenon DEF MemEntry
  <2>3. PICK g \in MemEntry : /\ g = [e EXCEPT !.data = b, !.size = y]
                              /\ g.name = e.name /\ g.in_use = e.in_use
                              /\ g.data = b /\ g.size = y
    BY <2>2, Zenon
  <2>4. capacity(g) = k
    BY <1>8, <2>3, CapacityIs, ZenonT(60)
  <2>5. e.name \in Names
    BY <1>2, EntryFacts
  <2>6. g \in GoodEntry
    BY <1>6, <1>10, <2>3, <2>4, <2>5 DEF GoodEntry
  <2> QED
    BY <2>3, <2>6, Zenon
<1>12. entries' = [entries EXCEPT ![h] = g]
  <2>1. entries' = [entries EXCEPT ![h].data = b, ![h].size = y]
    BY <1>2, <1>3, <1>4, <1>5, <1>7, <1>9, Zenon DEF memfs_write_at
  <2> QED
    BY <1>2, <1>11, <2>1, Zenon
<1>13. /\ entries' \in [0..(n - 1) -> GoodEntry] /\ DOMAIN entries' = DOMAIN entries
       /\ entries'[h] = g
       /\ \A x \in DOMAIN entries : x # h => entries'[x] = entries[x]
  BY <1>1, <1>12
<1>14. ASSUME NEW i \in 0..(y - 1)
       PROVE  g.data[i] = IF i >= o /\ i < needed THEN p ELSE e.data[i]
  <2>1. i \in 0..(k - 1) /\ b[i] = IF i >= o /\ i < needed THEN p ELSE nd[i]
    BY <1>8, <1>10
  <2>2. ~ (i >= o /\ i < needed) => i \in 0..(z - 1)
    BY <1>3, <1>9
  <2> QED
    BY <1>6, <1>11, <2>1, <2>2
<1> QED
  BY <1>2, <1>3, <1>4, <1>9, <1>11, <1>13, <1>14

(* fd_write to a memfs file. *)
LEMMA MemWriteKeeps ==
    ASSUME Inv, NEW p \in Procs, NEW f \in Fds, NEW len \in Nat, MemWrite(p, f, len)
    PROVE  MemInv' /\ FdsInv'
<1>1. MemInv /\ FdsInv
  BY DEF Inv
<1>2. PICK d \in Descriptor : d = fds[p][f]
  BY <1>1 DEF FdsInv
<1>3. PICK h, o : h = d.handle /\ o = d.cursor
  OBVIOUS
<1>4. /\ d.kind = "MEMFS" /\ memfs_write_at(h, o, len, p)
      /\ MovesCursor(p, f, len)
      /\ written' = [written EXCEPT ![entries[h].name] = Overwritten(@, o, len, p)]
  BY <1>2, <1>3, Zenon DEF MemWrite, MovesCursor
<1>5. /\ h \in DOMAIN entries /\ entries[h].in_use
      /\ o \in Nat /\ o <= entries[h].size
  BY <1>1, <1>2, <1>3, <1>4 DEF FdsInv, MemInv, MemCursors, Descriptor
<1>6. /\ DOMAIN entries' = DOMAIN entries
      /\ \E n \in Nat : entries' \in [0..(n - 1) -> GoodEntry]
      /\ \A g \in DOMAIN entries : g # h => entries'[g] = entries[g]
      /\ entries'[h].name = entries[h].name /\ entries'[h].in_use
      /\ entries'[h].size = (IF o + len > entries[h].size THEN o + len ELSE entries[h].size)
      /\ \A i \in 0..(entries'[h].size - 1) :
            entries'[h].data[i] = IF i >= o /\ i < o + len THEN p ELSE entries[h].data[i]
  BY <1>1, <1>4, <1>5, MemEntryWritten
<1>7. PICK z \in Nat : z = entries[h].size /\ o <= z
  BY <1>1, <1>5, EntryFacts DEF MemInv, MemTypes
<1>8. entries[h].name \in Names
  BY <1>1, <1>5, EntryFacts DEF MemInv, MemTypes
<1>9. PICK w \in Seq(Procs) : /\ w = written[entries[h].name]
                              /\ Len(w) = z /\ \A i \in 1..z : entries[h].data[i - 1] = w[i]
  BY <1>1, <1>5, <1>7, <1>8 DEF MemInv, MemTypes, MemContents, Holds
<1>10. PICK y \in Nat : y = IF o + len > z THEN o + len ELSE z
  BY <1>5
<1>11. PICK v : /\ v = Overwritten(w, o, len, p)
                /\ v = [i \in 1..y |-> IF i > o /\ i <= o + len THEN p ELSE w[i]]
  BY <1>9, <1>10 DEF Overwritten
<1>12. \A i \in 1..y : ~ (i > o /\ i <= o + len) => i \in 1..z
  BY <1>5, <1>7, <1>10
<1>13. v \in Seq(Procs) /\ Len(v) = y
  <2>1. \A i \in 1..y : (IF i > o /\ i <= o + len THEN p ELSE w[i]) \in Procs
    BY <1>9, <1>12
  <2>2. v \in [1..y -> Procs]
    BY <1>11, <2>1
  <2> QED
    BY <2>2
<1>14. /\ written' \in [Names -> Seq(Procs)] /\ written'[entries[h].name] = v
       /\ \A m \in Names : m # entries[h].name => written'[m] = written[m]
  <2>1. written' = [written EXCEPT ![entries[h].name] = v]
    BY <1>4, <1>9, <1>11
  <2>2. written \in [Names -> Seq(Procs)]
    BY <1>1 DEF MemInv, MemTypes
  <2> QED
    BY <1>8, <1>13, <2>1, <2>2
<1>15. entries'[h].size = y
  BY <1>6, <1>7, <1>10
<1>16. Holds(entries'[h], v)
  <2>1. ASSUME NEW i \in 1..y
        PROVE  entries'[h].data[i - 1] = v[i]
    <3>1. i - 1 \in 0..(y - 1)
      OBVIOUS
    <3>2. entries'[h].data[i - 1] =
            IF i - 1 >= o /\ i - 1 < o + len THEN p ELSE entries[h].data[i - 1]
      BY <1>6, <1>15, <3>1
    <3>3. (i - 1 >= o /\ i - 1 < o + len) <=> (i > o /\ i <= o + len)
      BY <1>5
    <3>4. ~ (i > o /\ i <= o + len) => entries[h].data[i - 1] = w[i]
      BY <1>9, <1>12
    <3> QED
      BY <1>11, <3>2, <3>3, <3>4
  <2> QED
    BY <1>13, <1>15, <2>1 DEF Holds
<1>17. \A g \in DOMAIN entries : /\ entries'[g].name = entries[g].name
                                 /\ entries'[g].in_use <=> entries[g].in_use
  BY <1>5, <1>6
<1>18. MemTypes'
  BY <1>6, <1>14 DEF MemTypes
<1>19. MemNames'
  BY <1>1, <1>6, <1>17 DEF MemInv, MemNames
<1>20. MemContents'
  <2>1. ASSUME NEW g \in DOMAIN entries, entries'[g].in_use
        PROVE  Holds(entries'[g], written'[entries'[g].name])
    <3>1. CASE g = h
      BY <1>6, <1>14, <1>16, <3>1
    <3>2. CASE g # h
      <4>1. entries'[g] = entries[g] /\ entries[g].in_use
        BY <1>6, <2>1, <3>2
      <4>2. entries[g].name # entries[h].name
        BY <1>1, <1>5, <3>2, <4>1 DEF MemInv, MemNames
      <4>3. entries[g].name \in Names
        BY <1>1, <4>1, EntryFacts DEF MemInv, MemTypes
      <4>4. Holds(entries[g], written[entries[g].name])
        BY <1>1, <4>1 DEF MemInv, MemContents
      <4> QED
        BY <1>14, <4>1, <4>2, <4>3, <4>4
    <3> QED
      BY <3>1, <3>2
  <2> QED
    BY <1>6, <2>1 DEF MemContents
<1>21. /\ fds' \in [Procs -> [Fds -> Descriptor]]
       /\ fds'[p][f].kind = fds[p][f].kind /\ fds'[p][f].handle = h
       /\ fds'[p][f].cursor = o + len
       /\ \A q \in Procs, g \in Fds : <<q, g>> # <<p, f>> => fds'[q][g] = fds[q][g]
  <2>1. /\ fds' \in [Procs -> [Fds -> Descriptor]]
        /\ fds'[p][f].kind = fds[p][f].kind /\ fds'[p][f].handle = fds[p][f].handle
        /\ fds'[p][f].cursor = fds[p][f].cursor + len
        /\ \A q \in Procs, g \in Fds : <<q, g>> # <<p, f>> => fds'[q][g] = fds[q][g]
    BY <1>1, <1>4, CursorMoved DEF FdsInv
  <2> QED
    BY <1>2, <1>3, <2>1
<1>22. ASSUME NEW q \in Procs, NEW g \in Fds, fds'[q][g].kind = "MEMFS"
       PROVE  /\ fds'[q][g].handle \in DOMAIN entries'
              /\ entries'[fds'[q][g].handle].in_use
              /\ fds'[q][g].cursor <= entries'[fds'[q][g].handle].size
  <2>1. CASE <<q, g>> = <<p, f>>
    <3>1. q = p /\ g = f
      BY <2>1
    <3>2. o + len <= y
      BY <1>5, <1>10
    <3> QED
      BY <1>5, <1>6, <1>15, <1>21, <3>1, <3>2
  <2>2. CASE <<q, g>> # <<p, f>>
    <3>1. fds'[q][g] = fds[q][g]
      BY <1>21, <2>2
    <3>2. PICK x : x = fds[q][g].handle
      OBVIOUS
    <3>3. x \in DOMAIN entries /\ entries[x].in_use /\ fds[q][g].cursor <= entries[x].size
      BY <1>1, <1>22, <3>1, <3>2 DEF FdsInv, MemInv, MemCursors
    <3>4. fds[q][g].cursor \in Nat
      BY <1>1 DEF FdsInv, Descriptor
    <3>5. entries'[x].in_use /\ fds[q][g].cursor <= entries'[x].size
      <4>1. CASE x = h
        BY <1>6, <1>7, <1>10, <1>15, <3>3, <3>4, <4>1
      <4>2. CASE x # h
        BY <1>6, <3>3, <4>2
      <4> QED
        BY <4>1, <4>2
    <3> QED
      BY <1>6, <3>1, <3>2, <3>3, <3>5
  <2> QED
    BY <2>1, <2>2
<1>23. MemCursors'
  BY <1>22 DEF MemCursors
<1>24. FdsInv'
  <2>1. ASSUME NEW q \in Procs, NEW g \in Fds, fds'[q][g].kind = "UFS"
        PROVE  fds'[q][g].handle \in UfsSlots
    BY <1>1, <1>2, <1>4, <1>21, <2>1 DEF FdsInv
  <2> QED
    BY <1>21, <1>22, <2>1 DEF FdsInv
<1> QED
  BY <1>18, <1>19, <1>20, <1>23, <1>24 DEF MemInv

(* A step that leaves memfs and the descriptors alone. *)
LEMMA MemSame ==
    ASSUME Inv, UNCHANGED <<entries, written, fds>>
    PROVE  MemInv' /\ FdsInv'
<1>1. MemInv /\ FdsInv /\ fds \in [Procs -> [Fds -> Descriptor]]
  BY DEF Inv, FdsInv
<1>2. entries' = entries /\ written' = written /\ fds' = fds
  OBVIOUS
<1> QED
  BY <1>1, <1>2, MemUntouched

(* fd_open of a UFS file. *)
LEMMA UfsOpenKeeps ==
    ASSUME Inv, NEW p \in Procs, NEW s \in UfsSlots, sched_fd_open(p, "UFS", s),
           UNCHANGED <<entries, written>>
    PROVE  MemInv' /\ FdsInv'
<1>1. MemInv /\ FdsInv /\ fds \in [Procs -> [Fds -> Descriptor]] /\ s \in Nat
  BY DEF Inv, FdsInv, UfsSlots
<1>2. /\ fds' \in [Procs -> [Fds -> Descriptor]]
      /\ \A q \in Procs, f \in Fds :
            \/ fds'[q][f] = fds[q][f]
            \/ /\ fds'[q][f].kind = "UFS" /\ fds'[q][f].handle = s
               /\ fds'[q][f].cursor = 0
  BY <1>1, FdOpened
<1> QED
  BY <1>1, <1>2, MemUntouched

(* A read, or a write to a UFS file, moves a cursor. *)
LEMMA CursorKeeps ==
    ASSUME Inv, NEW p \in Procs, NEW f \in Fds, NEW n \in Nat,
           MovesCursor(p, f, n), UNCHANGED <<entries, written>>,
           \/ fds[p][f].kind = "UFS"
           \/ /\ fds[p][f].kind = "MEMFS"
              /\ fds[p][f].cursor + n <= entries[fds[p][f].handle].size
    PROVE  MemInv' /\ FdsInv'
<1>1. MemInv /\ FdsInv /\ fds \in [Procs -> [Fds -> Descriptor]]
  BY DEF Inv, FdsInv
<1>2. /\ fds' \in [Procs -> [Fds -> Descriptor]]
      /\ fds'[p][f].kind = fds[p][f].kind /\ fds'[p][f].handle = fds[p][f].handle
      /\ fds'[p][f].cursor = fds[p][f].cursor + n
      /\ \A q \in Procs, g \in Fds : <<q, g>> # <<p, f>> => fds'[q][g] = fds[q][g]
  BY <1>1, CursorMoved
<1>3. /\ fds[p][f].kind = "UFS" => fds[p][f].handle \in UfsSlots
      /\ fds[p][f].kind = "MEMFS" => /\ fds[p][f].handle \in DOMAIN entries
                                     /\ entries[fds[p][f].handle].in_use
  BY <1>1 DEF FdsInv, MemInv, MemCursors
<1>4. ASSUME NEW q \in Procs, NEW g \in Fds
      PROVE  \/ fds'[q][g] = fds[q][g]
             \/ fds'[q][g].kind = "UFS" /\ fds'[q][g].handle \in UfsSlots
             \/ /\ fds'[q][g].kind = "MEMFS" /\ fds'[q][g].handle \in DOMAIN entries
                /\ entries[fds'[q][g].handle].in_use
                /\ fds'[q][g].cursor <= entries[fds'[q][g].handle].size
  <2>1. CASE <<q, g>> # <<p, f>>
    BY <1>2, <2>1
  <2>2. CASE q = p /\ g = f
    BY <1>2, <1>3, <2>2
  <2> QED
    BY <2>1, <2>2
<1>5. entries' = entries /\ written' = written
  OBVIOUS
<1> QED
  BY <1>1, <1>2, <1>4, <1>5, MemUntouched

(* The reads, and the write to a UFS file. *)
LEMMA ReadsKeep ==
    ASSUME Inv, NEW p \in Procs, NEW f \in Fds, NEW len \in Nat,
           UfsRead(p, f, len) \/ UfsWrite(p, f, len) \/ MemRead(p, f, len)
    PROVE  MemInv' /\ FdsInv'
<1>1. PICK d \in Descriptor : d = fds[p][f]
  BY DEF Inv, FdsInv
<1>2. CASE UfsRead(p, f, len)
  <2>1. PICK got : /\ got = ufs_read_at(d.handle, d.cursor, len)
                   /\ MovesCursor(p, f, Cardinality(DOMAIN got))
    BY <1>1, <1>2, Zenon DEF UfsRead, MovesCursor
  <2>2. d.kind = "UFS" /\ UNCHANGED <<entries, written>>
    BY <1>1, <1>2 DEF UfsRead
  <2>3. d.handle \in UfsSlots /\ d.cursor \in Nat
    BY <1>1, <2>2 DEF Inv, FdsInv, Descriptor
  <2>4. PICK z \in Nat : z = directory[d.handle].size
    BY <2>3, UfsNumbers DEF Inv, UfsInv, UfsTypes
  <2>5. PICK n \in Nat : n = Available(z, d.cursor, len)
    BY <2>3 DEF Available
  <2>6. DOMAIN got = 0..(n - 1)
    BY <2>1, <2>4, <2>5 DEF ufs_read_at
  <2>7. Cardinality(DOMAIN got) = n
    BY <2>6, FS_Interval
  <2>8. MovesCursor(p, f, n)
    BY <2>1, <2>7, Zenon
  <2> QED
    BY <1>1, <2>2, <2>8, CursorKeeps
<1>3. CASE UfsWrite(p, f, len)
  <2>1. /\ fds[p][f].kind = "UFS" /\ UNCHANGED <<entries, written>>
        /\ MovesCursor(p, f, len)
    BY <1>3, Zenon DEF UfsWrite, MovesCursor
  <2> QED
    BY <2>1, CursorKeeps
<1>4. CASE MemRead(p, f, len)
  <2>1. PICK n : /\ n = Available(entries[d.handle].size, d.cursor, len)
                 /\ MovesCursor(p, f, n)
    BY <1>1, <1>4, Zenon DEF MemRead, MovesCursor
  <2>2. d.kind = "MEMFS" /\ UNCHANGED <<entries, written>>
    BY <1>1, <1>4 DEF MemRead
  <2>3. /\ d.handle \in DOMAIN entries /\ d.cursor \in Nat
        /\ d.cursor <= entries[d.handle].size
    BY <1>1, <2>2 DEF Inv, FdsInv, MemInv, MemCursors, Descriptor
  <2>4. PICK z \in Nat : z = entries[d.handle].size
    BY <2>3, EntryFacts DEF Inv, MemInv, MemTypes
  <2>5. n \in Nat /\ d.cursor + n <= z
    BY <2>1, <2>3, <2>4 DEF Available
  <2>6. fds[p][f].kind = "MEMFS" /\ fds[p][f].cursor + n <= entries[fds[p][f].handle].size
    BY <1>1, <2>2, <2>4, <2>5
  <2> QED
    BY <2>1, <2>2, <2>5, <2>6, CursorKeeps
<1> QED
  BY <1>2, <1>3, <1>4

(* fd_close *)
LEMMA CloseKeeps ==
    ASSUME Inv, NEW p \in Procs, NEW f \in Fds, fd_close(p, f)
    PROVE  MemInv' /\ FdsInv'
<1>1. MemInv /\ FdsInv /\ fds \in [Procs -> [Fds -> Descriptor]]
  BY DEF Inv, FdsInv
<1>2. entries' = entries /\ written' = written /\ fds' = [fds EXCEPT ![p][f] = Unused]
  BY DEF fd_close
<1>3. PICK d \in Descriptor : d = Unused /\ d.kind = "UNUSED"
  <2>1. Unused \in Descriptor
    BY DEF Unused, Descriptor
  <2>2. Unused.kind = "UNUSED"
    BY DEF Unused
  <2> QED
    BY <2>1, <2>2
<1>4. /\ fds' \in [Procs -> [Fds -> Descriptor]]
      /\ \A q \in Procs, g \in Fds : fds'[q][g] = fds[q][g] \/ fds'[q][g] = d
  BY <1>1, <1>2, <1>3
<1> QED
  BY <1>1, <1>2, <1>3, <1>4, MemUntouched

(* The system calls keep memfs files as they were written. *)
LEMMA CallsKeepMemory ==
    ASSUME Inv, NEW p \in Procs, syscall_handler(p)
    PROVE  MemInv' /\ FdsInv'
<1>1. /\ \A name \in mix.names : name \in Names
      /\ \A len \in mix.lens : len \in Nat
  BY UsersAssumption DEF Inv, Rest
<1>2. PICK kind \in mix.kinds : Call(p, kind)
  BY DEF syscall_handler
<1>3. UfsInv /\ uid[p] \in Nat
  BY DEF Inv, Rest
<1>4. CASE UfsOpen(p)
  <2>1. PICK name \in mix.names :
           OpenCreates(p, name) \/ OpenFinds(p, name) \/ OpenTruncates(p, name)
    BY <1>4 DEF UfsOpen
  <2>2. CASE OpenCreates(p, name)
    <3>1. Lowest(FreeEntries) \in UfsSlots
      BY <1>1, <1>3, <2>2, CreateEffect DEF OpenCreates
    <3> QED
      BY <2>2, <3>1, UfsOpenKeeps DEF OpenCreates
  <2>3. CASE OpenFinds(p, name) \/ OpenTruncates(p, name)
    <3>1. /\ \E s \in ufs_find(name) : sched_fd_open(p, "UFS", s)
          /\ UNCHANGED <<entries, written>>
      BY <2>3 DEF OpenFinds, OpenTruncates
    <3> QED
      BY <1>1, <3>1, FoundIsLive, UfsOpenKeeps
  <2> QED
    BY <2>1, <2>2, <2>3
<1>5. CASE \E f \in Fds, len \in mix.lens :
              UfsRead(p, f, len) \/ UfsWrite(p, f, len) \/ MemRead(p, f, len)
  BY <1>1, <1>5, ReadsKeep
<1>6. CASE MemOpen(p)
  <2>1. PICK name \in mix.names :
           MemOpenFinds(p, name) \/ MemOpenCreates(p, name) \/ MemOpenFails(p, name)
    BY <1>6 DEF MemOpen
  <2> QED
    BY <1>1, <2>1, MemFindKeeps, MemCreateKeeps, MemFailKeeps
<1>7. CASE \E f \in Fds, len \in mix.lens : MemWrite(p, f, len)
  BY <1>1, <1>7, MemWriteKeeps
<1>8. CASE \E f \in Fds : fd_close(p, f)
  BY <1>8, CloseKeeps
<1>9. CASE UNCHANGED <<entries, written, fds>>
  BY <1>9, MemSame
<1>10. CASE \/ \E name \in mix.names : SYS_REMOVE(p, name)
            \/ \E name \in mix.names, perm \in Perms : SYS_CHMOD(p, name, perm)
            \/ SYS_LOGIN(p)
            \/ SYS_ADDUSER(p)
  BY <1>9, <1>10 DEF SYS_REMOVE, SYS_CHMOD, SYS_LOGIN, SYS_ADDUSER
<1> QED
  BY <1>2, <1>4, <1>5, <1>6, <1>7, <1>8, <1>10, Zenon DEF Call

(***************************************************************************)
(* Part 10.  The invariant holds, and what follows                         *)
(***************************************************************************)

(* Memfs and the descriptors after the power comes on. *)
LEMMA MemEmpty ==
    ASSUME entries = kmalloc(0), written = [n \in Names |-> <<>>],
           fds = [p \in Procs |-> [f \in Fds |-> Unused]]
    PROVE  MemInv /\ FdsInv
<1>1. /\ DOMAIN entries = {} /\ entries \in [0..(0 - 1) -> GoodEntry] /\ 0 \in Nat
  BY DEF kmalloc
<1>2. written \in [Names -> Seq(Procs)]
  OBVIOUS
<1>3. Unused \in Descriptor /\ Unused.kind = "UNUSED"
  BY DEF Unused, Descriptor
<1>4. /\ fds \in [Procs -> [Fds -> Descriptor]]
      /\ \A p \in Procs, f \in Fds : fds[p][f].kind = "UNUSED"
  BY <1>3
<1>5. MemTypes
  <2>1. \E n \in Nat : entries \in [0..(n - 1) -> GoodEntry]
    BY <1>1
  <2> QED
    BY <1>2, <2>1 DEF MemTypes
<1>6. MemNames /\ MemContents
  BY <1>1 DEF MemNames, MemContents
<1>7. MemCursors /\ FdsInv
  BY <1>4 DEF MemCursors, FdsInv
<1> QED
  BY <1>5, <1>6, <1>7 DEF MemInv

(* The same, of the next state. *)
LEMMA MemEmptied ==
    ASSUME entries' = kmalloc(0), written' = [n \in Names |-> <<>>],
           fds' = [p \in Procs |-> [f \in Fds |-> Unused]]
    PROVE  MemInv' /\ FdsInv'
<1>1. /\ DOMAIN entries' = {} /\ entries' \in [0..(0 - 1) -> GoodEntry] /\ 0 \in Nat
  BY DEF kmalloc
<1>2. written' \in [Names -> Seq(Procs)]
  OBVIOUS
<1>3. Unused \in Descriptor /\ Unused.kind = "UNUSED"
  BY DEF Unused, Descriptor
<1>4. /\ fds' \in [Procs -> [Fds -> Descriptor]]
      /\ \A p \in Procs, f \in Fds : fds'[p][f].kind = "UNUSED"
  BY <1>3
<1>5. MemTypes'
  <2>1. \E n \in Nat : entries' \in [0..(n - 1) -> GoodEntry]
    BY <1>1
  <2> QED
    BY <1>2, <2>1 DEF MemTypes
<1>6. MemNames' /\ MemContents'
  BY <1>1 DEF MemNames, MemContents
<1>7. MemCursors' /\ FdsInv'
  BY <1>4 DEF MemCursors, FdsInv
<1> QED
  BY <1>5, <1>6, <1>7 DEF MemInv

(* The invariant holds when the disk is new. *)
LEMMA UsersInitInv == Init => Inv
<1> SUFFICES ASSUME Init
             PROVE  Inv
  OBVIOUS
<1>1. /\ directory = [s \in UfsSlots |-> NoEntry] /\ next_free_lba = UFS_DATA_LBA
      /\ data = [a \in DataBytes |-> Nobody] /\ inc = [s \in UfsSlots |-> 0] /\ incs = 0
      /\ stray = NoStray
  BY DEF Init
<1>2. NoEntry \in DirEntry /\ NoEntry.name = NoName
  BY UfsNumbers DEF NoEntry, DirEntry, Perms
<1>3. LiveFiles = {} /\ \A s \in UfsSlots : directory[s].name = NoName
  BY <1>1, <1>2 DEF LiveFiles, handle_valid
<1>4. stray.hollow = {} /\ stray.mixed = {} /\ stray.reach = 0
  BY <1>1 DEF NoStray
<1>5. UfsTypes
  BY <1>1, <1>2, <1>4, UfsNumbers DEF UfsTypes
<1>6. OwnBytes
  BY <1>1, <1>3 DEF OwnBytes, Nobody
<1>7. UfsInv
  BY <1>3, <1>5, <1>6 DEF UfsInv, UniqueNames, Extents, Fitting
<1>8. MemInv /\ FdsInv
  BY MemEmpty DEF Init
<1>9. AccInv
  <2>1. ufs_find(PASSWD_FILE) = {} /\ PasswdFound = {}
    BY <1>3, FilesAssumption DEF ufs_find, PasswdFound
  <2> QED
    BY <2>1, FirstAccounts DEF AccInv, Init
<1>10. Rest /\ NoLeak
  BY UsersAssumption DEF Rest, NoLeak, Init
<1> QED
  BY <1>7, <1>8, <1>9, <1>10 DEF Inv

(* The bounds and the program counter of the kernel stay in their ranges. *)
LEMMA RestKept ==
    ASSUME Inv, Next
    PROVE  Rest'
<1>1. Rest
  BY DEF Inv
<1>2. CASE persist
  BY <1>1, <1>2 DEF persist, PersistCreates, PersistTruncates, PersistChmods, PersistWrites, Rest
<1>3. CASE users_init
  BY <1>1, <1>3 DEF users_init, Rest
<1>4. CASE PowerLoss
  <2>1. losses' \in 0..MaxPowerLosses
    BY <1>1, <1>4, UsersAssumption DEF PowerLoss, Rest
  <2>2. uid' \in [Procs -> Nat] /\ pc' = "off" /\ mix' = mix /\ calls' = calls
    BY <1>4 DEF PowerLoss
  <2> QED
    BY <1>1, <2>1, <2>2 DEF Rest
<1>5. ASSUME NEW p \in Procs, syscall_handler(p)
      PROVE  Rest'
  <2>1. PICK m \in Nat : m = mix.max
    BY <1>1, UsersAssumption DEF Rest
  <2>2. calls' \in 0..mix'.max /\ mix' = mix /\ losses' = losses
    BY <1>1, <1>5, <2>1 DEF syscall_handler, Rest
  <2>3. PICK kind \in mix.kinds : Call(p, kind)
    BY <1>5 DEF syscall_handler
  <2>4. pc' \in {"run", "open"}
    <3>1. pc = "run"
      BY <1>5 DEF syscall_handler
    <3>2. pc' = pc \/ pc' = "open"
      <4>1. CASE Stays \/ SYS_LOGIN(p)
        BY <4>1 DEF Stays, SYS_LOGIN
      <4>2. CASE SYS_ADDUSER(p)
        BY <4>2 DEF SYS_ADDUSER, users_add
      <4>3. Stays \/ SYS_LOGIN(p) \/ SYS_ADDUSER(p)
        BY <2>3, Zenon DEF Call, UfsOpen, MemOpen
      <4> QED
        BY <4>1, <4>2, <4>3
    <3> QED
      BY <3>1, <3>2
  <2>5. uid' \in [Procs -> Nat]
    <3>1. CASE SYS_LOGIN(p)
      <4>1. PICK name \in Logins, password \in Passwords :
               \E i \in users_authenticate(name, password) :
                  uid' = [uid EXCEPT ![p] = accounts[i].uid]
        BY <3>1 DEF SYS_LOGIN
      <4>2. PICK i \in Slots : uid' = [uid EXCEPT ![p] = accounts[i].uid]
        BY <4>1 DEF users_authenticate
      <4>3. accounts[i].uid \in Nat
        BY DEF Inv, AccInv, AccountTable
      <4> QED
        BY <1>1, <4>2, <4>3 DEF Rest
    <3>2. CASE uid' = uid
      BY <1>1, <3>2 DEF Rest
    <3>3. uid' = uid \/ SYS_LOGIN(p)
      BY <2>3, Zenon DEF Call, UfsOpen, OpenCreates, OpenFinds, OpenTruncates, UfsRead,
         UfsWrite, MemOpen, MemOpenFinds, MemOpenCreates, MemOpenFails, MemRead, MemWrite,
         fd_close, SYS_REMOVE, SYS_CHMOD, SYS_ADDUSER
    <3> QED
      BY <3>1, <3>2, <3>3
  <2> QED
    BY <1>1, <2>2, <2>4, <2>5 DEF Rest
<1> QED
  BY <1>2, <1>3, <1>4, <1>5 DEF Next

(* Every step keeps the invariant. *)
LEMMA UsersNextInv == Inv /\ [Next]_vars => Inv'
<1> SUFFICES ASSUME Inv, [Next]_vars
             PROVE  Inv'
  OBVIOUS
<1>1. CASE persist
  <2>1. UNCHANGED <<entries, written, fds>> /\ leaks' = leaks
    BY <1>1 DEF persist, PersistCreates, PersistTruncates, PersistChmods, PersistWrites
  <2>2. MemInv' /\ FdsInv'
    BY <2>1, MemSame
  <2>3. UfsInv' /\ AccInv'
    BY <1>1, PersistEmpties, PersistCompletes DEF persist
  <2>4. NoLeak'
    BY <2>1 DEF Inv, NoLeak
  <2>5. Rest'
    BY <1>1, RestKept DEF Next
  <2> QED
    BY <2>2, <2>3, <2>4, <2>5 DEF Inv
<1>2. CASE users_init
  <2>1. UNCHANGED <<entries, written, fds>> /\ leaks' = leaks
    BY <1>2 DEF users_init
  <2>2. MemInv' /\ FdsInv'
    BY <2>1, MemSame
  <2>3. UfsInv' /\ AccInv'
    BY <1>2, PowerKeepsAccounts
  <2>4. NoLeak'
    BY <2>1 DEF Inv, NoLeak
  <2>5. Rest'
    BY <1>2, RestKept DEF Next
  <2> QED
    BY <2>2, <2>3, <2>4, <2>5 DEF Inv
<1>3. CASE PowerLoss
  <2>1. MemInv' /\ FdsInv'
    BY <1>3, MemEmptied DEF PowerLoss
  <2>2. UfsInv' /\ AccInv'
    BY <1>3, PowerKeepsAccounts
  <2>3. NoLeak'
    BY <1>3 DEF PowerLoss, Inv, NoLeak
  <2>4. Rest'
    BY <1>3, RestKept DEF Next
  <2> QED
    BY <2>1, <2>2, <2>3, <2>4 DEF Inv
<1>4. ASSUME NEW p \in Procs, syscall_handler(p)
      PROVE  Inv'
  <2>1. UfsInv'
    BY <1>4, CallsByRight DEF ByRight
  <2>2. Rest'
    BY <1>4, RestKept DEF Next
  <2> QED
    BY <1>4, <2>1, <2>2, CallsKeepMemory, CallsKeepAccounts, CallsLeakNothing DEF Inv
<1>5. CASE UNCHANGED vars
  <2>1. /\ UNCHANGED <<entries, written, fds>> /\ UfsStays
        /\ UNCHANGED <<uid, leaks, accounts, pc, acked, mix, calls, losses>>
    BY <1>5 DEF vars, fileVars, UfsStays
  <2>2. MemInv' /\ FdsInv'
    BY <2>1, MemSame
  <2>3. UfsInv'
    BY <2>1, UfsUntouched DEF Inv, ByRight
  <2>4. /\ ufs_find(PASSWD_FILE)' = ufs_find(PASSWD_FILE)
        /\ PasswdFound' = PasswdFound
        /\ \A s : Loaded(s)' = Loaded(s)
    BY <2>1 DEF ufs_find, PasswdFound, Loaded, ufs_read_at, UfsStays
  <2>5. AccInv'
    BY <2>1, <2>4 DEF Inv, AccInv, UfsStays
  <2>6. NoLeak' /\ Rest'
    BY <2>1 DEF Inv, NoLeak, Rest
  <2> QED
    BY <2>2, <2>3, <2>5, <2>6 DEF Inv
<1> QED
  BY <1>1, <1>2, <1>3, <1>4, <1>5 DEF Next

(* The inductive invariant of the file systems and the accounts holds in    *)
(* every reachable state.                                                   *)
THEOREM UsersInvariant == Spec => []Inv
<1> QED
  BY UsersInitInv, UsersNextInv, PTL DEF Spec

(* ExtentHoldsFile for every number of files and sectors: extents that      *)
(* ensure_capacity hands out never overlap, and files fit them.             *)
THEOREM ExtentsNeverOverlap == Spec => []ExtentHoldsFile
<1>1. Inv => ExtentHoldsFile
  BY ExtentsHoldFiles DEF Inv
<1> QED
  BY <1>1, UsersInvariant, PTL

(* NoLeak: no descriptor, however old, reads a byte of a file that its      *)
(* holder may not read at that moment (fd_read repeats the check).          *)
THEOREM NoByteLeaks == Spec => []NoLeak
<1>1. Inv => NoLeak
  BY DEF Inv
<1> QED
  BY <1>1, UsersInvariant, PTL

(* MemfsAsWritten: a memfs file holds what was written to it, however often *)
(* its buffer and the table have grown.                                     *)
THEOREM MemfsHoldsWhatWasWritten == Spec => []MemfsAsWritten
<1>1. Inv => MemfsAsWritten
  BY DEF Inv, MemInv, MemContents, MemCursors, Holds, MemfsAsWritten
<1> QED
  BY <1>1, UsersInvariant, PTL

(* AccountsSurvive: after any number of additions, restarts and power       *)
(* losses the accounts are the acknowledged ones or the two defaults.       *)
THEOREM AccountsAlwaysSurvive == Spec => []AccountsSurvive
<1>1. ASSUME Inv
      PROVE  AccountsSurvive
  <2>1. UfsInv /\ FdsInv /\ MemInv /\ AccInv /\ Rest
    BY <1>1 DEF Inv
  <2>2. PICK n \in Nat : entries \in [0..(n - 1) -> GoodEntry]
    BY <2>1 DEF MemInv, MemTypes
  <2>3. DOMAIN entries = 0..(entry_capacity - 1)
    <3>1. entry_capacity = n
      BY <2>2, FS_Interval DEF entry_capacity
    <3> QED
      BY <2>2, <3>1
  <2>4. ASSUME NEW h \in DOMAIN entries
        PROVE  /\ entries[h].name \in Names \cup {NoName}
               /\ entries[h].size \in 0..capacity(entries[h])
    <3>1. PICK e \in GoodEntry : e = entries[h]
      BY <2>2
    <3>2. PICK m \in Nat, z \in Nat : m = capacity(e) /\ z = e.size /\ z <= m
      BY EntryFacts
    <3>3. e.name \in Names \cup {NoName}
      BY EntryFacts
    <3> QED
      BY <3>1, <3>2, <3>3
  <2>5. FilesTypeOK
    BY <2>1, <2>3, <2>4 DEF FilesTypeOK, UfsInv, UfsTypes, DirEntry, FdsInv, Descriptor, Rest
  <2>6. TypeOK
    BY <2>1, <2>5 DEF TypeOK, AccInv, AccountTable, Rest
  <2>7. CASE pc = "run"
    <3>1. PasswdFound # {} /\ accounts = acked
      BY <2>1, <2>7 DEF AccInv
    <3>2. PasswdFound \in SUBSET Nat
      BY DEF PasswdFound, ufs_find, UfsSlots
    <3>3. Lowest(PasswdFound) \in PasswdFound
      BY <3>1, <3>2, LowestIs
    <3> QED
      BY <2>1, <2>6, <3>1, <3>3 DEF AccInv, AccountsSurvive
  <2> QED
    BY <2>6, <2>7 DEF AccountsSurvive
<1> QED
  BY <1>1, UsersInvariant, PTL

(* FilesChangeByRight: no call of a program changes or removes a file that  *)
(* the program neither owns nor may write to at that moment.                *)
THEOREM FilesOnlyChangeByRight == Spec => FilesChangeByRight
<1> DEFINE Right == actor' \in Procs =>
              \A s \in {t \in UfsSlots \ FreeEntries : inc[t] \notin stray.hollow} :
                  LET stays == inc'[s] = inc[s] /\ directory'[s].name = directory[s].name
                  IN  \/ stays /\ Content(s)' = Content(s)
                      \/ IsOwner(actor', s)
                      \/ stays /\ "OTHER_WRITE" \in ufs_perm(s)
<1>1. ASSUME Inv, [Next]_vars
      PROVE  [Right]_fileVars
  <2>1. CASE UNCHANGED vars
    BY <2>1 DEF vars
  <2>2. CASE persist \/ users_init \/ PowerLoss
    <3>1. actor' \notin Procs
      BY <2>2, FilesAssumption DEF persist, PersistCreates, PersistTruncates, PersistChmods,
                                   PersistWrites, users_init, PowerLoss
    <3> QED
      BY <3>1
  <2>3. ASSUME NEW p \in Procs, syscall_handler(p)
        PROVE  Right
    <3>1. actor' = p /\ ByRight(p) /\ UfsInv
      BY <1>1, <2>3, CallsByRight DEF syscall_handler, Inv
    <3>2. ASSUME NEW s \in UfsSlots \ FreeEntries, inc[s] \notin stray.hollow
          PROVE  \/ /\ inc'[s] = inc[s] /\ directory'[s].name = directory[s].name
                    /\ Content(s)' = Content(s)
                 \/ IsOwner(p, s)
                 \/ /\ inc'[s] = inc[s] /\ directory'[s].name = directory[s].name
                    /\ "OTHER_WRITE" \in ufs_perm(s)
      <4>1. s \in LiveFiles
        BY DEF LiveFiles, FreeEntries
      <4>2. CASE Touched(p, s)
        BY <4>2 DEF Touched
      <4>3. CASE Spared(s)
        <5>1. directory[s].size <= Sec(directory[s].cap)
          BY <3>1, <3>2, <4>1 DEF UfsInv, Fitting
        <5>2. PICK z \in Nat : z = directory[s].size /\ 0 \in Nat
          BY <3>1, <4>1, UfsNumbers DEF UfsInv, UfsTypes, LiveFiles
        <5>3. ufs_read_at(s, 0, z)' = ufs_read_at(s, 0, z)
          BY <3>1, <4>1, <4>3, <5>1, <5>2, SparedReads
        <5>4. directory'[s] = directory[s] /\ inc'[s] = inc[s]
          BY <4>3 DEF Spared
        <5>5. Content(s)' = Content(s)
          BY <5>2, <5>3, <5>4 DEF Content, ufs_read_at
        <5> QED
          BY <5>4, <5>5
      <4> QED
        BY <3>1, <4>1, <4>2, <4>3 DEF ByRight
    <3> QED
      BY <3>1, <3>2
  <2> QED
    BY <1>1, <2>1, <2>2, <2>3 DEF Next
<1>2. FilesChangeByRight <=> [][Right]_fileVars
  BY DEF FilesChangeByRight
<1> HIDE DEF Right
<1> QED
  BY <1>1, <1>2, UsersInvariant, PTL DEF Spec

(***************************************************************************)
(* Part 11.  The listing                                                   *)
(***************************************************************************)

(* How many slots of S come before x *)
Rank(S, x) == Cardinality({t \in S : t < x})

(* The slots of a finite set are numbered from 0, in order and without      *)
(* gaps.                                                                    *)
LEMMA Ranks ==
    ASSUME NEW S \in SUBSET Nat, IsFiniteSet(S)
    PROVE  /\ Cardinality(S) \in Nat
           /\ \A x \in S : Rank(S, x) \in 0..(Cardinality(S) - 1)
           /\ \A x, y \in S : x < y <=> Rank(S, x) < Rank(S, y)
           /\ \A x, y \in S : Rank(S, x) = Rank(S, y) => x = y
           /\ \A k \in 0..(Cardinality(S) - 1) : \E x \in S : Rank(S, x) = k
<1> DEFINE Below(x) == {t \in S : t < x}
<1>1. PICK c \in Nat : c = Cardinality(S)
  BY FS_CardinalityType
<1>2. ASSUME NEW x \in S
      PROVE  IsFiniteSet(Below(x)) /\ Rank(S, x) \in 0..(c - 1)
  <2>1. Below(x) \in SUBSET (S \ {x})
    OBVIOUS
  <2>2. IsFiniteSet(S \ {x}) /\ Cardinality(S \ {x}) = c - 1
    BY <1>1, FS_RemoveElement
  <2>3. IsFiniteSet(Below(x)) /\ Cardinality(Below(x)) <= c - 1
    BY <2>1, <2>2, FS_Subset
  <2>4. Cardinality(Below(x)) \in Nat
    BY <2>3, FS_CardinalityType
  <2> QED
    BY <1>1, <2>3, <2>4 DEF Rank
<1>3. ASSUME NEW x \in S
      PROVE  Rank(S, x) \in Nat
  <2>1. Rank(S, x) \in 0..(c - 1)
    BY <1>2
  <2> QED
    BY <2>1
<1>4. ASSUME NEW x \in S, NEW y \in S, x < y
      PROVE  Rank(S, x) < Rank(S, y)
  <2>1. Below(x) \in SUBSET (Below(y) \ {x}) /\ x \in Below(y)
    <3>1. \A t \in Below(x) : t < y /\ t # x
      <4>1. SUFFICES ASSUME NEW t \in Nat, t < x PROVE t < y /\ t # x
        OBVIOUS
      <4>2. x \in Nat /\ y \in Nat
        OBVIOUS
      <4> QED
        BY <1>4, <4>1, <4>2
    <3> QED
      BY <1>4, <3>1
  <2>2. IsFiniteSet(Below(y) \ {x}) /\ Cardinality(Below(y) \ {x}) = Rank(S, y) - 1
    BY <1>2, <2>1, FS_RemoveElement DEF Rank
  <2>3. Rank(S, x) <= Rank(S, y) - 1
    BY <2>1, <2>2, FS_Subset DEF Rank
  <2>4. Rank(S, x) \in Nat /\ Rank(S, y) \in Nat
    BY <1>3
  <2> QED
    BY <2>3, <2>4
<1>5. \A x, y \in S : x < y \/ x = y \/ y < x
  OBVIOUS
<1>6. \A x, y \in S : Rank(S, x) = Rank(S, y) => x = y
  <2> SUFFICES ASSUME NEW x \in S, NEW y \in S, Rank(S, x) = Rank(S, y) PROVE x = y
    OBVIOUS
  <2> QED
    BY <1>4, <1>5, <1>3
<1>7. \A x, y \in S : x < y <=> Rank(S, x) < Rank(S, y)
  <2> SUFFICES ASSUME NEW x \in S, NEW y \in S PROVE x < y <=> Rank(S, x) < Rank(S, y)
    OBVIOUS
  <2> QED
    BY <1>4, <1>5, <1>3
<1>8. ASSUME NEW k \in 0..(c - 1)
      PROVE  \E x \in S : Rank(S, x) = k
  <2> DEFINE f == [x \in S |-> Rank(S, x)]
  <2>1. f \in [S -> 0..(c - 1)]
    BY <1>2
  <2>2. f \in Injection(S, 0..(c - 1))
    BY <2>1, <1>6 DEF Injection, IsInjective
  <2>3. IsFiniteSet(0..(c - 1)) /\ Cardinality(0..(c - 1)) = c
    BY <1>1, FS_Interval
  <2>4. f \in Surjection(S, 0..(c - 1))
    <3> HIDE DEF f
    <3> QED
      BY <1>1, <2>2, <2>3, FS_Injection
  <2> QED
    BY <2>4 DEF Surjection
<1> QED
  BY <1>1, <1>2, <1>6, <1>7, <1>8

(* Of the slots with rank n or more the lowest has rank n.                  *)
LEMMA LowestOfRank ==
    ASSUME NEW S \in SUBSET Nat, IsFiniteSet(S), NEW n \in Nat
    PROVE  LET R == {x \in S : Rank(S, x) >= n}
           IN  /\ R = {} <=> n >= Cardinality(S)
               /\ R # {} => /\ Lowest(R) \in S /\ Rank(S, Lowest(R)) = n
                            /\ {x \in S : x > Lowest(R)} = {x \in S : Rank(S, x) >= n + 1}
<1> DEFINE R == {x \in S : Rank(S, x) >= n}
<1>0. PICK c \in Nat : c = Cardinality(S)
  BY FS_CardinalityType
<1>1. /\ \A x \in S : Rank(S, x) \in 0..(c - 1)
      /\ \A x, y \in S : x < y <=> Rank(S, x) < Rank(S, y)
      /\ \A x, y \in S : Rank(S, x) = Rank(S, y) => x = y
      /\ \A k \in 0..(c - 1) : \E x \in S : Rank(S, x) = k
  BY <1>0, Ranks
<1>2. ASSUME n < c PROVE \E x \in R : Rank(S, x) = n
  <2>1. n \in 0..(c - 1)
    BY <1>1, <1>2
  <2>2. PICK x \in S : Rank(S, x) = n
    BY <1>1, <2>1
  <2> QED
    BY <2>2
<1>3. ASSUME n >= c PROVE R = {}
  <2>1. ASSUME NEW x \in S PROVE ~ (Rank(S, x) >= n)
    <3>1. Rank(S, x) \in 0..(c - 1)
      BY <1>1
    <3> QED
      BY <1>3, <3>1
  <2> QED
    BY <2>1
<1>4. R = {} <=> n >= c
  BY <1>1, <1>2, <1>3
<1>5. ASSUME R # {}
      PROVE  /\ Lowest(R) \in S /\ Rank(S, Lowest(R)) = n
             /\ {x \in S : x > Lowest(R)} = {x \in S : Rank(S, x) >= n + 1}
  <2> DEFINE m == Lowest(R)
  <2>1. R \in SUBSET Nat
    OBVIOUS
  <2>2. m \in R /\ \A y \in R : m <= y
    BY <1>5, <2>1, LowestIs
  <2>3. n < c
    BY <1>1, <1>4, <1>5
  <2>4. PICK x \in R : Rank(S, x) = n
    BY <1>2, <2>3
  <2> HIDE DEF m
  <2>5. m = x
    <3>1. m \in S /\ x \in S /\ m <= x /\ Rank(S, m) >= Rank(S, x)
      BY <2>2, <2>4
    <3>2. ~ (m < x)
      BY <1>1, <3>1
    <3> QED
      BY <3>1, <3>2
  <2>6. m \in S /\ Rank(S, m) = n
    BY <2>2, <2>4, <2>5
  <2>7. ASSUME NEW y \in S
        PROVE  y > m <=> Rank(S, y) >= n + 1
    <3>1. m < y <=> Rank(S, m) < Rank(S, y)
      BY <1>1, <2>6
    <3>2. Rank(S, y) \in Nat
      BY <1>1
    <3> QED
      BY <2>6, <3>1, <3>2
  <2> QED
    BY <2>6, <2>7 DEF m
<1> QED
  BY <1>0, <1>4, <1>5

(* The slots of memfs and of UFS that hold a file *)
MemFiles == {h \in DOMAIN entries : entries[h].in_use}

(* memfs_next, started before the first slot and repeated k times, reaches  *)
(* the file with k files before it.                                         *)
LEMMA ListsMemfs ==
    ASSUME MemInv, NEW k \in Nat
    PROVE  Visited(k) = {h \in MemFiles : Rank(MemFiles, h) >= k}
<1> DEFINE S == MemFiles
           From(n) == {h \in S : Rank(S, h) >= n}
<1>1. PICK n \in Nat : entries \in [0..(n - 1) -> GoodEntry]
  BY DEF MemInv, MemTypes
<1>2. S \in SUBSET Nat /\ IsFiniteSet(S)
  <2>1. IsFiniteSet(0..(n - 1)) /\ S \in SUBSET (0..(n - 1))
    BY <1>1, FS_Interval DEF MemFiles
  <2>2. IsFiniteSet(S)
    BY <2>1, FS_Subset
  <2> QED
    BY <2>1, <2>2
<1>3. memfs_next(-1) = S
  BY <1>2 DEF memfs_next, MemFiles
<1>4. \A h : memfs_next(h) = {x \in S : x > h}
  BY DEF memfs_next, MemFiles
<1>5. From(0) = S
  <2>1. ASSUME NEW x \in S PROVE Rank(S, x) >= 0
    <3>1. Cardinality(S) \in Nat /\ Rank(S, x) \in 0..(Cardinality(S) - 1)
      BY <1>2, Ranks
    <3> QED
      BY <3>1
  <2> QED
    BY <2>1
<1>6. ASSUME NEW j \in Nat
      PROVE  From(j + 1) = IF From(j) = {} THEN {} ELSE memfs_next(Lowest(From(j)))
  <2>1. /\ From(j) = {} <=> j >= Cardinality(S)
        /\ From(j) # {} => {x \in S : x > Lowest(From(j))} = From(j + 1)
    BY <1>2, LowestOfRank
  <2>2. From(j) = {} => From(j + 1) = {}
    <3>1. \A x \in S : Rank(S, x) \in Nat
      BY <1>2, Ranks
    <3> QED
      BY <3>1
  <2> HIDE DEF S, From
  <2> QED
    BY <1>4, <2>1, <2>2
<1> HIDE DEF S, From
<1>7. [j \in 0..k |-> From(j)] = [j \in 0..k |->
         IF j = 0 THEN memfs_next(-1)
         ELSE IF [i \in 0..k |-> From(i)][j - 1] = {} THEN {}
              ELSE memfs_next(Lowest([i \in 0..k |-> From(i)][j - 1]))]
  <2>1. ASSUME NEW j \in 0..k, j # 0
        PROVE  From(j) = IF [i \in 0..k |-> From(i)][j - 1] = {} THEN {}
                         ELSE memfs_next(Lowest([i \in 0..k |-> From(i)][j - 1]))
    <3>1. j - 1 \in Nat /\ j - 1 \in 0..k /\ (j - 1) + 1 = j
      BY <2>1
    <3>2. [i \in 0..k |-> From(i)][j - 1] = From(j - 1)
      BY <3>1
    <3>3. From((j - 1) + 1) = IF From(j - 1) = {} THEN {} ELSE memfs_next(Lowest(From(j - 1)))
      BY <1>6, <3>1
    <3> QED
      BY <3>1, <3>2, <3>3
  <2> QED
    BY <1>3, <1>5, <2>1
<1>8. PICK g : /\ g = Visits(k)
               /\ g = [j \in 0..k |->
                    IF j = 0 THEN memfs_next(-1)
                    ELSE IF g[j - 1] = {} THEN {} ELSE memfs_next(Lowest(g[j - 1]))]
  BY <1>7, Zenon DEF Visits
<1>9. /\ g[0] = memfs_next(-1)
      /\ \A j \in 0..(k - 1) :
            g[j + 1] = IF g[j] = {} THEN {} ELSE memfs_next(Lowest(g[j]))
  <2>1. ASSUME NEW j \in 0..(k - 1)
        PROVE  g[j + 1] = IF g[j] = {} THEN {} ELSE memfs_next(Lowest(g[j]))
    <3>1. j + 1 \in 0..k /\ j + 1 # 0 /\ (j + 1) - 1 = j
      OBVIOUS
    <3> QED
      BY <1>8, <3>1
  <2>2. 0 \in 0..k
    OBVIOUS
  <2>3. g[0] = memfs_next(-1)
    BY <1>8, <2>2
  <2> QED
    BY <2>1, <2>3
<1> DEFINE T == {j \in Nat : g[j] = From(j)}
<1>10. 0 \in T
  BY <1>3, <1>5, <1>9
<1>11. ASSUME NEW j \in 0..(k - 1), j \in T
       PROVE  j + 1 \in T
  <2>1. j \in Nat /\ j + 1 \in Nat
    OBVIOUS
  <2> QED
    BY <1>6, <1>9, <1>11, <2>1
<1>12. k \in T
  <2>1. 0..k \subseteq T
    <3> HIDE DEF T
    <3> QED
      BY <1>10, <1>11, InductionUpTo
  <2> HIDE DEF T
  <2> QED
    BY <2>1
<1> QED
  BY <1>8, <1>12 DEF Visited, From, S

(* ufs_entry counts the files below a slot. *)
LEMMA ListsUfs ==
    ASSUME NEW k \in Nat
    PROVE  ufs_entry(k) = {s \in LiveFiles : Rank(LiveFiles, s) = k}
<1>1. ASSUME NEW s \in UfsSlots
      PROVE  {t \in 0..(s - 1) : handle_valid(t)} = {t \in LiveFiles : t < s}
  BY FilesAssumption DEF UfsSlots, LiveFiles
<1> QED
  BY <1>1 DEF ufs_entry, Rank, LiveFiles

(* What a listing of all three file systems consists of *)
AllFiles ==
    {<<"FS", i>> : i \in 0..(FsFiles - 1)}
    \cup {<<"MEMFS", entries[h].name>> : h \in MemFiles}
    \cup {<<"UFS", directory[s].name>> : s \in LiveFiles}

(* The two tables of files are finite sets of slots. *)
LEMMA FilesAreFinite ==
    ASSUME MemInv
    PROVE  /\ MemFiles \in SUBSET Nat /\ IsFiniteSet(MemFiles)
           /\ LiveFiles \in SUBSET Nat /\ IsFiniteSet(LiveFiles)
           /\ memfs_file_count = Cardinality(MemFiles) /\ memfs_file_count \in Nat
           /\ ufs_file_count = Cardinality(LiveFiles) /\ ufs_file_count \in Nat
<1>1. PICK n \in Nat : entries \in [0..(n - 1) -> GoodEntry]
  BY DEF MemInv, MemTypes
<1>2. /\ MemFiles \in SUBSET (0..(n - 1)) /\ IsFiniteSet(0..(n - 1))
      /\ 0..(n - 1) \subseteq Nat
  BY <1>1, FS_Interval DEF MemFiles
<1>3. /\ LiveFiles \in SUBSET (0..(UFS_MAX_ENTRIES - 1)) /\ IsFiniteSet(0..(UFS_MAX_ENTRIES - 1))
      /\ 0..(UFS_MAX_ENTRIES - 1) \subseteq Nat
  BY FilesAssumption, FS_Interval DEF LiveFiles, UfsSlots
<1>4. IsFiniteSet(MemFiles) /\ IsFiniteSet(LiveFiles)
  BY <1>2, <1>3, FS_Subset
<1>5. memfs_file_count = Cardinality(MemFiles) /\ ufs_file_count = Cardinality(LiveFiles)
  BY DEF memfs_file_count, MemFiles, ufs_file_count, LiveFiles
<1>6. Cardinality(MemFiles) \in Nat /\ Cardinality(LiveFiles) \in Nat
  BY <1>4, FS_CardinalityType
<1> QED
  BY <1>2, <1>3, <1>4, <1>5, <1>6

(* No file is counted twice, neither within a file system nor between two.  *)
LEMMA CountsAllFiles ==
    ASSUME MemInv, UfsInv
    PROVE  Cardinality(AllFiles) = FsFiles + memfs_file_count + ufs_file_count
<1> DEFINE A == {<<"FS", i>> : i \in 0..(FsFiles - 1)}
           B == {<<"MEMFS", entries[h].name>> : h \in MemFiles}
           C == {<<"UFS", directory[s].name>> : s \in LiveFiles}
<1>1. IsFiniteSet(A) /\ Cardinality(A) = FsFiles
  <2> DEFINE f == [h \in 0..(FsFiles - 1) |-> <<"FS", h>>]
  <2>1. IsFiniteSet(0..(FsFiles - 1)) /\ Cardinality(0..(FsFiles - 1)) = FsFiles
    BY FilesAssumption, FS_Interval
  <2>2. f \in Injection(0..(FsFiles - 1), A)
    BY DEF Injection, IsInjective
  <2>3. f \in Surjection(0..(FsFiles - 1), A)
    BY DEF Surjection
  <2> HIDE DEF f, A
  <2> QED
    BY <2>1, <2>2, <2>3, FS_Surjection
<1>2. IsFiniteSet(B) /\ Cardinality(B) = memfs_file_count
  <2> DEFINE f == [h \in MemFiles |-> <<"MEMFS", entries[h].name>>]
  <2>1. IsFiniteSet(MemFiles) /\ Cardinality(MemFiles) = memfs_file_count
    BY FilesAreFinite
  <2>2. f \in Injection(MemFiles, B)
    BY DEF Injection, IsInjective, MemInv, MemNames, MemFiles
  <2>3. f \in Surjection(MemFiles, B)
    BY DEF Surjection
  <2> HIDE DEF f, B
  <2> QED
    BY <2>1, <2>2, <2>3, FS_Surjection
<1>3. IsFiniteSet(C) /\ Cardinality(C) = ufs_file_count
  <2> DEFINE f == [h \in LiveFiles |-> <<"UFS", directory[h].name>>]
  <2>1. IsFiniteSet(LiveFiles) /\ Cardinality(LiveFiles) = ufs_file_count
    BY FilesAreFinite
  <2>2. f \in Injection(LiveFiles, C)
    BY DEF Injection, IsInjective, UfsInv, UniqueNames
  <2>3. f \in Surjection(LiveFiles, C)
    BY DEF Surjection
  <2> HIDE DEF f, C
  <2> QED
    BY <2>1, <2>2, <2>3, FS_Surjection
<1>4. A \cap B = {} /\ (A \cup B) \cap C = {}
  OBVIOUS
<1>5. AllFiles = A \cup B \cup C
  BY DEF AllFiles
<1>6. FsFiles \in Nat /\ memfs_file_count \in Nat /\ ufs_file_count \in Nat
  BY FilesAreFinite, FilesAssumption
<1> HIDE DEF A, B, C
<1>7. IsFiniteSet(A \cup B) /\ Cardinality(A \cup B) = FsFiles + memfs_file_count
  BY <1>1, <1>2, <1>4, <1>6, FS_Union, FS_EmptySet
<1>8. Cardinality((A \cup B) \cup C) = FsFiles + memfs_file_count + ufs_file_count
  <2> DEFINE D == A \cup B
  <2>1. IsFiniteSet(D) /\ Cardinality(D) = FsFiles + memfs_file_count /\ D \cap C = {}
    BY <1>4, <1>7
  <2> HIDE DEF D
  <2>2. Cardinality(D \cup C) = Cardinality(D) + Cardinality(C) - Cardinality({})
    BY <1>3, <2>1, FS_Union
  <2> QED
    BY <1>3, <1>6, <2>1, <2>2, FS_EmptySet DEF D
<1> QED
  BY <1>5, <1>8

(* The answer to an index of memfs, to one of UFS, and past the end         *)
LEMMA Answers ==
    ASSUME MemInv
    PROVE  /\ \A i \in 0..(FsFiles - 1) : SYS_LIST(i) = <<"FS", i>>
           /\ \A h \in MemFiles :
                 SYS_LIST(FsFiles + Rank(MemFiles, h)) = <<"MEMFS", entries[h].name>>
           /\ \A s \in LiveFiles :
                 SYS_LIST(FsFiles + memfs_file_count + Rank(LiveFiles, s))
                    = <<"UFS", directory[s].name>>
           /\ SYS_LIST(FsFiles + memfs_file_count + ufs_file_count) = <<>>
<1>1. /\ MemFiles \in SUBSET Nat /\ IsFiniteSet(MemFiles)
      /\ LiveFiles \in SUBSET Nat /\ IsFiniteSet(LiveFiles)
      /\ memfs_file_count = Cardinality(MemFiles) /\ memfs_file_count \in Nat
      /\ ufs_file_count = Cardinality(LiveFiles) /\ ufs_file_count \in Nat
      /\ FsFiles \in Nat
  BY FilesAreFinite, FilesAssumption
<1>2. /\ \A h \in MemFiles : Rank(MemFiles, h) \in 0..(memfs_file_count - 1)
      /\ \A g, h \in MemFiles : Rank(MemFiles, g) = Rank(MemFiles, h) => g = h
  BY <1>1, Ranks
<1>3. /\ \A s \in LiveFiles : Rank(LiveFiles, s) \in 0..(ufs_file_count - 1)
      /\ \A s, t \in LiveFiles : Rank(LiveFiles, s) = Rank(LiveFiles, t) => s = t
  BY <1>1, Ranks
<1>4. \A i \in 0..(FsFiles - 1) : SYS_LIST(i) = <<"FS", i>>
  BY <1>1 DEF SYS_LIST
<1>5. ASSUME NEW h \in MemFiles
      PROVE  SYS_LIST(FsFiles + Rank(MemFiles, h)) = <<"MEMFS", entries[h].name>>
  <2>1. PICK k \in Nat : k = Rank(MemFiles, h) /\ k < memfs_file_count
    BY <1>1, <1>2
  <2> DEFINE R == {x \in MemFiles : Rank(MemFiles, x) >= k}
  <2>2. Visited(k) = R
    BY ListsMemfs
  <2>3. R # {} /\ Lowest(R) \in MemFiles /\ Rank(MemFiles, Lowest(R)) = k
    <3>1. /\ R = {} <=> k >= Cardinality(MemFiles)
          /\ R # {} => Lowest(R) \in MemFiles /\ Rank(MemFiles, Lowest(R)) = k
      BY <1>1, LowestOfRank
    <3>2. ~ (k >= Cardinality(MemFiles))
      BY <1>1, <2>1
    <3> QED
      BY <3>1, <3>2
  <2> HIDE DEF R
  <2>4. Lowest(R) = h
    BY <1>2, <2>1, <2>3
  <2>5. memfs_name(k) = entries[h].name
    BY <2>2, <2>3, <2>4 DEF memfs_name
  <2>6. ~ (FsFiles + k < FsFiles) /\ (FsFiles + k) - FsFiles = k
    BY <1>1
  <2>7. SYS_LIST(FsFiles + k) = <<"MEMFS", memfs_name(k)>>
    BY <2>1, <2>6 DEF SYS_LIST
  <2> QED
    BY <2>1, <2>5, <2>7
<1>6. ASSUME NEW k \in Nat
      PROVE  SYS_LIST(FsFiles + memfs_file_count + k)
               = IF ufs_entry(k) = {} THEN <<>>
                 ELSE <<"UFS", directory[Lowest(ufs_entry(k))].name>>
  <2> DEFINE i == FsFiles + memfs_file_count + k
  <2>1. /\ ~ (i < FsFiles) /\ ~ (i - FsFiles < memfs_file_count)
        /\ i - FsFiles - memfs_file_count = k
    BY <1>1
  <2> HIDE DEF i
  <2>2. SYS_LIST(i) = IF ufs_entry(k) = {} THEN <<>>
                      ELSE <<"UFS", directory[Lowest(ufs_entry(k))].name>>
    BY <2>1 DEF SYS_LIST
  <2> QED
    BY <2>2 DEF i
<1>7. ASSUME NEW s \in LiveFiles
      PROVE  SYS_LIST(FsFiles + memfs_file_count + Rank(LiveFiles, s))
               = <<"UFS", directory[s].name>>
  <2>1. PICK k \in Nat : k = Rank(LiveFiles, s)
    BY <1>1, <1>3
  <2>2. ufs_entry(k) = {s}
    <3>1. ufs_entry(k) = {t \in LiveFiles : Rank(LiveFiles, t) = k}
      BY ListsUfs
    <3> QED
      BY <1>3, <2>1, <3>1
  <2>3. Lowest({s}) = s
    <3>1. {s} \in SUBSET Nat /\ {s} # {}
      BY <1>1
    <3>2. Lowest({s}) \in {s}
      BY <3>1, LowestIs
    <3> QED
      BY <3>2
  <2> QED
    BY <1>6, <2>1, <2>2, <2>3
<1>8. SYS_LIST(FsFiles + memfs_file_count + ufs_file_count) = <<>>
  <2>1. ufs_entry(ufs_file_count) = {t \in LiveFiles : Rank(LiveFiles, t) = ufs_file_count}
    BY <1>1, ListsUfs
  <2>2. ASSUME NEW t \in LiveFiles PROVE Rank(LiveFiles, t) # ufs_file_count
    <3>1. Rank(LiveFiles, t) \in 0..(ufs_file_count - 1)
      BY <1>3
    <3> QED
      BY <1>1, <3>1
  <2> QED
    BY <1>1, <1>6, <2>1, <2>2
<1> QED
  BY <1>4, <1>5, <1>7, <1>8

(* Every index below the number of files names a file, and every file is    *)
(* named by one.                                                            *)
LEMMA ListsExactlyAll ==
    ASSUME MemInv, NEW count, count = FsFiles + memfs_file_count + ufs_file_count
    PROVE  {SYS_LIST(i) : i \in 0..(count - 1)} = AllFiles
<1> DEFINE fs == FsFiles
           ms == memfs_file_count
           us == ufs_file_count
<1>1. /\ MemFiles \in SUBSET Nat /\ IsFiniteSet(MemFiles)
      /\ LiveFiles \in SUBSET Nat /\ IsFiniteSet(LiveFiles)
      /\ ms = Cardinality(MemFiles) /\ ms \in Nat
      /\ us = Cardinality(LiveFiles) /\ us \in Nat
      /\ fs \in Nat /\ count = fs + ms + us
  BY FilesAreFinite, FilesAssumption
<1>2. /\ \A h \in MemFiles : Rank(MemFiles, h) \in 0..(ms - 1)
      /\ \A k \in 0..(ms - 1) : \E h \in MemFiles : Rank(MemFiles, h) = k
  BY <1>1, Ranks
<1>3. /\ \A s \in LiveFiles : Rank(LiveFiles, s) \in 0..(us - 1)
      /\ \A k \in 0..(us - 1) : \E s \in LiveFiles : Rank(LiveFiles, s) = k
  BY <1>1, Ranks
<1>4. /\ \A i \in 0..(fs - 1) : SYS_LIST(i) = <<"FS", i>>
      /\ \A h \in MemFiles : SYS_LIST(fs + Rank(MemFiles, h)) = <<"MEMFS", entries[h].name>>
      /\ \A s \in LiveFiles :
            SYS_LIST(fs + ms + Rank(LiveFiles, s)) = <<"UFS", directory[s].name>>
  BY Answers
<1> HIDE DEF fs, ms, us
<1>5. ASSUME NEW i \in 0..(count - 1)
      PROVE  SYS_LIST(i) \in AllFiles
  <2>1. CASE i < fs
    <3>1. i \in 0..(fs - 1)
      BY <1>1, <2>1
    <3> QED
      BY <1>4, <3>1 DEF AllFiles, fs
  <2>2. CASE i >= fs /\ i < fs + ms
    <3>1. i - fs \in 0..(ms - 1) /\ i = fs + (i - fs)
      BY <1>1, <2>2
    <3>2. PICK h \in MemFiles : Rank(MemFiles, h) = i - fs
      BY <1>2, <3>1
    <3>3. SYS_LIST(i) = <<"MEMFS", entries[h].name>>
      BY <1>4, <3>1, <3>2
    <3> QED
      BY <3>3 DEF AllFiles
  <2>3. CASE i >= fs + ms
    <3>1. i - (fs + ms) \in 0..(us - 1) /\ i = fs + ms + (i - (fs + ms))
      BY <1>1, <2>3
    <3>2. PICK s \in LiveFiles : Rank(LiveFiles, s) = i - (fs + ms)
      BY <1>3, <3>1
    <3>3. SYS_LIST(i) = <<"UFS", directory[s].name>>
      BY <1>4, <3>1, <3>2
    <3> QED
      BY <3>3 DEF AllFiles
  <2> QED
    BY <1>1, <2>1, <2>2, <2>3
<1>6. ASSUME NEW i \in 0..(fs - 1)
      PROVE  \E j \in 0..(count - 1) : SYS_LIST(j) = <<"FS", i>>
  <2>1. i \in 0..(count - 1)
    BY <1>1
  <2> QED
    BY <1>4, <2>1
<1>7. ASSUME NEW h \in MemFiles
      PROVE  \E j \in 0..(count - 1) : SYS_LIST(j) = <<"MEMFS", entries[h].name>>
  <2>1. Rank(MemFiles, h) \in 0..(ms - 1)
    BY <1>2
  <2>2. fs + Rank(MemFiles, h) \in 0..(count - 1)
    BY <1>1, <2>1
  <2> QED
    BY <1>4, <2>2
<1>8. ASSUME NEW s \in LiveFiles
      PROVE  \E j \in 0..(count - 1) : SYS_LIST(j) = <<"UFS", directory[s].name>>
  <2>1. Rank(LiveFiles, s) \in 0..(us - 1)
    BY <1>3
  <2>2. fs + ms + Rank(LiveFiles, s) \in 0..(count - 1)
    BY <1>1, <2>1
  <2> QED
    BY <1>4, <2>2
<1>9. ASSUME NEW a \in AllFiles
      PROVE  \E j \in 0..(count - 1) : a = SYS_LIST(j)
  BY <1>6, <1>7, <1>8 DEF AllFiles, fs
<1> QED
  BY <1>5, <1>9

(* ListNamesEveryFile for every number of files and slots: while no call    *)
(* changes them, the indices 0, 1, 2, ... of SYS_LIST name every file of    *)
(* the three file systems exactly once and then nothing.                    *)
THEOREM ListIsComplete == Spec => []ListNamesEveryFile
<1>1. ASSUME Inv
      PROVE  ListNamesEveryFile
  <2> DEFINE count == FsFiles + memfs_file_count + ufs_file_count
  <2>1. MemInv /\ UfsInv
    BY <1>1 DEF Inv
  <2>2. AllFiles = {<<"FS", i>> : i \in 0..(FsFiles - 1)}
           \cup {<<"MEMFS", entries[h].name>> : h \in {e \in DOMAIN entries : entries[e].in_use}}
           \cup {<<"UFS", directory[s].name>> : s \in UfsSlots \ FreeEntries}
    <3>1. UfsSlots \ FreeEntries = LiveFiles
      BY DEF FreeEntries, LiveFiles
    <3> QED
      BY <3>1 DEF AllFiles, MemFiles
  <2>3. {SYS_LIST(i) : i \in 0..(count - 1)} = AllFiles
    BY <2>1, ListsExactlyAll
  <2>4. Cardinality(AllFiles) = count
    BY <2>1, CountsAllFiles
  <2>5. SYS_LIST(count) = <<>>
    BY <2>1, Answers
  <2> HIDE DEF count
  <2> QED
    BY <2>2, <2>3, <2>4, <2>5 DEF ListNamesEveryFile, count
<1> QED
  BY <1>1, UsersInvariant, PTL

=============================================================================
