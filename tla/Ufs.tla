-------------------------------- MODULE Ufs --------------------------------
(***************************************************************************)
(* The disk-backed file system, kernel/core/ufs.c: a superblock, one       *)
(* directory and a data area that is handed out from its low end upwards   *)
(* and never reused.  A call changes the directory in memory, then writes  *)
(* sectors one after the other; each write is a step, so the power can go  *)
(* between any two of them, and each may fail, which ends the call with -1 *)
(* and leaves memory as it is.  One call runs at a time: system calls run  *)
(* with interrupts off.  A remount by ufstest is a power loss without a    *)
(* call in progress.                                                       *)
(*                                                                         *)
(* The directory is several sectors, which ata_write_sectors writes in     *)
(* turn, and an entry may lie across two of them: a fault in between can   *)
(* leave half an entry on disk.  The cut falls between the fields of an    *)
(* entry (entries 12 and 25) or inside its name (38 and 51); a name counts *)
(* as one field here, which is what it is up to its eighth byte.           *)
(*                                                                         *)
(* data holds the bytes of the disk, by sector number; the sectors below   *)
(* UFS_DATA_LBA, where the system's image is, are those of no file.  A     *)
(* call that returns -1 before it has changed anything is the absence of a *)
(* step.                                                                   *)
(***************************************************************************)
EXTENDS Integers, Sequences, FiniteSets

CONSTANTS
    Name,                       \* file names
    NoName,                     \* name[0] == 0: the slot is free
    Unsettled,                  \* see History
    NoFile,                     \* what a reader finds under a name without a file
    Uid, Perm,                  \* owners and UFS_PERM_* bits
    Byte,
    SECTOR_SIZE,                \* 512 in the code
    DIR_SECTOR_SIZE,            \* SECTOR_SIZE for the directory, whose entries do not shrink with it
    UFS_DATA_LBA,               \* first sector of the data area, 8198 in the code
    UFS_MAX_ENTRIES,            \* 64 in the code
    UFS_DATA_RESERVED_SECTORS,  \* 8192 in the code
    MOVE_SECTORS,               \* sectors per round of the copy in ensure_capacity, 8 in the code
    Buffer, Offset,             \* what one write may carry, and where to
    PowerLossAt,                \* the moments in which the power may go
    AtaFailsAt,                 \* the moments in which ata_write_sectors may fail
    MaxFaults,                  \* bound on the number of both
    MaxCalls                    \* bound on the number of calls that change something

(* What a reader sees of a file *)
File == [owner : Uid \union {0}, perm : Perm, bytes : Seq(Byte)]

ASSUME UfsAssumption ==
    /\ NoName \notin Name
    /\ NoFile \notin File /\ Unsettled \notin File \union {NoFile}
    /\ 0 \in Perm /\ 0 \in Byte
    /\ SECTOR_SIZE \in Nat \ {0} /\ DIR_SECTOR_SIZE \in Nat \ {0}
    /\ UFS_DATA_LBA \in Nat
    /\ UFS_MAX_ENTRIES \in Nat \ {0}
    /\ UFS_DATA_RESERVED_SECTORS \in Nat \ {0}
    /\ MOVE_SECTORS \in Nat \ {0}
    /\ MaxFaults \in Nat /\ MaxCalls \in Nat
    /\ Buffer \subseteq Seq(Byte) \ {<<>>} /\ Offset \subseteq Nat

VARIABLES
    ufs_ready, directory, cached_file_count, next_free_lba,     \* memory
    superblock, disk_dir, data,                                 \* the disk
    op,      \* the call in progress and the write it is about to do
    stored,  \* history: what the calls that have returned made of each file
    calls, faults    \* history: calls so far; power losses and failed writes so far

memVars == <<ufs_ready, directory, cached_file_count, next_free_lba>>
diskVars == <<superblock, disk_dir, data>>
vars == <<memVars, diskVars, op, stored, calls, faults>>

Slots == 0..(UFS_MAX_ENTRIES - 1)
UFS_DATA_END == UFS_DATA_LBA + UFS_DATA_RESERVED_SECTORS
DataBytes == 0..(UFS_DATA_END * SECTOR_SIZE - 1)

Entry == [name : Name \union {NoName}, start_lba : 0..UFS_DATA_END, size : Nat,
          capacity : 0..UFS_DATA_END, owner : Uid \union {0}, perm : Perm]
ZeroEntry == [name |-> NoName, start_lba |-> 0, size |-> 0, capacity |-> 0, owner |-> 0,
              perm |-> 0]
ZeroDirectory == [s \in Slots |-> ZeroEntry]

Stage == {"idle", "move", "grow_dir", "grow_sb", "data", "dir", "sb", "format_dir", "format_sb"}
Idle == [stage |-> "idle", call |-> "none", name |-> NoName, slot |-> 0, done |-> 0,
         offset |-> 0, buf |-> <<>>, sectors |-> 0, result |-> NoFile]

Min(a, b) == IF a < b THEN a ELSE b

Used(dir, s) == dir[s].name # NoName
count_used_entries(dir) == Cardinality({s \in Slots : Used(dir, s)})

(***************************************************************************)
(* The layout of the directory.  op.sectors counts the sectors that the     *)
(* write of the directory under way has finished; disk_dir is what all of   *)
(* them held when it began, OnDisk is what they hold now.                   *)
(***************************************************************************)
UFS_ENTRY_SIZE == 40

UFS_OFF == [name |-> 0, start_lba |-> 20, size |-> 24, capacity |-> 28, owner |-> 32, perm |-> 36]

UFS_DIR_SECTORS ==
    (UFS_MAX_ENTRIES * UFS_ENTRY_SIZE + DIR_SECTOR_SIZE - 1) \div DIR_SECTOR_SIZE

(* Field off of entry s is in one of the sectors written. *)
Written(s, off) == (s * UFS_ENTRY_SIZE + off) \div DIR_SECTOR_SIZE < op.sectors

EntryOnDisk(s) ==
    [name      |-> IF Written(s, UFS_OFF.name) THEN directory[s].name ELSE disk_dir[s].name,
     start_lba |-> IF Written(s, UFS_OFF.start_lba) THEN directory[s].start_lba
                                                    ELSE disk_dir[s].start_lba,
     size      |-> IF Written(s, UFS_OFF.size) THEN directory[s].size ELSE disk_dir[s].size,
     capacity  |-> IF Written(s, UFS_OFF.capacity) THEN directory[s].capacity
                                                   ELSE disk_dir[s].capacity,
     owner     |-> IF Written(s, UFS_OFF.owner) THEN directory[s].owner ELSE disk_dir[s].owner,
     perm      |-> IF Written(s, UFS_OFF.perm) THEN directory[s].perm ELSE disk_dir[s].perm]

OnDisk == IF op.sectors = 0 THEN disk_dir ELSE [s \in Slots |-> EntryOnDisk(s)]

(* ufs_find, as the relation between a name and its slot *)
ufs_find(dir, name, s) == dir[s].name = name

(* The bytes that ufs_read_at finds in one file: sector cur / SECTOR_SIZE   *)
(* after start_lba, byte cur % SECTOR_SIZE in it, up to the file's size.    *)
Contents(dir, s) ==
    [i \in 1..dir[s].size |-> data[dir[s].start_lba * SECTOR_SIZE + i - 1]]

(* What the calls ufs_find, ufs_owner, ufs_perm and ufs_read_at report of   *)
(* the file called name under the directory dir.                            *)
View(dir, name) ==
    IF \E s \in Slots : ufs_find(dir, name, s)
    THEN LET s == CHOOSE x \in Slots : ufs_find(dir, name, x)
         IN  [owner |-> dir[s].owner, perm |-> dir[s].perm, bytes |-> Contents(dir, s)]
    ELSE NoFile

MemView == [n \in Name |-> View(directory, n)]

(* What they would report after the next ufs_init: without the magic it     *)
(* formats the disk.                                                        *)
DiskView == [n \in Name |-> IF superblock.magic THEN View(OnDisk, n) ELSE NoFile]

(***************************************************************************)
(* History.  stored[n] changes when a call on n ends: result is what the    *)
(* call was asked to make of the file; for a write, which may leave a gap   *)
(* between the old end of the file and its offset, the gap holds what the   *)
(* disk did.  A call that could not write the directory or the superblock   *)
(* leaves its file Unsettled until both have been written by a later call   *)
(* or the disk is mounted again.                                            *)
(***************************************************************************)
InRange(i) == i - op.offset \in DOMAIN op.buf

Overlaid(old, now) ==
    [i \in DOMAIN now |-> IF InRange(i) THEN op.buf[i - op.offset]
                          ELSE IF i \in DOMAIN old THEN old[i] ELSE now[i]]

Outcome(old) ==
    CASE old = Unsettled -> Unsettled
      [] old # Unsettled /\ op.call = "write" ->
            [old EXCEPT !.bytes = Overlaid(@, Contents(directory, op.slot))]
      [] OTHER -> op.result

Settled(ended, found) ==
    [n \in Name |-> IF ended[n] = Unsettled THEN found[n] ELSE ended[n]]

Ended == [n \in Name |-> IF n = op.name THEN Outcome(stored[n]) ELSE stored[n]]

CutOff == [n \in Name |-> IF n = op.name THEN Unsettled ELSE stored[n]]

-----------------------------------------------------------------------------
(***************************************************************************)
(* Start-up                                                                 *)
(***************************************************************************)
(* A disk without a file system; next_free is not read from it. *)
Init ==
    /\ ufs_ready = FALSE
    /\ directory = ZeroDirectory /\ cached_file_count = 0 /\ next_free_lba = UFS_DATA_LBA
    /\ superblock = [magic |-> FALSE, next_free |-> UFS_DATA_LBA]
    /\ disk_dir = ZeroDirectory
    /\ data = [b \in DataBytes |-> 0]
    /\ op = Idle
    /\ stored = [n \in Name |-> NoFile]
    /\ calls = 0 /\ faults = 0

(* Mutant of ufs_init: the end of the directory is not read. *)
MountReadsLess ==
    LET found == [disk_dir EXCEPT ![UFS_MAX_ENTRIES - 1] = ZeroEntry]
    IN  /\ ~ ufs_ready /\ op = Idle /\ superblock.magic
        /\ directory' = found
        /\ next_free_lba' = superblock.next_free
        /\ cached_file_count' = count_used_entries(found)
        /\ ufs_ready' = TRUE
        /\ UNCHANGED <<diskVars, op, stored, calls, faults>>

(* ufs_init.  A superblock that cannot be read, or a directory that cannot, *)
(* leaves ufs_ready = 0 and is the absence of a step.                       *)
ufs_init ==
    /\ ~ ufs_ready /\ op = Idle /\ superblock.magic
    /\ directory' = disk_dir
    /\ next_free_lba' = IF superblock.next_free \in UFS_DATA_LBA..UFS_DATA_END
                        THEN superblock.next_free ELSE UFS_DATA_LBA
    /\ cached_file_count' = count_used_entries(disk_dir)
    /\ ufs_ready' = TRUE
    /\ UNCHANGED <<diskVars, op, stored, calls, faults>>

(* ufs_init on a disk without the magic: format_fresh *)
format_fresh ==
    /\ ~ ufs_ready /\ op = Idle /\ ~ superblock.magic
    /\ directory' = ZeroDirectory
    /\ cached_file_count' = 0
    /\ next_free_lba' = UFS_DATA_LBA
    /\ op' = [Idle EXCEPT !.stage = "format_dir"]
    /\ UNCHANGED <<ufs_ready, diskVars, stored, calls, faults>>

-----------------------------------------------------------------------------
(***************************************************************************)
(* Calls that change one entry and write the directory, then the superblock *)
(***************************************************************************)
Call == ufs_ready /\ op = Idle /\ calls < MaxCalls /\ calls' = calls + 1

handle_valid(s) == Call /\ Used(directory, s)

Begin(call, s, name, result) ==
    op' = [Idle EXCEPT !.stage = "dir", !.call = call, !.name = name, !.slot = s,
                       !.result = result]

ufs_create(name, owner_uid) ==
    \E s \in Slots :
        /\ Call
        /\ \A x \in Slots : ~ ufs_find(directory, name, x)
        /\ ~ Used(directory, s) /\ \A x \in 0..(s - 1) : Used(directory, x)
        /\ directory' = [directory EXCEPT ![s] =
                            [ZeroEntry EXCEPT !.name = name, !.owner = owner_uid]]
        /\ cached_file_count' = cached_file_count + 1
        /\ Begin("create", s, name, [owner |-> owner_uid, perm |-> 0, bytes |-> <<>>])
        /\ UNCHANGED <<ufs_ready, next_free_lba, diskVars, stored, faults>>

(* Mutant of ufs_delete: the superblock is written and the directory is not. *)
DeleteSkipsDirectory(s) ==
    /\ handle_valid(s)
    /\ directory' = [directory EXCEPT ![s].name = NoName]
    /\ cached_file_count' = cached_file_count - 1
    /\ op' = [Idle EXCEPT !.stage = "sb", !.call = "delete", !.name = directory[s].name,
                          !.slot = s]
    /\ UNCHANGED <<ufs_ready, next_free_lba, diskVars, stored, faults>>

(* Only name[0] is cleared: the rest of the entry stays, also on disk. *)
ufs_delete(s) ==
    /\ handle_valid(s)
    /\ directory' = [directory EXCEPT ![s].name = NoName]
    /\ cached_file_count' = cached_file_count - 1
    /\ Begin("delete", s, directory[s].name, NoFile)
    /\ UNCHANGED <<ufs_ready, next_free_lba, diskVars, stored, faults>>

ufs_chmod(s, perm) ==
    /\ handle_valid(s)
    /\ directory' = [directory EXCEPT ![s].perm = perm]
    /\ Begin("chmod", s, directory[s].name, [MemView[directory[s].name] EXCEPT !.perm = perm])
    /\ UNCHANGED <<ufs_ready, cached_file_count, next_free_lba, diskVars, stored, faults>>

(* All callers pass new_size = 0. *)
ufs_truncate(s, new_size) ==
    /\ handle_valid(s)
    /\ new_size <= directory[s].capacity * SECTOR_SIZE
    /\ directory' = [directory EXCEPT ![s].size = new_size]
    /\ Begin("truncate", s, directory[s].name,
             [MemView[directory[s].name] EXCEPT !.bytes = SubSeq(@, 1, new_size)])
    /\ UNCHANGED <<ufs_ready, cached_file_count, next_free_lba, diskVars, stored, faults>>

-----------------------------------------------------------------------------
(***************************************************************************)
(* ufs_write_at                                                             *)
(***************************************************************************)
sectors_for_bytes(bytes) == (bytes + SECTOR_SIZE - 1) \div SECTOR_SIZE

Needed == op.offset + Len(op.buf)

(* The doubling loop of ensure_capacity: the capacity after every pass, of  *)
(* which needed are always enough, and at the end                           *)
Passes(from, needed) ==
    LET c[k \in 0..needed] ==
            IF k = 0 THEN from ELSE IF c[k - 1] < needed THEN 2 * c[k - 1] ELSE c[k - 1]
    IN  c

NewCapacity(cur, needed) == Passes(IF cur = 0 THEN 1 ELSE cur, needed)[needed]

InPlace(s, needed) == needed <= directory[s].capacity * SECTOR_SIZE

HasRoom(cap) == next_free_lba + cap <= UFS_DATA_END

(* Up to the first access to the disk.  Zero-length writes are left out.    *)
ufs_write_at(s, offset, buf) ==
    LET needed == offset + Len(buf)
        cap == NewCapacity(directory[s].capacity, sectors_for_bytes(needed))
        Go(stage) == op' = [Idle EXCEPT !.stage = stage, !.call = "write", !.slot = s,
                                        !.name = directory[s].name, !.offset = offset,
                                        !.buf = buf]
    IN  /\ handle_valid(s)
        /\ IF InPlace(s, needed) THEN Go("data") ELSE HasRoom(cap) /\ Go("move")
        /\ UNCHANGED <<memVars, diskVars, stored, faults>>

(* data with some bytes replaced from position first on *)
Patched(first, bytes) ==
    [b \in DataBytes |->
        IF b - first + 1 \in DOMAIN bytes THEN bytes[b - first + 1] ELSE data[b]]

(* One round of the copy of the old sectors to the new extent *)
MoveSectors ==
    LET e == directory[op.slot]
        chunk == Min(sectors_for_bytes(e.size) - op.done, MOVE_SECTORS)
        move_buf == [i \in 1..(chunk * SECTOR_SIZE) |->
                        data[(e.start_lba + op.done) * SECTOR_SIZE + i - 1]]
    IN  /\ op.stage = "move" /\ op.done < sectors_for_bytes(e.size)
        /\ data' = Patched((next_free_lba + op.done) * SECTOR_SIZE, move_buf)
        /\ op' = [op EXCEPT !.done = @ + chunk]
        /\ UNCHANGED <<memVars, superblock, disk_dir, stored, calls, faults>>

(* Mutant of Relocate: reserves only what the file grows by *)
RelocateReservesGrowth ==
    LET old == directory[op.slot].capacity
        cap == NewCapacity(old, sectors_for_bytes(Needed))
    IN  /\ op.stage = "move" /\ op.done >= sectors_for_bytes(directory[op.slot].size)
        /\ directory' = [directory EXCEPT ![op.slot].start_lba = next_free_lba,
                                          ![op.slot].capacity = cap]
        /\ next_free_lba' = next_free_lba + cap - old
        /\ op' = [op EXCEPT !.stage = "grow_dir", !.done = 0]
        /\ UNCHANGED <<ufs_ready, cached_file_count, diskVars, stored, calls, faults>>

(* The copy is complete: the entry points to the new extent. *)
Relocate ==
    LET cap == NewCapacity(directory[op.slot].capacity, sectors_for_bytes(Needed))
    IN  /\ op.stage = "move" /\ op.done >= sectors_for_bytes(directory[op.slot].size)
        /\ directory' = [directory EXCEPT ![op.slot].start_lba = next_free_lba,
                                          ![op.slot].capacity = cap]
        /\ next_free_lba' = next_free_lba + cap
        /\ op' = [op EXCEPT !.stage = "grow_dir", !.done = 0]
        /\ UNCHANGED <<ufs_ready, cached_file_count, diskVars, stored, calls, faults>>

(* One round of the loop that reads a sector, patches it and writes it *)
WriteSector ==
    LET cur == op.offset + op.done
        chunk == Min(SECTOR_SIZE - (cur % SECTOR_SIZE), Len(op.buf) - op.done)
        src == SubSeq(op.buf, op.done + 1, op.done + chunk)
    IN  /\ op.stage = "data" /\ op.done < Len(op.buf)
        /\ data' = Patched(directory[op.slot].start_lba * SECTOR_SIZE + cur, src)
        /\ op' = [op EXCEPT !.done = @ + chunk]
        /\ UNCHANGED <<memVars, superblock, disk_dir, stored, calls, faults>>

(* After the loop: a file that has not grown needs no new entry. *)
EndWrite ==
    /\ op.stage = "data" /\ op.done = Len(op.buf)
    /\ IF Needed > directory[op.slot].size
       THEN /\ directory' = [directory EXCEPT ![op.slot].size = Needed]
            /\ op' = [op EXCEPT !.stage = "dir"]
            /\ UNCHANGED stored
       ELSE op' = Idle /\ stored' = Ended /\ UNCHANGED directory
    /\ UNCHANGED <<ufs_ready, cached_file_count, next_free_lba, diskVars, calls, faults>>

-----------------------------------------------------------------------------
(***************************************************************************)
(* The two writes that end every change                                     *)
(***************************************************************************)
(* ata_write_sectors on the directory: one sector after the other, and the  *)
(* last one ends the write.                                                 *)
persist_directory ==
    /\ op.stage \in {"dir", "grow_dir", "format_dir"}
    /\ IF op.sectors + 1 < UFS_DIR_SECTORS
       THEN /\ op' = [op EXCEPT !.sectors = @ + 1]
            /\ UNCHANGED disk_dir
       ELSE /\ disk_dir' = directory
            /\ op' = [op EXCEPT !.sectors = 0,
                                !.stage = CASE @ = "dir" -> "sb"
                                            [] @ = "grow_dir" -> "grow_sb"
                                            [] @ = "format_dir" -> "format_sb"]
    /\ UNCHANGED <<memVars, superblock, data, stored, calls, faults>>

persist_superblock ==
    /\ op.stage \in {"sb", "grow_sb", "format_sb"}
    /\ superblock' = [magic |-> TRUE, next_free |-> next_free_lba]
    /\ op' = IF op.stage = "grow_sb" THEN [op EXCEPT !.stage = "data"] ELSE Idle
    /\ stored' = Settled(IF op.stage = "sb" THEN Ended ELSE stored, MemView)
    /\ ufs_ready' = TRUE
    /\ UNCHANGED <<directory, cached_file_count, next_free_lba, disk_dir, data, calls, faults>>

(***************************************************************************)
(* The environment                                                          *)
(***************************************************************************)
(* The moment a fault falls into: the stage of the call, unless the         *)
(* directory on disk is neither the one before the call nor the one after   *)
(* it, or has the new extent of a file that moves already.                  *)
Moment ==
    CASE OnDisk \notin {disk_dir, directory} -> "torn"
      [] OnDisk = directory /\ OnDisk # disk_dir /\ op.stage = "grow_dir" -> "grow_sb"
      [] OTHER -> op.stage

Fault == faults < MaxFaults /\ faults' = faults + 1 /\ UNCHANGED calls

(* ata_write_sectors returns -1, whether or not the sectors that are left   *)
(* were written.  format_fresh ignores it, every other caller gives up.  (A *)
(* data sector that was written all the same is a failure after the step    *)
(* that wrote it.)                                                          *)
AtaFails ==
    /\ Moment \in AtaFailsAt
    /\ Fault
    /\ UNCHANGED <<directory, cached_file_count, next_free_lba, data>>
    /\ \/ /\ op.stage \in {"format_dir", "format_sb"}
          /\ op' = IF op.stage = "format_dir"
                   THEN [op EXCEPT !.stage = "format_sb", !.sectors = 0] ELSE Idle
          /\ ufs_ready' = (op.stage = "format_sb")
          /\ disk_dir' = OnDisk
          /\ UNCHANGED <<superblock, stored>>
       \/ /\ op.stage \in {"move", "data"}
          /\ op' = Idle
          /\ stored' = [stored EXCEPT ![op.name] =
                           IF @ = Unsettled THEN @ ELSE MemView[op.name]]
          /\ UNCHANGED <<ufs_ready, superblock, disk_dir>>
       \/ /\ op.stage \in {"dir", "grow_dir", "sb", "grow_sb"}
          /\ \/ /\ op.stage \in {"dir", "grow_dir"}
                /\ disk_dir' \in {OnDisk, directory}
                /\ UNCHANGED superblock
             \/ /\ op.stage \in {"sb", "grow_sb"}
                /\ superblock' \in {superblock, [magic |-> TRUE, next_free |-> next_free_lba]}
                /\ UNCHANGED disk_dir
          /\ op' = Idle
          /\ stored' = CutOff
          /\ UNCHANGED ufs_ready

(* The machine is switched off; memory starts again from zero. *)
PowerLoss ==
    /\ ufs_ready \/ op # Idle
    /\ Moment \in PowerLossAt
    /\ Fault
    /\ ufs_ready' = FALSE
    /\ directory' = ZeroDirectory /\ cached_file_count' = 0 /\ next_free_lba' = UFS_DATA_LBA
    /\ op' = Idle
    /\ stored' = Settled(CutOff, DiskView)
    /\ disk_dir' = OnDisk
    /\ UNCHANGED <<superblock, data>>

Next ==
    \/ ufs_init \/ format_fresh
    \/ \E n \in Name, u \in Uid : ufs_create(n, u)
    \/ \E s \in Slots :
          \/ ufs_delete(s)
          \/ \E p \in Perm : ufs_chmod(s, p)
          \/ ufs_truncate(s, 0)
          \/ \E offset \in Offset, buf \in Buffer : ufs_write_at(s, offset, buf)
    \/ MoveSectors \/ Relocate \/ WriteSector \/ EndWrite
    \/ persist_directory \/ persist_superblock
    \/ AtaFails \/ PowerLoss

Spec == Init /\ [][Next]_vars

-----------------------------------------------------------------------------
TypeOK ==
    /\ ufs_ready \in BOOLEAN
    /\ directory \in [Slots -> Entry] /\ disk_dir \in [Slots -> Entry]
    /\ cached_file_count \in 0..UFS_MAX_ENTRIES
    /\ next_free_lba \in 0..UFS_DATA_END
    /\ superblock \in [magic : BOOLEAN, next_free : 0..UFS_DATA_END]
    /\ data \in [DataBytes -> Byte]
    /\ op.stage \in Stage /\ op.slot \in Slots
    /\ calls \in 0..MaxCalls /\ faults \in 0..MaxFaults

Extent(dir, s) == dir[s].start_lba..(dir[s].start_lba + dir[s].capacity - 1)

(* The directory in memory is sound between any two writes, also after the  *)
(* faults that PowerLossAt and AtaFailsAt admit: no two files share a       *)
(* sector, no file extends past its extent, below the data area or into the *)
(* part of it that is free, names are unique and the count that SYS_LIST    *)
(* relies on is exact. After a fault in a "torn" directory, or between the  *)
(* two writes of a file that moves, it need not be.                         *)
DirectorySound ==
    /\ TypeOK
    /\ \A s \in Slots : Used(directory, s) =>
          /\ directory[s].start_lba + directory[s].capacity <= next_free_lba
          /\ directory[s].size <= directory[s].capacity * SECTOR_SIZE
          /\ directory[s].capacity # 0 => directory[s].start_lba >= UFS_DATA_LBA
    /\ \A s, t \in Slots : (s # t /\ Used(directory, s) /\ Used(directory, t)) =>
          /\ directory[s].name # directory[t].name
          /\ Extent(directory, s) \intersect Extent(directory, t) = {}
    /\ cached_file_count = count_used_entries(directory)

(* Files that no call is working on keep the contents, owner and            *)
(* permissions that the calls before have given them, across calls on       *)
(* other files, failed calls, power losses and remounts.                    *)
ContentsSurvive ==
    ufs_ready => \A n \in Name \ {op.name} : stored[n] \in {MemView[n], Unsettled}

(* An entry of which the disk has some new fields and some old ones *)
HalfWritten(s) == OnDisk[s] \notin {disk_dir[s], directory[s]}

(* What the next ufs_init would find if the power went now, also between    *)
(* two sectors of the directory: every other file as the calls left it, and *)
(* the file of the call in progress as before or as after, a written file   *)
(* byte by byte and with its old or its new length.  The exception is a     *)
(* file being created whose entry lies across two sectors: between the two  *)
(* writes its name is found with what the slot held before.                 *)
PowerLossTearsOneFile ==
    \A n \in Name :
        LET old == stored[n]
            now == DiskView[n]
        IN  \/ old \in {now, Unsettled}
            \/ n = op.name /\ op.call = "create" /\ HalfWritten(op.slot)
            \/ n = op.name /\ op.call # "write" /\ now = op.result
            \/ /\ n = op.name /\ op.call = "write"
               /\ now # NoFile /\ now.owner = old.owner /\ now.perm = old.perm
               /\ Len(now.bytes) = Len(old.bytes) \/ Len(now.bytes) = Needed
               /\ \A i \in DOMAIN now.bytes :
                     \/ i \in DOMAIN old.bytes /\ now.bytes[i] = old.bytes[i]
                     \/ InRange(i) /\ now.bytes[i] = op.buf[i - op.offset]
                     \/ i > Len(old.bytes) /\ ~ InRange(i)
=============================================================================
