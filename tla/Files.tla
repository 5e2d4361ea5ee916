------------------------------- MODULE Files --------------------------------
(***************************************************************************)
(* Files as programs see them: the descriptors of kernel/core/fd.c on top  *)
(* of UFS and memfs, and the system calls SYS_OPEN, SYS_CLOSE, SYS_READ,   *)
(* SYS_WRITE, SYS_REMOVE, SYS_CHMOD and SYS_LIST.  A system call runs with *)
(* interrupts off, so a call is one step and processes interleave between  *)
(* calls only.  A call that fails and changes nothing is a stuttering step.*)
(*                                                                         *)
(* UFS is modelled here at the level of its functions, with the disk       *)
(* answering: what a failing disk or a power loss inside one function does *)
(* is the subject of module Ufs.  A byte of the disk carries the           *)
(* incarnation of the file it was written to (0 for none), which is how    *)
(* the properties tell whose bytes a read delivers; the code keeps no such *)
(* number, and nothing but the properties reads it.                        *)
(***************************************************************************)
EXTENDS Memfs, Sequences

CONSTANTS
    Procs,                      \* programs that make system calls
    THREAD_MAX_FDS,             \* 8 in the code; 0 and 1 are the console
    Names,                      \* file names
    PASSWD_FILE,                \* ".passwd", the name of the account file
    SECTOR_SIZE,                \* 512 in the code
    UFS_MAX_ENTRIES,            \* 64 in the code
    UFS_DATA_LBA,               \* the first sector of the data area
    UFS_DATA_RESERVED_SECTORS,  \* 8192 in the code
    FsFiles,                    \* how many files the read-only file system holds
    Plain                       \* a byte of a file that is not the account file

ASSUME FilesAssumption ==
    /\ "kernel" \notin Procs
    /\ THREAD_MAX_FDS \in Nat /\ THREAD_MAX_FDS > 2
    /\ PASSWD_FILE \in Names /\ NoName \notin Names
    /\ SECTOR_SIZE \in Nat \ {0} /\ UFS_MAX_ENTRIES \in Nat \ {0}
    /\ UFS_DATA_RESERVED_SECTORS \in Nat /\ FsFiles \in Nat
    /\ UFS_DATA_LBA \in Nat /\ UFS_DATA_LBA >= UFS_DATA_RESERVED_SECTORS

VARIABLES
    directory, next_free_lba, data,     \* UFS: directory, superblock, data area
    fds,                                \* fds[p][fd] = [kind, handle, cursor]
    uid,                                \* uid[p]
    inc, incs,      \* history: incarnation of each slot's file; how many there were
    stray,          \* history: what a write of no bytes has led to, see NoStray
    leaks,          \* history: incarnations read without the right to
    written,        \* history: memfs contents as the programs wrote them
    actor           \* history: who made the last call

ufsVars  == <<directory, next_free_lba, data>>
fileVars == <<entries, directory, next_free_lba, data, fds, uid, inc, incs, stray,
              leaks, written, actor>>

UfsSlots == 0..(UFS_MAX_ENTRIES - 1)
UFS_DATA_END_LBA == UFS_DATA_LBA + UFS_DATA_RESERVED_SECTORS
DataBytes == (UFS_DATA_LBA * SECTOR_SIZE)..(UFS_DATA_END_LBA * SECTOR_SIZE - 1)
Perms == SUBSET {"OTHER_READ", "OTHER_WRITE"}
Fds == 2..(THREAD_MAX_FDS - 1)

Unused  == [kind |-> "UNUSED", handle |-> 0, cursor |-> 0]
Nobody  == [of |-> 0, val |-> Plain]
NoEntry == [name |-> NoName, start |-> 0, size |-> 0, cap |-> 0, owner |-> 0, perm |-> {}]

-----------------------------------------------------------------------------
(* UFS *)

ufs_find(name) == {s \in UfsSlots : directory[s].name = name}

handle_valid(s) == directory[s].name # NoName

ufs_owner(s) == IF handle_valid(s) THEN directory[s].owner ELSE 0

ufs_perm(s) == IF handle_valid(s) THEN directory[s].perm ELSE {}

FreeEntries == {s \in UfsSlots : ~ handle_valid(s)}

NewEntry(name, me) == [NoEntry EXCEPT !.name = name, !.owner = me]

ufs_create(name, me) ==
    /\ ufs_find(name) = {}
    /\ FreeEntries # {}
    /\ directory' = [directory EXCEPT ![Lowest(FreeEntries)] = NewEntry(name, me)]
    /\ inc' = [inc EXCEPT ![Lowest(FreeEntries)] = incs + 1]
    /\ incs' = incs + 1
    /\ UNCHANGED <<next_free_lba, data, stray>>

ufs_delete(s) ==
    /\ directory' = [directory EXCEPT ![s].name = NoName]
    /\ UNCHANGED <<next_free_lba, data, inc, incs, stray>>

ufs_chmod(s, perm) ==
    /\ handle_valid(s)
    /\ directory' = [directory EXCEPT ![s].perm = perm]
    /\ UNCHANGED <<next_free_lba, data, inc, incs, stray>>

(* ufs_truncate(handle, 0), the only form that is called *)
ufs_truncate(s) ==
    /\ directory' = [directory EXCEPT ![s].size = 0]
    /\ UNCHANGED <<next_free_lba, data, inc, incs, stray>>

sectors_for_bytes(n) == (n + SECTOR_SIZE - 1) \div SECTOR_SIZE

(* A byte of the disk, by its address; outside the data area it belongs to *)
(* no file.                                                                *)
ByteAt(area, a) == IF a \in DataBytes THEN area[a] ELSE Nobody

Grows(s, needed) == needed > directory[s].cap * SECTOR_SIZE

new_capacity_sectors(s, needed) ==
    Doubled(IF directory[s].cap = 0 THEN 1 ELSE directory[s].cap, sectors_for_bytes(needed))

HasRoom(s, needed) ==
    Grows(s, needed) => next_free_lba + new_capacity_sectors(s, needed) <= UFS_DATA_END_LBA

(* The data area after ensure_capacity has copied the file to next_free_lba. *)
MovedData(s) ==
    [a \in DataBytes |->
        LET i == a - next_free_lba * SECTOR_SIZE
        IN  IF i >= 0 /\ i < sectors_for_bytes(directory[s].size) * SECTOR_SIZE
            THEN ByteAt(data, directory[s].start * SECTOR_SIZE + i) ELSE data[a]]

(* Mutant of ufs_ensure_capacity: the next free sector is not moved past   *)
(* the extent.                                                             *)
ReuseExtent(s, needed) ==
    IF Grows(s, needed)
    THEN [start |-> next_free_lba, cap |-> new_capacity_sectors(s, needed),
          next |-> next_free_lba + 1, data |-> MovedData(s)]
    ELSE [start |-> directory[s].start, cap |-> directory[s].cap,
          next |-> next_free_lba, data |-> data]

(* What ensure_capacity leaves, when there is room *)
ufs_ensure_capacity(s, needed) ==
    IF Grows(s, needed)
    THEN [start |-> next_free_lba, cap |-> new_capacity_sectors(s, needed),
          next |-> next_free_lba + new_capacity_sectors(s, needed), data |-> MovedData(s)]
    ELSE [start |-> directory[s].start, cap |-> directory[s].cap,
          next |-> next_free_lba, data |-> data]

(* A write of no bytes may make a file larger than its extent (ufs.c:409):  *)
(* hollow are those incarnations.  When such a file moves, more is copied   *)
(* than its new extent holds, up to the sector reach; mixed are the         *)
(* incarnations that grow over sectors written that way.                    *)
NoStray == [hollow |-> {}, mixed |-> {}, reach |-> 0]

(* The history after a write to the file in slot s, which has the new size, *)
(* and m from ensure_capacity                                               *)
Strays(s, size, len, m) ==
    LET moved == m.next # next_free_lba
        end   == next_free_lba + sectors_for_bytes(directory[s].size)
    IN  [hollow |-> IF len = 0 /\ size > m.cap * SECTOR_SIZE
                    THEN stray.hollow \cup {inc[s]} ELSE stray.hollow,
         mixed  |-> IF moved /\ next_free_lba < stray.reach
                    THEN stray.mixed \cup {inc[s]} ELSE stray.mixed,
         reach  |-> IF moved /\ end > m.next /\ end > stray.reach
                    THEN end ELSE stray.reach]

(* ufs_write_at of the bytes src[0], src[1], ...; a write of no bytes skips *)
(* ensure_capacity and still sets the size.                                 *)
ufs_write_at(s, offset, len, src) ==
    LET needed == offset + len
        m == ufs_ensure_capacity(s, IF len > 0 THEN needed ELSE 0)
        base == m.start * SECTOR_SIZE + offset
        size == IF needed > directory[s].size THEN needed ELSE directory[s].size
    IN  /\ handle_valid(s)
        /\ len > 0 => HasRoom(s, needed)
        /\ directory' = [directory EXCEPT ![s].start = m.start, ![s].cap = m.cap, ![s].size = size]
        /\ next_free_lba' = m.next
        /\ data' = [a \in DataBytes |-> IF a >= base /\ a < base + len
                                        THEN [of |-> inc[s], val |-> src[a - base]] ELSE m.data[a]]
        /\ stray' = Strays(s, size, len, m)
        /\ UNCHANGED <<inc, incs>>

(* The bytes that ufs_read_at delivers *)
ufs_read_at(s, offset, len) ==
    [i \in 0..(Available(directory[s].size, offset, len) - 1) |->
        ByteAt(data, directory[s].start * SECTOR_SIZE + offset + i)]

ufs_file_count == Cardinality({s \in UfsSlots : handle_valid(s)})

(* The slot of ufs_entry(index): the one with index used slots below it *)
ufs_entry(index) ==
    {s \in UfsSlots : handle_valid(s) /\ Cardinality({t \in 0..(s - 1) : handle_valid(t)}) = index}

-----------------------------------------------------------------------------
(* Descriptors *)

FreeFds(p) == {f \in Fds : fds[p][f].kind = "UNUSED"}

(* sched_fd_open; when the table is full, open has done its work and the   *)
(* program gets no descriptor.                                             *)
sched_fd_open(p, kind, handle) ==
    fds' = IF FreeFds(p) = {} THEN fds
           ELSE [fds EXCEPT ![p][Lowest(FreeFds(p))] =
                    [kind |-> kind, handle |-> handle, cursor |-> 0]]

IsOwner(p, s) == uid[p] = ufs_owner(s)
MayRead(p, s) == IsOwner(p, s) \/ "OTHER_READ" \in ufs_perm(s)

(* Mutant of MayWrite: whoever has the descriptor may write. *)
MayWriteAll(p, s) == TRUE

MayWrite(p, s) == IsOwner(p, s) \/ "OTHER_WRITE" \in ufs_perm(s)

(* Programs that run as root leave the account file to the kernel. *)
Leaves(p, s) == ~ (uid[p] = 0 /\ directory[s].name = PASSWD_FILE)

OpenCreates(p, name) ==
    /\ ufs_create(name, uid[p])
    /\ sched_fd_open(p, "UFS", Lowest(FreeEntries))
    /\ UNCHANGED <<entries, uid, leaks, written>>

OpenFinds(p, name) == \E s \in ufs_find(name) :
    /\ MayRead(p, s)
    /\ sched_fd_open(p, "UFS", s)
    /\ UNCHANGED <<ufsVars, entries, uid, inc, incs, stray, leaks, written>>

OpenTruncates(p, name) == \E s \in ufs_find(name) :
    /\ MayRead(p, s) /\ MayWrite(p, s) /\ Leaves(p, s)
    /\ ufs_truncate(s)
    /\ sched_fd_open(p, "UFS", s)
    /\ UNCHANGED <<entries, uid, leaks, written>>

MemOpenFinds(p, name) == \E h \in find_slot(name) :
    /\ sched_fd_open(p, "MEMFS", h)
    /\ UNCHANGED <<ufsVars, entries, uid, inc, incs, stray, leaks, written>>

MemOpenCreates(p, name) ==
    /\ memfs_create(name)
    /\ sched_fd_open(p, "MEMFS", CreateSlot)
    /\ written' = [written EXCEPT ![name] = <<>>]
    /\ UNCHANGED <<ufsVars, uid, inc, incs, stray, leaks>>

(* kmalloc has no memory left. *)
MemOpenFails(p, name) ==
    /\ CreateFails(name)
    /\ UNCHANGED <<ufsVars, fds, uid, inc, incs, stray, leaks, written>>

fd_close(p, f) ==
    /\ fds[p][f].kind # "UNUSED"
    /\ fds' = [fds EXCEPT ![p][f] = Unused]
    /\ UNCHANGED <<ufsVars, entries, uid, inc, incs, stray, leaks, written>>

(* The incarnations of the files that p may read at this moment *)
Readable(p) == {0} \cup {inc[s] : s \in {t \in UfsSlots : handle_valid(t) /\ MayRead(p, t)}}

(* Mutant of ReadChecked: the right to read is checked by open only. *)
ReadUnchecked(p, s) == TRUE

(* The check that fd_read repeats *)
ReadChecked(p, s) == MayRead(p, s)

UfsRead(p, f, len) ==
    LET d == fds[p][f]
        got == ufs_read_at(d.handle, d.cursor, len)
    IN  /\ d.kind = "UFS"
        /\ ReadChecked(p, d.handle) /\ handle_valid(d.handle)
        /\ fds' = [fds EXCEPT ![p][f].cursor = @ + Cardinality(DOMAIN got)]
        /\ leaks' = IF inc[d.handle] \in stray.hollow \cup stray.mixed THEN leaks
                    ELSE leaks \cup ({got[i].of : i \in DOMAIN got} \ Readable(p))
        /\ UNCHANGED <<ufsVars, entries, uid, inc, incs, stray, written>>

MemRead(p, f, len) ==
    LET d == fds[p][f]
    IN  /\ d.kind = "MEMFS"
        /\ fds' = [fds EXCEPT ![p][f].cursor =
                    @ + Available(entries[d.handle].size, d.cursor, len)]
        /\ UNCHANGED <<ufsVars, entries, uid, inc, incs, stray, leaks, written>>

UfsWrite(p, f, len) ==
    LET d == fds[p][f]
    IN  /\ d.kind = "UFS"
        /\ MayWrite(p, d.handle) /\ Leaves(p, d.handle)
        /\ ufs_write_at(d.handle, d.cursor, len, [i \in 0..(len - 1) |-> Plain])
        /\ fds' = [fds EXCEPT ![p][f].cursor = @ + len]
        /\ UNCHANGED <<entries, uid, leaks, written>>

(* A file in memory after len bytes of p at offset; memfs files have no gaps. *)
Overwritten(old, offset, len, p) ==
    [i \in 1..(IF offset + len > Len(old) THEN offset + len ELSE Len(old)) |->
        IF i > offset /\ i <= offset + len THEN p ELSE old[i]]

MemWrite(p, f, len) ==
    LET d == fds[p][f]
        name == entries[d.handle].name
    IN  /\ d.kind = "MEMFS"
        /\ memfs_write_at(d.handle, d.cursor, len, p)
        /\ fds' = [fds EXCEPT ![p][f].cursor = @ + len]
        /\ written' = [written EXCEPT ![name] = Overwritten(@, d.cursor, len, p)]
        /\ UNCHANGED <<ufsVars, uid, inc, incs, stray, leaks>>

SYS_REMOVE(p, name) == \E s \in ufs_find(name) :
    /\ IsOwner(p, s) /\ Leaves(p, s)
    /\ ufs_delete(s)
    /\ UNCHANGED <<entries, fds, uid, leaks, written>>

SYS_CHMOD(p, name, perm) == \E s \in ufs_find(name) :
    /\ IsOwner(p, s) /\ Leaves(p, s)
    /\ ufs_chmod(s, perm)
    /\ UNCHANGED <<entries, fds, uid, leaks, written>>

(* The file that SYS_LIST names for an index, as its file system and its   *)
(* name there; empty past the end                                          *)
SYS_LIST(index) ==
    LET mem == index - FsFiles
        ufs == index - FsFiles - memfs_file_count
    IN  IF index < FsFiles THEN <<"FS", index>>
        ELSE IF mem < memfs_file_count THEN <<"MEMFS", memfs_name(mem)>>
        ELSE IF ufs_entry(ufs) = {} THEN <<>>
        ELSE <<"UFS", directory[Lowest(ufs_entry(ufs))].name>>

-----------------------------------------------------------------------------
(* What the files look like to the programs *)

(* The bytes of a UFS file *)
Content(s) == ufs_read_at(s, 0, directory[s].size)

Extent(s) == {directory[s].start + i : i \in 0..(directory[s].cap - 1)}

(* Every file fits its extent, and no two extents share a sector or reach  *)
(* sectors not yet handed out (ensure_capacity and the permission to write *)
(* where it says).  Files that a write of no bytes through a descriptor of *)
(* an earlier file in the slot made larger than their extent (ufs.c:409)   *)
(* may not fit.                                                            *)
ExtentHoldsFile == \A s \in UfsSlots \ FreeEntries :
    /\ inc[s] \notin stray.hollow => directory[s].size <= directory[s].cap * SECTOR_SIZE
    /\ Extent(s) \subseteq UFS_DATA_LBA..(next_free_lba - 1)
    /\ \A t \in UfsSlots \ (FreeEntries \cup {s}) : Extent(s) \cap Extent(t) = {}

(* No program is ever handed a byte of a file that, at that moment, it     *)
(* neither owns nor may read: not through a descriptor that outlived a     *)
(* chmod, a change of user, or the file itself, whose slot another file    *)
(* now has (fd.c:91), and not from sectors of a file removed earlier.      *)
(* Only the files of NoStray may deliver such bytes.                       *)
NoLeak == leaks = {}

(* A memfs file holds what was written to it: growing the table or the     *)
(* buffer loses no byte and shows none of the heap's (memfs.c:27, 142);    *)
(* no cursor is past the end of its file.                                  *)
MemfsAsWritten ==
    /\ \A h \in DOMAIN entries : entries[h].in_use =>
        /\ entries[h].size = Len(written[entries[h].name])
        /\ \A i \in 1..entries[h].size : entries[h].data[i - 1] = written[entries[h].name][i]
    /\ \A p \in Procs, f \in Fds : fds[p][f].kind = "MEMFS" =>
        /\ entries[fds[p][f].handle].in_use
        /\ fds[p][f].cursor <= entries[fds[p][f].handle].size

(* A program that calls SYS_LIST with 0, 1, 2, ... until it fails is told  *)
(* every file of the three file systems, each once, while no call changes  *)
(* them (syscall.c:405, memfs.c:216, ufs.c:171).                           *)
ListNamesEveryFile ==
    LET all == {<<"FS", i>> : i \in 0..(FsFiles - 1)}
               \cup {<<"MEMFS", entries[h].name>> : h \in {e \in DOMAIN entries : entries[e].in_use}}
               \cup {<<"UFS", directory[s].name>> : s \in UfsSlots \ FreeEntries}
        count == FsFiles + memfs_file_count + ufs_file_count
    IN  /\ {SYS_LIST(i) : i \in 0..(count - 1)} = all
        /\ Cardinality(all) = count
        /\ SYS_LIST(count) = <<>>

(* Types of the variables above, without the history *)
FilesTypeOK ==
    /\ DOMAIN entries = 0..(entry_capacity - 1)
    /\ \A h \in DOMAIN entries :
        /\ entries[h].name \in Names \cup {NoName}
        /\ entries[h].size \in 0..capacity(entries[h])
    /\ \A s \in UfsSlots : directory[s] \in
        [name : Names \cup {NoName}, start : 0..UFS_DATA_END_LBA, size : Nat,
         cap : 0..UFS_DATA_RESERVED_SECTORS, owner : Nat, perm : Perms]
    /\ next_free_lba \in UFS_DATA_LBA..UFS_DATA_END_LBA
    /\ DOMAIN data = DataBytes
    /\ fds \in [Procs -> [Fds -> [kind : {"UNUSED", "UFS", "MEMFS"}, handle : Nat, cursor : Nat]]]
    /\ uid \in [Procs -> Nat]
    /\ inc \in [UfsSlots -> 0..incs]

(* The content of a live file changes, and the file disappears, only by a  *)
(* call of the kernel itself or of a program that at that moment owns it   *)
(* or may write to it (its owner, to remove it): no write, relocation or   *)
(* removal of one file touches the bytes of another, and a descriptor      *)
(* gives no right that its holder has lost (fd.c:127, ufs.c:315).          *)
FilesChangeByRight == [][actor' \in Procs =>
    \A s \in {t \in UfsSlots \ FreeEntries : inc[t] \notin stray.hollow} :
        LET stays == inc'[s] = inc[s] /\ directory'[s].name = directory[s].name
        IN  \/ stays /\ Content(s)' = Content(s)
            \/ IsOwner(actor', s)
            \/ stays /\ "OTHER_WRITE" \in ufs_perm(s)]_fileVars

=============================================================================
