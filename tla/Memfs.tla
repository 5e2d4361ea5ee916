------------------------------- MODULE Memfs --------------------------------
(***************************************************************************)
(* The in-memory file system, kernel/core/memfs.c: a table of entries that *)
(* doubles when it is full and a buffer per file that doubles when a write *)
(* does not fit.  Its only users are the system calls on descriptors and   *)
(* SYS_LIST, which run with interrupts off, so every function is one step. *)
(* memfs_delete has no caller.  What kmalloc hands out holds Junk.         *)
(***************************************************************************)
EXTENDS Integers, FiniteSets

CONSTANTS
    MEMFS_INITIAL_CAPACITY,     \* 4 in the code
    MEMFS_INITIAL_BUFFER_SIZE,  \* 256 in the code
    NoName,                     \* the name of a free slot, here and in UFS
    Junk

ASSUME MemfsAssumption ==
    /\ MEMFS_INITIAL_CAPACITY \in Nat \ {0}
    /\ MEMFS_INITIAL_BUFFER_SIZE \in Nat \ {0}

VARIABLE entries

(* Fresh memory of n bytes *)
kmalloc(n) == [i \in 0..(n - 1) |-> Junk]

init_entry_slot == [name |-> NoName, data |-> kmalloc(0), size |-> 0, in_use |-> FALSE]

entry_capacity == Cardinality(DOMAIN entries)

(* The lowest element of a set of slots or capacities *)
Lowest(S) == CHOOSE x \in S : \A y \in S : x <= y

find_slot(name) == {i \in DOMAIN entries : entries[i].in_use /\ entries[i].name = name}

find_free_slot(table) == {i \in DOMAIN table : ~ table[i].in_use}

(* The table after grow_table *)
grow_table ==
    LET n == IF entry_capacity = 0 THEN MEMFS_INITIAL_CAPACITY ELSE 2 * entry_capacity
    IN  [i \in 0..(n - 1) |-> IF i \in DOMAIN entries THEN entries[i] ELSE init_entry_slot]

(* The table in which memfs_create finds a free slot *)
RoomyTable == IF find_free_slot(entries) = {} THEN grow_table ELSE entries

CreateSlot == Lowest(find_free_slot(RoomyTable))

memfs_create(name) ==
    /\ find_slot(name) = {}
    /\ entries' = [RoomyTable EXCEPT ![CreateSlot] =
                    [name |-> name, data |-> kmalloc(MEMFS_INITIAL_BUFFER_SIZE),
                     size |-> 0, in_use |-> TRUE]]

(* The table has grown, if it had to, and there is no memory for a buffer. *)
CreateFails(name) == find_slot(name) = {} /\ entries' = RoomyTable

capacity(e) == Cardinality(DOMAIN e.data)

(* `while (c < needed) c *= 2`, here and in UFS: c after every pass, and at *)
(* the end; needed passes are always enough.                                *)
Passes(from, needed) ==
    LET c[k \in 0..needed] ==
            IF k = 0 THEN from ELSE IF c[k - 1] < needed THEN 2 * c[k - 1] ELSE c[k - 1]
    IN  c

Doubled(from, needed) == Passes(from, needed)[needed]

(* Mutant of ensure_capacity: the last byte of the file is not copied. *)
CopyOneLess(e, needed) ==
    IF needed <= capacity(e) THEN e.data
    ELSE [i \in 0..(Doubled(2 * capacity(e), needed) - 1) |->
            IF i + 1 < e.size THEN e.data[i] ELSE Junk]

(* The buffer of an entry after ensure_capacity *)
ensure_capacity(e, needed) ==
    IF needed <= capacity(e) THEN e.data
    ELSE [i \in 0..(Doubled(2 * capacity(e), needed) - 1) |->
            IF i < e.size THEN e.data[i] ELSE Junk]

(* len bytes of value b at offset *)
memfs_write_at(h, offset, len, b) ==
    LET e      == entries[h]
        needed == offset + len
        data   == ensure_capacity(e, needed)
    IN  entries' = [entries EXCEPT
            ![h].data = [i \in DOMAIN data |-> IF i >= offset /\ i < needed THEN b ELSE data[i]],
            ![h].size = IF needed > e.size THEN needed ELSE e.size]

(* The number of bytes that a read returns *)
Available(size, offset, len) ==
    IF offset >= size THEN 0 ELSE IF len > size - offset THEN size - offset ELSE len

memfs_file_count == Cardinality({i \in DOMAIN entries : entries[i].in_use})

(* Mutant of memfs_next: it steps over the slot behind the handle. *)
NextButOne(h) == {i \in DOMAIN entries : i > h + 1 /\ entries[i].in_use}

(* The slots from which memfs_next takes the lowest; memfs_first is         *)
(* memfs_next(-1).                                                          *)
memfs_next(h) == {i \in DOMAIN entries : i > h /\ entries[i].in_use}

(* The slots in the order in which SYS_LIST visits them, as the slot it     *)
(* reaches after k steps; empty when it has run off the end                 *)
Visits(k) ==
    LET visit[n \in 0..k] ==
            IF n = 0 THEN memfs_next(-1)
            ELSE IF visit[n - 1] = {} THEN {} ELSE memfs_next(Lowest(visit[n - 1]))
    IN  visit

Visited(k) == Visits(k)[k]

memfs_name(k) == IF Visited(k) = {} THEN NoName ELSE entries[Lowest(Visited(k))].name

=============================================================================
