-------------------------------- MODULE Vmm ---------------------------------
(***************************************************************************)
(* Address spaces: kernel/mm/vmm.c and vmm_growable_stack.c over the frame *)
(* allocator of module Pmm, with their users in the kernel: the guarded    *)
(* kernel stacks of sched/thread.c, the program loader (elf_loader.c,      *)
(* process.c) and the check of user buffers in syscall.c.                  *)
(*                                                                         *)
(* Page tables are four levels of ENTRIES entries that live in frames.     *)
(* The boot tables map all of memory by identity in entry 0 of the top     *)
(* level, with large pages that are split when a single page in them is    *)
(* unmapped or changed; every address space shares that branch.  Programs  *)
(* live in entry 1.  The writable bit and the TLB are left out.            *)
(*                                                                         *)
(* A thread is preemptible while it loads its program: an action has at    *)
(* most one call of the allocator, and what a function read before the     *)
(* call it uses after it.  Code that runs with interrupts off holds        *)
(* irqs_off over several steps.                                            *)
(***************************************************************************)
EXTENDS Pmm, Elf

CONSTANTS
    ENTRIES,                  \* ENTRIES_PER_TABLE
    Tids,                     \* thread slots for programs
    Program,                  \* program files
    Demo,                     \* the built-in demo of the command usermodetest
    BootTables,               \* <<PML4, PDPT, PD, PD...>>: frames of the boot tables
    CodePage,                 \* frame with user_demo_entry; the next one goes with it
    THREAD_STACK_PAGES,
    USER_IMAGE_LINK_BASE,
    USER_PROCESS_SLOT_SIZE,
    USER_STACK_MAX_SIZE,
    StoreOffsets,             \* where programs store, from their image base on
    Buffers,                  \* [offset, len]: user buffers of system calls
    HeapSizes,                \* frames that the kernel heap may take first
    MaxSpawns,                \* bound on spawns
    MaxSwitches               \* bound on switches between threads

VARIABLES
    tables,    \* contents of the frames that are page tables
    mem,       \* contents of all other frames
    th,        \* thread slots
    regions,   \* the list stack_regions: see vmm_register_growable_stack
    irqs_off,  \* the thread that runs with interrupts off, or NoTid
    heap,      \* frames of the kernel heap
    spawns,    \* number of spawns so far
    current,   \* current_thread, the one that ran last, or NoTid
    switches,  \* number of switches between threads so far
    lost,      \* history: frames that nothing refers to any more
    resplit,   \* history: large pages that were split twice
    view       \* history: what the memory of each program must hold

schedVars == <<current, switches>>
vmmVars == <<tables, mem, th, regions, irqs_off, heap, spawns, lost, resplit, view,
             schedVars>>
vars == <<pmmVars, vmmVars>>

NoTid == 0

(* Tables are large enough that memory fits entry 0 of the top level and    *)
(* the slots of all programs end before the last address; the boot tables   *)
(* and the demo are frames of usable memory that pmm_init reserves.         *)
ASSUME VmmAssumption ==
    /\ ENTRIES \in Nat /\ ENTRIES > 2
    /\ WORD = PAGE_SIZE * ENTRIES * ENTRIES * ENTRIES * ENTRIES
    /\ PMM_MAX_FRAMES <= ENTRIES * ENTRIES * ENTRIES
    /\ BootTables \in Seq(Reserved) /\ Len(BootTables) \in 3..(ENTRIES + 2)
    /\ \A i, j \in DOMAIN BootTables : BootTables[i] = BootTables[j] => i = j
    /\ Usable \subseteq 0..((Len(BootTables) - 2) * ENTRIES * ENTRIES - 1)
    /\ CodePage \in Nat /\ {CodePage, CodePage + 1} \subseteq Reserved \cap Usable
    /\ THREAD_STACK_PAGES \in Nat \ {0}
    /\ USER_PROCESS_SLOT_SIZE \in Nat \ {0} /\ USER_PROCESS_SLOT_SIZE % PAGE_SIZE = 0
    /\ USER_STACK_MAX_SIZE \in 0..USER_PROCESS_SLOT_SIZE
    /\ USER_IMAGE_LINK_BASE \in Nat
    /\ USER_IMAGE_LINK_BASE + USER_PROCESS_SLOT_SIZE <= WORD
    /\ Tids \subseteq Nat \ {0}
    /\ \A t \in Tids : PAGE_SIZE * ENTRIES * ENTRIES * ENTRIES
                            + (t + 1) * USER_PROCESS_SLOT_SIZE <= WORD
    /\ \A o \in StoreOffsets : o \in 0..(USER_PROCESS_SLOT_SIZE - 1) /\ o % PAGE_SIZE = 0
    /\ \A b \in Buffers : b.offset \in Nat /\ b.len \in Nat
    /\ HeapSizes \subseteq Nat
    /\ MaxSpawns \in Nat /\ MaxSwitches \in Nat

(* Program files may be cut off or have a wrong entry point, but the linker *)
(* script gives their segments addresses in one slot from the link base on: *)
(* the loader does not check that itself.                                   *)
ASSUME ProgramAssumption ==
    /\ Demo \notin Program
    /\ \A p, q \in Program : p.id = q.id => p = q
    /\ \A p \in Program :
        /\ p.id \notin {"zero", "junk", "argv", "by"} /\ p.size \in Nat
        /\ p.phdrs \in Seq([type : STRING, x : BOOLEAN, offset : Nat, vaddr : Nat,
                             filesz : Nat, memsz : Nat])
        /\ \A i \in Loads(p) :
            /\ p.phdrs[i].vaddr >= USER_IMAGE_LINK_BASE
            /\ p.phdrs[i].vaddr + p.phdrs[i].memsz
                  <= USER_IMAGE_LINK_BASE + USER_PROCESS_SLOT_SIZE

kernel_pml4 == BootTables[1]

(* Function f with value v for x *)
With(f, x, v) == [y \in DOMAIN f \cup {x} |-> IF y = x THEN v ELSE f[y]]

(***************************************************************************)
(* Page tables                                                             *)
(***************************************************************************)

Index == 0..(ENTRIES - 1)

Entry == [frame : Nat, present : BOOLEAN, user : BOOLEAN, large : BOOLEAN]

NotPresent == [frame |-> 0, present |-> FALSE, user |-> FALSE, large |-> FALSE]
TableEntry(f) == [frame |-> f, present |-> TRUE, user |-> TRUE, large |-> FALSE]
PageEntry(f, user) == [frame |-> f, present |-> TRUE, user |-> user, large |-> FALSE]
LargeEntry(f) == [frame |-> f, present |-> TRUE, user |-> FALSE, large |-> TRUE]

NewTable == [i \in Index |-> NotPresent]

(* Bytes below one entry of a table of the level: 1 for PT, ..., 4 for PML4 *)
Span(level) ==
    CASE level = 1 -> PAGE_SIZE
      [] level = 2 -> PAGE_SIZE * ENTRIES
      [] level = 3 -> PAGE_SIZE * ENTRIES * ENTRIES
      [] level = 4 -> PAGE_SIZE * ENTRIES * ENTRIES * ENTRIES

pml4_index(a) == (a \div Span(4)) % ENTRIES
pdpt_index(a) == (a \div Span(3)) % ENTRIES
pd_index(a)   == (a \div Span(2)) % ENTRIES
pt_index(a)   == (a \div Span(1)) % ENTRIES

(* The entries on the way from the PML4 of space s to address a; each one   *)
(* is meant only if the one before is present and, for L1, not large.       *)
L4(s, a) == tables[s][pml4_index(a)]
L3(s, a) == tables[L4(s, a).frame][pdpt_index(a)]
L2(s, a) == tables[L3(s, a).frame][pd_index(a)]
L1(s, a) == tables[L2(s, a).frame][pt_index(a)]

(* get_pd_entry found the entry and it is present *)
PdPresent(s, a) == L4(s, a).present /\ L3(s, a).present /\ L2(s, a).present

vmm_is_mapped_in(s, a) ==
    PdPresent(s, a) /\ (L2(s, a).large \/ L1(s, a).present)

vmm_is_user_accessible_in(s, a) ==
    /\ L4(s, a).present /\ L4(s, a).user
    /\ L3(s, a).present /\ L3(s, a).user
    /\ L2(s, a).present /\ L2(s, a).user
    /\ ~ L2(s, a).large => L1(s, a).present /\ L1(s, a).user

(* Address of a frame in the identity map *)
Addr(f) == f * PAGE_SIZE

(***************************************************************************)
(* The allocator, as the code here calls it                                *)
(***************************************************************************)

(* The frame that pmm_alloc_frame finds next, as a set: empty without one *)
NextFree ==
    LET distance(f) == (f - search_hint) % PMM_MAX_FRAMES
    IN  {f \in Frames \ used : \A g \in Frames \ used : distance(f) <= distance(g)}

TookFrame(f) == pmm_alloc_frame /\ held' = held \cup {f}

OutOfFrames == Frames \subseteq used

(* pmm_free_frame of each of a set of frames *)
FreeAll(S) ==
    /\ set_free(S)
    /\ held' = held \ S
    /\ UNCHANGED search_hint

ZeroPage == [k \in 0..(PAGE_SIZE - 1) |-> Zero]
Junk     == [k \in 0..(PAGE_SIZE - 1) |-> <<"junk">>]  \* tables and kernel stacks

(* Mutant of TookZeroed: the frame keeps what its last owner left in it. *)
TookAsIs(f) == TookFrame(f) /\ UNCHANGED mem

(* pmm_alloc_zeroed_frame, and pmm_alloc_frame with the loop of load_segment *)
TookZeroed(f) == TookFrame(f) /\ mem' = [mem EXCEPT ![f] = ZeroPage]

(***************************************************************************)
(* get_or_split_pt_entry, one table at a time.  MissingLevel is the level  *)
(* of the first table on the way to a that is not there yet, 0 if the page *)
(* table is reached.                                                       *)
(***************************************************************************)

MissingLevel(s, a) ==
    CASE ~ L4(s, a).present -> 3
      [] L4(s, a).present /\ ~ L3(s, a).present -> 2
      [] L4(s, a).present /\ L3(s, a).present
            /\ (~ L2(s, a).present \/ L2(s, a).large) -> 1
      [] OTHER -> 0

(* Mutant of SplitTable: the pages of the region become accessible. *)
SplitForUser(first) == [i \in Index |-> PageEntry(first + i, TRUE)]

(* What replaces a large page: its pages, with its flags *)
SplitTable(first) == [i \in Index |-> PageEntry(first + i, FALSE)]

(* The first frame of the large page around address a *)
RegionOf(a) == (a \div Span(2)) * ENTRIES

(* Frame f becomes the missing table on the way to a. *)
AddTable(s, a, f) ==
    LET level == MissingLevel(s, a)
        split == level = 1 /\ L2(s, a).present
        above == CASE level = 3 -> <<s, pml4_index(a)>>
                   [] level = 2 -> <<L4(s, a).frame, pdpt_index(a)>>
                   [] level = 1 -> <<L3(s, a).frame, pd_index(a)>>
    IN  /\ TookFrame(f)
        /\ tables' = With([tables EXCEPT ![above[1]][above[2]] = TableEntry(f)],
                          f, IF split THEN SplitTable(L2(s, a).frame) ELSE NewTable)
        /\ mem' = [mem EXCEPT ![f] = Junk]

(* The page entry is written, and the entries above it get PAGE_USER. *)
SetPte(s, a, e) ==
    tables' = [tables EXCEPT ![s][pml4_index(a)].user = TRUE,
                             ![L4(s, a).frame][pdpt_index(a)].user = TRUE,
                             ![L3(s, a).frame][pd_index(a)].user = TRUE,
                             ![L2(s, a).frame][pt_index(a)] = e]

(* The frame whose page entry the next SetPte overwrites *)
Displaced(s, a) ==
    IF L1(s, a).present /\ L1(s, a).user THEN {L1(s, a).frame} ELSE {}

BootFrames == {BootTables[i] : i \in DOMAIN BootTables}
BootPds    == {BootTables[i] : i \in 3..Len(BootTables)}

(* The tables after vmm_init: map_2mb_identity of the usable memory *)
vmm_init ==
    LET large(first) == IF \E f \in Usable : f \div ENTRIES = first \div ENTRIES
                        THEN LargeEntry(first) ELSE NotPresent
        pd(k) == [i \in Index |-> large((k * ENTRIES + i) * ENTRIES)]
        pds   == 0..(Len(BootTables) - 3)
        pdpt  == [i \in Index |->
                    IF i \in pds THEN TableEntry(BootTables[3 + i]) ELSE NotPresent]
    IN  [f \in BootFrames |->
            IF f = BootTables[1] THEN [NewTable EXCEPT ![0] = TableEntry(BootTables[2])]
            ELSE IF f = BootTables[2] THEN pdpt
            ELSE pd(CHOOSE k \in pds : BootTables[3 + k] = f)]

(***************************************************************************)
(* Threads.  pc is where the thread is: unused, guard (its kernel stack is *)
(* being set up), new (at the start of its trampoline), segment (between   *)
(* two pages of elf_load), page (maps one), stack, stackpage, register,    *)
(* user, fault, the steps of the demo, and zombie.                         *)
(***************************************************************************)

PC == {"unused", "guard", "guardsplit", "new", "segment", "page", "stack", "stackpage",
       "register", "user", "fault", "demospace", "demomark", "demosplit", "zombie"}

NoThread == [pc |-> "unused", prog |-> Demo, space |-> kernel_pml4, seg |-> 0,
             va |-> 0, frame |-> 0, table |-> 0, guard |-> 0]

(* The timer may switch to t: interrupts are on, or t has them off itself.  *)
MayRun(t) ==
    /\ irqs_off \in {NoTid, t}
    /\ current \in {NoTid, t} \/ switches < MaxSwitches

(* user_process_layout *)
image_base(t)    == Span(4) + t * USER_PROCESS_SLOT_SIZE
stack_ceiling(t) == image_base(t) + USER_PROCESS_SLOT_SIZE
LayoutOk(t)      == t * USER_PROCESS_SLOT_SIZE <= Span(4) - USER_PROCESS_SLOT_SIZE

load_bias(t) == (image_base(t) - USER_IMAGE_LINK_BASE) % WORD

KernelStack(t) == {th[t].guard + i : i \in 0..THREAD_STACK_PAGES}

Become(t, r) == th' = [th EXCEPT ![t] = r]

InHand(t) == {th[t].frame, th[t].table} \ {0}

(* The thread is dead.  Frames that it had allocated and not yet mapped are *)
(* not remembered anywhere; nor is the stack of the demo, which is mapped   *)
(* in the shared branch.                                                    *)
Dies(t) ==
    /\ Become(t, [th[t] EXCEPT !.pc = "zombie", !.frame = 0, !.table = 0])
    /\ view' = [view EXCEPT ![t] = <<>>]

DiesWithFrames(t) == Dies(t) /\ lost' = lost \cup InHand(t)

(***************************************************************************)
(* sched_spawn: alloc_guarded_stack.  spawn_elf_request calls it with      *)
(* interrupts off, the kernel shell spawns the demo with interrupts on.    *)
(* That another spawn may find the same slot meanwhile is left out.        *)
(***************************************************************************)

(* grow_heap, before the first spawn: how much memory the kernel has left   *)
grow_heap(count) ==
    /\ spawns = 0 /\ heap = {}
    /\ pmm_alloc_contiguous(count)
    /\ heap' = held'
    /\ UNCHANGED <<tables, mem, th, regions, irqs_off, spawns, lost, resplit, view>>

(* usermodetest waits for its thread: there is one demo at a time. *)
DemoAlive == \E t \in Tids : th[t].prog = Demo /\ th[t].pc \notin {"unused", "zombie"}

SpawnStack(t, p) ==
    /\ irqs_off = NoTid /\ spawns < MaxSpawns
    /\ th[t].pc = "unused" /\ \A u \in Tids : u < t => th[u].pc # "unused"
    /\ p = Demo => ~ DemoAlive
    /\ spawns' = spawns + 1
    /\ \E g \in Frames :
        /\ TakeRun(g, THREAD_STACK_PAGES + 1)
        /\ Become(t, [NoThread EXCEPT !.pc = "guard", !.prog = p, !.guard = g])
    /\ mem' = [f \in Frames |-> IF f \in held' \ held THEN Junk ELSE mem[f]]
    /\ irqs_off' = IF p = Demo THEN NoTid ELSE t
    /\ UNCHANGED <<tables, regions, lost, resplit, view>>

(* The table in hand replaces the large page around a, with its pages as    *)
(* they were before the allocation and entry e for a.  With interrupts on   *)
(* another thread may have split the page meanwhile: its table is lost.     *)
StaleSplit(t, a, e) ==
    LET s == th[t].space
        n == th[t].table
        again == ~ L2(s, a).large
        rest  == [f \in DOMAIN tables \ (IF again THEN {L2(s, a).frame} ELSE {}) |->
                    IF f = L3(s, a).frame
                    THEN [tables[f] EXCEPT ![pd_index(a)] = TableEntry(n)]
                    ELSE tables[f]]
    IN  /\ tables' = With(rest, n, [SplitTable(RegionOf(a)) EXCEPT ![pt_index(a)] = e])
        /\ lost' = IF again THEN lost \cup {L2(s, a).frame} ELSE lost
        /\ resplit' = IF again THEN resplit \cup {RegionOf(a)} ELSE resplit

(* get_or_split_pt_entry has read a large page and allocates its table. *)
TakeTable(t, pc) ==
    \E n \in NextFree :
        /\ TookFrame(n)
        /\ Become(t, [th[t] EXCEPT !.pc = pc, !.table = n])
        /\ mem' = [mem EXCEPT ![n] = Junk]

(* vmm_guard_page(guard), that is vmm_unmap_page_in of the shared branch,   *)
(* then vmm_is_mapped: if the large page could not be split, the stack is   *)
(* given back.                                                              *)
GuardPage(t) ==
    LET a == Addr(th[t].guard)
        missing == MissingLevel(kernel_pml4, a) # 0
    IN  /\ irqs_off \in {NoTid, t} /\ th[t].pc = "guard"
        /\ \/ /\ missing /\ th[t].prog # Demo
              /\ \E n \in NextFree : AddTable(kernel_pml4, a, n)
              /\ UNCHANGED <<th, irqs_off>>
           \/ /\ missing /\ th[t].prog = Demo
              /\ TakeTable(t, "guardsplit")
              /\ UNCHANGED <<tables, irqs_off>>
           \/ /\ ~ missing
              /\ SetPte(kernel_pml4, a, NotPresent)
              /\ Become(t, [th[t] EXCEPT !.pc = "new"])
              /\ irqs_off' = NoTid
              /\ UNCHANGED <<pmmVars, mem>>
           \/ /\ missing /\ OutOfFrames
              /\ FreeAll(KernelStack(t))
              /\ Become(t, NoThread)
              /\ irqs_off' = NoTid
              /\ UNCHANGED <<tables, mem>>
        /\ UNCHANGED <<regions, spawns, lost, resplit, view>>

GuardSplit(t) ==
    /\ th[t].pc = "guardsplit"
    /\ StaleSplit(t, Addr(th[t].guard), NotPresent)
    /\ Become(t, [th[t] EXCEPT !.pc = "new", !.table = 0])
    /\ UNCHANGED <<pmmVars, mem, regions, irqs_off, spawns, view>>

(***************************************************************************)
(* elf_process_trampoline                                                  *)
(***************************************************************************)

(* vmm_create_address_space copies the top level of the kernel. *)
vmm_create_address_space(f) ==
    /\ TookFrame(f)
    /\ tables' = With(tables, f, tables[kernel_pml4])
    /\ mem' = [mem EXCEPT ![f] = Junk]

(* The first page of segment i *)
FirstPage(t, i) == PageOf(segment_vaddr(th[t].prog.phdrs[i], load_bias(t)))

CreateSpace(t) ==
    /\ th[t].pc = "new" /\ th[t].prog # Demo
    /\ \/ \E f \in NextFree :
            /\ vmm_create_address_space(f)
            /\ IF LayoutOk(t) /\ HeaderOk(th[t].prog)
               THEN /\ Become(t, [th[t] EXCEPT !.pc = "segment", !.space = f, !.seg = 1,
                                               !.va = FirstPage(t, 1)])
                    /\ UNCHANGED view
               ELSE /\ Become(t, [th[t] EXCEPT !.pc = "zombie", !.space = f])
                    /\ UNCHANGED view
       \/ OutOfFrames /\ Dies(t) /\ UNCHANGED <<pmmVars, tables, mem>>
    /\ UNCHANGED <<regions, irqs_off, spawns, lost, resplit>>

(* elf_load goes to the next program header, or is done. *)
NextSegment(t) ==
    LET i == th[t].seg
    IN  IF i < Len(th[t].prog.phdrs)
        THEN Become(t, [th[t] EXCEPT !.seg = i + 1, !.va = FirstPage(t, i + 1)])
        ELSE Become(t, [th[t] EXCEPT !.pc = "stack"])

(* Between two pages: the next one gets a frame, or the segment is done or  *)
(* refused, and after the last one the entry point.                         *)
LoadSegment(t) ==
    LET p         == th[t].prog
        ph        == p.phdrs[th[t].seg]
        bias      == load_bias(t)
        refused   == ph.type = "LOAD" /\ ~ SegmentOk(p, ph, bias)
        pagesLeft == /\ ph.type = "LOAD" /\ ~ refused
                     /\ th[t].va \in SegmentPages(ph, bias)
        entryBad  == th[t].seg = Len(p.phdrs) /\ ~ EntryOk(p, bias)
    IN  /\ th[t].pc = "segment"
        /\ \/ /\ pagesLeft
              /\ \E f \in NextFree :
                    /\ TookZeroed(f)
                    /\ Become(t, [th[t] EXCEPT !.pc = "page", !.frame = f])
              /\ UNCHANGED view
           \/ /\ pagesLeft => OutOfFrames
              /\ pagesLeft \/ refused \/ entryBad
              /\ Dies(t)
              /\ UNCHANGED <<pmmVars, mem>>
           \/ /\ ~ (pagesLeft \/ refused \/ entryBad)
              /\ NextSegment(t)
              /\ UNCHANGED <<pmmVars, mem, view>>
        /\ UNCHANGED <<tables, regions, irqs_off, spawns, lost, resplit>>

(* vmm_map_page_in of the page, then the copy from the file; a page that is *)
(* already there is replaced.                                               *)
MapSegmentPage(t) ==
    LET s == th[t].space
        a == th[t].va
        p == th[t].prog
    IN  /\ th[t].pc = "page"
        /\ \/ /\ MissingLevel(s, a) # 0
              /\ \E n \in NextFree : AddTable(s, a, n)
              /\ UNCHANGED <<th, lost, view>>
           \/ /\ MissingLevel(s, a) # 0 /\ OutOfFrames
              /\ DiesWithFrames(t)
              /\ UNCHANGED <<pmmVars, tables, mem>>
           \/ /\ MissingLevel(s, a) = 0
              /\ SetPte(s, a, PageEntry(th[t].frame, TRUE))
              /\ mem' = [mem EXCEPT ![th[t].frame] =
                            PageBytes(p, p.phdrs[th[t].seg], load_bias(t), a)]
              /\ lost' = lost \cup Displaced(s, a)
              /\ Become(t, [th[t] EXCEPT !.pc = "segment", !.frame = 0,
                                         !.va = Plus(a, PAGE_SIZE)])
              /\ UNCHANGED <<pmmVars, view>>
        /\ UNCHANGED <<regions, irqs_off, spawns, resplit>>

(***************************************************************************)
(* setup_user_stack and enter_usermode                                     *)
(***************************************************************************)

StackPage(t) == PageOf(stack_ceiling(t) - PAGE_SIZE)

(* The first stack page: the argument block is at its end. *)
ArgvBytes == [ZeroPage EXCEPT ![PAGE_SIZE - 1] = <<"argv">>]

AllocStack(t) ==
    /\ th[t].pc = "stack"
    /\ \/ \E f \in NextFree :
            /\ TookZeroed(f)
            /\ Become(t, [th[t] EXCEPT !.pc = "stackpage", !.frame = f])
            /\ UNCHANGED view
       \/ OutOfFrames /\ Dies(t) /\ UNCHANGED <<pmmVars, mem>>
    /\ UNCHANGED <<tables, regions, irqs_off, spawns, lost, resplit>>

(* The pages of the segments of the program *)
ImagePages(t) ==
    UNION {SegmentPages(th[t].prog.phdrs[i], load_bias(t)) : i \in Loads(th[t].prog)}

(* The last segment, in the order of the file, that has page va *)
LastSegment(t, va) ==
    LET p  == th[t].prog
        on == {i \in Loads(p) : va \in SegmentPages(p.phdrs[i], load_bias(t))}
    IN  CHOOSE i \in on : \A j \in on : j <= i

(* What a program that is about to start must find in its memory.  A page   *)
(* of several segments has only what the last of them puts there: for each  *)
(* segment load_segment maps a zeroed frame in place of what was there, so  *)
(* the bytes of the earlier ones are gone.                                  *)
FirstView(t) ==
    [va \in ImagePages(t) \cup {StackPage(t)} |->
        IF va = StackPage(t) THEN ArgvBytes
        ELSE [k \in 0..(PAGE_SIZE - 1) |->
                SegmentByte(th[t].prog, LastSegment(t, va), (va + k - load_bias(t)) % WORD)]]

(***************************************************************************)
(* The list stack_regions of vmm_growable_stack.c.  A push reads the head  *)
(* into the next pointer of the new region and then stores the region as   *)
(* the head, with interrupts on: what other threads do to the list between *)
(* the two is undone, or done to nodes that the push brings back.          *)
(*   list      what a walk from the head finds, newest first               *)
(*   read[t]   what a walk from the head that thread t read finds          *)
(*   relinked  history: regions that a push put back into the list after   *)
(*             they had been taken out of it                               *)
(* The contents of a region that was freed and put back are taken to be    *)
(* what they were; the heap may in fact have handed its memory out again.  *)
(***************************************************************************)

Nodes(list) == {list[i] : i \in DOMAIN list}

NewRegion(t) ==
    [space |-> th[t].space, top |-> stack_ceiling(t),
     limit |-> stack_ceiling(t) - USER_STACK_MAX_SIZE]

(* `region->next = stack_regions`; without memory for the region the stack  *)
(* just does not grow.                                                      *)
vmm_register_growable_stack(t) ==
    \/ /\ regions' = [regions EXCEPT !.read[t] = regions.list]
       /\ Become(t, [th[t] EXCEPT !.pc = "register", !.frame = 0])
    \/ /\ OutOfFrames
       /\ Become(t, [th[t] EXCEPT !.pc = "user", !.frame = 0])
       /\ UNCHANGED regions

(* `stack_regions = region` *)
StoreHead(t) ==
    /\ th[t].pc = "register"
    /\ regions' = [regions EXCEPT
                     !.list = <<NewRegion(t)>> \o regions.read[t],
                     !.relinked = @ \cup (Nodes(regions.read[t]) \ Nodes(regions.list))]
    /\ Become(t, [th[t] EXCEPT !.pc = "user"])
    /\ UNCHANGED <<pmmVars, tables, mem, irqs_off, spawns, lost, resplit, view>>

MapStackPage(t) ==
    LET s == th[t].space
        a == StackPage(t)
    IN  /\ th[t].pc = "stackpage"
        /\ \/ /\ MissingLevel(s, a) # 0
              /\ \E n \in NextFree : AddTable(s, a, n)
              /\ UNCHANGED <<th, regions, lost, view>>
           \/ /\ MissingLevel(s, a) # 0 /\ OutOfFrames
              /\ FreeAll({th[t].frame})
              /\ Dies(t)
              /\ UNCHANGED <<tables, mem, regions, lost>>
           \/ /\ MissingLevel(s, a) = 0
              /\ SetPte(s, a, PageEntry(th[t].frame, TRUE))
              /\ mem' = [mem EXCEPT ![th[t].frame] = ArgvBytes]
              /\ lost' = lost \cup Displaced(s, a)
              /\ vmm_register_growable_stack(t)
              /\ view' = [view EXCEPT ![t] = FirstView(t)]
              /\ UNCHANGED pmmVars
        /\ UNCHANGED <<irqs_off, spawns, resplit>>

(***************************************************************************)
(* A program runs: stores, buffers of system calls, page faults            *)
(***************************************************************************)

(* The addresses of the slot of a program *)
SlotPages(t) ==
    {va \in image_base(t)..(stack_ceiling(t) - 1) : va % PAGE_SIZE = 0}

(* Byte k of the page at va is overwritten. *)
StoreByte(t, va, k, b) ==
    /\ mem' = [mem EXCEPT ![L1(th[t].space, va).frame][k] = b]
    /\ view' = [view EXCEPT ![t] =
                    IF va \in DOMAIN view[t] THEN [view[t] EXCEPT ![va][k] = b]
                    ELSE view[t]]

UserStore(t, va) ==
    /\ irqs_off = NoTid /\ th[t].pc = "user" /\ th[t].prog # Demo
    /\ vmm_is_user_accessible_in(th[t].space, va)
    /\ StoreByte(t, va, 0, <<"by", t>>)
    /\ UNCHANGED <<pmmVars, tables, th, regions, irqs_off, spawns, lost, resplit>>

(* find_region *)
InRegion(s, page) ==
    \E r \in Nodes(regions.list) : r.space = s /\ page >= r.limit /\ page < r.top

(* vmm_handle_page_fault on a page that the program cannot access; when it  *)
(* does not help, kpanic_page_fault kills the program.                      *)
PageFault(t, page) ==
    /\ irqs_off = NoTid /\ th[t].pc = "user" /\ th[t].prog # Demo
    /\ ~ vmm_is_user_accessible_in(th[t].space, page)
    /\ LET grows == InRegion(th[t].space, page)
                    /\ ~ vmm_is_mapped_in(th[t].space, page)
       IN  \/ /\ grows
              /\ \E f \in NextFree :
                    /\ TookZeroed(f)
                    /\ Become(t, [th[t] EXCEPT !.pc = "fault", !.va = page, !.frame = f])
              /\ irqs_off' = t
              /\ UNCHANGED view
           \/ /\ grows => OutOfFrames
              /\ Dies(t)
              /\ UNCHANGED <<pmmVars, mem, irqs_off>>
    /\ UNCHANGED <<tables, regions, spawns, lost, resplit>>

MapFaultPage(t) ==
    LET s == th[t].space
        a == th[t].va
    IN  /\ th[t].pc = "fault"
        /\ \/ /\ MissingLevel(s, a) # 0
              /\ \E n \in NextFree : AddTable(s, a, n)
              /\ UNCHANGED <<th, irqs_off, view>>
           \/ /\ MissingLevel(s, a) # 0 /\ OutOfFrames
              /\ FreeAll({th[t].frame})
              /\ Dies(t)
              /\ irqs_off' = NoTid
              /\ UNCHANGED <<tables, mem>>
           \/ /\ MissingLevel(s, a) = 0
              /\ SetPte(s, a, PageEntry(th[t].frame, TRUE))
              /\ view' = [view EXCEPT ![t] = With(view[t], a, ZeroPage)]
              /\ Become(t, [th[t] EXCEPT !.pc = "user", !.frame = 0])
              /\ irqs_off' = NoTid
              /\ UNCHANGED <<pmmVars, mem>>
        /\ UNCHANGED <<regions, spawns, lost, resplit>>

(* Mutant of user_range_ok: the last byte is taken one too early. *)
RangeOkShort(t, vaddr, len) ==
    len = 0 \/ /\ len - 1 <= (WORD - 1) - vaddr
               /\ \A page \in PageOf(vaddr)..PageOf(vaddr + len - 2) :
                    page % PAGE_SIZE = 0
                        => vmm_is_user_accessible_in(th[t].space, page)

user_range_ok(t, vaddr, len) ==
    len = 0 \/ /\ len - 1 <= (WORD - 1) - vaddr
               /\ \A page \in PageOf(vaddr)..PageOf(vaddr + len - 1) :
                    page % PAGE_SIZE = 0
                        => vmm_is_user_accessible_in(th[t].space, page)

BufferStart(t, b) == Plus(image_base(t), b.offset)

(***************************************************************************)
(* raw_entry_trampoline, the demo of the command usermodetest: a frame for *)
(* its stack, an address space, then vmm_mark_user of the stack and of two *)
(* pages of the kernel, in the branch that all spaces share, with          *)
(* interrupts on.                                                          *)
(***************************************************************************)

(* Mutant of DemoPage: the top of the stack is marked, not its page. *)
DemoPageAbove(t) == CASE th[t].seg = 1 -> th[t].frame + 1
                      [] th[t].seg = 2 -> CodePage
                      [] th[t].seg = 3 -> CodePage + 1

DemoPage(t) == CASE th[t].seg = 1 -> th[t].frame
                 [] th[t].seg = 2 -> CodePage
                 [] th[t].seg = 3 -> CodePage + 1

DemoStart(t) ==
    /\ th[t].pc = "new" /\ th[t].prog = Demo
    /\ \/ \E f \in NextFree :
            /\ TookZeroed(f)
            /\ Become(t, [th[t] EXCEPT !.pc = "demospace", !.frame = f])
            /\ UNCHANGED view
       \/ OutOfFrames /\ Dies(t) /\ UNCHANGED <<pmmVars, mem>>
    /\ UNCHANGED <<tables, regions, irqs_off, spawns, lost, resplit>>

DemoSpace(t) ==
    /\ th[t].pc = "demospace"
    /\ \/ \E f \in NextFree :
            /\ vmm_create_address_space(f)
            /\ Become(t, [th[t] EXCEPT !.pc = "demomark", !.space = f, !.seg = 1])
            /\ UNCHANGED <<lost, view>>
       \/ OutOfFrames /\ DiesWithFrames(t) /\ UNCHANGED <<pmmVars, tables, mem>>
    /\ UNCHANGED <<regions, irqs_off, spawns, resplit>>

(* After one vmm_mark_user, whose failure nobody looks at *)
DemoNext(t) ==
    Become(t, IF th[t].seg < 3 THEN [th[t] EXCEPT !.pc = "demomark", !.seg = @ + 1,
                                                  !.table = 0]
              ELSE [th[t] EXCEPT !.pc = "user", !.table = 0])

DemoMark(t) ==
    LET a == Addr(DemoPage(t))
    IN  /\ th[t].pc = "demomark"
        /\ \/ /\ MissingLevel(th[t].space, a) = 0
              /\ SetPte(th[t].space, a, PageEntry(DemoPage(t), TRUE))
              /\ DemoNext(t)
              /\ UNCHANGED <<pmmVars, mem>>
           \/ /\ MissingLevel(th[t].space, a) # 0
              /\ TakeTable(t, "demosplit")
              /\ UNCHANGED tables
           \/ /\ MissingLevel(th[t].space, a) # 0 /\ OutOfFrames
              /\ DemoNext(t)
              /\ UNCHANGED <<pmmVars, tables, mem>>
        /\ UNCHANGED <<regions, irqs_off, spawns, lost, resplit, view>>

DemoSplit(t) ==
    LET f == DemoPage(t)
    IN  /\ th[t].pc = "demosplit"
        /\ StaleSplit(t, Addr(f), PageEntry(f, TRUE))
        /\ DemoNext(t)
        /\ UNCHANGED <<pmmVars, mem, regions, irqs_off, spawns, view>>

(***************************************************************************)
(* The end: a program exits or is killed, at any time; the demo has no     *)
(* process record to kill it by and only exits.  Then reap_zombie, with    *)
(* interrupts off.                                                         *)
(***************************************************************************)

sched_kill(t) ==
    /\ irqs_off = NoTid
    /\ th[t].pc \notin {"unused", "guard", "guardsplit", "zombie"}
    /\ th[t].pc = "user" \/ th[t].prog # Demo
    /\ DiesWithFrames(t)
    /\ UNCHANGED <<pmmVars, tables, mem, regions, irqs_off, spawns, resplit>>

(* A kill while interrupts are on between the allocation of a table and the *)
(* store of its address: of a page table on the way to the page that is     *)
(* being mapped, or of the new address space.  Nobody knows the frame then. *)
KillInAllocation(t) ==
    /\ irqs_off = NoTid /\ th[t].prog # Demo
    /\ \/ th[t].pc = "new"
       \/ th[t].pc = "page" /\ MissingLevel(th[t].space, th[t].va) # 0
       \/ th[t].pc = "stackpage" /\ MissingLevel(th[t].space, StackPage(t)) # 0
    /\ \E n \in NextFree :
        /\ TookFrame(n)
        /\ mem' = [mem EXCEPT ![n] = Junk]
        /\ lost' = lost \cup InHand(t) \cup {n}
    /\ Dies(t)
    /\ UNCHANGED <<tables, regions, irqs_off, spawns, resplit>>

(* Mutant of PrivateBranches: everything that is mapped is freed. *)
AllBranches(s) == {i \in Index : tables[s][i].present}

(* The branches that vmm_destroy_address_space walks *)
PrivateBranches(s) ==
    {i \in Index : tables[s][i].present /\ tables[s][i] # tables[kernel_pml4][i]}

PresentIn(S) == {e \in UNION {{tables[f][i] : i \in Index} : f \in S} : e.present}

(* Mutant of IsOwnPage: only the page tables are freed. *)
NoPage(e) == FALSE

(* PAGE_PRESENT and PAGE_USER: the page belongs to the address space. *)
IsOwnPage(e) == e.user

(* The frames that vmm_destroy_address_space frees, tables and pages *)
PrivateFrames(s) ==
    LET pdpts == {tables[s][i].frame : i \in PrivateBranches(s)}
        pds   == {e.frame : e \in PresentIn(pdpts)}
        pts   == {e.frame : e \in {x \in PresentIn(pds) : ~ x.large}}
    IN  [tables |-> {s} \cup pdpts \cup pds \cup pts,
         pages  |-> {e.frame : e \in {x \in PresentIn(pts) : IsOwnPage(x)}}]

(* Mutant of vmm_unregister_growable_stack: the region stays. *)
KeepRegion(s) == UNCHANGED regions

(* Node i taken out of a list *)
Unlinked(list, i) == SubSeq(list, 1, i - 1) \o SubSeq(list, i + 1, Len(list))

(* vmm_unregister_growable_stack: the first region of the space goes.  The  *)
(* pointer to it is in the node before it or in the head; a push that has   *)
(* read the list sees the change only if that node is on its way.           *)
vmm_unregister_growable_stack(s) ==
    LET list == regions.list
        mine == {i \in DOMAIN list : list[i].space = s}
        i    == CHOOSE k \in mine : \A j \in mine : k <= j
        Link(l, k) == k > 1 /\ i > 1 /\ l[k - 1] = list[i - 1] /\ l[k] = list[i]
        Seen(l) == IF \E k \in DOMAIN l : Link(l, k)
                   THEN Unlinked(l, CHOOSE k \in DOMAIN l : Link(l, k)) ELSE l
    IN  regions' = IF mine = {} THEN regions
                   ELSE [regions EXCEPT !.list = Unlinked(list, i),
                                        !.read = [t \in Tids |-> Seen(regions.read[t])]]

(* Mutant of GuardBack: the guard stays unmapped. *)
GuardStaysOut(f) == NotPresent

(* vmm_map_page(guard_page, guard_page, VMM_WRITABLE) *)
GuardBack(f) == PageEntry(f, FALSE)

(* The stack and its guard are freed, the guard is mapped again, and        *)
(* process_reap_thread destroys the address space.                          *)
reap_zombie(t) ==
    LET s == th[t].space
        g == Addr(th[t].guard)
        gone == IF s = kernel_pml4 THEN [tables |-> {}, pages |-> {}] ELSE PrivateFrames(s)
    IN  /\ irqs_off = NoTid /\ th[t].pc = "zombie"
        /\ FreeAll(KernelStack(t) \cup gone.tables \cup gone.pages)
        /\ tables' = [f \in DOMAIN tables \ gone.tables |->
                        IF f = L2(kernel_pml4, g).frame
                        THEN [tables[f] EXCEPT ![pt_index(g)] = GuardBack(th[t].guard)]
                        ELSE tables[f]]
        /\ vmm_unregister_growable_stack(s)
        /\ Become(t, NoThread)
        /\ UNCHANGED <<mem, irqs_off, spawns, lost, resplit, view>>

(***************************************************************************)
(* The specification                                                       *)
(***************************************************************************)

Init ==
    /\ PmmInit
    /\ tables = vmm_init
    /\ mem = [f \in Frames |-> Junk]
    /\ th = [t \in Tids |-> NoThread]
    /\ regions = [list |-> <<>>, read |-> [t \in Tids |-> <<>>], relinked |-> {}]
    /\ irqs_off = NoTid
    /\ spawns = 0 /\ heap = {}
    /\ current = NoTid /\ switches = 0
    /\ lost = {} /\ resplit = {}
    /\ view = [t \in Tids |-> <<>>]

Step(t) ==
    \/ GuardSplit(t)
    \/ CreateSpace(t)
    \/ LoadSegment(t)
    \/ MapSegmentPage(t)
    \/ AllocStack(t)
    \/ MapStackPage(t)
    \/ StoreHead(t)
    \/ \E o \in StoreOffsets : UserStore(t, image_base(t) + o)
    \/ \E va \in SlotPages(t) : PageFault(t, va)
    \/ MapFaultPage(t)
    \/ DemoStart(t)
    \/ DemoSpace(t)
    \/ DemoMark(t)
    \/ DemoSplit(t)

Next ==
    \E t \in Tids :
        \/ /\ MayRun(t) /\ Step(t)
           /\ current' = t
           /\ switches' = IF current \in {NoTid, t} THEN switches ELSE switches + 1
           /\ UNCHANGED heap
        \/ /\ \/ \E p \in Program \cup {Demo} : SpawnStack(t, p)
              \/ GuardPage(t)
              \/ sched_kill(t)
              \/ KillInAllocation(t)
              \/ reap_zombie(t)
           /\ UNCHANGED <<schedVars, heap>>
        \/ \E count \in HeapSizes : grow_heap(count) /\ UNCHANGED schedVars

Spec == Init /\ [][Next]_vars

(***************************************************************************)
(* Properties                                                              *)
(***************************************************************************)

(* Types; a growable stack lies in the branch of the programs. *)
TypeOK ==
    /\ PmmTypeOK
    /\ DOMAIN tables \subseteq Frames
    /\ \A f \in DOMAIN tables : tables[f] \in [Index -> Entry]
    /\ \A t \in Tids : /\ th[t].pc \in PC
                       /\ {th[t].space, th[t].frame, th[t].table, th[t].guard} \subseteq Frames
    /\ \A r \in Nodes(regions.list) :
            r.space \in Frames /\ {r.limit, r.top} \subseteq Span(4)..(2 * Span(4))
    /\ irqs_off \in Tids \cup {NoTid}
    /\ spawns \in 0..MaxSpawns /\ switches \in 0..MaxSwitches
    /\ current \in Tids \cup {NoTid}
    /\ lost \subseteq Frames

Alive == {t \in Tids : th[t].pc # "unused"}
WithSpace == {t \in Tids : th[t].space # kernel_pml4}

(* Page tables made by splitting large pages of the shared branch *)
SharedPts ==
    {e.frame : e \in {x \in PresentIn(BootPds) : ~ x.large}}

(* Who may hold a frame, and which frames it holds *)
Owners ==
    {<<"stack", t>> : t \in Alive} \cup {<<"hand", t>> : t \in Alive}
    \cup {<<"space", t>> : t \in WithSpace}
    \cup {<<o, NoTid>> : o \in {"shared", "heap", "lost"}}

OwnedBy(o) ==
    CASE o[1] = "stack"  -> KernelStack(o[2])
      [] o[1] = "hand"   -> InHand(o[2])
      [] o[1] = "space"  -> LET own == PrivateFrames(th[o[2]].space)
                            IN  own.tables \cup own.pages
      [] o[1] = "shared" -> SharedPts
      [] o[1] = "heap"   -> heap
      [] o[1] = "lost"   -> lost

(* Every allocated frame has exactly one owner: the heap, a kernel stack,   *)
(* an address space, the shared tables, a thread that is about to map it,   *)
(* or nobody because it was lost in one of the ways that `lost` records.    *)
(* So vmm_destroy_address_space frees all that a program had, once, and     *)
(* nothing that is shared.                                                  *)
FramesAccounted ==
    LET owned == [o \in Owners |-> OwnedBy(o)]
    IN  /\ TypeOK
        /\ held = UNION {owned[o] : o \in Owners}
        /\ \A o1, o2 \in Owners : o1 # o2 => owned[o1] \cap owned[o2] = {}

(* A program finds in its memory what the segments of its file say, zeros   *)
(* where they have nothing, its arguments, and what it stored there itself: *)
(* nothing of another program, past or present, and nothing of the page     *)
(* tables.  One page may disappoint it: of a page that several segments     *)
(* share, it finds the bytes of the last one and zeros for the others.      *)
MemoryPrivate ==
    \A t \in Tids : th[t].pc \in {"user", "fault"} =>
        \A va \in DOMAIN view[t] :
            /\ vmm_is_user_accessible_in(th[t].space, va)
            /\ mem[L1(th[t].space, va).frame] = view[t][va]

(* The pages that the demo makes accessible: two of the kernel, for good,   *)
(* and its stack, which is never freed *)
DemoFrames == {CodePage, CodePage + 1} \cup lost \cup UNION {InHand(t) : t \in Tids}

(* Ring 3 reaches no frame of the kernel or of another program: in its slot *)
(* a program reaches its own pages, in the shared branch only what the demo *)
(* opened, and those frames are never handed out again.                     *)
OnlyOwnPages ==
    /\ \A f \in Frames :
            vmm_is_user_accessible_in(kernel_pml4, Addr(f)) => f \in DemoFrames
    /\ \A t \in WithSpace :
            LET s   == th[t].space
                own == PrivateFrames(s).pages
            IN  /\ tables[s][0] = tables[kernel_pml4][0]
                /\ \A va \in SlotPages(t) :
                        vmm_is_user_accessible_in(s, va) => L1(s, va).frame \in own

(* The kernel reaches every frame that the allocator may hand out, or has   *)
(* handed out to be filled, at its own address: a guard page is mapped      *)
(* again before it is freed.                                                *)
FreeFramesMapped ==
    \A f \in (Frames \ used) \cup UNION {InHand(t) : t \in Tids} :
        vmm_is_mapped_in(kernel_pml4, Addr(f))

(* The guard below the kernel stack of a thread stays unmapped for as long  *)
(* as the thread lives, whatever else is split, mapped or unmapped, except  *)
(* when the demo or its spawn has split its large page a second time.       *)
GuardsUnmapped ==
    \A t \in Tids : th[t].pc \notin {"unused", "guard", "guardsplit"} =>
        \/ ~ vmm_is_mapped_in(kernel_pml4, Addr(th[t].guard))
        \/ RegionOf(Addr(th[t].guard)) \in resplit

(* A growable stack belongs to an address space that exists, and to one     *)
(* only, so no region of a dead program grows into the one that reuses its  *)
(* frame; except the regions that a push put back into the list because it  *)
(* was interrupted between its two statements.                              *)
RegionsLive ==
    LET list == regions.list
    IN  /\ \A r \in Nodes(list) \ regions.relinked : \E t \in WithSpace : th[t].space = r.space
        /\ \A i, j \in DOMAIN list :
                i < j /\ list[i].space = list[j].space => list[j] \in regions.relinked

(* The loader takes no byte from behind the end of the file. *)
LoaderStaysInFile ==
    \A f \in Frames : \A k \in 0..(PAGE_SIZE - 1) : \A p \in Program :
        mem[f][k][1] = p.id => mem[f][k][2] < p.size

(* A buffer that user_range_ok accepts is accessible to the last byte. *)
BuffersAccessible ==
    \A t \in Tids : \A b \in Buffers :
        th[t].pc = "user" /\ user_range_ok(t, BufferStart(t, b), b.len) =>
            \A i \in 0..(b.len - 1) :
                vmm_is_user_accessible_in(th[t].space, Plus(BufferStart(t, b), i))

=============================================================================
