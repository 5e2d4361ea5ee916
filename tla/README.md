# A TLA+ verification of MiniKernel

MiniKernel is a small x86_64 kernel: one CPU, preemptive threads, processes in
ring 3 that enter the kernel through `int 0x80`, pipes and redirection, a
keyboard console, a physical frame allocator, a kernel heap and paging, an in-memory
and an on-disk file system, user accounts and a user-space shell. This directory
models the parts in which the order of events decides whether the kernel is
right, checks them with TLC on small instances, and proves the central
invariants with TLAPS for every value of the constants. Paths below are relative
to the root of the repository.

## 1. The system

### What is atomic

Every gate of the IDT, `int 0x80` included, is an interrupt gate
(`kernel/arch/x86_64/idt.c`), so a system call of a program runs with IF = 0 from
entry to return, except where it goes through `sched_sleep`, which switches to
another thread or idles in a `sti; hlt` loop. Kernel code that runs with IF = 1,
and can be interrupted between any two instructions, is the kernel shell (tid 0),
the threads it creates, and the trampoline of a new process
(`elf_process_trampoline`) before it enters ring 3. No lock exists anywhere:
atomicity is IF = 0 or nothing. All the interleaving hazards of this kernel
follow from that picture.

### Components, state, operations

| component | source | state | operations |
|---|---|---|---|
| scheduler | `kernel/sched/thread.c` | `threads[]`, `thread_capacity`, `current_thread` | spawn (grows the table by doubling), yield, tick, sleep/wakeup on channels, wait, exit, kill, reap |
| processes | `kernel/core/process.c` | `processes[64]`, `next_pid` | reserve/release a record, spawn an ELF request, trampoline, mark exited, wait, kill, orphan |
| system calls | `kernel/core/syscall.c` | none | dispatch to all the other parts |
| timer, PIC, PIT | `kernel/drivers/{timer,pic,pit}.c` | tick counter | IRQ 0: `sched_tick` |
| keyboard, ring buffer | `kernel/drivers/keyboard/`, `kernel/lib/ring_buffer.c` | head, tail, 256 bytes, shift state | IRQ 1 pushes and wakes; `kbd_getchar` pops or sleeps |
| pipes | `kernel/core/pipe.c` | 8 rings of 1024 bytes, reader and writer counts | create, read, write, open and close an end |
| descriptors | `kernel/core/fd.c` | 8 descriptors in every thread slot: kind, handle, cursor | open, dup into a child, close, read, write |
| frame allocator | `kernel/mm/pmm.c` | bitmap, counter of free frames, search hint | init from e820, allocate one or a run, free |
| heap | `kernel/mm/heap.c` | linked list of blocks | `kmalloc` (first fit, split, grow), `kfree` (coalesce) |
| virtual memory | `kernel/mm/vmm.c`, `vmm_growable_stack.c` | page tables, stack reservations | map, unmap, split a large page, create/destroy an address space, grow a stack on a fault |
| UFS | `kernel/core/ufs.c` | superblock, 64 directory entries, bump allocator of sectors | create, write, truncate, chmod, remove, each followed by persist |
| accounts | `kernel/core/users.c` | table of users, kept in a UFS file | load or seed, login, add, save |
| memfs, fs | `kernel/core/memfs.c`, `fs.c` | file tables | file operations; lookup of program images |
| ELF loader | `kernel/core/elf/` | none | bounds checks, map and copy segments, relocate |
| kernel shell | `kernel/core/shell/` | none | `run`, `threadtest`, file and memory commands |
| programs | `programs/` | ring 3 | the environment: any system call at any time |

How they meet: the timer interrupt calls the scheduler; the keyboard interrupt
pushes into the ring and wakes its channel; `sched_exit_status` and `sched_kill`
call back into `process_mark_exited`, which wakes the parent; `process_wait` and
the pipes sleep on channels (an address, a pid or a tid cast to a pointer, so pids
and tids share one number space); spawning duplicates descriptors and so pipe ends
into the child; `reap_zombie` closes what a dead thread still holds, destroys its
address space and gives its stack back; heap, thread stacks, page tables and program
pages take frames from the frame allocator. Descriptors hold the slot number of a
file and nothing else, so that each read and write looks the file and the rights up
again; the accounts live in a UFS file like any other.

### What is hard here, and what correctness means

* Check-then-sleep: `process_wait`, `kbd_getchar`, `pipe_read`, `pipe_write` and
  `sched_wait` test a condition and then sleep. They are right only where the
  two happen with IF = 0. Properties: `NoLostExit`, `NoLostKey`,
  `NoLostPipeWakeup`, `WaitReturns`; refuted, because `sched_wait` does it with
  IF = 1: `CommandReturns`.
* Two tables about one thing: a process record and the slot of its thread, the
  descriptors and the counts of a pipe, the bitmap and its counter, the heap's
  list and the frames. Properties: `RecordMatchesThread`, `OneRecordPerThread`,
  `RefCounts`, `FreeCount`, `BitmapExact`, `BlocksTile`.
* Death: exit, kill, an exit with nobody else to run, a zombie until it is
  reaped, reuse of its slot. Properties: `SlotFreedOnlyByReap`,
  `ExitStatusFinal`; refuted: `ExitLeavesMachineRunning`.
* Memory that changes hands: a frame goes from a program to a page table to a kernel
  stack; a load can stop half way, by a damaged file, by lack of memory or by a kill;
  all address spaces share the kernel's branch. Properties: `FramesAccounted`,
  `MemoryPrivate`, `OnlyOwnPages`, `FreeFramesMapped`, `GuardsUnmapped`,
  `RegionsLive`, `LoaderStaysInFile`, `BuffersAccessible`.
* Rights and slots that change under an open descriptor: the file is removed and its
  slot reused, its owner changes the permissions, the program logs in as somebody
  else. Properties: `NoLeak`, `FilesChangeByRight`, `ExtentHoldsFile`.
* Files that move when they grow, in memory and on disk, and the accounts, which are
  truncated before they are written. Properties: `MemfsAsWritten`,
  `ListNamesEveryFile`, `AccountsSurvive`.
* Dispatch: one RUNNING thread, no starvation. Properties: `OneRunning`,
  `ReadyRuns`.
* Rings: positions that wrap, and an interrupt in the middle of a pop.
  Properties: `PositionsAgree`, `ImplementsFifo`, `ImplementsKeyQueue`.
* Disk: every call is a series of sector writes that can fail or be cut off, also in
  the middle of a directory entry. Properties: `DirectorySound`,
  `PowerLossTearsOneFile`, `ContentsSurvive`; the last is refuted for a power loss in
  one place, and all of them make an exception for half-written entries (section 3).

The full list, with the line where each hazard bites, is `hazards` in
`PROJECT.json`.

## 2. The modules

| module | models | kind |
|---|---|---|
| `Threads` | the thread table and the table-rewriting part of each function of `thread.c` | operators |
| `Kernel` | scheduler, process table, console sleepers, timer and keyboard interrupts, shell and programs, composed | specification |
| `KernelProofs` | invariants of `Kernel` for every table size | proofs |
| `KernelThreads` | `threadtest`/`largethreadtest`: `sched_spawn` and `sched_wait` called with IF = 1 | specification |
| `PipeFd` | pipe table, reference counts, descriptors, sleepers on pipes | specification |
| `PipeFdProofs` | reference counts and wakeups of `PipeFd` for every number of processes, descriptors and pipes | proofs |
| `Pipe`, `Fifo` | the bytes of one pipe, and the bounded channel it implements | specification and its abstraction |
| `Keyboard`, `KeyQueue` | keyboard interrupt against the three memory steps of a pop, and the lossy queue it implements | specification and its abstraction |
| `RingProofs` | `Pipe` implements `Fifo` for every capacity, `Keyboard` implements `KeyQueue` for every size and layout | proofs |
| `Pmm` | the frame allocator | specification |
| `PmmProofs` | invariants of `Pmm` for every amount of memory | proofs |
| `Heap` | `kmalloc`/`kfree` on top of `Pmm`, with other owners of frames | specification |
| `HeapProofs` | invariants of `Heap` for every request and every amount of memory; extends `PmmProofs` | proofs |
| `Ufs` | the persistent file system on a disk whose writes fail and are cut off | specification |
| `UfsProofs` | invariants of `Ufs` for every number of files, sectors, calls and faults | proofs |
| `Elf` | the checks of the ELF loader and the bytes it puts into a page | operators |
| `Vmm` | page tables, address spaces, program loading, stacks and guard pages on top of `Pmm` | specification |
| `VmmProofs` | invariants of `Vmm` for every size of tables and memory, every number of threads and programs; extends `PmmProofs` | proofs |
| `Memfs` | the in-memory file system | operators on its table |
| `Files` | UFS and memfs under the descriptors of several programs; the file calls | actions, properties |
| `Users` | accounts, their file, power losses; composes `Files` into a specification | specification |
| `UsersProofs` | files, descriptors, memfs and accounts for every number of programs, files, sectors and accounts | proofs |
| `MCPipeFd`, `MCKeyboard`, `MCUfs`, `MCVmm`, `MCUsers` | symmetry, the layout table, writes, program files, mixes of calls for TLC | instances |

### Threads and Kernel

`Threads` has one operator for each rewriting of the table: `sched_wakeup`,
`Block`, `Dispatch`, `Elapse`, `SpawnIn`, `ClearSlot`, `CopyTable`. `Kernel` owns
the variables and chains these operators in the order of the C calls: for
example `sched_exit_status` is ZOMBIE, `process_mark_exited` (record, then
wakeup of the pid), wakeup of the tid, search, dispatch. The variable `pc[t]`
says where a thread is or will continue; the header of the module lists its
values. `Runs(t)` is "code of t executes"; `InterruptsOn` is the interrupt flag,
a function of `pc` because of the interrupt gates. `arg[t]` is the pid a thread
waits for.

Slots at or above `thread_capacity` do not exist in memory and are kept as UNUSED
entries. Growth of the table is faithful to `copy_thread_slot`, which copies
every field but `uid` into memory that nobody has cleared: the uids after growth
are an arbitrary choice.

Left out of `Kernel`: priorities (every thread in the repository has the normal
one), contexts, kernel stacks, address spaces, the program image, and the
descriptors, which `PipeFd` has.

### KernelThreads

The kernel shell calls `sched_spawn` and `sched_wait` with IF = 1, so here each
of them is several steps and the timer may strike between them. The shell waits for
its children one after another, as the commands do; for each, `sched_wait` tests the
state in one step (`CheckAlive`) and sleeps in another (`WaitSleeps`). This is where its
lost wakeup comes from. `sched_spawn` makes a slot READY (`Publish`) before it fills it in
(`FillSlot`); the threads of these commands exit without using anything that is missing.

### PipeFd, Pipe, Fifo

`PipeFd` has lengths and not bytes: a table of pipes with counts of readers and
writers, the descriptors of every thread, and where each thread is in a read or
write. SYS_PIPE with its rollback, SYS_SPAWN_REDIRECT with its defaults, close,
death, and the closing of descriptors when the parent reaps are actions. `Pipe`
is the complement: one pipe with its bytes and positions, shown to implement
`Fifo`, a sequence with a bound, with the ring mapped to a sequence by a
refinement mapping.

### Keyboard, KeyQueue

A pop is three memory steps (test, load, advance) in the kernel shell with IF = 1;
the interrupt handler pushes in between. The mapping removes a byte at the
advance.

### Pmm, Heap

`Pmm` is the bitmap as a set of used frames plus the counter and the hint, with
the frames that somebody holds as a ghost. `Heap` extends it: the list of blocks
lies in frames taken from it, and other owners allocate and free frames in
between, so that growth meets fragmented memory and neighbouring runs. Sizes keep
their alignment and headers; the addresses are integers. The pass of `coalesce` over
the list is a recursive function (`Passed`) of the number of blocks visited.

### Ufs

Memory (`directory`, `next_free_lba`, `cached_file_count`) and disk (`superblock`,
`disk_dir`, `data`) are separate; a call first changes memory, then `op.stage` walks
through its sector writes in the order of the code. `PowerLoss` forgets memory,
`ufs_init` mounts what the disk holds. `stored` is a history variable: what the calls
that have returned made of each file. A file whose directory write failed is
`Unsettled` in it until the directory is next written, because that is how long the
code itself does not know: even a later write that reports success is lost by a
restart when it does not change the size. Sizes and offsets are bytes, with the
sectors of the data shrunk to two.

The directory is written sector by sector, as `ata_write_sectors` does it. An entry has
40 bytes, so entries 12, 25, 38 and 51 lie across two sectors (`ufs.c:15`). `op.sectors`
counts the sectors that are on disk already, and `OnDisk` is the directory the disk then
holds, field by field: `UFS_OFF` says where a field of an entry lies. A field is on one
side of a boundary, except the name in entries 38 and 51, which is cut behind its
sixteenth and its eighth byte; a name counts as one field, so a longer name that is
half new and half old is not modelled. `ufs_delete` clears `name[0]` and nothing else, in
memory and on disk, so a later half-written create can show what the slot held before.
`DIR_SECTOR_SIZE` is separate from `SECTOR_SIZE`, because the entries do not shrink with
the sectors. The sectors below `UFS_DATA_LBA` are those of no file: `start_lba` 0, which
`ufs_create` writes, is one of them. `Moment` says where a fault falls: `torn` when the
directory on disk is neither the old nor the new one, otherwise the stage of the call.

### Elf, Vmm

`Elf` has the loader's conditions on a header, a segment and an entry point, with
addresses modulo `WORD`, so that the sums of a damaged file wrap as the code's 64-bit sums
do, and the content of each page of a segment. `Vmm` extends it and `Pmm`: `tables` is
what the frames used as page tables hold, `mem` what the others hold. Boot maps all of
memory with large pages in entry 0 of the top level, which every address space shares;
programs live in entry 1. A thread goes through `SpawnStack`, `GuardPage`, `GuardSplit`
(its kernel stack, with the page below unmapped), `CreateSpace`, `LoadSegment`,
`MapSegmentPage`, `AllocStack`, `MapStackPage`, then runs (`UserStore`, `PageFault`,
`MapFaultPage`), is killed or exits, and `reap_zombie` destroys what it had. An action
holds at most one call of the allocator, because the trampoline of a process runs with IF
= 1 and another thread may take frames, or split the same large page, between a look at a
table and its use. Taking a page table or a new address space and storing its address is
one step, but a kill may come between the two (`KillInAllocation`). Registering a growable
stack is two steps, because the push onto `stack_regions` is two statements with IF = 1
(`vmm_growable_stack.c:26`): `regions.list` is what a walk from the head finds,
`regions.read[t]` what one from the head that thread `t` has read finds, and
`regions.relinked` records the regions that a push has put back after they had been
unlinked. Unlinking changes the node before, so a pending push may or may not see it. Two
things are simpler than the code there: a region that is freed and linked again keeps its
contents, and a thread killed before it stores the head leaks the node it has allocated
(bytes of the heap, no frame). `vmm_init` maps the first region with a large page, where
`bootloader/bit32/init_pt.asm` has a table of 4 KiB pages: the model splits it when the
code need not. The demo of `usermodetest` (`DemoStart` to `DemoSplit`) is the other
client: it opens two pages of the kernel to ring 3 in the shared branch.

Frames can be lost: a page whose mapping fails, one in hand when its thread is killed, a
page table or address space taken and not yet stored when its thread is killed, a page
displaced by a second segment of the same page, one page table when two threads split the
same large page, the demo's stack. The history `lost` records these ways, and
`FramesAccounted` says that there is no other. `resplit` records double splits, the only
way a guard page becomes mapped again. `view` is what a program must find in its memory,
all pages of its segments included. A page that several segments share is the one place
where this is not what the file says: `load_segment` maps a zeroed frame for each of them
in place of what was there (`elf_loader.c:64-77`), so only the last segment's bytes are
left. `programs/linker.ld` starts each section on a page of its own and makes no such
file.

### Memfs, Files, Users

System calls run with IF = 0, so each file call is one step, and programs interleave
between calls. `Memfs` is the table and the buffers with their doubling; fresh memory
holds `Junk`. Its loops are recursive functions: `Doubled` of the passes that double a
capacity, `Visits` of the slots a listing goes past. `Files` has UFS at the level of its
functions: the entries, the data area byte by byte, the bump allocator, relocation when a
file outgrows its extent, removal that keeps the sectors and frees only the slot. A byte
of the disk carries the incarnation of the file it was written to. From it `NoLeak` and
`FilesChangeByRight` are stated without looking at the checks in `fd.c`: the first records
every incarnation whose bytes a read delivers although the reader has no right to it at
that moment, the second compares the visible contents of all files before and after each
call with the rights of the caller. What a failing disk or a power loss inside one UFS
function does is left to `Ufs`.

`Users` adds the accounts. `persist` is one step per call of UFS (create, chmod or
truncate, write), with `PowerLoss` possible between any two; `users_init` loads or
seeds. A record of 32 bytes is one byte of the model; all records fill one sector, as
in the code. `hash_password` is a constant function that may collide. Two assumptions
about programs: those that run as root leave `.passwd` to the kernel (they may read
it), and they use one mix of calls per behaviour (below). A failing create or write in
`persist` cannot occur here: the file is made on an empty disk and never outgrows its
first extent.

## 3. The runs

A module's type invariant is a conjunct of its most structural property
(`PositionsAgree`, `RefCounts`, `BlocksTile`, `DirectorySound`, `FramesAccounted`,
`AccountsSurvive`) where a run does not list `TypeOK` itself.

Deadlock checking is off where the system may stop: a halted machine, programs
that do nothing any more, the bounds on calls and faults of `Ufs` and `Users` and on
spawns and switches of `Vmm`.

| run | bounds | shows |
|---|---|---|
| `kernel` | 4 tids, capacity 2 doubling to 4, 2 records, 3 pids, 1 key, quantum 1 | all the invariants of `Kernel`, slot reuse, both action properties, and the two liveness properties under fairness |
| `pipefd` | 3 processes, 4 descriptors, 2 pipes of 1 byte | reference counts and no lost wakeup at the limits of both tables |
| `pipe` | 3 bytes, transfers up to 4 | the ring implements the channel |
| `memory` | 6 frames with a hole, 4 request sizes, 3 live allocations | frame and heap invariants |
| `keyboard` | ring of 3, keys of one and two bytes | the ring implements the lossy queue |
| `ufs` | 2 names, 2 slots, a directory of 2 sectors of 64 bytes, 4 data sectors of 2 bytes, writes of 1 and 2 bytes at 3 offsets, 6 calls, 2 faults | directory and contents through failures, power losses and remounts (2.8 million states) |
| `vmm` | 33 frames, tables of 4 entries, pages of 2 bytes, 2 thread slots, 3 program files, 2 spawns, 1 switch between threads that are not at rest | frames, page tables, memory of programs, stack regions, loader and range checks (214 thousand states) |
| `files` | 2 programs, 1 descriptor each, 3 names, 3 slots, 5 sectors of 4 bytes, 4 accounts, 7 mixes of 6 to 9 calls, 1 power loss | rights through stale descriptors, extents, memfs growth, listing, accounts |
| `kernel_bg_exit`, `kernel_uid` | 3 or 4 tids | violations, below |
| `kernel_threads` | 2 children, capacity 2 doubling to 4 | violation, below |
| `ufs_crash` | as `ufs` | violation, below |

Why the bounds are enough. Two process records beside the shell give a parent and its
child, or two children of the shell of which one kills the other; three pids against two
records force reuse of a record and of a slot, and a fourth thread slot lets a zombie stay
beside them; a capacity of 2 forces growth with threads alive. A quantum of 1 makes every
tick a possible switch, which is the worst case of every longer quantum; a one-character
buffer is full and empty one key apart. With two pipes of one byte and transfers of two,
every transfer is partial. In `memory` the hole in the map separates two runs of frames
that must never be merged, and the request sizes hit exact fit, a split that leaves too
little, a split, and growth by two frames. In `ufs` a write of two bytes at offset 1
crosses a sector, makes the file grow by a sector and move, and a write at offset 2 to an
empty file leaves a gap; six calls are enough to create and write two files and to grow
the first beside the second, and two faults to fail and then lose power. With 64 bytes to
a directory sector, slot 1 (bytes 40 to 79) is cut where the code's entry 25 is cut,
between `start_lba` and the size, and is reused after a removal. The faults of the run
leave out a power loss or failure between the two writes of `ensure_capacity` that
`ufs_crash` is about, the moments called `torn`, and a failed directory write in
`format_fresh`; the states in those moments are reached and `PowerLossTearsOneFile` is
checked in them. `MaxCalls` and `MaxFaults` count both. `MaxPid` stops `next_pid` before
it wraps; `MaxLive` limits the state space only, and so does `Closable`: in `pipefd` the
first program closes the ends it has made, as `sh` does, and the others keep theirs until
they are reaped.

In `vmm` tables of four entries make a program and its stack need tables of their own on
every level, and the slot size puts two programs into different tables. The three files
are a whole one (a segment, and one that starts inside the same page and ends in bss), one
whose segment ends behind the file, and one with its entry point outside code. 32 usable
frames hold two programs and what a shared page and a kill lose; when the heap takes 13
first (`HeapSizes`), memory runs out on the way. `MaxSpawns` = 2 is enough for a program
beside another and for one that reuses the slot and the frames of another; `MaxSwitches`
bounds how often one of them is interrupted by the other in the middle of a load, and one
switch reaches each pair of steps.

In `files`, `Mixes` splits the calls: a behaviour uses the calls, names and lengths of
one mix, at most `max` of them. The mixes are slots that change hands under an open
descriptor (9 calls: log in, create, write, remove, create again by another user,
write, read); permissions that change under one; files of two names that grow beside
each other, with writes of no bytes; the same with descriptors closed and reopened;
memfs; all file systems at once, for the listing; accounts. Lengths of 2 and 4 against
sectors of 4 grow a file within its sector, up to its end, and from one sector to two.
Four records of accounts leave room for two additions beside the defaults. One
power loss can strike anywhere, in particular between the calls of `persist`.

Fairness (`kernel`). The timer interrupt is strongly fair:
IRQ 0 is periodic and the PIC latches it while IF = 0, so it is delivered when
IF = 1 again and again. Steps of kernel code are strongly fair per thread: a
thread that is dispatched has a quantum of four ticks, far longer than one pass of
a kernel loop. Nothing is assumed of programs, which may loop in ring 3 forever,
nor of the person at the keyboard.

Fairness (`kernel_threads`). The steps of the shell and the exit of each child are weakly
fair: code that has the CPU runs on. Nothing is assumed of the timer, and the
counterexample ends in a state that nothing leaves.

### Disagreements between the code and its comments

1. `kernel_bg_exit`. A background program that exits while all others sleep halts
   the CPU with IF = 0 (`thread.c:492`); no key or tick is ever taken again.
2. `kernel_uid`. Growth loses the uids (`thread.c:71`), against the comment at
   `thread.c:288`.
3. `kernel_threads`. `sched_wait` tests a thread's state and sleeps in two steps with
   IF = 1 (`thread.c:402`). The thread may end on a tick in between; its wakeup finds
   nobody, the shell sleeps for ever, and `threadtest` never prints "both threads finished"
   (`shell_cmd_thread.c:41`). With the two in one step TLC finds that the command always
   returns; `process_wait` does it so (`process.c:353`).
4. `ufs_crash`. `ensure_capacity` writes the directory before the superblock
   (`ufs.c:360`). A power loss in between leaves an extent that the superblock calls
   free; after the restart another file gets the same sectors. `syscall.h:40` says
   that contents survive a reboot. Writing the superblock first would lose space
   instead of data.

More is not as comments say, in ways that no run states.

Half-written directory entries. `PowerLossTearsOneFile` has one exception: a file being
created in an entry that lies across two sectors. Between the two writes the disk has its
name, and `start_lba` 0 in slot 25, beside the size, capacity, owner and permissions of
the file that had the slot before, although `ufs_create` has set all of them (`ufs.c:231`
"allocated lazily on first write", `ufs.c:235` "private by default"). With `torn` among
the moments of `PowerLossAt`, TLC refutes `DirectorySound` at the next mount: the file's
extent begins at sector 0, in front of the data area, and a write within the old capacity
goes there. It refutes `ContentsSurvive` too: when the entry of a file that moves is half
written, the new `start_lba` is on disk while `next_free_lba` is still the old one, as in
`ufs_crash`. A failed write of the directory brings such states about in another way:
memory and disk then differ in more than the entry of the next call, and a cut between two
sectors of that call can leave the name of a file that has moved from one slot to another
in both. All of these are the faults called `torn`.

Stack regions. `vmm_register_growable_stack` may be interrupted between its two statements
(`vmm_growable_stack.c:26`). A region registered meanwhile is lost, and its stack does not
grow; one unregistered meanwhile is linked again after `kfree`, for an address space that
is gone. `RegionsLive` holds for all regions but the latter (`relinked`).

A dead reader keeps its end of a pipe until it is reaped, so a writer sleeps
(`pipe.c:152`) where `pipe.c:136` speaks of a broken pipe. A write of no bytes through a
descriptor whose file was removed sets the size of the new file in that slot without
giving it sectors (`ufs.c:409`); reading such a file delivers whatever the disk holds from
its start on. `Files` calls these files hollow and excepts them from what it says about
contents and sizes. When such a file moves, it is copied at its size and not at its
extent, so that it writes over sectors behind its new extent, which a later file gets
(`ufs.c:340`); the history `stray` records the hollow files and the mixed ones that
received such bytes, and `NoLeak` excepts exactly what they deliver. A process whose
trampoline fails while nothing else can run is made READY again by `sched_yield` after its
exit was published (`thread.c:330`, against `thread.c:487`), and a kernel thread can be
dispatched before its descriptors and uid are set (`thread.c:267`, against
`thread.c:275`).

The comment at `thread.c:356-358`, about what `sched_sleep` cleans up, is stale too:
nothing is reaped there.

## 4. The proofs

`KernelProofs` proves about `Kernel`, for every size of the thread table, of the
process table and of the key buffer, every bound on pids and every set of exit
codes (the assumptions `ThreadsAssumption` and `KernelAssumption`: the sizes are
positive, the table starts no larger than its limit, uid 0 exists, exit codes are
integers), that `Inv` is an invariant (`Invariance`), and from it:

| theorem | property of the run `kernel` |
|---|---|
| `TypeCorrect` | `TypeOK` |
| `OneThreadRuns` | `OneRunning`: at most one thread is RUNNING, and it is the current one |
| `RecordsAreDistinct` | `OneRecordPerThread`: no two records share a pid, no two share a thread |
| `TablesAgree` | `RecordMatchesThread`: a record that is not EXITED has a live thread |
| `NoExitIsLost` | `NoLostExit`: nobody sleeps in wait for a child that has ended |
| `NoKeyIsLost` | `NoLostKey`: no process sleeps in a read while a key is buffered |
| `OnlyTheDeadAreReaped` | `SlotFreedOnlyByReap` (action property) |
| `ExitStatusIsFinal` | `ExitStatusFinal` (action property) |

None of the safety invariants is inductive alone. What `Inv` adds, and why:

- `PcMatchesState` ties where a thread is in the code to its scheduler state; without
  it a used record could name a slot the scheduler would hand to another thread.
- `ShellLives` keeps thread 0, which has no process record, out of
  `sched_thread_exit` and `process_kill`; killing then always concerns a thread with
  a record, or one that never had a child.
- `ArgMatchesPc` and `SleepsOnKeyboard` say which channel a BLOCKED thread sleeps on:
  the child's pid for wait, the keyboard's for getchar. The
  two wake-ups reach exactly these threads.
- `AboutToSleep` is the content of the `cli` before `sched_sleep` in
  `keyboard_getchar`: between the test for an empty buffer and the sleep no key
  arrives and no other thread runs. `NoLostKey` does not hold without it.
- `PidsIssued` makes a new pid distinct from every pid in use.
- `InTable` says that slots above the capacity are unused, so that growing the table
  reveals free slots only.

The proof has one lemma per action (what it does to the threads, then that it
preserves `ThreadInv`, then `ProcessInv`), over lemmas that describe the scheduler's
operators (`sched_yield`, `sched_wakeup`, `create_thread_common`) and the look-ups in
the process table. The two action properties use `Inv` in the state before the step.

Part 10 of the module proves `SearchIsComplete`: when the round robin search comes back to a
thread that cannot run, no thread can, so that `sched_sleep` idles and
`sched_exit_status` halts only when there is nobody to switch to.

`PmmProofs` proves, for every number of frames, every e820 map and every set of
reserved frames, that the counter of free frames equals the number of clear bits
and that the bitmap knows every frame that is owned. The inductive invariant is
the conjunction of the type invariant and the two properties: the counter stays
exact because `set_used` and `set_free` count the bits that really change, and a
freed frame is usable only because owned frames are.

`HeapProofs` proves about `Heap`, for every frame size, header size, alignment and set
of requests (`HeapAssumption`), with `HeapInv` as the inductive invariant:

| theorem | property of the run `memory` |
|---|---|
| `BlocksAlwaysTile` | `BlocksTile`: the blocks are disjoint and cover the heap's frames exactly |
| `AllocationsStayIntact` | `AllocationsIntact`: each allocation is one used block, large enough |
| `FreeLeavesNoPair` | `FreeMergesNeighbours` (action property): after `kfree` no two free neighbours are left inside a run of frames |
| `FramesBelowHeapExact` | `BitmapExact` and `FreeCount` while the heap runs |

`HeapInv` adds that neighbours in memory are neighbours in the list unless a run starts
between them (`InOrder`), without which one pass of `coalesce` would miss pairs, that of two
such neighbours one is in use (`NoFreePair`), and that used blocks and live allocations
correspond one to one (`Allocated`). The pass over the list is followed by an
invariant of the loop (`PassInv`): what has been visited is tiled as before and holds no
pair. Words and frames meet in the arithmetic lemmas `WordsOfRun` and `FrameWords`.

`RingProofs` proves for every capacity, transfer size and set of bytes that the positions
never drift (`PositionsNeverDrift`) and that `Pipe` implements `Fifo`
(`RingImplementsFifo`). The refinement needs that the record is in use exactly while an
end is open (`EndsHold`). Its core are the lemmas that within one lap no place is met
twice, so that the bytes written appear behind the waiting ones and a read takes them from
the front. It proves the same of the key ring for every size and layout
(`KeyboardTypes`, `RingImplementsKeyQueue`), with the interrupt between the steps of a
pop: `PopIsSafe` says that the byte a pop has loaded is still the oldest one, because
`ring_buffer_push` drops bytes when the ring is full and never moves the tail.

`PipeFdProofs` proves for every number of processes, descriptors and pipes `RefCounts`
(`RefCountsExact`) and `NoLostPipeWakeup` (`SleepersAreNeverForgotten`). The invariant
adds that an unused slot has no descriptors, that a process inside a read or write holds
the end it uses (`CallsHold`: it cannot close it meanwhile, so the pipe cannot be freed
under it), and that whoever sleeps has nothing to do (`SleepersWait`). The counts are
cardinalities of sets of descriptors; each action adds or removes one of them.

`UfsProofs` proves about `Ufs`, for every number of names, slots and sectors, every sector
size and chunk of a move, every set of writes and every number of calls and faults:

| theorem | property of the run `ufs` | faults excluded |
|---|---|---|
| `DirectoryStaysSound` | `DirectorySound` | `FaultsOutsideMoves` |
| `FilesSurviveFaults` | `ContentsSurvive` | `FaultsTolerated` |
| `PowerLossTearsOnlyOne` | `PowerLossTearsOneFile` | `FaultsTolerated` |

The constants `PowerLossAt` and `AtaFailsAt` say at which writes a fault may strike, and
the theorems need the hypotheses that the run `ufs` satisfies as well.
`FaultsOutsideMoves` excludes a power loss between the directory and the superblock of
`ensure_capacity` and a failure of either write, the hole that `ufs_crash` is about, and
every fault after which the directory on disk is neither the one before the call nor the
one after it (`torn`, section 3). Neither can be dropped: with `torn` or any one of the
others let in, TLC violates `DirectorySound` in a short run. `FaultsTolerated` also
excludes a failed directory write of `format_fresh`, which ignores it (`ufs.c:114`). That
is needed too, beyond the two faults of the run: when the superblock cannot be written the
first time, a file is created, the power goes before its superblock is written and the
next format fails to clear the directory, the file is back. The writes of data, the copies
of a move, the superblock of all calls but a moving write, and the sectors of a directory
in which the changed entry is on disk whole or not at all may fail or be cut off.

The hypotheses are about the faults of the past. `PowerLossTearsOneFile` itself speaks of
every state, and so of what a power loss would leave between any two sectors of the
directory, `torn` or not; its exception is the half-written create alone.

The invariant has four parts. `StructureInv` is about the directories. `DirectorySound` is
not inductive: a mount replaces the directory in memory by the one on disk, so that one
must be sound as well (`DiskSound`), up to the free sector that goes with it, which lags
behind the one in memory only while a file moves (`Pointers`); and a file must have the
same sectors on both sides (`SameExtents`), or data written in place would land in a file
that a mount brings back. `OpInv` says what a call in progress has checked already. `Area`
keeps all extents out of the sectors below the data area. `HistoryInv` is about contents:

- `Settlement`: a settled file that no call has touched is on disk and in memory as
  `stored` says; `SameDirs`: once written, the two directories are equal.
- `Results`: a create, delete, chmod or truncate shows its result in memory, and the old
  file is still on disk until its directory is written.
- `Copied`: the first `done` sectors of a moving file are at the new place too, so the
  switch of the entry changes nothing a reader sees.
- `Overwrites`: a file being written is the buffer up to `done` and the old bytes
  elsewhere (`Halfway`), and the entry on disk keeps the old size until the directory is written.

`DirsInv` is about the two directories while the sectors of one are written: they differ
in the entry of the call and in entries of unsettled files only (`Agree`), the name of the
call is in one slot (`OneSlot`), and a call other than a create changes the name alone,
the permissions alone, the size alone, or start and capacity (`Change`). So half an entry
is the old or the new one, but for a create, and for a move, which shows the same bytes
either way.

Part 1 proves that the doubling loop of `ensure_capacity` yields enough sectors and ends,
Part 2 that the extents of two files hold different bytes; Parts 5, 7 and 8 go through the
actions, and Part 9 puts the properties together.

`UsersProofs` proves about `Users`, for every number of programs, names, slots, sectors,
sector sizes, accounts and power losses and every set of mixes:

| theorem | property of the run `files` |
|---|---|
| `ExtentsNeverOverlap` | `ExtentHoldsFile` |
| `NoByteLeaks` | `NoLeak` |
| `MemfsHoldsWhatWasWritten` | `MemfsAsWritten` |
| `AccountsAlwaysSurvive` | `AccountsSurvive` |
| `FilesOnlyChangeByRight` | `FilesChangeByRight` (action property) |
| `ListIsComplete` | `ListNamesEveryFile` |

Its invariant has four parts. `UfsInv`: names are unique, extents disjoint and below the
next free sector, files fit them unless hollow, and every byte inside a file's size
carries the incarnation of that file unless it is hollow or mixed (`OwnBytes`); `NoLeak`
follows from it, because a descriptor is checked against the file that has its slot now.
`MemInv`: buffers are as large as their capacity says, and a descriptor of memfs refers to
a file in use. `AccInv`: where `persist` is in its calls, what `.passwd` holds at each of
them, and who may touch that file. `FdsInv`: descriptors refer to slots that exist. A
write is described once (`Wrote`), in place or after a move, and each call is a case of
it. For the listing (Part 11) the files of a table are numbered by how many come before
them (`Ranks`); `memfs_next` repeated from the front and the count of `ufs_entry` both
find the file with that number (`ListsMemfs`, `ListsUfs`), and unique names make the list
as long as the count says.

`VmmProofs` proves about `Vmm`, for every number of entries of a table, every page size,
amount of memory, size of a slot, number of threads and set of program files:

| theorem | property of the run `vmm` |
|---|---|
| `EveryFrameHasOneOwner` | `FramesAccounted` |
| `MemoryStaysPrivate` | `MemoryPrivate` |
| `ProgramsReachOwnPages` | `OnlyOwnPages` |
| `FreeFramesStayMapped` | `FreeFramesMapped` |
| `GuardsStayUnmapped` | `GuardsUnmapped` |
| `RegionsStayLive` | `RegionsLive` |
| `LoaderNeverLeavesFile` | `LoaderStaysInFile` |
| `AcceptedBuffersAccessible` | `BuffersAccessible` |

The last one is arithmetic on the state alone: `user_range_ok` looks at one address of
each page, and the lemmas of Part 2 show that this meets every byte of the buffer. For the
loader the invariant `LoaderInv` keeps the check of a header and the copies that follow it
together, although other threads run in between (Parts 4 and 5).

The other six rest on one invariant, `SpaceInv`. None of them is inductive: that a reaped
space frees only its own frames depends on the shape of all page tables, and that shape is
kept only because a frame taken from the allocator is in no table yet. `FrameInv` says
that every frame can be given a role: a kind `kd` (free, boot table, kernel stack, in a
thread's hand, heap, lost, page table of the shared branch, table or page of a space), the
thread `wh` it serves, its level `lv`, and the table `up` and index `at` that refer to it.
The roles are no variables; the invariant says that they exist, and each step exhibits
those after it. They satisfy:

- `Tree`: the frames that are tables are exactly those with such a role, a table or page of a
  space is referred to by one present entry, the one its role names, every present entry refers to
  a frame one level down of the same thread, and entry 0 of each top level is the shared branch, whose
  large pages are whole or split once per region. So a walk from the root is a path in a
  tree (Part 8), and the loops of `vmm_destroy_address_space` meet the frames of that
  thread and no other (Part 9).
- `Ptes` and `Guards`: an entry of a split large page maps the page of the same address unless
  that page is a guard, and ring 3 reaches it only when the demo has opened it.
- `Uses` and `Holdings`: a thread's stack, what it holds and its space are the frames with these
  kinds; `held` is the union of the roles.
- `Memory`: every page of `view` is mapped, in the space of its thread, by a frame that holds the
  expected bytes, and while a program is loaded those are the bytes of the segments done so far.

`Fields` adds what each program counter says of a thread's record, `RegionsInv` that each
growable stack belongs to one running thread unless it was linked again, and each space
once in the lists that pending pushes have read, `Counters` the bounds.

Steps are grouped by what they do to the tree: nothing (Part 12), a frame taken, given
back or lost (13), a new space (14), a change of the shared branch, which is where two
threads may split the same large page (15), a new table or page in a space (16), stores,
faults and the reaping of a whole space (17). Each group has one lemma about `Tree` on
arbitrary tables and roles, and each action is a case of it.

Two assumptions. `VmmAssumption` is about sizes: memory fits the first entry of the top
level, the slots of all threads end before the last address, the boot tables and the demo
lie in reserved memory. `ProgramAssumption` is about program files: their LOAD segments
have addresses within one slot from `USER_IMAGE_LINK_BASE` on, as `programs/linker.ld`
places them. `elf_load` itself does not check this (`elf_loader.c:41`), so the theorems,
like the run, say nothing of a file linked elsewhere; offsets, sizes in the file and entry
points are arbitrary numbers.

Preparing these proofs corrected the model twice. A power loss between the creation of
`.passwd` and its first write was recorded as if the old accounts had still been
acknowledged, although `users_init` then seeds the defaults. And the exception for
hollow files was too small: TLC's bounds had not let a hollow file move and spill over
sectors that another file then gets.

Induction. The library's induction theorems cannot be used with the installed provers, but
a least element of a nonempty set of naturals can (`LeastElement`, from the
well-foundedness of `<`), and from it induction up to a bound for a property given as a
set (`InductionUpTo`). The recursive functions (`Passes`, `Visits`, `Passed`) are shown to
be defined, value by value, before anything is said of them; the search for a runnable
thread (`SearchIsComplete`) and the lowest free slot (`LowestIs`) use the least element
directly.

The assumptions of the theorems are the named `ASSUME`s of the modules, which TLC
evaluates in the runs: sizes are positive, the kernel is not the name of a program, there
is room for the two default accounts, sets of lengths and bounds are numbers, and the
values that stand for "no file" and "unsettled" are no files. The theorems about `Ufs` add
the hypotheses on faults above.

## 5. Only model-checked, and not modelled

Liveness (`ReadyRuns`, `WaitReturns`) is out of the prover's reach and stays with TLC.
Every invariant and every action property of the passing runs is proved (section 4). That
the excluded faults of `Ufs` do harm is what TLC shows.

Not modelled: the sectors of the program file system (read only, one static entry that
an interrupted reader shares, listed under hazards); ATA, video, serial line, boot code,
GDT and IDT layout (port I/O, output or straight-line set-up); the programs
themselves, which are the environment. Of modelled parts: priorities and saved
contexts of threads, the writable bit and the TLB, argument blocks, `memfs_delete`,
which nobody calls, and the system calls that only report. UFS is modelled
as system calls use it, one call at a time: the commands `ufstest` and `permtest` of the
kernel shell call it with IF = 1 (`shell_cmd_fs.c:43`, `:160`), so a call of a background
program could come between two steps of theirs. They are tests for an idle system, and that
interleaving is not modelled.

Small hazards that no property is about, beside those that `PROJECT.json` lists without
one: `next_pid` wraps after 2^31 spawns (`process.c:78`) and the ticks of a lone
thread after 2^31 ticks (`thread.c:347`); children nobody waits for fill the process
table (`process.c:74`); an `open` that finds the descriptor table full has already
created or truncated the file (`fd.c:35`); a listing by index skips or repeats a file
when another program creates or removes one meanwhile (`syscall.c:392`);
`format_fresh` ignores a failed write of the directory (`ufs.c:114`); `persist` ignores
a failed write, so `SYS_ADDUSER` reports success for an account that is gone after a restart
(`users.c:92`); a superblock whose `next_free` lies outside the data area is mounted with
an empty area (`ufs.c:140`); the kernel
shell's `setuid` looks a thread up and changes it in two steps (`shell_cmd_fs.c:109`).

## 6. Plan

Pipelines of `programs/sh.c` composed with `PipeFd`; a second console reader in
`Keyboard`, spawning programs in `KernelThreads`.
