------------------------------- MODULE Kernel -------------------------------
(***************************************************************************)
(* Scheduler, process table and console input of MiniKernel composed: the  *)
(* parts of kernel/sched/thread.c and kernel/core/process.c that user      *)
(* programs reach through int 0x80, the timer and keyboard interrupts, and *)
(* the kernel shell (tid 0) that starts programs and waits for them.       *)
(*                                                                         *)
(* One CPU.  int 0x80 and every IRQ enter through interrupt gates, so a    *)
(* system call runs with IF = 0 from entry to return and is one step here, *)
(* unless it goes through sched_sleep, which gives the CPU away (or idles  *)
(* with IF = 1) in the middle.  The kernel shell and a process's           *)
(* trampoline run kernel code with IF = 1.                                 *)
(*                                                                         *)
(* pc[t] says where thread t is (or will continue when dispatched):        *)
(*   "start"    elf_process_trampoline before the address space exists     *)
(*   "load"     elf_process_trampoline between PROCESS_RUNNING and ring 3  *)
(*   "user"     ring 3 (for tid 0: the shell's own code)                   *)
(*   "wait"     top of process_wait's loop, for the pid in arg[t]          *)
(*   "getchar"  kbd_getchar about to pop the keyboard buffer               *)
(*   "sleep"    kbd_getchar found it empty, about to call sched_sleep      *)
(*   "idle"     the sti/hlt loop of sched_sleep (nobody else is runnable)  *)
(*   "halt"     the final hlt loop of sched_exit_status, IF = 1            *)
(*   "halt_cli" the same loop entered with IF = 0                          *)
(*   "none"     no thread, or a thread that has exited                     *)
(***************************************************************************)
EXTENDS Threads

CONSTANTS
    PROCESS_MAX,  \* 64 in the code
    MaxPid,       \* bound: next_pid stops here, far below its wrap at 2^31
    KBD_BUFFER,   \* characters the keyboard ring buffer holds (255 in the code)
    ExitCodes,    \* arguments of SYS_EXIT
    Signals       \* arguments of SYS_KILL

ASSUME KernelAssumption ==
    /\ PROCESS_MAX \in Nat \ {0}
    /\ MaxPid \in Nat \ {0}
    /\ KBD_BUFFER \in Nat \ {0}
    /\ ExitCodes \subseteq Int
    /\ Signals \subseteq Int

VARIABLES
    threads,          \* thread.c: the table
    thread_capacity,  \* thread.c
    current_thread,   \* thread.c
    processes,        \* process.c: the table
    next_pid,         \* process.c
    keys,             \* number of characters in the keyboard buffer
    pc,               \* control state of every thread, see above
    arg               \* the pid a thread waits for, 0 when it waits for a key

vars == <<threads, thread_capacity, current_thread, processes, next_pid, keys, pc, arg>>

procVars == <<processes, next_pid>>

(* The address of the keyboard driver's channel: no pid, no tid, not null.  *)
kbd_wait_channel == -1

ProcSlots == 0..(PROCESS_MAX - 1)

ProcessState == {"UNUSED", "STARTING", "RUNNING", "EXITED"}

Process == [pid : Nat, tid : Tids \cup {-1}, parent_pid : Nat,
            exit_status : Int, state : ProcessState]

NoProcess == [pid |-> 0, tid |-> -1, parent_pid |-> 0, exit_status |-> 0,
              state |-> "UNUSED"]

PC == {"none", "start", "load", "user", "wait", "getchar", "sleep",
       "idle", "halt", "halt_cli"}

(* The kernel shell is entered once at boot and is not a process. *)
ShellTid == 0

(***************************************************************************)
(* process.c: the table                                                    *)
(***************************************************************************)

(* find_process: slot i is the one it returns for pid (the lowest match). *)
HasPid(procs, pid, i) == procs[i].state # "UNUSED" /\ procs[i].pid = pid

find_process(procs, pid, i) ==
    /\ HasPid(procs, pid, i)
    /\ \A j \in ProcSlots : j < i => ~ HasPid(procs, pid, j)

HasTid(procs, t, i) == procs[i].state # "UNUSED" /\ procs[i].tid = t

find_process_by_tid(procs, t, i) ==
    /\ HasTid(procs, t, i)
    /\ \A j \in ProcSlots : j < i => ~ HasTid(procs, t, j)

current_pid(procs, t) ==
    IF \E i \in ProcSlots : find_process_by_tid(procs, t, i)
    THEN procs[CHOOSE i \in ProcSlots : find_process_by_tid(procs, t, i)].pid
    ELSE 0

IsReserveSlot(procs, i) ==
    /\ procs[i].state = "UNUSED"
    /\ \A j \in ProcSlots : j < i => procs[j].state # "UNUSED"

(* process_mark_exited: the record, if the thread belongs to a process ... *)
MarkExited(procs, t, status) ==
    [i \in ProcSlots |->
        IF find_process_by_tid(procs, t, i)
        THEN [procs[i] EXCEPT !.exit_status = status, !.state = "EXITED"]
        ELSE procs[i]]

(* Mutant of WakeParent: the exit is recorded but nobody is told. *)
WakeNobody(th, procs, t) == th

(* ... and the wakeup of its pid.  Without a record nothing is woken: 0 is  *)
(* the null channel, on which nobody blocks.                                *)
WakeParent(th, procs, t) == sched_wakeup(th, current_pid(procs, t))

(***************************************************************************)
(* thread.c: giving the CPU away.  Each of these ends a step of the thread *)
(* t that runs; `th` is the table as the caller has left it.               *)
(***************************************************************************)

(* sched_sleep(channel) called by the current thread; `back` is where the   *)
(* thread goes on when it is dispatched again.                              *)
sched_sleep(channel, back) ==
    LET t    == current_thread
        th   == Block(threads, t, channel)
        next == find_next_runnable(th, thread_capacity, t)
    IN  IF next = t
        THEN /\ threads' = th
             /\ pc' = [pc EXCEPT ![t] = "idle"]
             /\ UNCHANGED current_thread
        ELSE /\ threads' = Dispatch(th, next)
             /\ current_thread' = next
             /\ pc' = [pc EXCEPT ![t] = back]

(* Mutant of sched_yield: the thread that gives the CPU away stays RUNNING. *)
YieldKeepsRunning(th) ==
    LET next == find_next_runnable(th, thread_capacity, current_thread)
    IN  IF next = current_thread
        THEN threads' = th /\ UNCHANGED current_thread
        ELSE threads' = Dispatch(th, next) /\ current_thread' = next

(* sched_yield: the current thread becomes READY whatever it was before. *)
sched_yield(th) ==
    LET t    == current_thread
        next == find_next_runnable(th, thread_capacity, t)
    IN  IF next = t
        THEN threads' = th /\ UNCHANGED current_thread
        ELSE /\ threads' = Dispatch(SetState(th, t, "READY"), next)
             /\ current_thread' = next

(* sched_exit_status: ZOMBIE, then the exit is published and the waiters    *)
(* woken, then the CPU is given away for good.  With nobody to give it to,  *)
(* the interrupt flag the caller had is restored and the CPU halts.         *)
sched_exit_status(status, interruptsOn) ==
    LET t     == current_thread
        dead  == SetState(threads, t, "ZOMBIE")
        woken == sched_wakeup(WakeParent(dead, processes, t), t)
        next  == find_next_runnable(woken, thread_capacity, t)
    IN  /\ processes' = MarkExited(processes, t, status)
        /\ IF next = t
           THEN /\ threads' = woken
                /\ pc' = [pc EXCEPT ![t] = IF interruptsOn THEN "halt" ELSE "halt_cli"]
                /\ UNCHANGED current_thread
           ELSE /\ threads' = DispatchAsIs(woken, next)
                /\ current_thread' = next
                /\ pc' = [pc EXCEPT ![t] = "none"]

(***************************************************************************)
(* Initial state: sched_init has run and shell_run is about to be called.  *)
(***************************************************************************)
Init ==
    /\ threads = [t \in Tids |->
                    IF t = ShellTid THEN [init_thread_slot EXCEPT !.state = "RUNNING"]
                                    ELSE init_thread_slot]
    /\ thread_capacity = INITIAL_THREAD_CAPACITY
    /\ current_thread = ShellTid
    /\ processes = [i \in ProcSlots |-> NoProcess]
    /\ next_pid = 1
    /\ keys = 0
    /\ pc = [t \in Tids |-> IF t = ShellTid THEN "user" ELSE "none"]
    /\ arg = [t \in Tids |-> 0]

(* Code of thread t executes now; t is not sitting in an hlt loop. *)
Runs(t) == current_thread = t /\ threads[t].state = "RUNNING"

(* Mutant of InterruptsOn: int 0x80 through a trap gate leaves IF = 1. *)
InterruptsOnInCalls == pc[current_thread] # "halt_cli"

(* Interrupts are taken: ring 3, a trampoline, the sti/hlt loop, an exit    *)
(* loop entered with IF = 1, and all the code of the kernel shell.          *)
InterruptsOn ==
    \/ pc[current_thread] \in {"user", "start", "load", "idle", "halt"}
    \/ current_thread = ShellTid

(***************************************************************************)
(* Interrupts                                                              *)
(***************************************************************************)

(* IRQ 0: timer_irq_handler and sched_tick *)
TimerIrq ==
    /\ InterruptsOn
    /\ LET th == Elapse(threads, current_thread)
       IN  IF threads[current_thread].ticks_remaining > 1
           THEN threads' = th /\ UNCHANGED current_thread
           ELSE sched_yield(th)
    /\ UNCHANGED <<thread_capacity, procVars, keys, pc, arg>>

(* Mutant of KeyboardIrq: no test for a full buffer. *)
KeyboardIrqOverruns ==
    /\ InterruptsOn
    /\ keys' = keys + 1
    /\ threads' = sched_wakeup(threads, kbd_wait_channel)
    /\ UNCHANGED <<thread_capacity, current_thread, procVars, pc, arg>>

(* IRQ 1: keyboard_irq_handler for a scancode that yields a character; a    *)
(* full buffer drops the character, the wakeup happens all the same.        *)
KeyboardIrq ==
    /\ InterruptsOn
    /\ keys' = IF keys < KBD_BUFFER THEN keys + 1 ELSE keys
    /\ threads' = sched_wakeup(threads, kbd_wait_channel)
    /\ UNCHANGED <<thread_capacity, current_thread, procVars, pc, arg>>

(* The sti/hlt loop of sched_sleep ends once somebody has made the thread   *)
(* READY; it then returns into the loop of the blocking call.               *)
LeaveIdle(t) ==
    /\ current_thread = t
    /\ pc[t] = "idle"
    /\ threads[t].state # "BLOCKED"
    /\ threads' = SetState(threads, t, "RUNNING")
    /\ pc' = [pc EXCEPT ![t] = IF arg[t] = 0 THEN "getchar" ELSE "wait"]
    /\ UNCHANGED <<thread_capacity, current_thread, procVars, keys, arg>>

(***************************************************************************)
(* Creating processes                                                      *)
(***************************************************************************)

(* reserve_process, with the tid spawn_elf_request stores once it has it *)
Reserved(i, t, tid) ==
    [processes EXCEPT ![i] = [pid |-> next_pid, tid |-> tid,
                              parent_pid |-> current_pid(processes, t),
                              exit_status |-> -1, state |-> "STARTING"]]

(* spawn_elf_request once sched_spawn has the slot, in table th.  A process *)
(* gets the pid back; the shell's `run` goes on to process_wait.            *)
SpawnInto(t, i, slot, th) ==
    /\ threads' = SpawnIn(th, slot, th[t].uid)
    /\ processes' = Reserved(i, t, slot)
    /\ next_pid' = next_pid + 1
    /\ pc' = [pc EXCEPT ![slot] = "start", ![t] = IF t = ShellTid THEN "wait" ELSE "user"]
    /\ arg' = [arg EXCEPT ![slot] = 0, ![t] = IF t = ShellTid THEN next_pid ELSE 0]
    /\ UNCHANGED <<current_thread, keys>>

(* SYS_SPAWN by a process, or the shell's `run` *)
CanSpawn(t, i) ==
    /\ Runs(t) /\ pc[t] = "user"
    /\ next_pid <= MaxPid
    /\ IsReserveSlot(processes, i)

Spawn(t) ==
    \E i \in ProcSlots, slot \in Tids :
        /\ CanSpawn(t, i)
        /\ IsSpawnSlot(threads, thread_capacity, slot)
        /\ SpawnInto(t, i, slot, threads)
        /\ UNCHANGED thread_capacity

(* The table is full: grow_thread_table doubles it and the first new slot   *)
(* is taken.                                                                *)
SpawnGrowing(t) ==
    \E i \in ProcSlots, garbage \in [Tids -> Uids] :
        /\ CanSpawn(t, i)
        /\ TableFull(threads, thread_capacity)
        /\ 2 * thread_capacity <= MaxThreads
        /\ SpawnInto(t, i, thread_capacity, CopyTable(threads, thread_capacity, garbage))
        /\ thread_capacity' = 2 * thread_capacity

(* No memory for a larger table or for the kernel stack: the record is      *)
(* released again, the pid is used up.                                      *)
SpawnFails(t) ==
    /\ \E i \in ProcSlots : CanSpawn(t, i)
    /\ next_pid' = next_pid + 1
    /\ \/ UNCHANGED <<threads, thread_capacity>>
       \/ /\ TableFull(threads, thread_capacity)
          /\ 2 * thread_capacity <= MaxThreads
          /\ \E garbage \in [Tids -> Uids] :
                threads' = CopyTable(threads, thread_capacity, garbage)
          /\ thread_capacity' = 2 * thread_capacity
    /\ UNCHANGED <<current_thread, processes, keys, pc, arg>>

(* elf_process_trampoline: the address space, then PROCESS_RUNNING *)
Start(t) ==
    /\ Runs(t) /\ pc[t] = "start"
    /\ processes' = [i \in ProcSlots |->
                        IF find_process_by_tid(processes, t, i)
                        THEN [processes[i] EXCEPT !.state = "RUNNING"]
                        ELSE processes[i]]
    /\ pc' = [pc EXCEPT ![t] = "load"]
    /\ UNCHANGED <<threads, thread_capacity, current_thread, next_pid, keys, arg>>

(* elf_load and setup_user_stack succeed: ring 3 *)
EnterUsermode(t) ==
    /\ Runs(t) /\ pc[t] = "load"
    /\ pc' = [pc EXCEPT ![t] = "user"]
    /\ UNCHANGED <<threads, thread_capacity, current_thread, procVars, keys, arg>>

(* vmm_create_address_space, elf_load or setup_user_stack fails:            *)
(* process_exit(-1) with interrupts on.                                     *)
StartFails(t) ==
    /\ Runs(t) /\ pc[t] \in {"start", "load"}
    /\ sched_exit_status(-1, TRUE)
    /\ UNCHANGED <<thread_capacity, next_pid, keys, arg>>

(***************************************************************************)
(* Ending processes                                                        *)
(***************************************************************************)

InRing3(t) == t # ShellTid /\ Runs(t) /\ pc[t] = "user"

(* SYS_EXIT, and a fault in ring 3 (kill_faulting_process: status -1) *)
Exit(t) ==
    /\ InRing3(t)
    /\ \E status \in ExitCodes \cup {-1} : sched_exit_status(status, FALSE)
    /\ UNCHANGED <<thread_capacity, next_pid, keys, arg>>

SIGNAL_EXIT_STATUS(sig) == -128 - sig

(* Mutant of KillThread: sched_kill without process_mark_exited. *)
KillWithoutRecord(tid, status) ==
    /\ threads[tid].state \notin {"UNUSED", "ZOMBIE"}
    /\ threads' = [threads EXCEPT ![tid].state = "ZOMBIE", ![tid].wait_channel = 0]
    /\ pc' = [pc EXCEPT ![tid] = "none"]
    /\ UNCHANGED <<current_thread, processes>>

(* sched_kill on another thread *)
KillThread(tid, status) ==
    LET dead == [threads EXCEPT ![tid].state = "ZOMBIE", ![tid].wait_channel = 0]
    IN  /\ threads[tid].state \notin {"UNUSED", "ZOMBIE"}
        /\ threads' = WakeParent(dead, processes, tid)
        /\ processes' = MarkExited(processes, tid, status)
        /\ pc' = [pc EXCEPT ![tid] = "none"]
        /\ UNCHANGED current_thread

(* Mutant of process_kill: no test for PROCESS_EXITED. *)
KillExitedToo(t) ==
    /\ InRing3(t)
    /\ \E i \in ProcSlots, sig \in Signals :
         /\ find_process(processes, processes[i].pid, i)
         /\ processes[i].tid # t
         /\ KillThread(processes[i].tid, SIGNAL_EXIT_STATUS(sig))
    /\ UNCHANGED <<thread_capacity, next_pid, keys, arg>>

(* SYS_KILL: process_kill for a pid that has a live record (-1 otherwise).  *)
process_kill(t) ==
    /\ InRing3(t)
    /\ \E i \in ProcSlots, sig \in Signals :
         /\ find_process(processes, processes[i].pid, i)
         /\ processes[i].state # "EXITED"
         /\ processes[i].tid >= 0
         /\ IF processes[i].tid = t
            THEN sched_exit_status(SIGNAL_EXIT_STATUS(sig), FALSE)
            ELSE KillThread(processes[i].tid, SIGNAL_EXIT_STATUS(sig))
    /\ UNCHANGED <<thread_capacity, next_pid, keys, arg>>

(***************************************************************************)
(* Waiting                                                                 *)
(***************************************************************************)

(* SYS_WAIT, for any pid a program cares to pass *)
SysWait(t) ==
    /\ InRing3(t)
    /\ \E pid \in 1..MaxPid : arg' = [arg EXCEPT ![t] = pid]
    /\ pc' = [pc EXCEPT ![t] = "wait"]
    /\ UNCHANGED <<threads, thread_capacity, current_thread, procVars, keys>>

(* The record process_wait looks at, if the caller may wait for it *)
IsMyChild(t, pid, i) ==
    /\ find_process(processes, pid, i)
    /\ processes[i].parent_pid = current_pid(processes, t)

(* Mutant of Reaped: reap_zombie without the test for THREAD_ZOMBIE. *)
ReapedAlways(th, tid) == ClearSlot(th, tid)

(* reap_zombie: nothing unless the thread is a zombie and not current *)
Reaped(th, tid) ==
    IF tid # current_thread /\ th[tid].state = "ZOMBIE"
    THEN ClearSlot(th, tid) ELSE th

(* process_wait: not our child (any more), return -1 *)
WaitRefused(t) ==
    /\ Runs(t) /\ pc[t] = "wait"
    /\ ~ \E i \in ProcSlots : IsMyChild(t, arg[t], i)
    /\ pc' = [pc EXCEPT ![t] = "user"]
    /\ arg' = [arg EXCEPT ![t] = 0]
    /\ UNCHANGED <<threads, thread_capacity, current_thread, procVars, keys>>

(* Mutant of WaitReaps: the thread is reaped, the record is not released. *)
WaitKeepsRecord(t) ==
    /\ Runs(t) /\ pc[t] = "wait"
    /\ \E i \in ProcSlots :
         /\ IsMyChild(t, arg[t], i)
         /\ processes[i].state = "EXITED"
         /\ threads' = Reaped(threads, processes[i].tid)
    /\ pc' = [pc EXCEPT ![t] = "user"]
    /\ arg' = [arg EXCEPT ![t] = 0]
    /\ UNCHANGED <<thread_capacity, current_thread, procVars, keys>>

(* process_wait: the child has exited: reap the thread, release the record *)
WaitReaps(t) ==
    /\ Runs(t) /\ pc[t] = "wait"
    /\ \E i \in ProcSlots :
         /\ IsMyChild(t, arg[t], i)
         /\ processes[i].state = "EXITED"
         /\ threads' = IF processes[i].tid >= 0 THEN Reaped(threads, processes[i].tid)
                                                ELSE threads
         /\ processes' = [processes EXCEPT ![i] = NoProcess]
    /\ pc' = [pc EXCEPT ![t] = "user"]
    /\ arg' = [arg EXCEPT ![t] = 0]
    /\ UNCHANGED <<thread_capacity, current_thread, next_pid, keys>>

(* process_wait: the child is still alive: sleep on its pid, then look again *)
WaitSleeps(t) ==
    /\ Runs(t) /\ pc[t] = "wait"
    /\ \E i \in ProcSlots :
         IsMyChild(t, arg[t], i) /\ processes[i].state # "EXITED"
    /\ sched_sleep(arg[t], "wait")
    /\ UNCHANGED <<thread_capacity, procVars, keys, arg>>

(***************************************************************************)
(* Console input                                                           *)
(***************************************************************************)

(* SYS_READ of one character from a console fd, or the shell's prompt *)
SysRead(t) ==
    /\ Runs(t) /\ pc[t] = "user"
    /\ pc' = [pc EXCEPT ![t] = "getchar"]
    /\ UNCHANGED <<threads, thread_capacity, current_thread, procVars, keys, arg>>

(* kbd_getchar: the test of its loop ... *)
GetcharPops(t) ==
    /\ Runs(t) /\ pc[t] = "getchar"
    /\ \/ keys > 0 /\ keys' = keys - 1 /\ pc' = [pc EXCEPT ![t] = "user"]
       \/ keys = 0 /\ keys' = keys /\ pc' = [pc EXCEPT ![t] = "sleep"]
    /\ UNCHANGED <<threads, thread_capacity, current_thread, procVars, arg>>

(* ... and its body; nothing keeps interrupts off in between but the caller. *)
GetcharSleeps(t) ==
    /\ Runs(t) /\ pc[t] = "sleep"
    /\ sched_sleep(kbd_wait_channel, "getchar")
    /\ UNCHANGED <<thread_capacity, procVars, keys, arg>>

(* SYS_LOGIN with the right password: sched_set_uid on the caller *)
Login(t) ==
    /\ InRing3(t)
    /\ \E u \in Uids : threads' = [threads EXCEPT ![t].uid = u]
    /\ UNCHANGED <<thread_capacity, current_thread, procVars, keys, pc, arg>>

(***************************************************************************)
(* The system                                                              *)
(***************************************************************************)

(* Steps of kernel code that the CPU completes once it has begun them *)
KernelStep(t) ==
    \/ LeaveIdle(t)
    \/ WaitRefused(t) \/ WaitReaps(t) \/ WaitSleeps(t)
    \/ GetcharPops(t) \/ GetcharSleeps(t)

(* Steps a program may or may not take *)
ProgramStep(t) ==
    \/ Spawn(t) \/ SpawnGrowing(t) \/ SpawnFails(t)
    \/ Start(t) \/ EnterUsermode(t) \/ StartFails(t)
    \/ Exit(t) \/ process_kill(t)
    \/ SysWait(t) \/ SysRead(t) \/ Login(t)

Next ==
    \/ TimerIrq
    \/ KeyboardIrq
    \/ \E t \in Tids : KernelStep(t) \/ ProgramStep(t)

Spec == Init /\ [][Next]_vars

(* Fairness.  A pending timer interrupt is latched by the PIC and delivered *)
(* whenever IF = 1 again, and a thread that is dispatched gets a quantum    *)
(* that is far longer than one pass through a kernel loop.  Nothing is      *)
(* assumed of programs or of the person at the keyboard.                    *)
Fairness ==
    /\ SF_vars(TimerIrq)
    /\ \A t \in Tids : SF_vars(KernelStep(t))

FairSpec == Spec /\ Fairness

(***************************************************************************)
(* Properties                                                              *)
(***************************************************************************)

TypeOK ==
    /\ threads \in [Tids -> Thread]
    /\ thread_capacity \in 1..MaxThreads
    /\ current_thread \in Tids
    /\ processes \in [ProcSlots -> Process]
    /\ next_pid \in Nat
    /\ keys \in 0..KBD_BUFFER
    /\ pc \in [Tids -> PC]
    /\ arg \in [Tids -> Nat]

Halted == pc[current_thread] = "halt_cli"

(* At most one thread is RUNNING and it is the one the CPU executes; the    *)
(* CPU executes another kind of thread only in an hlt loop of sched_sleep   *)
(* or sched_exit_status.                                                    *)
OneRunning ==
    /\ \A t \in Tids : threads[t].state = "RUNNING" => t = current_thread
    /\ \/ threads[current_thread].state = "RUNNING"
       \/ pc[current_thread] \in {"idle", "halt", "halt_cli"}

(* No two records that are in use share a pid or a thread: sched_exit's     *)
(* lookup by tid and the parent's lookup by pid mean the same record.       *)
OneRecordPerThread ==
    \A i, j \in ProcSlots :
        (/\ i # j
         /\ processes[i].state # "UNUSED"
         /\ processes[j].state # "UNUSED")
        => /\ processes[i].pid # processes[j].pid
           /\ processes[i].tid # processes[j].tid

(* The record of a process and the slot of its thread tell the same story   *)
(* between any two steps: not exited means the thread is alive, exited      *)
(* means it is a zombie that nobody has reaped.  (The exception is a thread *)
(* that exited with interrupts on while nothing else was runnable: in its   *)
(* hlt loop a tick may make it READY again, see sched_yield, and it then    *)
(* comes back to that loop only.)                                           *)
RecordMatchesThread ==
    \A i \in ProcSlots : processes[i].state # "UNUSED" =>
        LET t == processes[i].tid
        IN  /\ t \in 1..(thread_capacity - 1)
            /\ processes[i].state # "EXITED" =>
                  sched_is_alive(threads, t) /\ pc[t] \notin {"none", "halt", "halt_cli"}
            /\ processes[i].state = "EXITED" =>
                  threads[t].state = "ZOMBIE" \/ pc[t] = "halt"

(* No lost wakeup in process_wait: a thread that sleeps for a child sleeps  *)
(* on the child's pid, and that child is still there, still its own, and    *)
(* has not exited.                                                          *)
NoLostExit ==
    \A t \in Tids : (threads[t].state = "BLOCKED" /\ arg[t] # 0) =>
        /\ threads[t].wait_channel = arg[t]
        /\ \E i \in ProcSlots :
              IsMyChild(t, arg[t], i) /\ processes[i].state # "EXITED"

(* No lost key for programs: while a process sleeps in SYS_READ the         *)
(* keyboard buffer is empty.                                                *)
NoLostKey ==
    \A t \in Tids \ {ShellTid} :
        (threads[t].state = "BLOCKED" /\ arg[t] = 0) => keys = 0

(* A slot of the thread table is freed only for a thread that is dead and   *)
(* not running, by a step that also releases the process record, so no      *)
(* record ever names a slot that a new thread may get.                      *)
SlotFreedOnlyByReap ==
    [][\A t \in Tids :
         (threads[t].state # "UNUSED" /\ threads'[t].state = "UNUSED") =>
            /\ threads[t].state = "ZOMBIE"
            /\ t # current_thread
            /\ \E i \in ProcSlots : /\ processes[i].tid = t
                                     /\ processes[i].state = "EXITED"
                                     /\ processes'[i].state = "UNUSED"]_vars

(* An exit status is final: a record that says EXITED changes only when the *)
(* parent takes the status, whatever signals are still sent to the pid.     *)
ExitStatusFinal ==
    [][\A i \in ProcSlots : processes[i].state = "EXITED" =>
         \/ processes'[i] = processes[i]
         \/ /\ processes'[i] = NoProcess
            /\ processes[i].parent_pid = current_pid(processes, current_thread)]_vars

(* Round robin starves nobody: a READY thread is dispatched, unless the     *)
(* machine stops in an exit with interrupts off.                            *)
ReadyRuns ==
    \A t \in Tids : threads[t].state = "READY" ~> (threads[t].state # "READY" \/ Halted)

(* A wait ends once the child has exited, unless the waiting process dies   *)
(* or the machine stops.                                                    *)
ChildExited(t) ==
    /\ threads[t].state # "ZOMBIE"
    /\ pc[t] \in {"wait", "idle"}
    /\ \E i \in ProcSlots : IsMyChild(t, arg[t], i) /\ processes[i].state = "EXITED"

WaitReturns == \A t \in Tids : ChildExited(t) ~> (~ ChildExited(t) \/ Halted)

(***************************************************************************)
(* What comments in the code say and the code does not do                  *)
(***************************************************************************)

(* sh.c:344, "'bg <program>' to run in the background": a program that      *)
(* exits leaves the machine to the programs that are still there.           *)
ExitLeavesMachineRunning ==
    Halted => \A t \in Tids : ~ sched_is_alive(threads, t)

(* thread.c:288, "Inherit the spawning thread's uid [...] a program you run *)
(* should run as you": the thread of a new process has the uid its spawner  *)
(* had when it asked for it.                                                *)
ProgramRunsAsSpawner ==
    [][\A t \in Tids :
         (threads[t].state = "UNUSED" /\ threads'[t].state = "READY") =>
            threads'[t].uid = threads[current_thread].uid]_vars

=============================================================================
