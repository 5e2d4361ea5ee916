------------------------------- MODULE PipeFd -------------------------------
(***************************************************************************)
(* Pipes (kernel/core/pipe.c) and the file descriptors that keep them      *)
(* open: the descriptor tables of thread.c, release_slot/fd_close/         *)
(* fd_cleanup_thread of fd.c, the pipe cases of SYS_READ and SYS_WRITE,    *)
(* SYS_PIPE, SYS_SPAWN_REDIRECT, and the ends of processes as far as they  *)
(* open or close descriptors.                                              *)
(*                                                                         *)
(* System calls run with interrupts off, so each is one step up to the     *)
(* point where it returns or sleeps; which live thread goes next is the    *)
(* scheduler's business (module Kernel) and is left open here.  Of the     *)
(* bytes in a pipe only their number matters here; module Pipe has the     *)
(* bytes.                                                                  *)
(***************************************************************************)
EXTENDS Integers, FiniteSets

CONSTANTS
    Tids,            \* slots of the thread table
    FirstTid,        \* the thread of the first program, started by the kernel shell
    THREAD_MAX_FDS,  \* 8 in the code
    PIPE_MAX,        \* 8 in the code
    PIPE_BUF_SIZE,   \* 1024 in the code
    Closable,        \* bound: <<t, fd>> that programs close before they exit
    Lens             \* lengths that programs pass to SYS_READ and SYS_WRITE

ASSUME PipeFdAssumption ==
    /\ IsFiniteSet(Tids)
    /\ FirstTid \in Tids
    /\ THREAD_MAX_FDS \in Nat /\ THREAD_MAX_FDS >= 2
    /\ PIPE_MAX \in Nat
    /\ PIPE_BUF_SIZE \in Nat \ {0}
    /\ Closable \subseteq Tids \X (0..(THREAD_MAX_FDS - 1))
    /\ Lens \subseteq Nat

Fds   == 0..(THREAD_MAX_FDS - 1)
Pipes == 0..(PIPE_MAX - 1)

(* fd_slot_t, without the cursor, which pipes do not use.  The console and  *)
(* the files of both file systems are alike here: kind "OTHER", handle 0.   *)
FdKind   == {"UNUSED", "OTHER", "PIPE_READ", "PIPE_WRITE"}
FdSlot   == [kind : FdKind, handle : Pipes \cup {-1, 0}]
FdUnused == [kind |-> "UNUSED", handle |-> -1]
Other    == [kind |-> "OTHER", handle |-> 0]
ReadEnd(p)  == [kind |-> "PIPE_READ", handle |-> p]
WriteEnd(p) == [kind |-> "PIPE_WRITE", handle |-> p]

NoFds      == [fd \in Fds |-> FdUnused]
ConsoleFds == [fd \in Fds |-> IF fd \in {0, 1} THEN Other ELSE FdUnused]

(* pipe_t; read_pos and write_pos are in module Pipe *)
PipeRec == [in_use : BOOLEAN, count : 0..PIPE_BUF_SIZE, readers : Nat, writers : Nat]

VARIABLES
    life,     \* "unused", "live" (READY, RUNNING or BLOCKED) or "zombie"
    parent,   \* the thread whose process may wait for this one, see Parents
    fds,      \* threads[t].fds
    pipes,    \* pipe.c: the table
    call,     \* the pipe_read or pipe_write a thread is inside of, or NoCall
    blocked   \* threads asleep on the pipe of their call

vars == <<life, parent, fds, pipes, call, blocked>>

(* "shell" is the kernel shell, which waits for the program it has started; *)
(* "nobody" is left when the parent is gone: its pid never comes back.      *)
Parents == Tids \cup {"shell", "nobody"}

NoCall == [op |-> "none", idx |-> -1, len |-> 0]
Call   == [op : {"none", "read", "write"}, idx : Pipes \cup {-1}, len : Lens \cup {0}]

Init ==
    /\ life = [t \in Tids |-> IF t = FirstTid THEN "live" ELSE "unused"]
    /\ parent = [t \in Tids |-> IF t = FirstTid THEN "shell" ELSE "nobody"]
    /\ fds = [t \in Tids |-> IF t = FirstTid THEN ConsoleFds ELSE NoFds]
    /\ pipes = [p \in Pipes |-> [in_use |-> FALSE, count |-> 0, readers |-> 0, writers |-> 0]]
    /\ call = [t \in Tids |-> NoCall]
    /\ blocked = {}

(***************************************************************************)
(* pipe.c on the table ps                                                  *)
(***************************************************************************)

Less(n, k) == IF n > k THEN n - k ELSE 0

(* Mutant of CloseEnds: release_slot forgets the write ends. *)
CloseReadEndsOnly(ps, p, r, w) ==
    [ps EXCEPT ![p] =
        [@ EXCEPT !.readers = Less(@, r),
                  !.in_use = @ /\ (Less(ps[p].readers, r) > 0 \/ ps[p].writers > 0)]]

(* pipe_close_reader r times and pipe_close_writer w times on pipe p, with  *)
(* maybe_free after each; on a free record they return at once              *)
CloseEnds(ps, p, r, w) ==
    LET rd == Less(ps[p].readers, r)
        wr == Less(ps[p].writers, w)
    IN  IF ~ ps[p].in_use THEN ps
        ELSE [ps EXCEPT ![p] = [in_use |-> rd > 0 \/ wr > 0, count |-> ps[p].count,
                                readers |-> rd, writers |-> wr]]

(* Mutant of Woken: one of the sleepers is woken instead of all. *)
WokenOne(p) ==
    LET S == {t \in blocked : call[t].idx = p}
    IN  IF S = {} THEN {} ELSE {CHOOSE t \in S : TRUE}

(* sched_wakeup(&pipes[p]) *)
Woken(p) == {t \in blocked : call[t].idx = p}

(* pipe_create fills the lowest free record *)
IsFreePipe(p) == ~ pipes[p].in_use /\ \A q \in Pipes : q < p => pipes[q].in_use

NewPipe == [in_use |-> TRUE, count |-> 0, readers |-> 1, writers |-> 1]

(* sched_fd_open hands out the lowest free descriptor from 2 on *)
IsFreeFd(table, fd) ==
    /\ fd >= 2
    /\ table[fd].kind = "UNUSED"
    /\ \A g \in Fds : 2 <= g /\ g < fd => table[g].kind # "UNUSED"

NoFreeFd(table) == \A fd \in Fds : fd >= 2 => table[fd].kind # "UNUSED"

(* t is executing a program and may make a system call *)
InUser(t) == life[t] = "live" /\ call[t] = NoCall

(***************************************************************************)
(* SYS_PIPE and SYS_CLOSE                                                  *)
(***************************************************************************)

SysPipe(t) ==
    /\ InUser(t)
    /\ \E p \in Pipes, r, w \in Fds :
         /\ IsFreePipe(p)
         /\ IsFreeFd(fds[t], r)
         /\ IsFreeFd([fds[t] EXCEPT ![r] = ReadEnd(p)], w)
         /\ pipes' = [pipes EXCEPT ![p] = NewPipe]
         /\ fds' = [fds EXCEPT ![t][r] = ReadEnd(p), ![t][w] = WriteEnd(p)]
    /\ UNCHANGED <<life, parent, call, blocked>>

(* Too few descriptors: whichever was opened is reset without releasing it, *)
(* then both ends of the new pipe are closed.                               *)
SysPipeFails(t) ==
    /\ InUser(t)
    /\ \E p \in Pipes :
         /\ IsFreePipe(p)
         /\ \/ NoFreeFd(fds[t])
            \/ \E r \in Fds : /\ IsFreeFd(fds[t], r)
                              /\ NoFreeFd([fds[t] EXCEPT ![r] = ReadEnd(p)])
         /\ pipes' = CloseEnds([pipes EXCEPT ![p] = NewPipe], p, 1, 1)
         /\ blocked' = blocked \ Woken(p)
    /\ UNCHANGED <<life, parent, fds, call>>

(* fd_close: release_slot, then sched_fd_close *)
SysClose(t) ==
    /\ InUser(t)
    /\ \E fd \in {f \in Fds : <<t, f>> \in Closable} :
         /\ fds[t][fd].kind # "UNUSED"
         /\ fds' = [fds EXCEPT ![t][fd] = FdUnused]
         /\ LET p == fds[t][fd].handle
            IN  CASE fds[t][fd].kind = "PIPE_READ" ->
                       /\ pipes' = CloseEnds(pipes, p, 1, 0)
                       /\ blocked' = blocked \ Woken(p)
                  [] fds[t][fd].kind = "PIPE_WRITE" ->
                       /\ pipes' = CloseEnds(pipes, p, 0, 1)
                       /\ blocked' = blocked \ Woken(p)
                  [] OTHER -> UNCHANGED <<pipes, blocked>>
    /\ UNCHANGED <<life, parent, call>>

(***************************************************************************)
(* One pass through the loop of pipe_read or pipe_write by thread t        *)
(***************************************************************************)

Return(t) == call' = [call EXCEPT ![t] = NoCall]

Sleep(t, c) ==
    /\ call' = [call EXCEPT ![t] = c]
    /\ blocked' = blocked \cup {t}
    /\ UNCHANGED pipes

Smaller(a, b) == IF a < b THEN a ELSE b

pipe_read(t, idx, len) ==
    \/ /\ ~ pipes[idx].in_use
       /\ Return(t)
       /\ UNCHANGED <<pipes, blocked>>
    \/ /\ pipes[idx].in_use /\ pipes[idx].count > 0
       /\ pipes' = [pipes EXCEPT ![idx].count = @ - Smaller(@, len)]
       /\ blocked' = blocked \ Woken(idx)
       /\ Return(t)
    \/ /\ pipes[idx].in_use /\ pipes[idx].count = 0 /\ pipes[idx].writers <= 0
       /\ Return(t)
       /\ UNCHANGED <<pipes, blocked>>
    \/ /\ pipes[idx].in_use /\ pipes[idx].count = 0 /\ pipes[idx].writers > 0
       /\ Sleep(t, [op |-> "read", idx |-> idx, len |-> len])

pipe_write(t, idx, len) ==
    \/ /\ ~ pipes[idx].in_use \/ pipes[idx].readers <= 0
       /\ Return(t)
       /\ UNCHANGED <<pipes, blocked>>
    \/ /\ pipes[idx].in_use /\ pipes[idx].readers > 0
       /\ pipes[idx].count < PIPE_BUF_SIZE
       /\ pipes' = [pipes EXCEPT ![idx].count = @ + Smaller(PIPE_BUF_SIZE - @, len)]
       /\ blocked' = blocked \ Woken(idx)
       /\ Return(t)
    \/ /\ pipes[idx].in_use /\ pipes[idx].readers > 0
       /\ pipes[idx].count = PIPE_BUF_SIZE
       /\ Sleep(t, [op |-> "write", idx |-> idx, len |-> len])

(* SYS_READ and SYS_WRITE on a pipe descriptor *)
SysRead(t) ==
    /\ InUser(t)
    /\ \E fd \in Fds, len \in Lens :
         /\ fds[t][fd].kind = "PIPE_READ"
         /\ pipe_read(t, fds[t][fd].handle, len)
    /\ UNCHANGED <<life, parent, fds>>

SysWrite(t) ==
    /\ InUser(t)
    /\ \E fd \in Fds, len \in Lens :
         /\ fds[t][fd].kind = "PIPE_WRITE"
         /\ pipe_write(t, fds[t][fd].handle, len)
    /\ UNCHANGED <<life, parent, fds>>

(* sched_sleep has returned: the loop starts over *)
Retry(t) ==
    /\ life[t] = "live" /\ call[t] # NoCall /\ t \notin blocked
    /\ \/ call[t].op = "read" /\ pipe_read(t, call[t].idx, call[t].len)
       \/ call[t].op = "write" /\ pipe_write(t, call[t].idx, call[t].len)
    /\ UNCHANGED <<life, parent, fds>>

(***************************************************************************)
(* Processes                                                               *)
(***************************************************************************)

FdGet(t, fd) == IF fd = -1 THEN FdUnused ELSE fds[t][fd]

(* process_spawn_from_file_redirect: the child has the console on 0 and 1,  *)
(* unless the caller names a pipe end of the right kind.  SYS_SPAWN is the  *)
(* case in which both descriptors are -1.                                   *)
SysSpawn(t) ==
    /\ InUser(t)
    /\ \E u \in Tids, in, out \in Fds \cup {-1} :
         /\ life[u] = "unused"
         /\ LET ri == FdGet(t, in).handle
                wi == FdGet(t, out).handle
                piped_in  == FdGet(t, in).kind = "PIPE_READ"
                piped_out == FdGet(t, out).kind = "PIPE_WRITE"
                added == IF piped_in THEN [pipes EXCEPT ![ri].readers = @ + 1] ELSE pipes
            IN  /\ pipes' = IF piped_out THEN [added EXCEPT ![wi].writers = @ + 1] ELSE added
                /\ fds' = [fds EXCEPT ![u] =
                      [ConsoleFds EXCEPT ![0] = IF piped_in THEN ReadEnd(ri) ELSE Other,
                                         ![1] = IF piped_out THEN WriteEnd(wi) ELSE Other]]
         /\ life' = [life EXCEPT ![u] = "live"]
         /\ parent' = [parent EXCEPT ![u] = t]
    /\ UNCHANGED <<call, blocked>>

(* A process exits, faults, or is killed, asleep or not: its descriptors    *)
(* stay open until it is reaped.                                            *)
Die(t) ==
    /\ life[t] = "live"
    /\ life' = [life EXCEPT ![t] = "zombie"]
    /\ call' = [call EXCEPT ![t] = NoCall]
    /\ blocked' = blocked \ {t}
    /\ UNCHANGED <<parent, fds, pipes>>

ReadEndsOf(t, p)  == {fd \in Fds : fds[t][fd] = ReadEnd(p)}
WriteEndsOf(t, p) == {fd \in Fds : fds[t][fd] = WriteEnd(p)}

(* process_wait of the parent, or of the kernel shell, on the exited        *)
(* process u: reap_zombie and fd_cleanup_thread.  The children of u can no  *)
(* longer be waited for by anybody.                                         *)
Reap(u) ==
    LET held == {p \in Pipes : ReadEndsOf(u, p) \cup WriteEndsOf(u, p) # {}}
    IN  /\ life[u] = "zombie"
        /\ parent[u] \in Tids => InUser(parent[u])
        /\ parent[u] # "nobody"
        /\ pipes' = [p \in Pipes |->
              IF p \in held
              THEN CloseEnds(pipes, p, Cardinality(ReadEndsOf(u, p)),
                                       Cardinality(WriteEndsOf(u, p)))[p]
              ELSE pipes[p]]
        /\ blocked' = {x \in blocked : call[x].idx \notin held}
        /\ fds' = [fds EXCEPT ![u] = NoFds]
        /\ life' = [life EXCEPT ![u] = "unused"]
        /\ parent' = [x \in Tids |-> IF x = u \/ parent[x] = u THEN "nobody" ELSE parent[x]]
        /\ UNCHANGED call

Step(t) ==
    \/ SysPipe(t) \/ SysPipeFails(t) \/ SysClose(t)
    \/ SysRead(t) \/ SysWrite(t) \/ Retry(t)
    \/ SysSpawn(t) \/ Die(t) \/ Reap(t)

Next == \E t \in Tids : Step(t)

Spec == Init /\ [][Next]_vars

(***************************************************************************)
(* Properties                                                              *)
(***************************************************************************)

TypeOK ==
    /\ life \in [Tids -> {"unused", "live", "zombie"}]
    /\ parent \in [Tids -> Parents]
    /\ fds \in [Tids -> [Fds -> FdSlot]]
    /\ pipes \in [Pipes -> PipeRec]
    /\ call \in [Tids -> Call]
    /\ blocked \subseteq Tids

ReadEnds(p)  == {e \in Tids \X Fds : fds[e[1]][e[2]] = ReadEnd(p)}
WriteEnds(p) == {e \in Tids \X Fds : fds[e[1]][e[2]] = WriteEnd(p)}

(* The reference counts are exact: a pipe in use has as many readers and    *)
(* writers as descriptors refer to it in all threads, zombies included, and *)
(* at least one; a pipe not in use has none, so a record that pipe_create   *)
(* hands out again has no stale descriptor on it.                           *)
RefCounts ==
    /\ TypeOK
    /\ \A p \in Pipes :
        IF pipes[p].in_use
        THEN /\ pipes[p].readers = Cardinality(ReadEnds(p))
             /\ pipes[p].writers = Cardinality(WriteEnds(p))
             /\ pipes[p].readers + pipes[p].writers > 0
        ELSE ReadEnds(p) = {} /\ WriteEnds(p) = {}

(* Nobody sleeps through its wakeup: a sleeping reader's pipe is empty and  *)
(* has a writer, a sleeping writer's pipe is full and has a reader, and the *)
(* pipe is one the sleeper itself holds open.                               *)
NoLostPipeWakeup ==
    \A t \in blocked :
        LET p == pipes[call[t].idx]
        IN  /\ life[t] = "live"
            /\ p.in_use
            /\ call[t].op = "read" =>
                 /\ p.count = 0 /\ p.writers > 0
                 /\ ReadEndsOf(t, call[t].idx) # {}
            /\ call[t].op = "write" =>
                 /\ p.count = PIPE_BUF_SIZE /\ p.readers > 0
                 /\ WriteEndsOf(t, call[t].idx) # {}

=============================================================================
