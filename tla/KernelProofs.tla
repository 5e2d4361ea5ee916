---------------------------- MODULE KernelProofs ----------------------------
(***************************************************************************)
(* The safety invariants of module Kernel hold for every size of the       *)
(* thread table and the process table, every bound and every quantum.      *)
(*                                                                         *)
(* The first part says what the rewritings of module Threads do to one     *)
(* slot, the second what the lookups of process.c find, the third what a   *)
(* hand-over of the CPU does.  The invariant and its proof follow.  The    *)
(* last part is about the search for the next thread.                      *)
(***************************************************************************)
EXTENDS Kernel, WellFoundedInduction, TLAPS

Table == [Tids -> Thread]

(***************************************************************************)
(* Part 1.  The thread table                                               *)
(***************************************************************************)

(* The numbers that are written into a slot are of the right type. *)
LEMMA FieldValues == Quantum \in 0..Quantum /\ 0 \in Int
  BY ThreadsAssumption

(* A write of the state alone: sched_yield, the zombie of an exit, LeaveIdle. *)
LEMMA SetStateEffect ==
    ASSUME NEW th \in Table, NEW t \in Tids, NEW s \in ThreadState
    PROVE  /\ SetState(th, t, s) \in Table
           /\ SetState(th, t, s)[t].state = s
           /\ \A x \in Tids : x # t => SetState(th, t, s)[x].state = th[x].state
           /\ \A x \in Tids : SetState(th, t, s)[x].wait_channel = th[x].wait_channel
  BY DEF SetState, Table, Thread

(* sched_sleep marks the caller's slot and no other. *)
LEMMA BlockEffect ==
    ASSUME NEW th \in Table, NEW t \in Tids, NEW channel \in Int
    PROVE  /\ Block(th, t, channel) \in Table
           /\ Block(th, t, channel)[t].state = "BLOCKED"
           /\ Block(th, t, channel)[t].wait_channel = channel
           /\ \A x \in Tids : x # t => Block(th, t, channel)[x] = th[x]
<1>1. PICK q \in Thread : q = th[t]
  BY DEF Table
<1>2. /\ [q EXCEPT !.state = "BLOCKED", !.wait_channel = channel] \in Thread
      /\ [q EXCEPT !.state = "BLOCKED", !.wait_channel = channel].state = "BLOCKED"
      /\ [q EXCEPT !.state = "BLOCKED", !.wait_channel = channel].wait_channel = channel
  BY DEF Thread, ThreadState
<1>3. PICK r \in Thread : /\ r = [q EXCEPT !.state = "BLOCKED", !.wait_channel = channel]
                          /\ r.state = "BLOCKED"
                          /\ r.wait_channel = channel
  BY <1>2, Zenon
<1>4. Block(th, t, channel) = [th EXCEPT ![t] = r]
  BY <1>1, <1>3, Zenon DEF Block
<1> QED
  BY <1>1, <1>3, <1>4 DEF Table

(* The hand-over of sched_yield and sched_sleep. *)
LEMMA DispatchEffect ==
    ASSUME NEW th \in Table, NEW n \in Tids
    PROVE  /\ Dispatch(th, n) \in Table
           /\ Dispatch(th, n)[n].state = "RUNNING"
           /\ Dispatch(th, n)[n].wait_channel = th[n].wait_channel
           /\ \A x \in Tids : x # n => Dispatch(th, n)[x] = th[x]
<1>1. PICK q \in Thread : q = th[n]
  BY DEF Table
<1>2. /\ [q EXCEPT !.state = "RUNNING", !.ticks_remaining = Quantum] \in Thread
      /\ [q EXCEPT !.state = "RUNNING", !.ticks_remaining = Quantum].state = "RUNNING"
      /\ [q EXCEPT !.state = "RUNNING", !.ticks_remaining = Quantum].wait_channel = q.wait_channel
  BY FieldValues, Zenon DEF Thread, ThreadState
<1>3. PICK r \in Thread : /\ r = [q EXCEPT !.state = "RUNNING", !.ticks_remaining = Quantum]
                          /\ r.state = "RUNNING"
                          /\ r.wait_channel = q.wait_channel
  BY <1>2, Zenon
<1>4. Dispatch(th, n) = [th EXCEPT ![n] = r]
  BY <1>1, <1>3, Zenon DEF Dispatch
<1> QED
  BY <1>1, <1>3, <1>4 DEF Table

(* The hand-over of sched_exit_status. *)
LEMMA DispatchAsIsEffect ==
    ASSUME NEW th \in Table, NEW n \in Tids
    PROVE  /\ DispatchAsIs(th, n) \in Table
           /\ DispatchAsIs(th, n)[n].state = "RUNNING"
           /\ DispatchAsIs(th, n)[n].wait_channel = th[n].wait_channel
           /\ \A x \in Tids : x # n => DispatchAsIs(th, n)[x] = th[x]
  BY DEF DispatchAsIs, Table, Thread, ThreadState

(* A tick changes nothing but the quantum. *)
LEMMA ElapseEffect ==
    ASSUME NEW th \in Table, NEW t \in Tids
    PROVE  /\ Elapse(th, t) \in Table
           /\ \A x \in Tids : /\ Elapse(th, t)[x].state = th[x].state
                              /\ Elapse(th, t)[x].wait_channel = th[x].wait_channel
  BY ThreadsAssumption DEF Elapse, Table, Thread

(* sched_spawn fills one slot. *)
LEMMA SpawnInEffect ==
    ASSUME NEW th \in Table, NEW s \in Tids, NEW u \in Uids
    PROVE  /\ SpawnIn(th, s, u) \in Table
           /\ SpawnIn(th, s, u)[s].state = "READY"
           /\ \A x \in Tids : x # s => SpawnIn(th, s, u)[x] = th[x]
<1>1. PICK q \in Thread : q = th[s]
  BY DEF Table
<1>2. /\ [q EXCEPT !.state = "READY", !.ticks_remaining = Quantum, !.uid = u] \in Thread
      /\ [q EXCEPT !.state = "READY", !.ticks_remaining = Quantum, !.uid = u].state = "READY"
  BY FieldValues, Zenon DEF Thread, ThreadState
<1>3. PICK r \in Thread : /\ r = [q EXCEPT !.state = "READY", !.ticks_remaining = Quantum, !.uid = u]
                          /\ r.state = "READY"
  BY <1>2, Zenon
<1>4. SpawnIn(th, s, u) = [th EXCEPT ![s] = r]
  BY <1>1, <1>3, Zenon DEF SpawnIn
<1> QED
  BY <1>1, <1>3, <1>4 DEF Table

(* reap_zombie resets one slot. *)
LEMMA ClearSlotEffect ==
    ASSUME NEW th \in Table, NEW t \in Tids
    PROVE  /\ ClearSlot(th, t) \in Table
           /\ ClearSlot(th, t)[t].state = "UNUSED"
           /\ \A x \in Tids : x # t => ClearSlot(th, t)[x] = th[x]
<1>1. PICK q \in Thread : q = th[t]
  BY DEF Table
<1>2. /\ [q EXCEPT !.state = "UNUSED", !.wait_channel = 0] \in Thread
      /\ [q EXCEPT !.state = "UNUSED", !.wait_channel = 0].state = "UNUSED"
  BY FieldValues, Zenon DEF Thread, ThreadState
<1>3. PICK r \in Thread : /\ r = [q EXCEPT !.state = "UNUSED", !.wait_channel = 0]
                          /\ r.state = "UNUSED"
  BY <1>2, Zenon
<1>4. ClearSlot(th, t) = [th EXCEPT ![t] = r]
  BY <1>1, <1>3, Zenon DEF ClearSlot
<1> QED
  BY <1>1, <1>3, <1>4 DEF Table

(* Growth keeps what the old slots hold, but for their uids. *)
LEMMA CopyTableEffect ==
    ASSUME NEW th \in Table, NEW c \in Nat, NEW garbage \in [Tids -> Uids],
           \A x \in Tids : x >= c => th[x].state = "UNUSED"
    PROVE  /\ CopyTable(th, c, garbage) \in Table
           /\ \A x \in Tids : CopyTable(th, c, garbage)[x].state = th[x].state
           /\ \A x \in Tids : x < c =>
                 CopyTable(th, c, garbage)[x].wait_channel = th[x].wait_channel
  BY ThreadsAssumption
     DEF CopyTable, Table, Thread, ThreadState, init_thread_slot, Tids

(* sched_wakeup readies the sleepers of one channel and touches nobody else. *)
LEMMA WakeupEffect ==
    ASSUME NEW th \in Table, NEW channel \in Int
    PROVE  /\ sched_wakeup(th, channel) \in Table
           /\ \A x \in Tids :
                 IF th[x].state = "BLOCKED" /\ th[x].wait_channel = channel
                 THEN sched_wakeup(th, channel)[x].state = "READY"
                 ELSE sched_wakeup(th, channel)[x] = th[x]
<1> DEFINE W == sched_wakeup(th, channel)
<1>1. ASSUME NEW x \in Tids
      PROVE  /\ W[x] \in Thread
             /\ IF th[x].state = "BLOCKED" /\ th[x].wait_channel = channel
                THEN W[x].state = "READY"
                ELSE W[x] = th[x]
  <2>1. th[x] \in Thread
    BY DEF Table
  <2>2. CASE th[x].state = "BLOCKED" /\ th[x].wait_channel = channel
    <3>1. PICK q \in Thread : q = th[x]
      BY <2>1
    <3>2. /\ [q EXCEPT !.state = "READY", !.wait_channel = 0] \in Thread
          /\ [q EXCEPT !.state = "READY", !.wait_channel = 0].state = "READY"
      BY FieldValues, Zenon DEF Thread, ThreadState
    <3>3. W[x] = [q EXCEPT !.state = "READY", !.wait_channel = 0]
      BY <2>2, <3>1, Zenon DEF sched_wakeup
    <3>4. W[x] \in Thread /\ W[x].state = "READY"
      BY <3>2, <3>3, Zenon
    <3> QED
      BY <2>2, <3>4
  <2>3. CASE ~ (th[x].state = "BLOCKED" /\ th[x].wait_channel = channel)
    <3>1. W[x] = th[x]
      BY <2>3 DEF sched_wakeup
    <3> QED
      BY <2>1, <2>3, <3>1
  <2> QED
    BY <2>2, <2>3
<1>2. W = [x \in Tids |-> W[x]]
  BY DEF sched_wakeup
<1> QED
  BY <1>1, <1>2 DEF Table

(* The search ends at a runnable slot of the table or where it began. *)
LEMMA NextRunnable ==
    ASSUME NEW th \in Table, NEW c \in 1..MaxThreads, NEW from \in 0..(c - 1)
    PROVE  LET n == find_next_runnable(th, c, from)
           IN  /\ n \in Tids
               /\ n < c
               /\ n = from \/ Runnable(th, n)
<1> DEFINE At(d)    == (from + d) % c
           First(d) == /\ Runnable(th, At(d))
                       /\ \A e \in 1..(d - 1) : ~ Runnable(th, At(e))
           n        == find_next_runnable(th, c, from)
<1>1. \A d \in 1..c : At(d) \in 0..(c - 1)
  BY ThreadsAssumption
<1>2. CASE \E d \in 1..c : First(d)
  <2>1. PICK d \in 1..c : n = At(d) /\ First(d)
    BY <1>2 DEF find_next_runnable
  <2> QED
    BY <2>1, <1>1, ThreadsAssumption DEF Tids
<1>3. CASE ~ \E d \in 1..c : First(d)
  <2>1. n = from
    BY <1>3 DEF find_next_runnable
  <2> QED
    BY <2>1, ThreadsAssumption DEF Tids
<1> QED
  BY <1>2, <1>3

(***************************************************************************)
(* Part 2.  The process table                                              *)
(***************************************************************************)

Records == [ProcSlots -> Process]

Used(procs, i) == procs[i].state # "UNUSED"

(* OneRecordPerThread, for any table *)
Distinct(procs) ==
    \A i, j \in ProcSlots :
        (i # j /\ Used(procs, i) /\ Used(procs, j)) =>
            procs[i].pid # procs[j].pid /\ procs[i].tid # procs[j].tid

(* In a table without duplicates the lookups find the record there is. *)
LEMMA Lookup ==
    ASSUME NEW procs, Distinct(procs), NEW i \in ProcSlots
    PROVE  /\ \A pid : find_process(procs, pid, i) <=> HasPid(procs, pid, i)
           /\ \A t : find_process_by_tid(procs, t, i) <=> HasTid(procs, t, i)
  BY KernelAssumption
     DEF Distinct, Used, find_process, find_process_by_tid, HasPid, HasTid, ProcSlots

(* process_current_pid is the pid of that record, or 0. *)
LEMMA CurrentPid ==
    ASSUME NEW procs, Distinct(procs), NEW t
    PROVE  /\ \A i \in ProcSlots : HasTid(procs, t, i) =>
                 current_pid(procs, t) = procs[i].pid
           /\ (\A i \in ProcSlots : ~ HasTid(procs, t, i)) => current_pid(procs, t) = 0
<1>1. ASSUME NEW i \in ProcSlots, HasTid(procs, t, i)
      PROVE  current_pid(procs, t) = procs[i].pid
  <2>1. find_process_by_tid(procs, t, i)
    BY <1>1, Lookup
  <2>2. \A j \in ProcSlots : find_process_by_tid(procs, t, j) => j = i
    BY <1>1, Lookup DEF HasTid, Distinct, Used
  <2>3. (CHOOSE j \in ProcSlots : find_process_by_tid(procs, t, j)) = i
    BY <2>1, <2>2
  <2> QED
    BY <2>1, <2>3 DEF current_pid
<1>2. ASSUME \A i \in ProcSlots : ~ HasTid(procs, t, i)
      PROVE  current_pid(procs, t) = 0
  BY <1>2 DEF current_pid, find_process_by_tid
<1> QED
  BY <1>1, <1>2

(* ... and in either case a natural number. *)
LEMMA CurrentPidType ==
    ASSUME NEW procs \in Records, Distinct(procs), NEW t
    PROVE  current_pid(procs, t) \in Nat
<1>1. \A i \in ProcSlots : procs[i].pid \in Nat
  BY DEF Records, Process
<1> QED
  BY <1>1, CurrentPid

(* Two tables with the same records in use, up to their states and exit     *)
(* statuses, have the same family relations.                                *)
SameFamily(p, q) ==
    \A i \in ProcSlots :
        /\ Used(p, i) <=> Used(q, i)
        /\ p[i].pid = q[i].pid
        /\ p[i].tid = q[i].tid
        /\ p[i].parent_pid = q[i].parent_pid

(* Lookups cannot tell two such tables apart. *)
LEMMA FamilyLookup ==
    ASSUME NEW p, NEW q, Distinct(p), SameFamily(p, q)
    PROVE  /\ Distinct(q)
           /\ \A t : current_pid(p, t) = current_pid(q, t)
           /\ \A i \in ProcSlots : \A pid : find_process(p, pid, i) <=> find_process(q, pid, i)
<1>1. Distinct(q)
  BY DEF Distinct, SameFamily
<1>2. \A i \in ProcSlots : \A t : HasTid(p, t, i) <=> HasTid(q, t, i)
  BY DEF SameFamily, HasTid, Used
<1>3. \A i \in ProcSlots : \A pid : HasPid(p, pid, i) <=> HasPid(q, pid, i)
  BY DEF SameFamily, HasPid, Used
<1>4. ASSUME NEW t PROVE current_pid(p, t) = current_pid(q, t)
  <2>1. CASE \E i \in ProcSlots : HasTid(p, t, i)
    <3>1. PICK i \in ProcSlots : HasTid(p, t, i)
      BY <2>1
    <3> QED
      BY <3>1, <1>1, <1>2, CurrentPid DEF SameFamily
  <2>2. CASE \A i \in ProcSlots : ~ HasTid(p, t, i)
    BY <2>2, <1>1, <1>2, CurrentPid
  <2> QED
    BY <2>1, <2>2
<1> QED
  BY <1>1, <1>3, <1>4, Lookup

(* What process_mark_exited does to one record. *)
LEMMA MarkExitedEffect ==
    ASSUME NEW procs \in Records, Distinct(procs), NEW t, NEW status \in Int
    PROVE  LET q == MarkExited(procs, t, status)
           IN  /\ q \in Records
               /\ SameFamily(procs, q)
               /\ \A i \in ProcSlots :
                     IF HasTid(procs, t, i) THEN q[i].state = "EXITED"
                                            ELSE q[i] = procs[i]
<1> DEFINE q == MarkExited(procs, t, status)
<1>1. ASSUME NEW i \in ProcSlots
      PROVE  /\ q[i] \in Process
             /\ q[i].pid = procs[i].pid
             /\ q[i].tid = procs[i].tid
             /\ q[i].parent_pid = procs[i].parent_pid
             /\ IF HasTid(procs, t, i) THEN q[i].state = "EXITED" ELSE q[i] = procs[i]
  <2>1. PICK r \in Process : r = procs[i]
    BY DEF Records
  <2>2. CASE HasTid(procs, t, i)
    <3>1. q[i] = [r EXCEPT !.exit_status = status, !.state = "EXITED"]
      BY <2>1, <2>2, Lookup, Zenon DEF MarkExited
    <3>2. /\ [r EXCEPT !.exit_status = status, !.state = "EXITED"] \in Process
          /\ [r EXCEPT !.exit_status = status, !.state = "EXITED"].pid = r.pid
          /\ [r EXCEPT !.exit_status = status, !.state = "EXITED"].tid = r.tid
          /\ [r EXCEPT !.exit_status = status, !.state = "EXITED"].parent_pid = r.parent_pid
          /\ [r EXCEPT !.exit_status = status, !.state = "EXITED"].state = "EXITED"
      BY Zenon DEF Process, ProcessState
    <3> QED
      BY <2>1, <2>2, <3>1, <3>2, Zenon
  <2>3. CASE ~ HasTid(procs, t, i)
    <3>1. q[i] = procs[i]
      BY <2>3, Lookup, Zenon DEF MarkExited
    <3> QED
      BY <2>1, <2>3, <3>1
  <2> QED
    BY <2>2, <2>3
<1>2. q = [i \in ProcSlots |-> q[i]]
  BY DEF MarkExited
<1>3. q \in Records
  BY <1>1, <1>2 DEF Records
<1>4. SameFamily(procs, q)
  BY <1>1 DEF SameFamily, Used, HasTid
<1> QED
  BY <1>1, <1>3, <1>4

(***************************************************************************)
(* Part 3.  Giving the CPU away                                            *)
(***************************************************************************)

(* The current thread is in the table, and nothing is beyond its end. *)
InTable ==
    /\ current_thread < thread_capacity
    /\ \A t \in Tids : t >= thread_capacity => threads[t].state = "UNUSED"

(* sched_yield: nothing, or two threads change places. *)
LEMMA YieldEffect ==
    ASSUME TypeOK, InTable, NEW th \in Table, sched_yield(th)
    PROVE  /\ threads' \in Table
           /\ current_thread' \in Tids
           /\ current_thread' < thread_capacity
           /\ \A x \in Tids : threads'[x].wait_channel = th[x].wait_channel
           /\ \/ /\ current_thread' = current_thread
                 /\ \A x \in Tids : threads'[x].state = th[x].state
              \/ /\ current_thread' # current_thread
                 /\ Runnable(th, current_thread')
                 /\ threads'[current_thread'].state = "RUNNING"
                 /\ threads'[current_thread].state = "READY"
                 /\ \A x \in Tids \ {current_thread, current_thread'} :
                       threads'[x].state = th[x].state
<1> DEFINE t == current_thread
           n == find_next_runnable(th, thread_capacity, t)
           y == SetState(th, t, "READY")
<1>1. t \in 0..(thread_capacity - 1) /\ t \in Tids /\ thread_capacity \in 1..MaxThreads
  BY ThreadsAssumption DEF TypeOK, InTable, Tids
<1>2. n \in Tids /\ n < thread_capacity /\ (n = t \/ Runnable(th, n))
  BY <1>1, NextRunnable
<1>3. CASE n = t
  BY <1>1, <1>3 DEF sched_yield, InTable
<1>4. CASE n # t
  <2>1. threads' = Dispatch(y, n) /\ current_thread' = n
    BY <1>4 DEF sched_yield
  <2>2. /\ y \in Table
        /\ y[t].state = "READY"
        /\ \A x \in Tids : x # t => y[x].state = th[x].state
        /\ \A x \in Tids : y[x].wait_channel = th[x].wait_channel
    BY <1>1, SetStateEffect, ZenonT(60) DEF ThreadState
  <2> HIDE DEF y, n, t
  <2>3. /\ threads' \in Table
        /\ threads'[n].state = "RUNNING"
        /\ threads'[n].wait_channel = y[n].wait_channel
        /\ \A x \in Tids : x # n => threads'[x] = y[x]
    BY <1>2, <2>1, <2>2, DispatchEffect
  <2>4. \A x \in Tids : threads'[x].wait_channel = th[x].wait_channel
    BY <2>2, <2>3
  <2>5. threads'[t].state = "READY" /\ \A x \in Tids \ {t, n} : threads'[x].state = th[x].state
    BY <1>1, <1>4, <2>2, <2>3
  <2> QED
    BY <1>2, <1>4, <2>1, <2>3, <2>4, <2>5 DEF t
<1> QED
  BY <1>3, <1>4

(* sched_sleep: the caller blocks and another thread runs, or the CPU idles. *)
LEMMA SleepEffect ==
    ASSUME TypeOK, InTable, NEW channel \in Int, NEW back, sched_sleep(channel, back)
    PROVE  /\ threads' \in Table
           /\ current_thread' \in Tids
           /\ current_thread' < thread_capacity
           /\ threads'[current_thread].state = "BLOCKED"
           /\ threads'[current_thread].wait_channel = channel
           /\ \A x \in Tids \ {current_thread} :
                 threads'[x].wait_channel = threads[x].wait_channel
           /\ \/ /\ current_thread' = current_thread
                 /\ pc' = [pc EXCEPT ![current_thread] = "idle"]
                 /\ \A x \in Tids \ {current_thread} :
                       threads'[x].state = threads[x].state
              \/ /\ current_thread' # current_thread
                 /\ pc' = [pc EXCEPT ![current_thread] = back]
                 /\ Runnable(threads, current_thread')
                 /\ threads'[current_thread'].state = "RUNNING"
                 /\ \A x \in Tids \ {current_thread, current_thread'} :
                       threads'[x].state = threads[x].state
<1> DEFINE t  == current_thread
           th == Block(threads, t, channel)
           n  == find_next_runnable(th, thread_capacity, t)
<1>1. /\ t \in 0..(thread_capacity - 1) /\ t \in Tids /\ thread_capacity \in 1..MaxThreads
      /\ threads \in Table
  BY ThreadsAssumption DEF TypeOK, InTable, Tids, Table
<1>2. /\ th \in Table
      /\ th[t].state = "BLOCKED"
      /\ th[t].wait_channel = channel
      /\ \A x \in Tids : x # t => th[x] = threads[x]
  BY <1>1, BlockEffect
<1>3. n \in Tids /\ n < thread_capacity /\ (n = t \/ Runnable(th, n))
  BY <1>1, <1>2, NextRunnable
<1>4. CASE n = t
  <2>1. threads' = th /\ current_thread' = t /\ pc' = [pc EXCEPT ![t] = "idle"]
    BY <1>4 DEF sched_sleep
  <2> HIDE DEF th
  <2> QED
    BY <1>1, <1>2, <2>1 DEF InTable
<1>5. CASE n # t
  <2>1. threads' = Dispatch(th, n) /\ current_thread' = n /\ pc' = [pc EXCEPT ![t] = back]
    BY <1>5 DEF sched_sleep
  <2> HIDE DEF th, n
  <2>2. /\ threads' \in Table
        /\ threads'[n].state = "RUNNING"
        /\ threads'[n].wait_channel = th[n].wait_channel
        /\ \A x \in Tids : x # n => threads'[x] = th[x]
    BY <1>2, <1>3, <2>1, DispatchEffect
  <2>3. Runnable(threads, n)
    BY <1>2, <1>3, <1>5 DEF Runnable
  <2> QED
    BY <1>1, <1>2, <1>3, <1>5, <2>1, <2>2, <2>3
<1> QED
  BY <1>4, <1>5

(* What the wakeups of an exit leave of the other threads: those that still *)
(* sleep slept on something else, nobody else dies, nobody comes to life.   *)
Bystander(x, old, new, pid) ==
    /\ new[x].state = "BLOCKED" =>
          /\ old[x].state = "BLOCKED"
          /\ old[x].wait_channel # pid
          /\ new[x].wait_channel = old[x].wait_channel
    /\ new[x].state = "UNUSED" <=> old[x].state = "UNUSED"
    /\ new[x].state = "ZOMBIE" <=> old[x].state = "ZOMBIE"

(* sched_wakeup leaves bystanders behind. *)
LEMMA WakeupBystanders ==
    ASSUME NEW th \in Table, NEW pid \in Int, NEW x \in Tids
    PROVE  /\ Bystander(x, th, sched_wakeup(th, pid), pid)
           /\ sched_wakeup(th, pid)[x].state = "RUNNING" <=> th[x].state = "RUNNING"
           /\ Runnable(th, x) => Runnable(sched_wakeup(th, pid), x)
<1>1. sched_wakeup(th, pid) \in Table
  BY WakeupEffect
<1>2. IF th[x].state = "BLOCKED" /\ th[x].wait_channel = pid
      THEN sched_wakeup(th, pid)[x].state = "READY"
      ELSE sched_wakeup(th, pid)[x] = th[x]
  BY WakeupEffect
<1> HIDE DEF sched_wakeup
<1> QED
  BY <1>2 DEF Bystander, Runnable

(* sched_exit_status: the caller is a zombie, all others are bystanders. *)
LEMMA ExitEffect ==
    ASSUME TypeOK, InTable, Distinct(processes), NEW status, NEW interruptsOn,
           sched_exit_status(status, interruptsOn)
    PROVE  /\ threads' \in Table
           /\ current_thread' \in Tids
           /\ current_thread' < thread_capacity
           /\ processes' = MarkExited(processes, current_thread, status)
           /\ threads'[current_thread].state = "ZOMBIE"
           /\ \A x \in Tids \ {current_thread} :
                 Bystander(x, threads, threads', current_pid(processes, current_thread))
           /\ \A x \in Tids \ {current_thread} :
                 threads'[x].state = "RUNNING" =>
                    threads[x].state = "RUNNING" \/ x = current_thread'
           /\ \/ /\ current_thread' = current_thread
                 /\ pc' = [pc EXCEPT ![current_thread] =
                              IF interruptsOn THEN "halt" ELSE "halt_cli"]
              \/ /\ current_thread' # current_thread
                 /\ threads'[current_thread'].state = "RUNNING"
                 /\ pc' = [pc EXCEPT ![current_thread] = "none"]
<1> DEFINE t    == current_thread
           p    == current_pid(processes, t)
           dead == SetState(threads, t, "ZOMBIE")
           wp   == sched_wakeup(dead, p)
           wt   == sched_wakeup(wp, t)
           n    == find_next_runnable(wt, thread_capacity, t)
<1>1. /\ t \in 0..(thread_capacity - 1) /\ t \in Tids /\ thread_capacity \in 1..MaxThreads
      /\ threads \in Table /\ t \in Int
  BY ThreadsAssumption DEF TypeOK, InTable, Tids, Table
<1>2. p \in Int
  BY CurrentPidType DEF TypeOK, Records
<1>3. /\ dead \in Table
      /\ dead[t].state = "ZOMBIE"
      /\ \A x \in Tids : x # t => dead[x].state = threads[x].state
      /\ \A x \in Tids : dead[x].wait_channel = threads[x].wait_channel
  BY <1>1, SetStateEffect, ZenonT(60) DEF ThreadState
<1> HIDE DEF dead, p
<1>4. /\ wp \in Table
      /\ \A x \in Tids : /\ Bystander(x, dead, wp, p)
                         /\ wp[x].state = "RUNNING" <=> dead[x].state = "RUNNING"
  BY <1>2, <1>3, WakeupEffect, WakeupBystanders
<1> HIDE DEF wp
<1>5. /\ wt \in Table
      /\ \A x \in Tids : /\ Bystander(x, wp, wt, t)
                         /\ wt[x].state = "RUNNING" <=> wp[x].state = "RUNNING"
  BY <1>1, <1>4, WakeupEffect, WakeupBystanders, SMTT(60)
<1> HIDE DEF wt
<1>6. /\ wt[t].state = "ZOMBIE"
      /\ \A x \in Tids \ {t} : Bystander(x, threads, wt, p)
      /\ \A x \in Tids \ {t} : wt[x].state = "RUNNING" <=> threads[x].state = "RUNNING"
  BY <1>1, <1>3, <1>4, <1>5 DEF Bystander
<1>7. n \in Tids /\ n < thread_capacity /\ (n = t \/ Runnable(wt, n))
  BY <1>1, <1>5, NextRunnable
<1>8. processes' = MarkExited(processes, t, status)
  BY DEF sched_exit_status
<1>9. CASE n = t
  <2>1. /\ threads' = wt /\ current_thread' = t
        /\ pc' = [pc EXCEPT ![t] = IF interruptsOn THEN "halt" ELSE "halt_cli"]
    BY <1>9 DEF sched_exit_status, wt, wp, dead, p, WakeParent
  <2> QED
    BY <1>1, <1>5, <1>6, <1>8, <2>1 DEF p, InTable
<1>10. CASE n # t
  <2>1. threads' = DispatchAsIs(wt, n) /\ current_thread' = n /\ pc' = [pc EXCEPT ![t] = "none"]
    BY <1>10 DEF sched_exit_status, wt, wp, dead, p, WakeParent
  <2> HIDE DEF n
  <2>2. /\ threads' \in Table
        /\ threads'[n].state = "RUNNING"
        /\ \A x \in Tids : x # n => threads'[x] = wt[x]
    BY <1>5, <1>7, <2>1, DispatchAsIsEffect
  <2>3. threads'[t].state = "ZOMBIE"
    BY <1>1, <1>6, <1>10, <2>2
  <2>4. \A x \in Tids \ {t} : Bystander(x, threads, threads', p)
    BY <1>6, <1>7, <1>10, <2>2 DEF Bystander, Runnable
  <2>5. \A x \in Tids \ {t} : threads'[x].state = "RUNNING" =>
           threads[x].state = "RUNNING" \/ x = n
    BY <1>6, <2>2
  <2> QED
    BY <1>7, <1>8, <1>10, <2>1, <2>2, <2>3, <2>4, <2>5 DEF p
<1> QED
  BY <1>9, <1>10

(* sched_kill on another thread: the same for its victim. *)
LEMMA KillEffect ==
    ASSUME TypeOK, Distinct(processes), NEW tid \in Tids, NEW status,
           KillThread(tid, status)
    PROVE  /\ threads' \in Table
           /\ processes' = MarkExited(processes, tid, status)
           /\ threads[tid].state \notin {"UNUSED", "ZOMBIE"}
           /\ threads'[tid].state = "ZOMBIE"
           /\ pc' = [pc EXCEPT ![tid] = "none"]
           /\ current_thread' = current_thread
           /\ \A x \in Tids \ {tid} :
                 /\ Bystander(x, threads, threads', current_pid(processes, tid))
                 /\ threads'[x].state = "RUNNING" <=> threads[x].state = "RUNNING"
<1> DEFINE p    == current_pid(processes, tid)
           dead == [threads EXCEPT ![tid].state = "ZOMBIE", ![tid].wait_channel = 0]
<1>1. threads \in Table /\ p \in Int
  BY CurrentPidType DEF TypeOK, Records, Table
<1>2. /\ dead \in Table
      /\ dead[tid].state = "ZOMBIE"
      /\ \A x \in Tids : x # tid => dead[x] = threads[x]
  <2>1. PICK q \in Thread : q = threads[tid]
    BY <1>1 DEF Table
  <2>2. /\ [q EXCEPT !.state = "ZOMBIE", !.wait_channel = 0] \in Thread
        /\ [q EXCEPT !.state = "ZOMBIE", !.wait_channel = 0].state = "ZOMBIE"
    BY FieldValues, Zenon DEF Thread, ThreadState
  <2>3. PICK r \in Thread : /\ r = [q EXCEPT !.state = "ZOMBIE", !.wait_channel = 0]
                            /\ r.state = "ZOMBIE"
    BY <2>2, Zenon
  <2>4. dead = [threads EXCEPT ![tid] = r]
    BY <2>1, <2>3, Zenon
  <2> HIDE DEF dead
  <2> QED
    BY <1>1, <2>3, <2>4 DEF Table
<1>3. threads' = sched_wakeup(dead, p)
  BY DEF KillThread, WakeParent
<1> HIDE DEF dead, p
<1>4. /\ threads' \in Table
      /\ \A x \in Tids : /\ Bystander(x, dead, threads', p)
                         /\ threads'[x].state = "RUNNING" <=> dead[x].state = "RUNNING"
  BY <1>1, <1>2, <1>3, WakeupEffect, WakeupBystanders
<1>5. /\ processes' = MarkExited(processes, tid, status)
      /\ threads[tid].state \notin {"UNUSED", "ZOMBIE"}
      /\ pc' = [pc EXCEPT ![tid] = "none"]
      /\ current_thread' = current_thread
  BY DEF KillThread
<1>6. threads'[tid].state = "ZOMBIE"
  BY <1>2, <1>4 DEF Bystander
<1>7. \A x \in Tids \ {tid} :
         /\ Bystander(x, threads, threads', p)
         /\ threads'[x].state = "RUNNING" <=> threads[x].state = "RUNNING"
  BY <1>2, <1>4 DEF Bystander
<1> QED
  BY <1>4, <1>5, <1>6, <1>7 DEF p

(***************************************************************************)
(* Part 4.  The invariant                                                  *)
(***************************************************************************)

(* Where a thread is fits the state of its slot.  A thread that exited with *)
(* interrupts on may become runnable again and so has pc "halt" in any of   *)
(* the states READY, RUNNING and ZOMBIE.                                    *)
PcMatchesState ==
    \A t \in Tids :
        /\ threads[t].state = "UNUSED" => pc[t] = "none"
        /\ threads[t].state = "ZOMBIE" =>
              pc[t] = "none" \/ (pc[t] \in {"halt", "halt_cli"} /\ t = current_thread)
        /\ threads[t].state = "BLOCKED" => pc[t] \in {"wait", "getchar", "idle"}
        /\ Runnable(threads, t) => pc[t] \notin {"none", "halt_cli"}

(* The kernel shell is nobody's process: it is never killed and never exits. *)
ShellLives ==
    /\ sched_is_alive(threads, ShellTid)
    /\ pc[ShellTid] \in {"user", "wait", "getchar", "sleep", "idle"}

ArgMatchesPc ==
    \A t \in Tids :
        /\ pc[t] = "wait" => arg[t] # 0
        /\ pc[t] \in {"user", "start", "load", "getchar", "sleep"} => arg[t] = 0

SleepsOnKeyboard ==
    \A t \in Tids : (threads[t].state = "BLOCKED" /\ arg[t] = 0) =>
        threads[t].wait_channel = kbd_wait_channel

(* A program that found the buffer empty keeps the CPU, and the buffer      *)
(* empty, until it sleeps: its system call runs with interrupts off.        *)
AboutToSleep ==
    \A t \in Tids \ {ShellTid} : pc[t] = "sleep" => t = current_thread /\ keys = 0

PidsIssued ==
    /\ next_pid >= 1
    /\ \A i \in ProcSlots : Used(processes, i) => processes[i].pid \in 1..(next_pid - 1)

(* What concerns the threads alone ... *)
ThreadInv ==
    /\ InTable
    /\ OneRunning
    /\ PcMatchesState
    /\ ShellLives
    /\ ArgMatchesPc
    /\ SleepsOnKeyboard
    /\ AboutToSleep
    /\ NoLostKey

(* ... and what relates them to the processes. *)
ProcessInv ==
    /\ OneRecordPerThread
    /\ RecordMatchesThread
    /\ NoLostExit
    /\ PidsIssued

Inv == TypeOK /\ ThreadInv /\ ProcessInv

(* Distinct says of a table what the invariant says of the variable. *)
LEMMA DistinctRecords == OneRecordPerThread <=> Distinct(processes)
  BY DEF OneRecordPerThread, Distinct, Used

(* The shell has a slot. *)
LEMMA ShellIsTid == ShellTid \in Tids
  BY ThreadsAssumption DEF ShellTid, Tids

(* sched_init establishes the invariant. *)
LEMMA InitInv == Init => Inv
<1> SUFFICES ASSUME Init PROVE Inv
  OBVIOUS
<1>1. init_thread_slot \in Thread /\ init_thread_slot.state = "UNUSED"
  BY ThreadsAssumption DEF init_thread_slot, Thread, ThreadState
<1>2. /\ [init_thread_slot EXCEPT !.state = "RUNNING"] \in Thread
      /\ [init_thread_slot EXCEPT !.state = "RUNNING"].state = "RUNNING"
  BY ThreadsAssumption DEF init_thread_slot, Thread, ThreadState
<1>3. /\ threads \in Table
      /\ \A t \in Tids : threads[t].state = IF t = ShellTid THEN "RUNNING" ELSE "UNUSED"
  BY <1>1, <1>2, Zenon DEF Init, Table
<1>4. /\ NoProcess \in Process /\ NoProcess.state = "UNUSED"
  BY DEF NoProcess, Process, ProcessState
<1>5. /\ processes \in Records
      /\ \A i \in ProcSlots : processes[i].state = "UNUSED"
  BY <1>4, Zenon DEF Init, Records
<1>6. TypeOK
  <2>1. thread_capacity \in 1..MaxThreads /\ current_thread \in Tids /\ next_pid \in Nat
    BY ThreadsAssumption, ShellIsTid DEF Init
  <2>2. keys \in 0..KBD_BUFFER
    BY KernelAssumption DEF Init
  <2>3. pc \in [Tids -> PC] /\ arg \in [Tids -> Nat]
    BY DEF Init, PC
  <2> QED
    BY <1>3, <1>5, <2>1, <2>2, <2>3 DEF TypeOK, Table, Records
<1>7. InTable
  BY <1>3, ThreadsAssumption DEF InTable, Init, Tids, ShellTid
<1>8. /\ current_thread = ShellTid
      /\ \A t \in Tids : pc[t] = (IF t = ShellTid THEN "user" ELSE "none") /\ arg[t] = 0
  BY DEF Init
<1>9. OneRunning /\ SleepsOnKeyboard /\ NoLostKey
  BY <1>3, <1>8, ShellIsTid DEF OneRunning, SleepsOnKeyboard, NoLostKey
<1>10. PcMatchesState
  BY <1>3, <1>8 DEF PcMatchesState, Runnable
<1>11. ShellLives /\ ArgMatchesPc /\ AboutToSleep
  BY <1>3, <1>8, ShellIsTid DEF ShellLives, ArgMatchesPc, AboutToSleep, sched_is_alive
<1>12. OneRecordPerThread
  BY <1>5 DEF OneRecordPerThread
<1>13. RecordMatchesThread
  BY <1>5 DEF RecordMatchesThread
<1>14. PidsIssued
  BY <1>5 DEF PidsIssued, Used, Init
<1>15. NoLostExit
  BY <1>3 DEF NoLostExit
<1> QED
  BY <1>6, <1>7, <1>8, <1>9, <1>12, <1>15, <1>13, <1>14, <1>10, <1>11 DEF Inv, ThreadInv, ProcessInv

(***************************************************************************)
(* Part 5.  Steps that leave the process table alone                       *)
(***************************************************************************)

(* ProcessInv survives a step that kills nobody, wakes or blocks threads    *)
(* properly and may use up pids or enlarge the thread table.                *)
LEMMA ProcessFrame ==
    ASSUME TypeOK, ProcessInv, processes' = processes,
           next_pid' \in Nat, next_pid' >= next_pid,
           thread_capacity' \in Nat, thread_capacity' >= thread_capacity,
           \A x \in Tids : sched_is_alive(threads, x) => sched_is_alive(threads', x),
           \A x \in Tids : threads[x].state = "ZOMBIE" =>
                              threads'[x].state = "ZOMBIE" \/ pc'[x] = "halt",
           \A x \in Tids : \/ pc'[x] = pc[x]
                           \/ pc[x] # "halt" /\ pc'[x] \notin {"none", "halt", "halt_cli"},
           \A x \in Tids : (threads'[x].state = "BLOCKED" /\ arg'[x] # 0) =>
                /\ threads'[x].wait_channel = arg'[x]
                /\ \E i \in ProcSlots : /\ IsMyChild(x, arg'[x], i)
                                        /\ processes[i].state # "EXITED"
    PROVE  ProcessInv'
<1>1. OneRecordPerThread'
  BY DEF ProcessInv, OneRecordPerThread
<1>2. PidsIssued'
  BY DEF ProcessInv, PidsIssued, TypeOK, Used, Process
<1>3. NoLostExit'
  BY DEF NoLostExit, IsMyChild
<1>4. RecordMatchesThread'
  <2> SUFFICES ASSUME NEW i \in ProcSlots, processes[i].state # "UNUSED"
      PROVE  /\ processes[i].tid \in 1..(thread_capacity' - 1)
             /\ processes[i].state # "EXITED" =>
                   /\ sched_is_alive(threads', processes[i].tid)
                   /\ pc'[processes[i].tid] \notin {"none", "halt", "halt_cli"}
             /\ processes[i].state = "EXITED" =>
                   threads'[processes[i].tid].state = "ZOMBIE" \/ pc'[processes[i].tid] = "halt"
    BY DEF RecordMatchesThread
  <2> DEFINE t == processes[i].tid
  <2>1. /\ t \in 1..(thread_capacity - 1)
        /\ processes[i].state # "EXITED" =>
              sched_is_alive(threads, t) /\ pc[t] \notin {"none", "halt", "halt_cli"}
        /\ processes[i].state = "EXITED" => threads[t].state = "ZOMBIE" \/ pc[t] = "halt"
    BY DEF ProcessInv, RecordMatchesThread
  <2>2. t \in Tids /\ t \in 1..(thread_capacity' - 1)
    BY <2>1, ThreadsAssumption DEF TypeOK, Tids
  <2> HIDE DEF t
  <2> QED
    BY <2>1, <2>2 DEF t
<1> QED
  BY <1>1, <1>2, <1>3, <1>4 DEF ProcessInv

(* A thread that stays asleep is still waiting for the same live child. *)
LEMMA StillAsleep ==
    ASSUME NoLostExit, NEW x \in Tids, threads[x].state = "BLOCKED",
           arg'[x] # 0, arg'[x] = arg[x],
           threads'[x].wait_channel = threads[x].wait_channel
    PROVE  /\ threads'[x].wait_channel = arg'[x]
           /\ \E i \in ProcSlots : /\ IsMyChild(x, arg'[x], i)
                                   /\ processes[i].state # "EXITED"
  BY DEF NoLostExit

(* The running thread goes on to another place and may take a key. *)
LEMMA QuietStep ==
    ASSUME Inv, NEW t \in Tids, NEW b \in Nat, Runs(t),
           NEW a \in {"load", "user", "wait", "getchar", "sleep"},
           threads' \in Table,
           \A x \in Tids : /\ threads'[x].state = threads[x].state
                           /\ threads'[x].wait_channel = threads[x].wait_channel,
           UNCHANGED <<thread_capacity, current_thread>>,
           processes' \in Records, next_pid' \in Nat,
           pc' = [pc EXCEPT ![t] = a], arg' = [arg EXCEPT ![t] = b],
           keys' \in 0..keys,
           t = ShellTid => a # "load",
           a = "wait" <=> b # 0,
           a = "sleep" => keys' = 0
    PROVE  TypeOK' /\ ThreadInv'
<1> USE DEF Inv, ThreadInv
<1>1. TypeOK'
  <2>1. pc' \in [Tids -> PC] /\ arg' \in [Tids -> Nat]
    BY DEF TypeOK, PC
  <2>2. keys' \in 0..KBD_BUFFER
    BY KernelAssumption DEF TypeOK
  <2> QED
    BY <2>1, <2>2 DEF TypeOK, Table, Records
<1>2. /\ current_thread = t /\ threads[t].state = "RUNNING"
      /\ \A x \in Tids : x # t => pc'[x] = pc[x] /\ arg'[x] = arg[x]
      /\ pc'[t] = a /\ arg'[t] = b
  BY DEF Runs, TypeOK
<1>3. InTable' /\ OneRunning'
  BY <1>2 DEF InTable, OneRunning
<1>4. PcMatchesState'
  BY <1>2 DEF PcMatchesState, Runnable
<1>5. ShellLives'
  BY <1>2, ShellIsTid DEF ShellLives, sched_is_alive
<1>6. ArgMatchesPc'
  BY <1>2 DEF ArgMatchesPc
<1>7. SleepsOnKeyboard'
  BY <1>2 DEF SleepsOnKeyboard
<1>8. AboutToSleep'
  BY <1>2 DEF AboutToSleep, TypeOK
<1>9. NoLostKey'
  BY <1>2 DEF NoLostKey, TypeOK
<1> QED
  BY <1>1, <1>3, <1>4, <1>5, <1>6, <1>7, <1>8, <1>9

(* The same step when it does not touch the process table either. *)
LEMMA QuietFrame ==
    ASSUME Inv, NEW t \in Tids, NEW b \in Nat, Runs(t),
           NEW a \in {"load", "user", "wait", "getchar", "sleep"},
           \A x \in Tids : /\ threads'[x].state = threads[x].state
                           /\ threads'[x].wait_channel = threads[x].wait_channel,
           UNCHANGED <<thread_capacity, procVars>>,
           pc' = [pc EXCEPT ![t] = a], arg' = [arg EXCEPT ![t] = b],
           pc[t] # "halt"
    PROVE  ProcessInv'
<1>1. /\ threads[t].state = "RUNNING"
      /\ \A x \in Tids : x # t => pc'[x] = pc[x] /\ arg'[x] = arg[x]
      /\ pc'[t] = a
  BY DEF Runs, TypeOK, Inv
<1>2. ASSUME NEW x \in Tids, threads'[x].state = "BLOCKED", arg'[x] # 0
      PROVE  /\ threads'[x].wait_channel = arg'[x]
             /\ \E i \in ProcSlots : /\ IsMyChild(x, arg'[x], i)
                                     /\ processes[i].state # "EXITED"
  BY <1>1, <1>2, StillAsleep DEF Inv, ProcessInv
<1>3. /\ processes' = processes /\ next_pid' = next_pid
      /\ thread_capacity' = thread_capacity
      /\ next_pid \in Nat /\ thread_capacity \in Nat
  BY ThreadsAssumption DEF procVars, Inv, TypeOK
<1> QED
  BY <1>1, <1>2, <1>3, ProcessFrame DEF Inv, sched_is_alive

(* System calls that only move their caller on. *)
LEMMA QuietActions ==
    ASSUME Inv, NEW t \in Tids,
           \/ EnterUsermode(t) \/ WaitRefused(t) \/ SysWait(t)
           \/ SysRead(t) \/ GetcharPops(t) \/ Login(t)
    PROVE  Inv'
<1>1. /\ threads \in Table /\ processes \in Records /\ next_pid \in Nat
      /\ pc \in [Tids -> PC] /\ arg \in [Tids -> Nat] /\ keys \in Nat
  BY KernelAssumption DEF Inv, TypeOK, Table, Records
<1>2. pc[t] \in {"user", "getchar", "load"} => arg[t] = 0
  BY DEF Inv, ThreadInv, ArgMatchesPc
<1>3. arg[t] = 0 => arg = [arg EXCEPT ![t] = 0]
  BY <1>1
<1>4. ASSUME NEW a \in {"load", "user", "wait", "getchar", "sleep"}, NEW b \in Nat,
             Runs(t), pc[t] # "halt",
             UNCHANGED <<threads, thread_capacity, current_thread, procVars>>,
             pc' = [pc EXCEPT ![t] = a], arg' = [arg EXCEPT ![t] = b],
             keys' \in 0..keys, t = ShellTid => a # "load",
             a = "wait" <=> b # 0, a = "sleep" => keys' = 0
      PROVE  Inv'
  <2>1. ProcessInv'
    BY <1>4, QuietFrame
  <2>2. TypeOK' /\ ThreadInv'
    BY <1>1, <1>4, QuietStep DEF procVars
  <2> QED
    BY <2>1, <2>2 DEF Inv
<1>5. keys \in 0..keys
  BY <1>1
<1>6. CASE EnterUsermode(t)
  <2>1. pc' = [pc EXCEPT ![t] = "user"] /\ arg' = [arg EXCEPT ![t] = 0] /\ keys' \in 0..keys
    BY <1>2, <1>3, <1>5, <1>6 DEF EnterUsermode
  <2> QED
    BY <1>4, <1>6, <2>1 DEF EnterUsermode
<1>7. CASE WaitRefused(t)
  <2>1. pc' = [pc EXCEPT ![t] = "user"] /\ arg' = [arg EXCEPT ![t] = 0] /\ keys' \in 0..keys
    BY <1>5, <1>7 DEF WaitRefused
  <2> QED
    BY <1>4, <1>7, <2>1 DEF WaitRefused
<1>8. CASE SysWait(t)
  <2>1. PICK pid \in 1..MaxPid : arg' = [arg EXCEPT ![t] = pid]
    BY <1>8 DEF SysWait
  <2>2. pc' = [pc EXCEPT ![t] = "wait"] /\ keys' \in 0..keys /\ pid \in Nat /\ pid # 0
    BY <1>5, <1>8, KernelAssumption DEF SysWait
  <2> QED
    BY <1>4, <1>8, <2>1, <2>2 DEF SysWait, InRing3
<1>9. CASE SysRead(t)
  <2>1. pc' = [pc EXCEPT ![t] = "getchar"] /\ arg' = [arg EXCEPT ![t] = 0] /\ keys' \in 0..keys
    BY <1>2, <1>3, <1>5, <1>9 DEF SysRead
  <2> QED
    BY <1>4, <1>9, <2>1 DEF SysRead
<1>10. CASE GetcharPops(t)
  <2>1. arg' = [arg EXCEPT ![t] = 0]
    BY <1>2, <1>3, <1>10 DEF GetcharPops
  <2>2. CASE keys > 0
    <3>1. keys' \in 0..keys /\ pc' = [pc EXCEPT ![t] = "user"]
      BY <1>1, <1>10, <2>2 DEF GetcharPops
    <3> QED
      BY <1>4, <1>10, <2>1, <3>1 DEF GetcharPops
  <2>3. CASE ~ keys > 0
    <3>1. keys' \in 0..keys /\ keys' = 0 /\ pc' = [pc EXCEPT ![t] = "sleep"]
      BY <1>1, <1>10, <2>3 DEF GetcharPops
    <3> QED
      BY <1>4, <1>10, <2>1, <3>1 DEF GetcharPops
  <2> QED
    BY <2>2, <2>3
<1>11. CASE Login(t)
  <2>1. PICK u \in Uids : threads' = [threads EXCEPT ![t].uid = u]
    BY <1>11 DEF Login
  <2>2. /\ threads' \in Table
        /\ \A x \in Tids : /\ threads'[x].state = threads[x].state
                           /\ threads'[x].wait_channel = threads[x].wait_channel
    BY <1>1, <2>1 DEF Table, Thread
  <2>3. /\ Runs(t) /\ pc[t] = "user" /\ keys' \in 0..keys
        /\ UNCHANGED <<thread_capacity, current_thread, procVars>>
    BY <1>5, <1>11 DEF Login, InRing3
  <2>4. pc' = [pc EXCEPT ![t] = "user"] /\ arg' = [arg EXCEPT ![t] = 0]
    BY <1>1, <1>2, <1>3, <1>11, <2>3 DEF Login
  <2>5. ProcessInv'
    BY <2>2, <2>3, <2>4, QuietFrame
  <2>6. TypeOK' /\ ThreadInv'
    BY <1>1, <2>2, <2>3, <2>4, QuietStep DEF procVars
  <2> QED
    BY <2>5, <2>6 DEF Inv
<1> QED
  BY <1>6, <1>7, <1>8, <1>9, <1>10, <1>11

(* The timer interrupt, with and without a switch. *)
LEMMA TimerIrqInv ==
    ASSUME Inv, TimerIrq
    PROVE  Inv'
<1> DEFINE t  == current_thread
           th == Elapse(threads, t)
<1>1. /\ threads \in Table /\ t \in Tids
      /\ UNCHANGED <<thread_capacity, processes, next_pid, keys, pc, arg>>
  BY DEF Inv, TypeOK, Table, TimerIrq, procVars
<1>2. /\ th \in Table
      /\ \A x \in Tids : /\ th[x].state = threads[x].state
                         /\ th[x].wait_channel = threads[x].wait_channel
  BY <1>1, ElapseEffect
<1>3. (threads' = th /\ current_thread' = t) \/ sched_yield(th)
  BY DEF TimerIrq
<1> HIDE DEF th, t
<1>4. /\ threads' \in Table
      /\ current_thread' \in Tids
      /\ current_thread' < thread_capacity
      /\ \A x \in Tids : threads'[x].wait_channel = threads[x].wait_channel
      /\ \/ /\ current_thread' = t
            /\ \A x \in Tids : threads'[x].state = threads[x].state
         \/ /\ current_thread' # t
            /\ Runnable(threads, current_thread')
            /\ threads'[current_thread'].state = "RUNNING"
            /\ threads'[t].state = "READY"
            /\ \A x \in Tids \ {t, current_thread'} :
                  threads'[x].state = threads[x].state
  <2>1. CASE threads' = th /\ current_thread' = t
    BY <1>1, <1>2, <2>1 DEF Inv, ThreadInv, InTable, t
  <2>2. CASE sched_yield(th)
    BY <1>2, <2>2, YieldEffect DEF Inv, ThreadInv, t, Runnable
  <2> QED
    BY <1>3, <2>1, <2>2
<1>5. (pc[t] # "sleep" /\ pc[t] # "halt_cli") \/ t = ShellTid
  BY DEF TimerIrq, InterruptsOn, t
<1>6. TypeOK'
  BY <1>1, <1>4 DEF Inv, TypeOK, Table
<1>7. InTable'
  <2>1. t < thread_capacity /\ \A x \in Tids : x >= thread_capacity => threads[x].state = "UNUSED"
    BY DEF Inv, ThreadInv, InTable, t
  <2>2. \A x \in Tids : x >= thread_capacity => x # t /\ x # current_thread'
    BY <1>1, <1>4, <2>1, ThreadsAssumption DEF Tids, Inv, TypeOK
  <2> QED
    BY <1>1, <1>4, <2>1, <2>2 DEF InTable
<1>8. OneRunning'
  BY <1>1, <1>4 DEF Inv, ThreadInv, OneRunning, t
<1>9. pc[t] # "none" /\ pc[t] # "halt_cli"
  BY <1>1, ShellIsTid
     DEF Inv, ThreadInv, ShellLives, TimerIrq, InterruptsOn, t
<1>10. PcMatchesState'
  BY <1>1, <1>4, <1>9 DEF Inv, ThreadInv, PcMatchesState, Runnable, t
<1>11. ShellLives'
  BY <1>1, <1>4, ShellIsTid DEF Inv, ThreadInv, ShellLives, sched_is_alive
<1>12. ArgMatchesPc' /\ SleepsOnKeyboard' /\ NoLostKey'
  BY <1>1, <1>4 DEF Inv, ThreadInv, ArgMatchesPc, SleepsOnKeyboard, NoLostKey
<1>13. AboutToSleep'
  BY <1>1, <1>5 DEF Inv, ThreadInv, AboutToSleep, t
<1>14. ProcessInv'
  <2>1. \A x \in Tids : sched_is_alive(threads, x) => sched_is_alive(threads', x)
    BY <1>1, <1>4 DEF sched_is_alive
  <2>2. \A x \in Tids : threads[x].state = "ZOMBIE" =>
           threads'[x].state = "ZOMBIE" \/ pc'[x] = "halt"
    BY <1>1, <1>4, <1>9 DEF Inv, ThreadInv, PcMatchesState, Runnable, t
  <2>3. ASSUME NEW x \in Tids, threads'[x].state = "BLOCKED", arg'[x] # 0
        PROVE  /\ threads'[x].wait_channel = arg'[x]
               /\ \E i \in ProcSlots : /\ IsMyChild(x, arg'[x], i)
                                       /\ processes[i].state # "EXITED"
    BY <1>1, <1>4, <2>3, StillAsleep DEF Inv, ProcessInv
  <2>4. next_pid \in Nat /\ thread_capacity \in Nat
    BY ThreadsAssumption DEF Inv, TypeOK
  <2> QED
    BY <1>1, <2>1, <2>2, <2>3, <2>4, ProcessFrame DEF Inv
<1> QED
  BY <1>6, <1>7, <1>8, <1>10, <1>11, <1>12, <1>13, <1>14 DEF Inv, ThreadInv

(* The keyboard interrupt wakes every reader, so none sleeps beside the key. *)
LEMMA KeyboardIrqInv ==
    ASSUME Inv, KeyboardIrq
    PROVE  Inv'
<1>1. /\ threads \in Table /\ current_thread \in Tids
      /\ UNCHANGED <<thread_capacity, current_thread, processes, next_pid, pc, arg>>
      /\ keys' \in 0..KBD_BUFFER
      /\ threads' = sched_wakeup(threads, kbd_wait_channel)
      /\ kbd_wait_channel \in Int
  BY KernelAssumption DEF Inv, TypeOK, Table, KeyboardIrq, procVars, kbd_wait_channel
<1>2. threads' \in Table
  BY <1>1, WakeupEffect
<1>3. \A x \in Tids :
         /\ Bystander(x, threads, threads', kbd_wait_channel)
         /\ threads'[x].state = "RUNNING" <=> threads[x].state = "RUNNING"
         /\ threads'[x].state # threads[x].state =>
               threads[x].state = "BLOCKED" /\ threads'[x].state = "READY"
  <2>1. \A x \in Tids :
           IF threads[x].state = "BLOCKED" /\ threads[x].wait_channel = kbd_wait_channel
           THEN threads'[x].state = "READY" ELSE threads'[x] = threads[x]
    BY <1>1, WakeupEffect
  <2> QED
    BY <2>1 DEF Bystander
<1>4. TypeOK'
  BY <1>1, <1>2 DEF Inv, TypeOK, Table
<1>5. InTable' /\ OneRunning'
  BY <1>1, <1>3 DEF Inv, ThreadInv, InTable, OneRunning
<1>6. PcMatchesState'
  BY <1>1, <1>3 DEF Inv, ThreadInv, PcMatchesState, Runnable, Bystander
<1>7. ShellLives' /\ ArgMatchesPc'
  BY <1>1, <1>3, ShellIsTid DEF Inv, ThreadInv, ShellLives, ArgMatchesPc, sched_is_alive
<1>8. SleepsOnKeyboard' /\ NoLostKey'
  BY <1>1, <1>3 DEF Inv, ThreadInv, SleepsOnKeyboard, NoLostKey, Bystander
<1>9. AboutToSleep'
  BY <1>1 DEF Inv, ThreadInv, AboutToSleep, KeyboardIrq, InterruptsOn
<1>10. ProcessInv'
  <2>1. \A x \in Tids : sched_is_alive(threads, x) => sched_is_alive(threads', x)
    BY <1>3 DEF sched_is_alive
  <2>2. \A x \in Tids : threads[x].state = "ZOMBIE" => threads'[x].state = "ZOMBIE"
    BY <1>3
  <2>3. ASSUME NEW x \in Tids, threads'[x].state = "BLOCKED", arg'[x] # 0
        PROVE  /\ threads'[x].wait_channel = arg'[x]
               /\ \E i \in ProcSlots : /\ IsMyChild(x, arg'[x], i)
                                       /\ processes[i].state # "EXITED"
    BY <1>1, <1>3, <2>3, StillAsleep DEF Inv, ProcessInv, Bystander
  <2>4. next_pid \in Nat /\ thread_capacity \in Nat
    BY ThreadsAssumption DEF Inv, TypeOK
  <2> QED
    BY <1>1, <2>1, <2>2, <2>3, <2>4, ProcessFrame DEF Inv
<1> QED
  BY <1>4, <1>5, <1>6, <1>7, <1>8, <1>9, <1>10 DEF Inv, ThreadInv

(* The end of the idle loop. *)
LEMMA LeaveIdleInv ==
    ASSUME Inv, NEW t \in Tids, LeaveIdle(t)
    PROVE  Inv'
<1> DEFINE back == IF arg[t] = 0 THEN "getchar" ELSE "wait"
<1>1. /\ threads \in Table /\ current_thread = t /\ pc[t] = "idle"
      /\ threads[t].state # "BLOCKED"
      /\ UNCHANGED <<thread_capacity, current_thread, processes, next_pid, keys, arg>>
      /\ threads' = SetState(threads, t, "RUNNING")
      /\ pc' = [pc EXCEPT ![t] = back]
  BY DEF Inv, TypeOK, Table, LeaveIdle, procVars
<1>2. /\ threads' \in Table
      /\ threads'[t].state = "RUNNING"
      /\ \A x \in Tids : x # t => threads'[x].state = threads[x].state
      /\ \A x \in Tids : threads'[x].wait_channel = threads[x].wait_channel
  <2>1. threads \in Table /\ threads' = SetState(threads, t, "RUNNING") /\ "RUNNING" \in ThreadState
    BY <1>1 DEF ThreadState
  <2> QED
    BY ONLY <2>1, t \in Tids, SetStateEffect
<1>3. pc'[t] = back /\ \A x \in Tids : x # t => pc'[x] = pc[x]
  BY <1>1 DEF Inv, TypeOK
<1>4. threads[t].state \in {"READY", "RUNNING"}
  BY <1>1 DEF Inv, ThreadInv, PcMatchesState, TypeOK, Thread, ThreadState
<1>5. TypeOK'
  <2>1. pc' \in [Tids -> PC]
    BY <1>1 DEF Inv, TypeOK, PC
  <2> QED
    BY <1>1, <1>2, <2>1 DEF Inv, TypeOK, Table
<1>6. InTable'
  BY <1>1, <1>2, <1>4 DEF Inv, ThreadInv, InTable
<1>7. OneRunning'
  BY <1>1, <1>2 DEF Inv, ThreadInv, OneRunning
<1>8. PcMatchesState'
  BY <1>1, <1>2, <1>3 DEF Inv, ThreadInv, PcMatchesState, Runnable
<1>9. ShellLives'
  BY <1>2, <1>3, ShellIsTid DEF Inv, ThreadInv, ShellLives, sched_is_alive
<1>10. ArgMatchesPc' /\ AboutToSleep'
  BY <1>1, <1>3 DEF Inv, ThreadInv, ArgMatchesPc, AboutToSleep
<1>11. SleepsOnKeyboard' /\ NoLostKey'
  BY <1>1, <1>2 DEF Inv, ThreadInv, SleepsOnKeyboard, NoLostKey
<1>12. ProcessInv'
  <2>1. \A x \in Tids : sched_is_alive(threads, x) => sched_is_alive(threads', x)
    BY <1>2 DEF sched_is_alive
  <2>2. \A x \in Tids : threads[x].state = "ZOMBIE" => threads'[x].state = "ZOMBIE"
    BY <1>2, <1>4
  <2>3. ASSUME NEW x \in Tids, threads'[x].state = "BLOCKED", arg'[x] # 0
        PROVE  /\ threads'[x].wait_channel = arg'[x]
               /\ \E i \in ProcSlots : /\ IsMyChild(x, arg'[x], i)
                                       /\ processes[i].state # "EXITED"
    BY <1>1, <1>2, <2>3, StillAsleep DEF Inv, ProcessInv
  <2>4. next_pid \in Nat /\ thread_capacity \in Nat
    BY ThreadsAssumption DEF Inv, TypeOK
  <2> QED
    BY <1>1, <1>3, <2>1, <2>2, <2>3, <2>4, ProcessFrame DEF Inv
<1> QED
  BY <1>5, <1>6, <1>7, <1>8, <1>9, <1>10, <1>11, <1>12 DEF Inv, ThreadInv

(* A sleep, for a child or for a key. *)
LEMMA SleepInv ==
    ASSUME Inv, NEW t \in Tids, Runs(t), pc[t] \in {"wait", "sleep"},
           NEW channel \in Int, NEW back \in {"wait", "getchar"},
           sched_sleep(channel, back),
           UNCHANGED <<thread_capacity, processes, next_pid, keys, arg>>,
           back = "wait" <=> arg[t] # 0,
           back = "getchar" => channel = kbd_wait_channel /\ (t # ShellTid => keys = 0),
           back = "wait" =>
                /\ channel = arg[t]
                /\ \E i \in ProcSlots : IsMyChild(t, arg[t], i) /\ processes[i].state # "EXITED"
    PROVE  Inv'
<1>1. current_thread = t /\ threads[t].state = "RUNNING"
  BY DEF Runs
<1>2. /\ threads' \in Table
      /\ current_thread' \in Tids
      /\ current_thread' < thread_capacity
      /\ threads'[t].state = "BLOCKED"
      /\ threads'[t].wait_channel = channel
      /\ \A x \in Tids \ {t} : threads'[x].wait_channel = threads[x].wait_channel
      /\ \/ /\ current_thread' = t
            /\ pc' = [pc EXCEPT ![t] = "idle"]
            /\ \A x \in Tids \ {t} : threads'[x].state = threads[x].state
         \/ /\ current_thread' # t
            /\ pc' = [pc EXCEPT ![t] = back]
            /\ Runnable(threads, current_thread')
            /\ threads'[current_thread'].state = "RUNNING"
            /\ \A x \in Tids \ {t, current_thread'} : threads'[x].state = threads[x].state
  BY <1>1, SleepEffect DEF Inv, ThreadInv
<1>3. /\ pc'[t] \in {"idle", back}
      /\ current_thread' = t => pc'[t] = "idle"
      /\ \A x \in Tids \ {t} : pc'[x] = pc[x]
  BY <1>2 DEF Inv, TypeOK
<1>4. TypeOK'
  <2>1. pc' \in [Tids -> PC]
    BY <1>2 DEF Inv, TypeOK, PC
  <2> QED
    BY <1>2, <2>1 DEF Inv, TypeOK, Table
<1>5. InTable'
  <2>1. \A x \in Tids : x >= thread_capacity =>
           threads[x].state = "UNUSED" /\ x # t /\ x # current_thread'
    BY <1>1, <1>2, ThreadsAssumption DEF Inv, ThreadInv, InTable, Tids, TypeOK
  <2> QED
    BY <1>2, <2>1 DEF InTable
<1>6. OneRunning'
  BY <1>1, <1>2, <1>3 DEF Inv, ThreadInv, OneRunning
<1>7. PcMatchesState'
  BY <1>1, <1>2, <1>3 DEF Inv, ThreadInv, PcMatchesState, Runnable
<1>8. ShellLives'
  BY <1>2, <1>3, ShellIsTid DEF Inv, ThreadInv, ShellLives, sched_is_alive
<1>9. ArgMatchesPc' /\ AboutToSleep'
  BY <1>1, <1>3 DEF Inv, ThreadInv, ArgMatchesPc, AboutToSleep
<1>10. SleepsOnKeyboard' /\ NoLostKey'
  BY <1>2 DEF Inv, ThreadInv, SleepsOnKeyboard, NoLostKey
<1>11. ProcessInv'
  <2>1. \A x \in Tids : sched_is_alive(threads, x) => sched_is_alive(threads', x)
    BY <1>2 DEF sched_is_alive
  <2>2. \A x \in Tids : threads[x].state = "ZOMBIE" => threads'[x].state = "ZOMBIE"
    BY <1>1, <1>2 DEF Runnable
  <2>3. ASSUME NEW x \in Tids, threads'[x].state = "BLOCKED", arg'[x] # 0
        PROVE  /\ threads'[x].wait_channel = arg'[x]
               /\ \E i \in ProcSlots : /\ IsMyChild(x, arg'[x], i)
                                       /\ processes[i].state # "EXITED"
    <3>1. CASE x = t
      BY <1>2, <2>3, <3>1
    <3>2. CASE x # t
      BY <1>2, <2>3, <3>2, StillAsleep DEF Inv, ProcessInv
    <3> QED
      BY <3>1, <3>2
  <2>4. next_pid \in Nat /\ thread_capacity \in Nat
    BY ThreadsAssumption DEF Inv, TypeOK
  <2>5. \A x \in Tids : \/ pc'[x] = pc[x]
                        \/ pc[x] # "halt" /\ pc'[x] \notin {"none", "halt", "halt_cli"}
    BY <1>3
  <2> QED
    BY <2>1, <2>2, <2>3, <2>4, <2>5, ProcessFrame DEF Inv
<1> QED
  BY <1>4, <1>5, <1>6, <1>7, <1>8, <1>9, <1>10, <1>11 DEF Inv, ThreadInv

(* Both blocking calls. *)
LEMMA SleepActions ==
    ASSUME Inv, NEW t \in Tids, WaitSleeps(t) \/ GetcharSleeps(t)
    PROVE  Inv'
<1>1. CASE WaitSleeps(t)
  <2>1. arg[t] # 0 /\ arg[t] \in Int
    BY <1>1 DEF WaitSleeps, Inv, ThreadInv, ArgMatchesPc, TypeOK
  <2> QED
    BY <1>1, <2>1, SleepInv DEF WaitSleeps, procVars
<1>2. CASE GetcharSleeps(t)
  <2>1. arg[t] = 0 /\ (t # ShellTid => keys = 0) /\ kbd_wait_channel \in Int
    BY <1>2 DEF GetcharSleeps, Inv, ThreadInv, ArgMatchesPc, AboutToSleep, kbd_wait_channel
  <2> QED
    BY <1>2, <2>1, SleepInv DEF GetcharSleeps, procVars
<1> QED
  BY <1>1, <1>2

(***************************************************************************)
(* Part 6.  Deaths                                                         *)
(***************************************************************************)

(* A death is published: the victim's record says EXITED, whoever slept for *)
(* its pid is awake, everybody else is as before.                           *)
LEMMA DeathProcesses ==
    ASSUME Inv, NEW v \in Tids, NEW status \in Int,
           threads' \in Table,
           processes' = MarkExited(processes, v, status),
           threads'[v].state = "ZOMBIE",
           \A x \in Tids \ {v} : /\ Bystander(x, threads, threads', current_pid(processes, v))
                                 /\ pc'[x] = pc[x],
           UNCHANGED <<next_pid, thread_capacity, arg>>
    PROVE  /\ ProcessInv'
           /\ processes' \in Records
<1> USE DEF Inv
<1>1. processes \in Records /\ Distinct(processes) /\ threads \in Table
  BY DistinctRecords DEF TypeOK, Records, ProcessInv, Table
<1>2. /\ processes' \in Records
      /\ SameFamily(processes, processes')
      /\ \A i \in ProcSlots : IF HasTid(processes, v, i) THEN processes'[i].state = "EXITED"
                                                         ELSE processes'[i] = processes[i]
  BY <1>1, MarkExitedEffect
<1>3. /\ Distinct(processes')
      /\ \A t : current_pid(processes, t) = current_pid(processes', t)
      /\ \A i \in ProcSlots : \A pid :
            find_process(processes, pid, i) <=> find_process(processes', pid, i)
  BY <1>1, <1>2, FamilyLookup
<1>4. OneRecordPerThread'
  BY <1>3 DEF OneRecordPerThread, Distinct, Used
<1>5. PidsIssued'
  BY <1>2 DEF ProcessInv, PidsIssued, SameFamily
<1>6. RecordMatchesThread'
  <2> SUFFICES ASSUME NEW i \in ProcSlots, processes'[i].state # "UNUSED"
      PROVE  /\ processes'[i].tid \in 1..(thread_capacity' - 1)
             /\ processes'[i].state # "EXITED" =>
                   /\ sched_is_alive(threads', processes'[i].tid)
                   /\ pc'[processes'[i].tid] \notin {"none", "halt", "halt_cli"}
             /\ processes'[i].state = "EXITED" =>
                   threads'[processes'[i].tid].state = "ZOMBIE" \/ pc'[processes'[i].tid] = "halt"
    BY DEF RecordMatchesThread
  <2> DEFINE t == processes[i].tid
  <2>1. processes[i].state # "UNUSED" /\ processes'[i].tid = t
    BY <1>2 DEF SameFamily, Used
  <2>2. /\ t \in 1..(thread_capacity - 1)
        /\ processes[i].state # "EXITED" =>
              sched_is_alive(threads, t) /\ pc[t] \notin {"none", "halt", "halt_cli"}
        /\ processes[i].state = "EXITED" => threads[t].state = "ZOMBIE" \/ pc[t] = "halt"
    BY <2>1 DEF ProcessInv, RecordMatchesThread
  <2>3. t \in Tids
    BY <2>2, ThreadsAssumption DEF TypeOK, Tids
  <2>4. CASE t = v
    <3>1. processes'[i].state = "EXITED"
      BY <1>2, <2>1, <2>4 DEF HasTid
    <3> QED
      BY <2>1, <2>2, <2>4, <3>1
  <2>5. CASE t # v
    <3>1. processes'[i] = processes[i]
      BY <1>2, <2>5 DEF HasTid
    <3>2. sched_is_alive(threads, t) => sched_is_alive(threads', t)
      <4>1. threads'[t].state \in ThreadState
        BY <2>3 DEF Table, Thread
      <4> QED
        BY <2>3, <2>5, <4>1 DEF Bystander, sched_is_alive, ThreadState
    <3>3. threads[t].state = "ZOMBIE" => threads'[t].state = "ZOMBIE"
      BY <2>3, <2>5 DEF Bystander
    <3> QED
      BY <2>1, <2>2, <2>3, <2>5, <3>1, <3>2, <3>3
  <2> QED
    BY <2>4, <2>5
<1>7. NoLostExit'
  <2> SUFFICES ASSUME NEW x \in Tids, threads'[x].state = "BLOCKED", arg[x] # 0
      PROVE  /\ threads'[x].wait_channel = arg[x]
             /\ \E i \in ProcSlots : /\ find_process(processes', arg[x], i)
                                     /\ processes'[i].parent_pid = current_pid(processes', x)
                                     /\ processes'[i].state # "EXITED"
    BY DEF NoLostExit, IsMyChild
  <2>1. /\ x # v
        /\ threads[x].state = "BLOCKED"
        /\ threads[x].wait_channel # current_pid(processes, v)
        /\ threads'[x].wait_channel = threads[x].wait_channel
    BY DEF Bystander
  <2>2. /\ threads[x].wait_channel = arg[x]
        /\ \E i \in ProcSlots : /\ find_process(processes, arg[x], i)
                                /\ processes[i].parent_pid = current_pid(processes, x)
                                /\ processes[i].state # "EXITED"
    BY <2>1 DEF ProcessInv, NoLostExit, IsMyChild
  <2>3. PICK i \in ProcSlots : /\ find_process(processes, arg[x], i)
                               /\ processes[i].parent_pid = current_pid(processes, x)
                               /\ processes[i].state # "EXITED"
    BY <2>2
  <2>4. ~ HasTid(processes, v, i)
    BY <1>1, <2>1, <2>2, <2>3, CurrentPid DEF find_process, HasPid
  <2> QED
    BY <1>2, <1>3, <2>1, <2>2, <2>3, <2>4
<1> QED
  BY <1>2, <1>4, <1>5, <1>6, <1>7 DEF ProcessInv

(* The running program dies. *)
LEMMA ExitInv ==
    ASSUME Inv, NEW t \in Tids, Runs(t), t # ShellTid,
           NEW status \in Int, NEW interruptsOn, sched_exit_status(status, interruptsOn),
           UNCHANGED <<thread_capacity, next_pid, keys, arg>>
    PROVE  Inv'
<1>1. current_thread = t /\ threads[t].state = "RUNNING" /\ Distinct(processes)
  BY DistinctRecords DEF Runs, Inv, ProcessInv
<1>2. /\ threads' \in Table
      /\ current_thread' \in Tids
      /\ current_thread' < thread_capacity
      /\ processes' = MarkExited(processes, t, status)
      /\ threads'[t].state = "ZOMBIE"
      /\ \A x \in Tids \ {t} : Bystander(x, threads, threads', current_pid(processes, t))
      /\ \A x \in Tids \ {t} : threads'[x].state = "RUNNING" =>
            threads[x].state = "RUNNING" \/ x = current_thread'
      /\ \/ /\ current_thread' = t
            /\ pc' = [pc EXCEPT ![t] = IF interruptsOn THEN "halt" ELSE "halt_cli"]
         \/ /\ current_thread' # t
            /\ threads'[current_thread'].state = "RUNNING"
            /\ pc' = [pc EXCEPT ![t] = "none"]
  BY <1>1, ExitEffect DEF Inv, ThreadInv
<1>3. /\ \A x \in Tids \ {t} : pc'[x] = pc[x]
      /\ \/ current_thread' = t /\ pc'[t] \in {"halt", "halt_cli"}
         \/ /\ current_thread' # t /\ threads'[current_thread'].state = "RUNNING"
            /\ pc'[t] = "none"
      /\ pc' \in [Tids -> PC]
  BY <1>2 DEF Inv, TypeOK, PC
<1>4. ProcessInv' /\ processes' \in Records
  BY <1>2, <1>3, DeathProcesses
<1>5. TypeOK'
  BY <1>2, <1>3, <1>4 DEF Inv, TypeOK, Table, Records
<1>6. InTable'
  <2>1. \A x \in Tids : x >= thread_capacity => threads[x].state = "UNUSED" /\ x # t
    BY <1>1, ThreadsAssumption DEF Inv, ThreadInv, InTable, Tids, TypeOK
  <2> QED
    BY <1>2, <2>1 DEF InTable, Bystander
<1>7. OneRunning'
  BY <1>1, <1>2, <1>3 DEF Inv, ThreadInv, OneRunning
<1>8. PcMatchesState'
  <2>1. \A x \in Tids : threads[x].state \in ThreadState
    BY DEF Inv, TypeOK, Thread
  <2> QED
    BY <1>1, <1>2, <1>3, <2>1
       DEF Inv, ThreadInv, PcMatchesState, Runnable, Bystander, ThreadState
<1>9. ShellLives'
  <2>1. threads'[ShellTid].state \in ThreadState
    BY <1>2, ShellIsTid DEF Table, Thread
  <2> QED
    BY <1>2, <1>3, <2>1, ShellIsTid
       DEF Inv, ThreadInv, ShellLives, sched_is_alive, Bystander, ThreadState
<1>10. ArgMatchesPc' /\ AboutToSleep'
  BY <1>1, <1>3 DEF Inv, ThreadInv, ArgMatchesPc, AboutToSleep
<1>11. SleepsOnKeyboard' /\ NoLostKey'
  BY <1>2 DEF Inv, ThreadInv, SleepsOnKeyboard, NoLostKey, Bystander
<1> QED
  BY <1>4, <1>5, <1>6, <1>7, <1>8, <1>9, <1>10, <1>11 DEF Inv, ThreadInv

(* The running program kills another one. *)
LEMMA KillInv ==
    ASSUME Inv, NEW t \in Tids, Runs(t), pc[t] = "user",
           NEW v \in Tids, v # t, v # ShellTid,
           NEW status \in Int, KillThread(v, status),
           UNCHANGED <<thread_capacity, next_pid, keys, arg>>
    PROVE  Inv'
<1>1. current_thread = t /\ threads[t].state = "RUNNING" /\ Distinct(processes)
  BY DistinctRecords DEF Runs, Inv, ProcessInv
<1>2. /\ threads' \in Table
      /\ processes' = MarkExited(processes, v, status)
      /\ threads[v].state \notin {"UNUSED", "ZOMBIE"}
      /\ threads'[v].state = "ZOMBIE"
      /\ pc' = [pc EXCEPT ![v] = "none"]
      /\ current_thread' = current_thread
      /\ \A x \in Tids \ {v} :
            /\ Bystander(x, threads, threads', current_pid(processes, v))
            /\ threads'[x].state = "RUNNING" <=> threads[x].state = "RUNNING"
  BY <1>1, KillEffect DEF Inv
<1>3. /\ \A x \in Tids \ {v} : pc'[x] = pc[x]
      /\ pc'[v] = "none"
      /\ pc' \in [Tids -> PC]
  BY <1>2 DEF Inv, TypeOK, PC
<1>4. ProcessInv' /\ processes' \in Records
  BY <1>2, <1>3, DeathProcesses
<1>5. TypeOK'
  BY <1>2, <1>3, <1>4 DEF Inv, TypeOK, Table, Records
<1>6. InTable'
  BY <1>2 DEF Inv, ThreadInv, InTable, Bystander
<1>7. OneRunning'
  BY <1>1, <1>2, <1>3 DEF Inv, ThreadInv, OneRunning
<1>8. PcMatchesState'
  <2>1. \A x \in Tids : threads[x].state \in ThreadState
    BY DEF Inv, TypeOK, Thread
  <2> QED
    BY <1>1, <1>2, <1>3, <2>1
       DEF Inv, ThreadInv, PcMatchesState, Runnable, Bystander, ThreadState
<1>9. ShellLives'
  <2>1. threads'[ShellTid].state \in ThreadState
    BY <1>2, ShellIsTid DEF Table, Thread
  <2> QED
    BY <1>2, <1>3, <2>1, ShellIsTid
       DEF Inv, ThreadInv, ShellLives, sched_is_alive, Bystander, ThreadState
<1>10. ArgMatchesPc' /\ AboutToSleep'
  BY <1>1, <1>2, <1>3 DEF Inv, ThreadInv, ArgMatchesPc, AboutToSleep
<1>11. SleepsOnKeyboard' /\ NoLostKey'
  BY <1>2 DEF Inv, ThreadInv, SleepsOnKeyboard, NoLostKey, Bystander
<1> QED
  BY <1>4, <1>5, <1>6, <1>7, <1>8, <1>9, <1>10, <1>11 DEF Inv, ThreadInv

(* All the ways to die. *)
LEMMA DeathActions ==
    ASSUME Inv, NEW t \in Tids, StartFails(t) \/ Exit(t) \/ process_kill(t)
    PROVE  Inv'
<1>1. CASE StartFails(t)
  <2>1. t # ShellTid
    BY <1>1 DEF StartFails, Inv, ThreadInv, ShellLives
  <2>2. sched_exit_status(-1, TRUE)
    BY <1>1, Zenon DEF StartFails
  <2>3. -1 \in Int
    OBVIOUS
  <2>4. PICK status \in Int : sched_exit_status(status, TRUE)
    BY <2>2, <2>3, Zenon
  <2> QED
    BY <1>1, <2>1, <2>4, ExitInv DEF StartFails
<1>2. CASE Exit(t)
  <2>1. PICK status \in ExitCodes \cup {-1} : sched_exit_status(status, FALSE)
    BY <1>2 DEF Exit
  <2>2. status \in Int
    BY <2>1, KernelAssumption
  <2> QED
    BY <1>2, <2>1, <2>2, ExitInv DEF Exit, InRing3
<1>3. CASE process_kill(t)
  <2>1. PICK i \in ProcSlots, sig \in Signals :
           /\ find_process(processes, processes[i].pid, i)
           /\ IF processes[i].tid = t
              THEN sched_exit_status(SIGNAL_EXIT_STATUS(sig), FALSE)
              ELSE KillThread(processes[i].tid, SIGNAL_EXIT_STATUS(sig))
    BY <1>3 DEF process_kill
  <2>2. SIGNAL_EXIT_STATUS(sig) \in Int
    BY <2>1, KernelAssumption DEF SIGNAL_EXIT_STATUS
  <2>3. t # ShellTid /\ Runs(t) /\ pc[t] = "user" /\ UNCHANGED <<thread_capacity, next_pid, keys, arg>>
    BY <1>3 DEF process_kill, InRing3
  <2>4. processes[i].tid \in 1..(thread_capacity - 1)
    BY <2>1 DEF find_process, HasPid, Inv, ProcessInv, RecordMatchesThread
  <2>5. processes[i].tid \in Tids /\ processes[i].tid # ShellTid
    BY <2>4, ThreadsAssumption DEF Inv, TypeOK, Tids, ShellTid
  <2>6. CASE processes[i].tid = t
    BY <2>1, <2>2, <2>3, <2>6, ExitInv
  <2>7. CASE processes[i].tid # t
    BY <2>1, <2>2, <2>3, <2>5, <2>7, KillInv
  <2> QED
    BY <2>6, <2>7
<1> QED
  BY <1>1, <1>2, <1>3

(***************************************************************************)
(* Part 7.  Births                                                         *)
(***************************************************************************)

(* The trampoline marks its own record RUNNING: it cannot have exited yet. *)
LEMMA StartInv ==
    ASSUME Inv, NEW t \in Tids, Start(t)
    PROVE  Inv'
<1>1. /\ processes \in Records /\ Distinct(processes) /\ threads \in Table
      /\ next_pid \in Nat /\ keys \in Nat /\ arg \in [Tids -> Nat] /\ pc \in [Tids -> PC]
  BY DistinctRecords, KernelAssumption DEF Inv, TypeOK, Records, ProcessInv, Table
<1>2. /\ Runs(t) /\ pc[t] = "start" /\ pc' = [pc EXCEPT ![t] = "load"]
      /\ UNCHANGED <<threads, thread_capacity, current_thread, next_pid, keys, arg>>
  BY DEF Start
<1>3. ASSUME NEW i \in ProcSlots
      PROVE  /\ processes'[i] \in Process
             /\ processes'[i].pid = processes[i].pid
             /\ processes'[i].tid = processes[i].tid
             /\ processes'[i].parent_pid = processes[i].parent_pid
             /\ IF HasTid(processes, t, i) THEN processes'[i].state = "RUNNING"
                                           ELSE processes'[i] = processes[i]
  <2>1. PICK r \in Process : r = processes[i]
    BY <1>1 DEF Records
  <2>2. CASE HasTid(processes, t, i)
    <3>1. processes'[i] = [r EXCEPT !.state = "RUNNING"]
      BY <1>1, <2>1, <2>2, Lookup, Zenon DEF Start
    <3>2. /\ [r EXCEPT !.state = "RUNNING"] \in Process
          /\ [r EXCEPT !.state = "RUNNING"].pid = r.pid
          /\ [r EXCEPT !.state = "RUNNING"].tid = r.tid
          /\ [r EXCEPT !.state = "RUNNING"].parent_pid = r.parent_pid
          /\ [r EXCEPT !.state = "RUNNING"].state = "RUNNING"
      BY Zenon DEF Process, ProcessState
    <3> QED
      BY <2>1, <2>2, <3>1, <3>2, Zenon
  <2>3. CASE ~ HasTid(processes, t, i)
    <3>1. processes'[i] = processes[i]
      BY <1>1, <2>3, Lookup, Zenon DEF Start
    <3> QED
      BY <2>1, <2>3, <3>1
  <2> QED
    BY <2>2, <2>3
<1>4. processes' \in Records
  <2>1. processes' = [i \in ProcSlots |-> processes'[i]]
    BY DEF Start
  <2> QED
    BY <1>3, <2>1 DEF Records
<1>5. SameFamily(processes, processes')
  BY <1>3 DEF SameFamily, Used, HasTid
<1>6. /\ Distinct(processes')
      /\ \A x : current_pid(processes, x) = current_pid(processes', x)
      /\ \A i \in ProcSlots : \A pid :
            find_process(processes, pid, i) <=> find_process(processes', pid, i)
  BY <1>1, <1>5, FamilyLookup
<1>7. OneRecordPerThread'
  BY <1>6 DEF OneRecordPerThread, Distinct, Used
<1>8. PidsIssued'
  BY <1>2, <1>5 DEF Inv, ProcessInv, PidsIssued, SameFamily
<1>9. RecordMatchesThread'
  <2> SUFFICES ASSUME NEW i \in ProcSlots, processes'[i].state # "UNUSED"
      PROVE  /\ processes'[i].tid \in 1..(thread_capacity' - 1)
             /\ processes'[i].state # "EXITED" =>
                   /\ sched_is_alive(threads', processes'[i].tid)
                   /\ pc'[processes'[i].tid] \notin {"none", "halt", "halt_cli"}
             /\ processes'[i].state = "EXITED" =>
                   threads'[processes'[i].tid].state = "ZOMBIE" \/ pc'[processes'[i].tid] = "halt"
    BY DEF RecordMatchesThread
  <2>1. processes[i].state # "UNUSED" /\ processes'[i].tid = processes[i].tid
    BY <1>5 DEF SameFamily, Used
  <2>2. /\ processes[i].tid \in 1..(thread_capacity - 1)
        /\ processes[i].state # "EXITED" =>
              /\ sched_is_alive(threads, processes[i].tid)
              /\ pc[processes[i].tid] \notin {"none", "halt", "halt_cli"}
        /\ processes[i].state = "EXITED" =>
              threads[processes[i].tid].state = "ZOMBIE" \/ pc[processes[i].tid] = "halt"
    BY <2>1 DEF Inv, ProcessInv, RecordMatchesThread
  <2>3. CASE processes[i].tid = t
    <3>1. processes'[i].state = "RUNNING"
      BY <1>3, <2>1, <2>3 DEF HasTid
    <3>2. sched_is_alive(threads, t) /\ pc'[t] = "load"
      BY <1>1, <1>2 DEF Runs, sched_is_alive
    <3> QED
      BY <1>2, <2>1, <2>2, <2>3, <3>1, <3>2
  <2>4. CASE processes[i].tid # t
    <3>1. processes'[i] = processes[i]
      BY <1>3, <2>4 DEF HasTid
    <3>2. pc'[processes[i].tid] = pc[processes[i].tid]
      BY <1>1, <1>2, <2>4
    <3> QED
      BY <1>2, <2>2, <3>1, <3>2
  <2> QED
    BY <2>3, <2>4
<1>10. NoLostExit'
  <2> SUFFICES ASSUME NEW x \in Tids, threads[x].state = "BLOCKED", arg[x] # 0
      PROVE  /\ threads[x].wait_channel = arg[x]
             /\ \E i \in ProcSlots : /\ find_process(processes', arg[x], i)
                                     /\ processes'[i].parent_pid = current_pid(processes', x)
                                     /\ processes'[i].state # "EXITED"
    BY <1>2 DEF NoLostExit, IsMyChild
  <2>1. /\ threads[x].wait_channel = arg[x]
        /\ \E i \in ProcSlots : /\ find_process(processes, arg[x], i)
                                /\ processes[i].parent_pid = current_pid(processes, x)
                                /\ processes[i].state # "EXITED"
    BY DEF Inv, ProcessInv, NoLostExit, IsMyChild
  <2>2. PICK i \in ProcSlots : /\ find_process(processes, arg[x], i)
                               /\ processes[i].parent_pid = current_pid(processes, x)
                               /\ processes[i].state # "EXITED"
    BY <2>1
  <2>3. processes'[i].state # "EXITED" /\ processes'[i].parent_pid = processes[i].parent_pid
    BY <1>3, <2>2
  <2> QED
    BY <1>6, <2>1, <2>2, <2>3
<1>11. TypeOK' /\ ThreadInv'
  <2>1. arg[t] = 0 /\ t # ShellTid
    BY <1>2 DEF Inv, ThreadInv, ArgMatchesPc, ShellLives
  <2>2. arg' = [arg EXCEPT ![t] = 0] /\ keys' \in 0..keys
    BY <1>1, <1>2, <2>1
  <2> QED
    BY <1>1, <1>2, <1>4, <2>1, <2>2, QuietStep
<1> QED
  BY <1>7, <1>8, <1>9, <1>10, <1>11 DEF Inv, ProcessInv

(* A fresh thread and its record, in a table that may have been enlarged. *)
LEMMA SpawnIntoInv ==
    ASSUME Inv, NEW t \in Tids, NEW i \in ProcSlots, NEW slot \in Tids, NEW th \in Table,
           CanSpawn(t, i), SpawnInto(t, i, slot, th),
           threads[slot].state = "UNUSED",
           \A x \in Tids : th[x].state = threads[x].state,
           \A x \in Tids : threads[x].state # "UNUSED" =>
                              th[x].wait_channel = threads[x].wait_channel,
           thread_capacity' \in 1..MaxThreads, thread_capacity' >= thread_capacity,
           slot < thread_capacity'
    PROVE  Inv'
<1>1. /\ processes \in Records /\ Distinct(processes) /\ threads \in Table
      /\ next_pid \in Nat /\ arg \in [Tids -> Nat] /\ pc \in [Tids -> PC]
      /\ thread_capacity \in 1..MaxThreads
  BY DistinctRecords DEF Inv, TypeOK, Records, ProcessInv, Table
<1>2. /\ current_thread = t /\ threads[t].state = "RUNNING" /\ pc[t] = "user"
      /\ processes[i].state = "UNUSED"
      /\ t # slot /\ slot # ShellTid
  BY DEF CanSpawn, Runs, IsReserveSlot, Inv, ThreadInv, ShellLives, sched_is_alive
<1>3. /\ threads' \in Table
      /\ threads'[slot].state = "READY"
      /\ \A x \in Tids : x # slot => threads'[x].state = threads[x].state
      /\ \A x \in Tids : (x # slot /\ threads[x].state # "UNUSED") =>
            threads'[x].wait_channel = threads[x].wait_channel
  <2>1. th[t].uid \in Uids
    BY DEF Table, Thread
  <2>2. threads' = SpawnIn(th, slot, th[t].uid)
    BY DEF SpawnInto
  <2>3. /\ threads' \in Table
        /\ threads'[slot].state = "READY"
        /\ \A x \in Tids : x # slot => threads'[x] = th[x]
    BY <2>1, <2>2, SpawnInEffect
  <2> QED
    BY <2>3
<1>4. /\ pc' = [pc EXCEPT ![slot] = "start", ![t] = IF t = ShellTid THEN "wait" ELSE "user"]
      /\ arg' = [arg EXCEPT ![slot] = 0, ![t] = IF t = ShellTid THEN next_pid ELSE 0]
      /\ UNCHANGED <<current_thread, keys>>
      /\ next_pid' = next_pid + 1
  BY DEF SpawnInto
<1>5. /\ pc'[slot] = "start" /\ arg'[slot] = 0
      /\ pc'[t] = (IF t = ShellTid THEN "wait" ELSE "user")
      /\ arg'[t] = (IF t = ShellTid THEN next_pid ELSE 0)
      /\ \A x \in Tids \ {slot, t} : pc'[x] = pc[x] /\ arg'[x] = arg[x]
      /\ pc' \in [Tids -> PC] /\ arg' \in [Tids -> Nat]
  BY <1>1, <1>2, <1>4 DEF PC
<1>6. /\ processes'[i].pid = next_pid
      /\ processes'[i].tid = slot
      /\ processes'[i].state = "STARTING"
      /\ \A j \in ProcSlots : j # i => processes'[j] = processes[j]
      /\ processes' \in Records
  <2>1. current_pid(processes, t) \in Nat
    BY <1>1, CurrentPidType
  <2>2. PICK parent \in Nat : parent = current_pid(processes, t)
    BY <2>1
  <2>3. processes' = [processes EXCEPT ![i] = [pid |-> next_pid, tid |-> slot,
                         parent_pid |-> parent, exit_status |-> -1, state |-> "STARTING"]]
    BY <2>2 DEF SpawnInto, Reserved
  <2>4. [pid |-> next_pid, tid |-> slot, parent_pid |-> parent, exit_status |-> -1,
         state |-> "STARTING"] \in Process
    BY <1>1 DEF Process, ProcessState
  <2> QED
    BY <1>1, <2>3, <2>4 DEF Records
<1>7. \A j \in ProcSlots : Used(processes, j) =>
         /\ j # i
         /\ processes[j].tid # slot
         /\ processes[j].tid \in Tids
         /\ processes[j].tid \in 1..(thread_capacity - 1)
         /\ processes[j].pid # next_pid
  <2> SUFFICES ASSUME NEW j \in ProcSlots, Used(processes, j)
      PROVE  /\ j # i
             /\ processes[j].tid # slot
             /\ processes[j].tid \in Tids
             /\ processes[j].tid \in 1..(thread_capacity - 1)
             /\ processes[j].pid # next_pid
    OBVIOUS
  <2>1. j # i
    BY <1>2 DEF Used
  <2>2. /\ processes[j].tid \in 1..(thread_capacity - 1)
        /\ \/ sched_is_alive(threads, processes[j].tid)
           \/ threads[processes[j].tid].state = "ZOMBIE"
           \/ pc[processes[j].tid] = "halt"
    BY DEF Inv, ProcessInv, RecordMatchesThread, Used
  <2>3. processes[j].tid # slot
    BY <2>2 DEF Inv, ThreadInv, PcMatchesState, sched_is_alive
  <2>4. processes[j].tid \in Tids
    BY <1>1, <2>2, ThreadsAssumption DEF Tids
  <2>5. processes[j].pid # next_pid
    BY <1>1 DEF Inv, ProcessInv, PidsIssued
  <2> QED
    BY <2>1, <2>2, <2>3, <2>4, <2>5
<1>8. Distinct(processes')
  <2>1. \A j \in ProcSlots : Used(processes', j) => j = i \/ Used(processes, j)
    BY <1>6 DEF Used
  <2> QED
    BY <1>1, <1>6, <1>7, <2>1 DEF Distinct
<1>9. TypeOK'
  <2>1. next_pid' \in Nat
    BY <1>1, <1>4
  <2> QED
    BY <1>3, <1>4, <1>5, <1>6, <2>1 DEF Inv, TypeOK, Table, Records
<1>10. InTable'
  <2>1. current_thread < thread_capacity'
    BY <1>1, ThreadsAssumption DEF Inv, ThreadInv, InTable, TypeOK, Tids
  <2>2. \A x \in Tids : x >= thread_capacity' => x >= thread_capacity /\ x # slot
    BY <1>1, ThreadsAssumption DEF Tids
  <2> QED
    BY <1>3, <1>4, <2>1, <2>2 DEF Inv, ThreadInv, InTable
<1>11. OneRunning'
  BY <1>2, <1>3, <1>4 DEF Inv, ThreadInv, OneRunning
<1>12. PcMatchesState'
  BY <1>2, <1>3, <1>4, <1>5 DEF Inv, ThreadInv, PcMatchesState, Runnable
<1>13. ShellLives'
  BY <1>2, <1>3, <1>5, ShellIsTid DEF Inv, ThreadInv, ShellLives, sched_is_alive
<1>14. ArgMatchesPc'
  <2>1. next_pid # 0
    BY <1>1 DEF Inv, ProcessInv, PidsIssued
  <2> QED
    BY <1>5, <2>1 DEF Inv, ThreadInv, ArgMatchesPc
<1>15. SleepsOnKeyboard' /\ NoLostKey' /\ AboutToSleep'
  BY <1>2, <1>3, <1>4, <1>5
     DEF Inv, ThreadInv, SleepsOnKeyboard, NoLostKey, AboutToSleep
<1>16. OneRecordPerThread'
  BY <1>8 DEF OneRecordPerThread, Distinct, Used
<1>17. PidsIssued'
  <2>1. next_pid' >= 1 /\ next_pid \in 1..(next_pid' - 1)
    BY <1>1, <1>4 DEF Inv, ProcessInv, PidsIssued
  <2>2. \A p \in 1..(next_pid - 1) : p \in 1..(next_pid' - 1)
    BY <1>1, <1>4
  <2> QED
    BY <1>6, <2>1, <2>2 DEF Inv, ProcessInv, PidsIssued, Used
<1>18. RecordMatchesThread'
  <2> SUFFICES ASSUME NEW j \in ProcSlots, processes'[j].state # "UNUSED"
      PROVE  /\ processes'[j].tid \in 1..(thread_capacity' - 1)
             /\ processes'[j].state # "EXITED" =>
                   /\ sched_is_alive(threads', processes'[j].tid)
                   /\ pc'[processes'[j].tid] \notin {"none", "halt", "halt_cli"}
             /\ processes'[j].state = "EXITED" =>
                   threads'[processes'[j].tid].state = "ZOMBIE" \/ pc'[processes'[j].tid] = "halt"
    BY DEF RecordMatchesThread
  <2>1. CASE j = i
    <3>1. slot \in 1..(thread_capacity' - 1)
      BY <1>2, ThreadsAssumption DEF Tids, ShellTid
    <3> QED
      BY <1>3, <1>5, <1>6, <2>1, <3>1 DEF sched_is_alive
  <2>2. CASE j # i
    <3>1. processes'[j] = processes[j] /\ Used(processes, j)
      BY <1>6, <2>2 DEF Used
    <3>2. /\ processes[j].tid # slot /\ processes[j].tid \in Tids
          /\ processes[j].tid \in 1..(thread_capacity' - 1)
      BY <1>1, <1>7, <3>1
    <3>3. /\ processes[j].state # "EXITED" =>
                /\ sched_is_alive(threads, processes[j].tid)
                /\ pc[processes[j].tid] \notin {"none", "halt", "halt_cli"}
          /\ processes[j].state = "EXITED" =>
                threads[processes[j].tid].state = "ZOMBIE" \/ pc[processes[j].tid] = "halt"
      BY <3>1 DEF Inv, ProcessInv, RecordMatchesThread, Used
    <3> QED
      BY <1>2, <1>3, <1>5, <3>1, <3>2, <3>3 DEF sched_is_alive
  <2> QED
    BY <2>1, <2>2
<1>19. NoLostExit'
  <2> SUFFICES ASSUME NEW x \in Tids, threads'[x].state = "BLOCKED", arg'[x] # 0
      PROVE  /\ threads'[x].wait_channel = arg'[x]
             /\ \E j \in ProcSlots : /\ find_process(processes', arg'[x], j)
                                     /\ processes'[j].parent_pid = current_pid(processes', x)
                                     /\ processes'[j].state # "EXITED"
    BY DEF NoLostExit, IsMyChild
  <2>1. /\ x # slot /\ x # t /\ threads[x].state = "BLOCKED" /\ arg'[x] = arg[x]
        /\ threads'[x].wait_channel = threads[x].wait_channel
    BY <1>2, <1>3, <1>5
  <2>2. /\ threads[x].wait_channel = arg[x]
        /\ \E j \in ProcSlots : /\ find_process(processes, arg[x], j)
                                /\ processes[j].parent_pid = current_pid(processes, x)
                                /\ processes[j].state # "EXITED"
    BY <2>1 DEF Inv, ProcessInv, NoLostExit, IsMyChild
  <2>3. PICK j \in ProcSlots : /\ find_process(processes, arg[x], j)
                               /\ processes[j].parent_pid = current_pid(processes, x)
                               /\ processes[j].state # "EXITED"
    BY <2>2
  <2>4. HasPid(processes, arg[x], j) /\ j # i /\ processes'[j] = processes[j]
    BY <1>2, <1>6, <2>3 DEF find_process, HasPid
  <2>5. find_process(processes', arg[x], j)
    BY <1>8, <2>4, Lookup DEF HasPid
  <2>6. \A k \in ProcSlots : HasTid(processes', x, k) <=> HasTid(processes, x, k)
    BY <1>2, <1>6, <2>1 DEF HasTid
  <2>7. current_pid(processes', x) = current_pid(processes, x)
    <3>1. CASE \E k \in ProcSlots : HasTid(processes, x, k)
      <4>1. PICK k \in ProcSlots : HasTid(processes, x, k)
        BY <3>1
      <4>2. processes'[k] = processes[k]
        BY <1>2, <1>6, <4>1 DEF HasTid
      <4> QED
        BY <1>1, <1>8, <2>6, <4>1, <4>2, CurrentPid
    <3>2. CASE \A k \in ProcSlots : ~ HasTid(processes, x, k)
      BY <1>1, <1>8, <2>6, <3>2, CurrentPid
    <3> QED
      BY <3>1, <3>2
  <2> QED
    BY <2>1, <2>2, <2>3, <2>4, <2>5, <2>7
<1> QED
  BY <1>9, <1>10, <1>11, <1>12, <1>13, <1>14, <1>15, <1>16, <1>17, <1>18, <1>19
     DEF Inv, ThreadInv, ProcessInv

(* A spawn into a free slot. *)
LEMMA SpawnInv ==
    ASSUME Inv, NEW t \in Tids, Spawn(t)
    PROVE  Inv'
<1>1. PICK i \in ProcSlots, slot \in Tids :
         /\ CanSpawn(t, i)
         /\ IsSpawnSlot(threads, thread_capacity, slot)
         /\ SpawnInto(t, i, slot, threads)
         /\ UNCHANGED thread_capacity
  BY DEF Spawn
<1>2. slot < thread_capacity /\ threads[slot].state = "UNUSED"
  BY <1>1 DEF IsSpawnSlot
<1>3. threads \in Table /\ thread_capacity \in 1..MaxThreads
  BY DEF Inv, TypeOK, Table
<1>4. thread_capacity' \in 1..MaxThreads /\ thread_capacity' >= thread_capacity
  BY <1>1, <1>3
<1> QED
  BY <1>1, <1>2, <1>3, <1>4, SpawnIntoInv

(* The doubled table holds what the old one held, and its new slots are free. *)
LEMMA Growth ==
    ASSUME Inv, 2 * thread_capacity <= MaxThreads, NEW garbage \in [Tids -> Uids]
    PROVE  LET th == CopyTable(threads, thread_capacity, garbage)
           IN  /\ th \in Table
               /\ \A x \in Tids : th[x].state = threads[x].state
               /\ \A x \in Tids : threads[x].state # "UNUSED" =>
                     th[x].wait_channel = threads[x].wait_channel
               /\ thread_capacity \in Tids
               /\ threads[thread_capacity].state = "UNUSED"
               /\ 2 * thread_capacity \in 1..MaxThreads
               /\ 2 * thread_capacity > thread_capacity
<1>1. /\ threads \in Table /\ thread_capacity \in Nat /\ thread_capacity \in 1..MaxThreads
      /\ \A x \in Tids : x >= thread_capacity => threads[x].state = "UNUSED"
  BY ThreadsAssumption DEF Inv, TypeOK, ThreadInv, InTable, Table
<1>2. /\ thread_capacity \in Tids
      /\ 2 * thread_capacity \in 1..MaxThreads
      /\ 2 * thread_capacity > thread_capacity
  BY <1>1, ThreadsAssumption DEF Tids
<1>3. \A x \in Tids : threads[x].state # "UNUSED" => x < thread_capacity
  BY <1>1, ThreadsAssumption DEF Tids
<1>4. threads[thread_capacity].state = "UNUSED"
  BY <1>1, <1>2
<1>5. LET th == CopyTable(threads, thread_capacity, garbage)
      IN  /\ th \in Table
          /\ \A x \in Tids : th[x].state = threads[x].state
          /\ \A x \in Tids : x < thread_capacity => th[x].wait_channel = threads[x].wait_channel
  BY <1>1, CopyTableEffect
<1> QED
  BY <1>2, <1>3, <1>4, <1>5

(* A spawn that doubles the table first. *)
LEMMA SpawnGrowingInv ==
    ASSUME Inv, NEW t \in Tids, SpawnGrowing(t)
    PROVE  Inv'
<1>1. PICK i \in ProcSlots, garbage \in [Tids -> Uids] :
         /\ CanSpawn(t, i)
         /\ 2 * thread_capacity <= MaxThreads
         /\ SpawnInto(t, i, thread_capacity, CopyTable(threads, thread_capacity, garbage))
         /\ thread_capacity' = 2 * thread_capacity
  BY DEF SpawnGrowing
<1> DEFINE th == CopyTable(threads, thread_capacity, garbage)
<1>2. /\ th \in Table
      /\ \A x \in Tids : th[x].state = threads[x].state
      /\ \A x \in Tids : threads[x].state # "UNUSED" =>
            th[x].wait_channel = threads[x].wait_channel
      /\ thread_capacity \in Tids
      /\ threads[thread_capacity].state = "UNUSED"
      /\ thread_capacity' \in 1..MaxThreads
      /\ thread_capacity' > thread_capacity
  BY <1>1, Growth
<1>3. thread_capacity' >= thread_capacity /\ thread_capacity < thread_capacity'
  BY <1>2, ThreadsAssumption DEF Inv, TypeOK
<1>4. SpawnInto(t, i, thread_capacity, th)
  BY <1>1
<1> HIDE DEF th
<1> QED
  BY <1>1, <1>2, <1>3, <1>4, SpawnIntoInv

(* A spawn that fails may leave a larger table and has used up a pid. *)
LEMMA SpawnFailsInv ==
    ASSUME Inv, NEW t \in Tids, SpawnFails(t)
    PROVE  Inv'
<1>1. /\ next_pid' = next_pid + 1
      /\ UNCHANGED <<current_thread, processes, keys, pc, arg>>
  BY DEF SpawnFails
<1>2. /\ threads \in Table /\ thread_capacity \in 1..MaxThreads /\ next_pid \in Nat
      /\ current_thread \in Tids /\ current_thread < thread_capacity
  BY DEF Inv, TypeOK, Table, ThreadInv, InTable
<1>3. /\ threads' \in Table
      /\ \A x \in Tids : threads'[x].state = threads[x].state
      /\ \A x \in Tids : threads[x].state # "UNUSED" =>
            threads'[x].wait_channel = threads[x].wait_channel
      /\ thread_capacity' \in 1..MaxThreads
      /\ thread_capacity' >= thread_capacity
  <2>1. CASE UNCHANGED <<threads, thread_capacity>>
    BY <1>2, <2>1
  <2>2. CASE ~ UNCHANGED <<threads, thread_capacity>>
    <3>1. PICK garbage \in [Tids -> Uids] :
             /\ 2 * thread_capacity <= MaxThreads
             /\ threads' = CopyTable(threads, thread_capacity, garbage)
             /\ thread_capacity' = 2 * thread_capacity
      BY <2>2 DEF SpawnFails
    <3>2. thread_capacity' > thread_capacity
      BY <3>1, Growth
    <3> QED
      BY <1>2, <3>1, <3>2, Growth
  <2> QED
    BY <2>1, <2>2
<1>4. TypeOK'
  <2>1. next_pid' \in Nat
    BY <1>1, <1>2
  <2> QED
    BY <1>1, <1>3, <2>1 DEF Inv, TypeOK, Table
<1>5. InTable'
  <2>1. current_thread < thread_capacity'
    BY <1>2, <1>3, ThreadsAssumption DEF Tids
  <2>2. \A x \in Tids : x >= thread_capacity' => x >= thread_capacity
    BY <1>2, <1>3, ThreadsAssumption DEF Tids
  <2> QED
    BY <1>1, <1>3, <2>1, <2>2 DEF Inv, ThreadInv, InTable
<1>6. OneRunning' /\ PcMatchesState' /\ ShellLives'
  <2>1. OneRunning'
    BY <1>1, <1>2, <1>3 DEF Inv, ThreadInv, OneRunning
  <2>2. PcMatchesState'
    BY <1>1, <1>3 DEF Inv, ThreadInv, PcMatchesState, Runnable
  <2>3. ShellLives'
    BY <1>1, <1>3, ShellIsTid DEF Inv, ThreadInv, ShellLives, sched_is_alive
  <2> QED
    BY <2>1, <2>2, <2>3
<1>7. ArgMatchesPc' /\ SleepsOnKeyboard' /\ NoLostKey' /\ AboutToSleep'
  BY <1>1, <1>3 DEF Inv, ThreadInv, ArgMatchesPc, SleepsOnKeyboard, NoLostKey, AboutToSleep
<1>8. ProcessInv'
  <2>1. ASSUME NEW x \in Tids, threads'[x].state = "BLOCKED", arg'[x] # 0
        PROVE  /\ threads'[x].wait_channel = arg'[x]
               /\ \E i \in ProcSlots : /\ IsMyChild(x, arg'[x], i)
                                       /\ processes[i].state # "EXITED"
    BY <1>1, <1>3, <2>1, StillAsleep DEF Inv, ProcessInv
  <2>2. /\ next_pid' \in Nat /\ next_pid' >= next_pid /\ thread_capacity' \in Nat
    BY <1>1, <1>2, <1>3, ThreadsAssumption
  <2> QED
    BY <1>1, <1>3, <2>1, <2>2, ProcessFrame DEF Inv, sched_is_alive
<1> QED
  BY <1>4, <1>5, <1>6, <1>7, <1>8 DEF Inv, ThreadInv

(***************************************************************************)
(* Part 8.  Reaping                                                        *)
(***************************************************************************)

(* The record and the thread that a wait releases. *)
LEMMA ReapEffect ==
    ASSUME Inv, NEW t \in Tids, WaitReaps(t)
    PROVE  \E i \in ProcSlots, v \in Tids :
              /\ IsMyChild(t, arg[t], i)
              /\ processes[i].state = "EXITED" /\ processes[i].tid = v
              /\ processes' = [processes EXCEPT ![i] = NoProcess]
              /\ v # current_thread /\ v # ShellTid
              /\ threads' \in Table
              /\ \A x \in Tids : x # v => threads'[x] = threads[x]
              /\ \/ threads[v].state = "ZOMBIE" /\ threads'[v].state = "UNUSED"
                 \/ /\ threads[v].state # "ZOMBIE" /\ pc[v] = "halt"
                    /\ threads'[v] = threads[v]
<1>1. PICK i \in ProcSlots :
         /\ IsMyChild(t, arg[t], i)
         /\ processes[i].state = "EXITED"
         /\ threads' = IF processes[i].tid >= 0 THEN Reaped(threads, processes[i].tid)
                                                ELSE threads
         /\ processes' = [processes EXCEPT ![i] = NoProcess]
  BY DEF WaitReaps
<1>2. /\ processes[i].tid \in 1..(thread_capacity - 1)
      /\ threads[processes[i].tid].state = "ZOMBIE" \/ pc[processes[i].tid] = "halt"
  BY <1>1 DEF Inv, ProcessInv, RecordMatchesThread
<1>3. PICK v \in Tids : v = processes[i].tid /\ v # ShellTid /\ v >= 0
  BY <1>2, ThreadsAssumption DEF Inv, TypeOK, Tids, ShellTid
<1>4. /\ v # current_thread
      /\ current_thread = t /\ threads[t].state = "RUNNING" /\ pc[t] = "wait"
  BY <1>2, <1>3 DEF WaitReaps, Runs
<1>5. threads \in Table
  BY DEF Inv, TypeOK, Table
<1>6. threads' = IF threads[v].state = "ZOMBIE" THEN ClearSlot(threads, v) ELSE threads
  BY <1>1, <1>3, <1>4 DEF Reaped
<1>7. CASE threads[v].state = "ZOMBIE"
  <2>1. threads' = ClearSlot(threads, v)
    BY <1>6, <1>7
  <2>2. /\ threads' \in Table
        /\ threads'[v].state = "UNUSED"
        /\ \A x \in Tids : x # v => threads'[x] = threads[x]
    BY <1>5, <2>1, ClearSlotEffect
  <2> QED
    BY <1>1, <1>3, <1>4, <1>7, <2>2
<1>8. CASE threads[v].state # "ZOMBIE"
  BY <1>1, <1>2, <1>3, <1>4, <1>5, <1>6, <1>8
<1> QED
  BY <1>7, <1>8

(* process_wait releases a record and frees its slot. *)
LEMMA WaitReapsInv ==
    ASSUME Inv, NEW t \in Tids, WaitReaps(t)
    PROVE  Inv'
<1>1. PICK i \in ProcSlots, v \in Tids :
         /\ IsMyChild(t, arg[t], i)
         /\ processes[i].state = "EXITED" /\ processes[i].tid = v
         /\ processes' = [processes EXCEPT ![i] = NoProcess]
         /\ v # current_thread /\ v # ShellTid
         /\ threads' \in Table
         /\ \A x \in Tids : x # v => threads'[x] = threads[x]
         /\ \/ threads[v].state = "ZOMBIE" /\ threads'[v].state = "UNUSED"
            \/ /\ threads[v].state # "ZOMBIE" /\ pc[v] = "halt"
               /\ threads'[v] = threads[v]
  BY ReapEffect
<1>2. /\ current_thread = t /\ threads[t].state = "RUNNING" /\ pc[t] = "wait"
      /\ pc' = [pc EXCEPT ![t] = "user"] /\ arg' = [arg EXCEPT ![t] = 0]
      /\ UNCHANGED <<thread_capacity, current_thread, next_pid, keys>>
  BY DEF WaitReaps, Runs
<1>3. /\ processes \in Records /\ Distinct(processes) /\ threads \in Table
      /\ pc \in [Tids -> PC] /\ arg \in [Tids -> Nat]
  BY DistinctRecords DEF Inv, TypeOK, Records, ProcessInv, Table
<1>4. /\ pc'[t] = "user" /\ arg'[t] = 0
      /\ \A x \in Tids : x # t => pc'[x] = pc[x] /\ arg'[x] = arg[x]
      /\ pc' \in [Tids -> PC] /\ arg' \in [Tids -> Nat]
  BY <1>2, <1>3 DEF PC
<1>5. /\ processes'[i].state = "UNUSED"
      /\ \A j \in ProcSlots : j # i => processes'[j] = processes[j]
      /\ processes' \in Records
  <2>1. NoProcess \in Process /\ NoProcess.state = "UNUSED"
    BY DEF NoProcess, Process, ProcessState
  <2> QED
    BY <1>1, <1>3, <2>1 DEF Records
<1>6. Distinct(processes')
  BY <1>3, <1>5 DEF Distinct, Used
<1>7. TypeOK'
  BY <1>1, <1>2, <1>4, <1>5 DEF Inv, TypeOK, Table, Records
<1>8. InTable'
  BY <1>1, <1>2 DEF Inv, ThreadInv, InTable
<1>9. OneRunning'
  BY <1>1, <1>2 DEF Inv, ThreadInv, OneRunning
<1>10. PcMatchesState'
  BY <1>1, <1>2, <1>4 DEF Inv, ThreadInv, PcMatchesState, Runnable
<1>11. ShellLives'
  BY <1>1, <1>4, ShellIsTid DEF Inv, ThreadInv, ShellLives, sched_is_alive
<1>12. ArgMatchesPc' /\ AboutToSleep'
  BY <1>2, <1>4 DEF Inv, ThreadInv, ArgMatchesPc, AboutToSleep
<1>13. SleepsOnKeyboard' /\ NoLostKey'
  BY <1>1, <1>2, <1>4 DEF Inv, ThreadInv, SleepsOnKeyboard, NoLostKey
<1>14. OneRecordPerThread'
  BY <1>6 DEF OneRecordPerThread, Distinct, Used
<1>15. PidsIssued'
  BY <1>2, <1>5 DEF Inv, ProcessInv, PidsIssued, Used
<1>16. RecordMatchesThread'
  <2> SUFFICES ASSUME NEW j \in ProcSlots, processes'[j].state # "UNUSED"
      PROVE  /\ processes'[j].tid \in 1..(thread_capacity' - 1)
             /\ processes'[j].state # "EXITED" =>
                   /\ sched_is_alive(threads', processes'[j].tid)
                   /\ pc'[processes'[j].tid] \notin {"none", "halt", "halt_cli"}
             /\ processes'[j].state = "EXITED" =>
                   threads'[processes'[j].tid].state = "ZOMBIE" \/ pc'[processes'[j].tid] = "halt"
    BY DEF RecordMatchesThread
  <2>1. j # i /\ processes'[j] = processes[j] /\ Used(processes, j) /\ Used(processes, i)
    BY <1>1, <1>5 DEF Used
  <2>2. processes[j].tid # v
    BY <1>1, <1>3, <2>1 DEF Distinct
  <2>3. /\ processes[j].tid \in 1..(thread_capacity - 1)
        /\ processes[j].state # "EXITED" =>
              /\ sched_is_alive(threads, processes[j].tid)
              /\ pc[processes[j].tid] \notin {"none", "halt", "halt_cli"}
        /\ processes[j].state = "EXITED" =>
              threads[processes[j].tid].state = "ZOMBIE" \/ pc[processes[j].tid] = "halt"
    BY <2>1 DEF Inv, ProcessInv, RecordMatchesThread, Used
  <2>4. processes[j].tid \in Tids
    BY <2>3, ThreadsAssumption DEF Inv, TypeOK, Tids
  <2> QED
    BY <1>1, <1>2, <1>4, <2>1, <2>2, <2>3, <2>4 DEF sched_is_alive
<1>17. NoLostExit'
  <2> SUFFICES ASSUME NEW x \in Tids, threads'[x].state = "BLOCKED", arg'[x] # 0
      PROVE  /\ threads'[x].wait_channel = arg'[x]
             /\ \E j \in ProcSlots : /\ find_process(processes', arg'[x], j)
                                     /\ processes'[j].parent_pid = current_pid(processes', x)
                                     /\ processes'[j].state # "EXITED"
    BY DEF NoLostExit, IsMyChild
  <2>1. x # t /\ threads[x].state = "BLOCKED" /\ arg'[x] = arg[x] /\ threads'[x] = threads[x] /\ x # v
    BY <1>1, <1>2, <1>4 DEF Inv, ThreadInv, PcMatchesState
  <2>2. /\ threads[x].wait_channel = arg[x]
        /\ \E j \in ProcSlots : /\ find_process(processes, arg[x], j)
                                /\ processes[j].parent_pid = current_pid(processes, x)
                                /\ processes[j].state # "EXITED"
    BY <2>1 DEF Inv, ProcessInv, NoLostExit, IsMyChild
  <2>3. PICK j \in ProcSlots : /\ find_process(processes, arg[x], j)
                               /\ processes[j].parent_pid = current_pid(processes, x)
                               /\ processes[j].state # "EXITED"
    BY <2>2
  <2>4. HasPid(processes, arg[x], j) /\ j # i /\ processes'[j] = processes[j]
    BY <1>1, <1>5, <2>3 DEF find_process, HasPid
  <2>5. find_process(processes', arg[x], j)
    BY <1>6, <2>4, Lookup DEF HasPid
  <2>6. \A k \in ProcSlots : HasTid(processes', x, k) <=> HasTid(processes, x, k)
    BY <1>1, <1>5, <2>1 DEF HasTid
  <2>7. current_pid(processes', x) = current_pid(processes, x)
    <3>1. CASE \E k \in ProcSlots : HasTid(processes, x, k)
      <4>1. PICK k \in ProcSlots : HasTid(processes, x, k)
        BY <3>1
      <4>2. processes'[k] = processes[k]
        BY <1>1, <1>5, <2>1, <4>1 DEF HasTid
      <4> QED
        BY <1>3, <1>6, <2>6, <4>1, <4>2, CurrentPid
    <3>2. CASE \A k \in ProcSlots : ~ HasTid(processes, x, k)
      BY <1>3, <1>6, <2>6, <3>2, CurrentPid
    <3> QED
      BY <3>1, <3>2
  <2> QED
    BY <2>1, <2>2, <2>3, <2>4, <2>5, <2>7
<1> QED
  BY <1>7, <1>8, <1>9, <1>10, <1>11, <1>12, <1>13, <1>14, <1>15, <1>16, <1>17
     DEF Inv, ThreadInv, ProcessInv

(***************************************************************************)
(* Part 9.  The theorems                                                   *)
(***************************************************************************)

(* A step of something else. *)
LEMMA StutterInv == Inv /\ UNCHANGED vars => Inv'
<1> SUFFICES ASSUME Inv, UNCHANGED vars PROVE Inv'
  OBVIOUS
<1> USE DEF vars
<1>1. TypeOK'
  BY DEF Inv, TypeOK
<1>2. InTable' /\ OneRunning' /\ SleepsOnKeyboard' /\ NoLostKey'
  BY DEF Inv, ThreadInv, InTable, OneRunning, SleepsOnKeyboard, NoLostKey
<1>3. PcMatchesState' /\ ShellLives' /\ ArgMatchesPc' /\ AboutToSleep'
  BY DEF Inv, ThreadInv, PcMatchesState, ShellLives, ArgMatchesPc, AboutToSleep
<1>4. OneRecordPerThread' /\ PidsIssued' /\ NoLostExit'
  BY DEF Inv, ProcessInv, OneRecordPerThread, PidsIssued, NoLostExit, IsMyChild
<1>5. RecordMatchesThread'
  BY DEF Inv, ProcessInv, RecordMatchesThread
<1> QED
  BY <1>1, <1>2, <1>3, <1>4, <1>5 DEF Inv, ThreadInv, ProcessInv

(* Every step preserves the invariant. *)
LEMMA NextInv == Inv /\ [Next]_vars => Inv'
<1> SUFFICES ASSUME Inv, [Next]_vars PROVE Inv'
  OBVIOUS
<1>1. CASE TimerIrq
  BY <1>1, TimerIrqInv
<1>2. CASE KeyboardIrq
  BY <1>2, KeyboardIrqInv
<1>3. ASSUME NEW t \in Tids, KernelStep(t) PROVE Inv'
  BY <1>3, LeaveIdleInv, QuietActions, SleepActions, WaitReapsInv DEF KernelStep
<1>4. ASSUME NEW t \in Tids, ProgramStep(t) PROVE Inv'
  BY <1>4, SpawnInv, SpawnGrowingInv, SpawnFailsInv, StartInv, QuietActions, DeathActions
     DEF ProgramStep
<1>5. CASE UNCHANGED vars
  BY <1>5, StutterInv
<1> QED
  BY <1>1, <1>2, <1>3, <1>4, <1>5 DEF Next

(* The conjunction of all the invariants is inductive. *)
THEOREM Invariance == Spec => []Inv
<1>1. Init => Inv
  BY InitInv
<1>2. Inv /\ [Next]_vars => Inv'
  BY NextInv
<1> QED
  BY <1>1, <1>2, PTL DEF Spec

(* The tables of the scheduler and of the processes keep their types, the   *)
(* capacity its bound and the keyboard buffer its length, whatever programs *)
(* and interrupts do.                                                       *)
THEOREM TypeCorrect == Spec => []TypeOK
<1>1. Inv => TypeOK
  BY DEF Inv
<1> QED
  BY <1>1, Invariance, PTL

(* At most one thread is RUNNING, and it is the one that sched_yield,       *)
(* sched_sleep or sched_exit_status switched to last.                       *)
THEOREM OneThreadRuns == Spec => []OneRunning
<1>1. Inv => OneRunning
  BY DEF Inv, ThreadInv
<1> QED
  BY <1>1, Invariance, PTL

(* find_process and find_process_by_tid never have two records to choose    *)
(* from.                                                                    *)
THEOREM RecordsAreDistinct == Spec => []OneRecordPerThread
<1>1. Inv => OneRecordPerThread
  BY DEF Inv, ProcessInv
<1> QED
  BY <1>1, Invariance, PTL

(* The process table and the thread table agree on who is alive. *)
THEOREM TablesAgree == Spec => []RecordMatchesThread
<1>1. Inv => RecordMatchesThread
  BY DEF Inv, ProcessInv
<1> QED
  BY <1>1, Invariance, PTL

(* process_wait never sleeps for a child that has already exited. *)
THEOREM NoExitIsLost == Spec => []NoLostExit
<1>1. Inv => NoLostExit
  BY DEF Inv, ProcessInv
<1> QED
  BY <1>1, Invariance, PTL

(* A program never sleeps in kbd_getchar beside a character. *)
THEOREM NoKeyIsLost == Spec => []NoLostKey
<1>1. Inv => NoLostKey
  BY DEF Inv, ThreadInv
<1> QED
  BY <1>1, Invariance, PTL

(* Every step but the reaping of a wait leaves all used slots in use. *)
LEMMA SlotsKept ==
    ASSUME Inv, [Next]_vars, NEW x \in Tids, threads'[x].state = "UNUSED",
           \A t \in Tids : ~ WaitReaps(t)
    PROVE  threads[x].state = "UNUSED"
<1>1. /\ threads \in Table /\ current_thread \in Tids /\ Distinct(processes)
      /\ TypeOK /\ InTable
  BY DistinctRecords DEF Inv, TypeOK, Table, ProcessInv, ThreadInv
<1>2. CASE TimerIrq
  <2> DEFINE th == Elapse(threads, current_thread)
  <2>1. th \in Table /\ \A y \in Tids : th[y].state = threads[y].state
    BY <1>1, ElapseEffect
  <2>2. threads' = th \/ sched_yield(th)
    BY <1>2 DEF TimerIrq
  <2> HIDE DEF th
  <2>3. CASE threads' = th
    BY <2>1, <2>3
  <2>4. CASE sched_yield(th)
    BY <1>1, <2>1, <2>4, YieldEffect
  <2> QED
    BY <2>2, <2>3, <2>4
<1>3. CASE KeyboardIrq
  <2>1. threads' = sched_wakeup(threads, kbd_wait_channel) /\ kbd_wait_channel \in Int
    BY <1>3 DEF KeyboardIrq, kbd_wait_channel
  <2>2. Bystander(x, threads, threads', kbd_wait_channel)
    BY <1>1, <2>1, WakeupBystanders
  <2> QED
    BY <2>2 DEF Bystander
<1>4. ASSUME NEW t \in Tids, LeaveIdle(t) PROVE threads[x].state = "UNUSED"
  <2>1. threads' = SetState(threads, t, "RUNNING") /\ "RUNNING" \in ThreadState
    BY <1>4 DEF LeaveIdle, ThreadState
  <2>2. /\ threads'[t].state = "RUNNING"
        /\ \A y \in Tids : y # t => threads'[y].state = threads[y].state
    BY ONLY <1>1, <1>4, <2>1, t \in Tids, SetStateEffect
  <2> QED
    BY <2>2
<1>5. ASSUME NEW t \in Tids, WaitSleeps(t) \/ GetcharSleeps(t)
      PROVE  threads[x].state = "UNUSED"
  <2>1. PICK channel \in Int : \E back : sched_sleep(channel, back)
    <3>1. arg[t] \in Int /\ kbd_wait_channel \in Int
      BY <1>1 DEF TypeOK, kbd_wait_channel
    <3> QED
      BY <1>5, <3>1 DEF WaitSleeps, GetcharSleeps
  <2>2. PICK back : sched_sleep(channel, back)
    BY <2>1
  <2> QED
    BY <1>1, <2>2, SleepEffect
<1>6. ASSUME NEW t \in Tids, StartFails(t) \/ Exit(t) \/ process_kill(t)
      PROVE  threads[x].state = "UNUSED"
  <2>1. ASSUME NEW status, NEW on, sched_exit_status(status, on)
        PROVE  threads[x].state = "UNUSED"
    BY <1>1, <2>1, ExitEffect DEF Bystander
  <2>2. ASSUME NEW v \in Tids, NEW status, KillThread(v, status)
        PROVE  threads[x].state = "UNUSED"
    BY <1>1, <2>2, KillEffect DEF Bystander
  <2>3. CASE process_kill(t)
    <3>1. PICK i \in ProcSlots, sig \in Signals :
             /\ find_process(processes, processes[i].pid, i)
             /\ IF processes[i].tid = t
                THEN sched_exit_status(SIGNAL_EXIT_STATUS(sig), FALSE)
                ELSE KillThread(processes[i].tid, SIGNAL_EXIT_STATUS(sig))
      BY <2>3 DEF process_kill
    <3>2. processes[i].tid \in 1..(thread_capacity - 1)
      BY <3>1 DEF find_process, HasPid, Inv, ProcessInv, RecordMatchesThread
    <3>3. processes[i].tid \in Tids
      BY <1>1, <3>2, ThreadsAssumption DEF TypeOK, Tids
    <3> QED
      BY <2>1, <2>2, <3>1, <3>3
  <2>4. CASE StartFails(t)
    BY <2>1, <2>4, Zenon DEF StartFails
  <2>5. CASE Exit(t)
    BY <2>1, <2>5, Zenon DEF Exit
  <2> QED
    BY <1>6, <2>3, <2>4, <2>5
<1>7. ASSUME NEW t \in Tids, NEW i \in ProcSlots, NEW slot \in Tids, NEW th \in Table,
             SpawnInto(t, i, slot, th), \A y \in Tids : th[y].state = threads[y].state
      PROVE  threads[x].state = "UNUSED"
  <2>1. th[t].uid \in Uids /\ threads' = SpawnIn(th, slot, th[t].uid)
    BY <1>7 DEF Table, Thread, SpawnInto
  <2>2. /\ threads'[slot].state = "READY"
        /\ \A y \in Tids : y # slot => threads'[y] = th[y]
    BY <1>7, <2>1, SpawnInEffect
  <2> QED
    BY <1>7, <2>2
<1>8. ASSUME NEW t \in Tids, Spawn(t) PROVE threads[x].state = "UNUSED"
  BY <1>1, <1>7, <1>8 DEF Spawn
<1>9. ASSUME NEW t \in Tids, SpawnGrowing(t) PROVE threads[x].state = "UNUSED"
  <2>1. PICK i \in ProcSlots, garbage \in [Tids -> Uids] :
           /\ 2 * thread_capacity <= MaxThreads
           /\ SpawnInto(t, i, thread_capacity, CopyTable(threads, thread_capacity, garbage))
    BY <1>9 DEF SpawnGrowing
  <2>2. /\ CopyTable(threads, thread_capacity, garbage) \in Table
        /\ \A y \in Tids : CopyTable(threads, thread_capacity, garbage)[y].state = threads[y].state
        /\ thread_capacity \in Tids
    BY <2>1, Growth
  <2> QED
    BY <1>7, <2>1, <2>2
<1>10. ASSUME NEW t \in Tids, SpawnFails(t) PROVE threads[x].state = "UNUSED"
  <2>1. CASE threads' = threads
    BY <2>1
  <2>2. CASE threads' # threads
    <3>1. PICK garbage \in [Tids -> Uids] :
             /\ 2 * thread_capacity <= MaxThreads
             /\ threads' = CopyTable(threads, thread_capacity, garbage)
      BY <1>10, <2>2 DEF SpawnFails
    <3> QED
      BY <3>1, Growth
  <2> QED
    BY <2>1, <2>2
<1>11. ASSUME NEW t \in Tids, Login(t) PROVE threads[x].state = "UNUSED"
  <2>1. PICK u \in Uids : threads' = [threads EXCEPT ![t].uid = u]
    BY <1>11 DEF Login
  <2>2. threads'[x].state = threads[x].state
    BY <1>1, <2>1 DEF Table, Thread
  <2> QED
    BY <2>2
<1>12. ASSUME NEW t \in Tids, \/ EnterUsermode(t) \/ WaitRefused(t) \/ SysWait(t)
                              \/ SysRead(t) \/ GetcharPops(t) \/ Start(t)
       PROVE  threads[x].state = "UNUSED"
  BY <1>12 DEF EnterUsermode, WaitRefused, SysWait, SysRead, GetcharPops, Start
<1>13. CASE UNCHANGED vars
  BY <1>13 DEF vars
<1>14. ASSUME NEW t \in Tids, KernelStep(t) PROVE threads[x].state = "UNUSED"
  BY <1>4, <1>5, <1>12, <1>14 DEF KernelStep
<1>15. ASSUME NEW t \in Tids, ProgramStep(t) PROVE threads[x].state = "UNUSED"
  BY <1>6, <1>8, <1>9, <1>10, <1>11, <1>12, <1>15 DEF ProgramStep
<1> QED
  BY <1>2, <1>3, <1>13, <1>14, <1>15 DEF Next

(* reap_zombie frees the slots of dead threads only, never the one in use,  *)
(* and only in the step in which process_wait releases their record.        *)
THEOREM OnlyTheDeadAreReaped == Spec => SlotFreedOnlyByReap
<1> DEFINE Reap == \A t \in Tids :
         (threads[t].state # "UNUSED" /\ threads'[t].state = "UNUSED") =>
            /\ threads[t].state = "ZOMBIE"
            /\ t # current_thread
            /\ \E i \in ProcSlots : /\ processes[i].tid = t
                                     /\ processes[i].state = "EXITED"
                                     /\ processes'[i].state = "UNUSED"
<1>1. Inv /\ [Next]_vars => Reap
  <2> SUFFICES ASSUME Inv, [Next]_vars, NEW x \in Tids,
                      threads[x].state # "UNUSED", threads'[x].state = "UNUSED"
      PROVE  /\ threads[x].state = "ZOMBIE"
             /\ x # current_thread
             /\ \E i \in ProcSlots : /\ processes[i].tid = x
                                      /\ processes[i].state = "EXITED"
                                      /\ processes'[i].state = "UNUSED"
    OBVIOUS
  <2>1. PICK t \in Tids : WaitReaps(t)
    BY SlotsKept
  <2>2. PICK i \in ProcSlots, v \in Tids :
           /\ processes[i].state = "EXITED" /\ processes[i].tid = v
           /\ processes' = [processes EXCEPT ![i] = NoProcess]
           /\ v # current_thread
           /\ \A y \in Tids : y # v => threads'[y] = threads[y]
           /\ \/ threads[v].state = "ZOMBIE" /\ threads'[v].state = "UNUSED"
              \/ threads'[v] = threads[v]
    BY <2>1, ReapEffect
  <2>3. x = v /\ threads[v].state = "ZOMBIE"
    BY <2>2
  <2>4. processes'[i].state = "UNUSED"
    BY <2>2 DEF NoProcess, Inv, TypeOK
  <2> QED
    BY <2>2, <2>3, <2>4
<1>2. Inv /\ [Next]_vars => [Reap]_vars
  BY <1>1
<1>3. Spec => [][Reap]_vars
  BY <1>2, Invariance, PTL DEF Spec
<1> QED
  BY <1>3 DEF SlotFreedOnlyByReap

(* Every step but the reaping of a wait leaves the records of exited        *)
(* processes alone.                                                         *)
LEMMA ExitedKept ==
    ASSUME Inv, [Next]_vars, NEW i \in ProcSlots, processes[i].state = "EXITED",
           \A t \in Tids : ~ WaitReaps(t)
    PROVE  processes'[i] = processes[i]
<1>1. Distinct(processes) /\ TypeOK
  BY DistinctRecords DEF Inv, ProcessInv
<1>2. ASSUME NEW t \in Tids, Runs(t), pc[t] \in {"start", "load", "user"}
      PROVE  ~ HasTid(processes, t, i)
  BY <1>2 DEF Inv, ProcessInv, RecordMatchesThread, Runs, HasTid
<1>3. ASSUME NEW v, NEW status, processes' = MarkExited(processes, v, status),
             ~ HasTid(processes, v, i)
      PROVE  processes'[i] = processes[i]
  BY <1>3, Zenon DEF MarkExited, find_process_by_tid
<1>4. ASSUME NEW t \in Tids, Start(t) PROVE processes'[i] = processes[i]
  <2>1. ~ HasTid(processes, t, i)
    BY <1>2, <1>4 DEF Start
  <2> QED
    BY <1>4, <2>1, Zenon DEF Start, find_process_by_tid
<1>5. ASSUME NEW t \in Tids, StartFails(t) \/ Exit(t) PROVE processes'[i] = processes[i]
  <2>1. /\ current_thread = t /\ ~ HasTid(processes, t, i)
    BY <1>2, <1>5 DEF StartFails, Exit, InRing3, Runs
  <2>2. \E status : processes' = MarkExited(processes, t, status)
    BY <1>5, <2>1, Zenon DEF StartFails, Exit, sched_exit_status
  <2> QED
    BY <1>3, <2>1, <2>2
<1>6. ASSUME NEW t \in Tids, process_kill(t) PROVE processes'[i] = processes[i]
  <2>1. PICK j \in ProcSlots, sig \in Signals :
           /\ find_process(processes, processes[j].pid, j)
           /\ processes[j].state # "EXITED"
           /\ IF processes[j].tid = t
              THEN sched_exit_status(SIGNAL_EXIT_STATUS(sig), FALSE)
              ELSE KillThread(processes[j].tid, SIGNAL_EXIT_STATUS(sig))
    BY <1>6 DEF process_kill
  <2>2. ~ HasTid(processes, processes[j].tid, i)
    BY <1>1, <2>1 DEF find_process, HasPid, HasTid, Distinct, Used
  <2>3. current_thread = t
    BY <1>6 DEF process_kill, InRing3, Runs
  <2>4. \E status : processes' = MarkExited(processes, processes[j].tid, status)
    BY <2>1, <2>3, Zenon DEF sched_exit_status, KillThread
  <2> QED
    BY <1>3, <2>2, <2>4
<1>7. ASSUME NEW t \in Tids, Spawn(t) \/ SpawnGrowing(t) PROVE processes'[i] = processes[i]
  <2>1. PICK j \in ProcSlots : /\ CanSpawn(t, j)
                               /\ \E slot, th : SpawnInto(t, j, slot, th)
    BY <1>7, Zenon DEF Spawn, SpawnGrowing
  <2>2. PICK r : processes' = [processes EXCEPT ![j] = r]
    BY <2>1, Zenon DEF SpawnInto, Reserved
  <2>3. i # j
    BY <2>1 DEF CanSpawn, IsReserveSlot
  <2> QED
    BY <1>1, <2>2, <2>3 DEF TypeOK
<1>8. ASSUME NEW t \in Tids,
             \/ LeaveIdle(t) \/ WaitSleeps(t) \/ GetcharSleeps(t) \/ GetcharPops(t)
             \/ WaitRefused(t) \/ SpawnFails(t) \/ EnterUsermode(t) \/ SysWait(t)
             \/ SysRead(t) \/ Login(t)
      PROVE  processes'[i] = processes[i]
  BY <1>8 DEF LeaveIdle, WaitSleeps, GetcharSleeps, GetcharPops, WaitRefused, SpawnFails,
              EnterUsermode, SysWait, SysRead, Login, procVars
<1>9. CASE TimerIrq \/ KeyboardIrq \/ UNCHANGED vars
  BY <1>9 DEF TimerIrq, KeyboardIrq, vars, procVars
<1>10. ASSUME NEW t \in Tids, KernelStep(t) PROVE processes'[i] = processes[i]
  BY <1>8, <1>10 DEF KernelStep
<1>11. ASSUME NEW t \in Tids, ProgramStep(t) PROVE processes'[i] = processes[i]
  BY <1>4, <1>5, <1>6, <1>7, <1>8, <1>11 DEF ProgramStep
<1> QED
  BY <1>9, <1>10, <1>11 DEF Next

(* Signals sent to a process that has exited change nothing: its status     *)
(* stays until process_wait of its own parent takes it.                     *)
THEOREM ExitStatusIsFinal == Spec => ExitStatusFinal
<1> DEFINE Final == \A i \in ProcSlots : processes[i].state = "EXITED" =>
         \/ processes'[i] = processes[i]
         \/ /\ processes'[i] = NoProcess
            /\ processes[i].parent_pid = current_pid(processes, current_thread)
<1>1. Inv /\ [Next]_vars => Final
  <2> SUFFICES ASSUME Inv, [Next]_vars, NEW i \in ProcSlots, processes[i].state = "EXITED"
      PROVE  \/ processes'[i] = processes[i]
             \/ /\ processes'[i] = NoProcess
                /\ processes[i].parent_pid = current_pid(processes, current_thread)
    OBVIOUS
  <2>1. CASE \A t \in Tids : ~ WaitReaps(t)
    BY <2>1, ExitedKept
  <2>2. CASE \E t \in Tids : WaitReaps(t)
    <3>1. PICK t \in Tids : WaitReaps(t)
      BY <2>2
    <3>2. PICK j \in ProcSlots, v \in Tids :
             /\ IsMyChild(t, arg[t], j)
             /\ processes' = [processes EXCEPT ![j] = NoProcess]
      BY <3>1, ReapEffect
    <3>3. current_thread = t
      BY <3>1 DEF WaitReaps, Runs
    <3> QED
      BY <3>2, <3>3 DEF IsMyChild, Inv, TypeOK
  <2> QED
    BY <2>1, <2>2
<1>2. Inv /\ [Next]_vars => [Final]_vars
  BY <1>1
<1>3. Spec => [][Final]_vars
  BY <1>2, Invariance, PTL DEF Spec
<1> QED
  BY <1>3 DEF ExitStatusFinal

(***************************************************************************)
(* Part 10.  The search for the next thread                                *)
(***************************************************************************)

(* Every non-empty set of natural numbers has a least element. *)
LEMMA LeastElement ==
    ASSUME NEW T \in SUBSET Nat, T # {}
    PROVE  \E m \in T : \A n \in T : m <= n
<1> DEFINE R == {ss \in Nat \X Nat : ss[1] < ss[2]}
<1>1. IsWellFoundedOn(R, Nat)
  BY NatLessThanWellFounded DEF OpToRel
<1>2. PICK x \in T : \A y \in T : ~ (<<y, x>> \in R)
  <2> HIDE DEF R
  <2> QED
    BY <1>1, WFMin
<1>3. ASSUME NEW y \in T
      PROVE  x <= y
  <2>1. y < x => <<y, x>> \in R
    OBVIOUS
  <2> QED
    BY <1>2, <2>1
<1> QED
  BY <1>3

(* find_next_runnable misses nobody: when it ends where it began, at a slot *)
(* that is not runnable, no slot of the table is.  So sched_exit_status     *)
(* halts, and sched_sleep idles, only when there is nobody left to run.     *)
THEOREM SearchIsComplete ==
    ASSUME NEW th \in Table, NEW c \in 1..MaxThreads, NEW from \in 0..(c - 1),
           ~ Runnable(th, from), find_next_runnable(th, c, from) = from,
           NEW x \in 0..(c - 1)
    PROVE  ~ Runnable(th, x)
<1> DEFINE At(d)    == (from + d) % c
           First(d) == /\ Runnable(th, At(d))
                       /\ \A e \in 1..(d - 1) : ~ Runnable(th, At(e))
           T        == {d \in 1..c : Runnable(th, At(d))}
<1>1. ASSUME Runnable(th, x)
      PROVE  FALSE
  <2>1. PICK d \in 1..c : At(d) = x
    <3>1. CASE x > from
      <4>1. x - from \in 1..c /\ At(x - from) = x
        BY <3>1
      <4> QED
        BY <4>1
    <3>2. CASE x <= from
      <4>1. x + c - from \in 1..c /\ (from + (x + c - from)) % c = x
        BY <3>2
      <4> QED
        BY <4>1
    <3> QED
      BY <3>1, <3>2
  <2>2. T \in SUBSET Nat
    OBVIOUS
  <2>7. d \in T
    BY <1>1, <2>1
  <2>3. PICK m \in T : \A n \in T : m <= n
    <3> HIDE DEF T
    <3> QED
      BY <2>2, <2>7, LeastElement
  <2>4. m \in 1..c /\ First(m)
    BY <2>3
  <2>5. \E e \in 1..c : First(e)
    BY <2>4
  <2>6. PICK n \in 1..c : find_next_runnable(th, c, from) = At(n) /\ First(n)
    BY <2>5 DEF find_next_runnable
  <2> QED
    BY <2>6
<1> QED
  BY <1>1

=============================================================================
