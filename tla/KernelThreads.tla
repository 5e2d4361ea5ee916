--------------------------- MODULE KernelThreads ---------------------------
(***************************************************************************)
(* Kernel threads: the shell commands threadtest, largethreadtest and      *)
(* usermodetest (kernel/core/shell/shell_cmd_thread.c, shell_cmd_process.c)*)
(* start threads with sched_spawn, wait for them with sched_wait, and the  *)
(* threads end in sched_exit.  All of this runs kernel code with           *)
(* interrupts on, so the timer may take the CPU away between any two       *)
(* accesses to the thread table that no irq_save encloses.                 *)
(***************************************************************************)
EXTENDS Threads, Sequences

CONSTANT Children   \* how many threads the command starts: 1, 2 or 8 in the code

VARIABLES
    threads, thread_capacity, current_thread,
    pc,       \* shell: "find" "stack" "publish" "fill" in sched_spawn, "check" and
              \* "sleep" in sched_wait, "idle" in sched_sleep, "done";
              \* children: "run", "halt" in sched_exit_status, "none"
    slot,     \* sched_spawn's local
    tids,     \* the command's tids[], -1 for a spawn that failed
    waiting   \* which of them the command is in sched_wait for

vars == <<threads, thread_capacity, current_thread, pc, slot, tids, waiting>>

Shell == 0

Init ==
    /\ threads = [t \in Tids |->
                    IF t = Shell THEN [init_thread_slot EXCEPT !.state = "RUNNING"]
                                 ELSE init_thread_slot]
    /\ thread_capacity = INITIAL_THREAD_CAPACITY
    /\ current_thread = Shell
    /\ pc = [t \in Tids |-> IF t = Shell THEN "find" ELSE "none"]
    /\ slot = -1
    /\ tids = <<>>
    /\ waiting = 1

Runs(t) == current_thread = t /\ threads[t].state = "RUNNING"

(* The shell's next step after a spawn that returned tid *)
Spawned(tid) ==
    /\ tids' = Append(tids, tid)
    /\ pc' = [pc EXCEPT ![Shell] = IF Len(tids') < Children THEN "find" ELSE "check"]

(***************************************************************************)
(* sched_spawn, in the pieces between which it can be interrupted          *)
(***************************************************************************)

(* The search for a slot; grow_thread_table (irq_save inside) if there is   *)
(* none.  With one user id the copy loses nothing that matters here.        *)
FindSlot ==
    /\ Runs(Shell) /\ pc[Shell] = "find"
    /\ \/ /\ \E t \in Tids : IsSpawnSlot(threads, thread_capacity, t) /\ slot' = t
          /\ pc' = [pc EXCEPT ![Shell] = "stack"]
          /\ UNCHANGED <<threads, thread_capacity, tids>>
       \/ /\ TableFull(threads, thread_capacity)
          /\ 2 * thread_capacity <= MaxThreads
          /\ \E garbage \in [Tids -> Uids] :
                threads' = CopyTable(threads, thread_capacity, garbage)
          /\ thread_capacity' = 2 * thread_capacity
          /\ slot' = thread_capacity
          /\ pc' = [pc EXCEPT ![Shell] = "stack"]
          /\ UNCHANGED tids
       \/ /\ TableFull(threads, thread_capacity)
          /\ Spawned(-1)
          /\ UNCHANGED <<threads, thread_capacity, slot>>
    /\ UNCHANGED <<current_thread, waiting>>

AllocStack ==
    /\ Runs(Shell) /\ pc[Shell] = "stack"
    /\ \/ pc' = [pc EXCEPT ![Shell] = "publish"] /\ UNCHANGED tids
       \/ Spawned(-1)
    /\ UNCHANGED <<threads, thread_capacity, current_thread, slot, waiting>>

(* rsp and state = THREAD_READY: from here on the thread can be dispatched *)
Publish ==
    /\ Runs(Shell) /\ pc[Shell] = "publish"
    /\ threads' = [threads EXCEPT ![slot].state = "READY"]
    /\ pc' = [pc EXCEPT ![slot] = "run", ![Shell] = "fill"]
    /\ UNCHANGED <<thread_capacity, current_thread, slot, tids, waiting>>

(* stack bounds, quantum, address space, descriptors, uid *)
FillSlot ==
    /\ Runs(Shell) /\ pc[Shell] = "fill"
    /\ threads' = [threads EXCEPT ![slot].ticks_remaining = Quantum,
                                  ![slot].uid = threads[Shell].uid]
    /\ Spawned(slot)
    /\ UNCHANGED <<thread_capacity, current_thread, slot, waiting>>

(***************************************************************************)
(* sched_wait on one child after the other.  Neither the loop nor          *)
(* sched_is_alive turns interrupts off; only sched_sleep does.             *)
(***************************************************************************)

(* `while (sched_is_alive(tid))`; when a child has ended, the next call *)
CheckAlive ==
    /\ Runs(Shell) /\ pc[Shell] = "check"
    /\ IF tids[waiting] >= 0 /\ sched_is_alive(threads, tids[waiting])
       THEN pc' = [pc EXCEPT ![Shell] = "sleep"] /\ UNCHANGED waiting
       ELSE /\ waiting' = waiting + 1
            /\ pc' = [pc EXCEPT ![Shell] = IF waiting < Children THEN "check" ELSE "done"]
    /\ UNCHANGED <<threads, thread_capacity, current_thread, slot, tids>>

(* sched_sleep(tid).  It enters its sti/hlt loop only when nothing else is  *)
(* runnable, and of these threads no other one could then wake the shell:   *)
(* the loop is never left here.                                             *)
WaitSleeps ==
    LET asleep == Block(threads, Shell, tids[waiting])
        next   == find_next_runnable(asleep, thread_capacity, Shell)
    IN  /\ Runs(Shell) /\ pc[Shell] = "sleep"
        /\ IF next = Shell
           THEN /\ threads' = asleep
                /\ pc' = [pc EXCEPT ![Shell] = "idle"]
                /\ UNCHANGED current_thread
           ELSE /\ threads' = Dispatch(asleep, next)
                /\ current_thread' = next
                /\ pc' = [pc EXCEPT ![Shell] = "check"]
        /\ UNCHANGED <<thread_capacity, slot, tids, waiting>>

(* A child's sched_exit: no process record, so only the tid is woken *)
ChildExits(t) ==
    LET woken == sched_wakeup(SetState(threads, t, "ZOMBIE"), t)
        next  == find_next_runnable(woken, thread_capacity, t)
    IN  /\ t # Shell /\ Runs(t) /\ pc[t] = "run"
        /\ IF next = t
           THEN /\ threads' = woken
                /\ pc' = [pc EXCEPT ![t] = "halt"]
                /\ UNCHANGED current_thread
           ELSE /\ threads' = DispatchAsIs(woken, next)
                /\ current_thread' = next
                /\ pc' = [pc EXCEPT ![t] = "none"]
        /\ UNCHANGED <<thread_capacity, slot, tids, waiting>>

(* IRQ 0: interrupts are on in all of this code *)
TimerIrq ==
    LET t    == current_thread
        th   == Elapse(threads, t)
        next == find_next_runnable(th, thread_capacity, t)
    IN  /\ IF threads[t].ticks_remaining > 1 \/ next = t
           THEN threads' = th /\ UNCHANGED current_thread
           ELSE /\ threads' = Dispatch(SetState(th, t, "READY"), next)
                /\ current_thread' = next
        /\ UNCHANGED <<thread_capacity, pc, slot, tids, waiting>>

ShellStep ==
    \/ FindSlot \/ AllocStack \/ Publish \/ FillSlot
    \/ CheckAlive \/ WaitSleeps

Next == TimerIrq \/ ShellStep \/ \E t \in Tids : ChildExits(t)

(* The kernel runs on while it has the CPU, and so does a child. *)
Spec ==
    /\ Init /\ [][Next]_vars
    /\ WF_vars(ShellStep) /\ \A t \in Tids : WF_vars(ChildExits(t))

(***************************************************************************)
(* Properties                                                              *)
(***************************************************************************)

(* All threads of the command were started and have ended. *)
AllEnded ==
    /\ Len(tids) = Children
    /\ \A k \in DOMAIN tids : tids[k] >= 0 => ~ sched_is_alive(threads, tids[k])

(* Once its threads have ended, the command comes back and says so: "both   *)
(* threads finished".  sched_wait tests a child with interrupts on before   *)
(* it sleeps, so the timer may let the child end between the two.           *)
CommandReturns == AllEnded ~> pc[Shell] = "done"

=============================================================================
