------------------------------ MODULE Threads ------------------------------
(***************************************************************************)
(* The thread table of kernel/sched/thread.c and the parts of its          *)
(* functions that read or rewrite the table.  Every operator below takes   *)
(* the table `th` (a function from tids to thread records) and returns a   *)
(* value or a new table, so that the modules that own the VARIABLES can    *)
(* chain them in the order in which the C functions call each other.       *)
(*                                                                         *)
(* Slots at or above thread_capacity do not exist in memory; they are kept *)
(* in the function as UNUSED entries.                                      *)
(***************************************************************************)
EXTENDS Integers

CONSTANTS
    MaxThreads,              \* bound: table growth beyond it is a kmalloc failure
    INITIAL_THREAD_CAPACITY, \* 4 in the code
    Quantum,                 \* quantum_ticks[THREAD_PRIO_NORMAL], 4 in the code
    Uids                     \* user ids that occur

ASSUME ThreadsAssumption ==
    /\ MaxThreads \in Nat \ {0}
    /\ INITIAL_THREAD_CAPACITY \in 1..MaxThreads
    /\ Quantum \in Nat \ {0}
    /\ 0 \in Uids

Tids == 0..(MaxThreads - 1)

ThreadState == {"UNUSED", "READY", "RUNNING", "BLOCKED", "ZOMBIE"}

(* wait_channel is an address or a small integer cast to one: pids and tids *)
(* share the positive integers, 0 is "no channel".  ticks_remaining only    *)
(* matters through the test `> 0`, so it is kept at 0 where the code lets   *)
(* it go on below.                                                          *)
Thread == [state : ThreadState,
           wait_channel : Int,
           ticks_remaining : 0..Quantum,
           uid : Uids]

init_thread_slot ==
    [state |-> "UNUSED", wait_channel |-> 0, ticks_remaining |-> Quantum, uid |-> 0]

Runnable(th, t) == th[t].state \in {"READY", "RUNNING"}

sched_is_alive(th, t) == th[t].state \in {"READY", "RUNNING", "BLOCKED"}

(* Mutant of find_next_runnable: the search starts at slot 0 every time. *)
LowestRunnable(th, capacity, from) ==
    LET S == {t \in Tids : t < capacity /\ Runnable(th, t)}
    IN  IF S = {} THEN from ELSE CHOOSE t \in S : \A u \in S : t <= u

(* The first runnable slot after `from` in table order, wrapping around and *)
(* ending at `from` itself, which is also the answer when there is none.    *)
find_next_runnable(th, capacity, from) ==
    LET At(d)    == (from + d) % capacity
        First(d) == /\ Runnable(th, At(d))
                    /\ \A e \in 1..(d - 1) : ~ Runnable(th, At(e))
    IN  IF \E d \in 1..capacity : First(d)
        THEN At(CHOOSE d \in 1..capacity : First(d))
        ELSE from

(* Every thread blocked on the channel becomes READY. *)
sched_wakeup(th, channel) ==
    [t \in Tids |->
        IF th[t].state = "BLOCKED" /\ th[t].wait_channel = channel
        THEN [th[t] EXCEPT !.state = "READY", !.wait_channel = 0]
        ELSE th[t]]

(* The part of sched_sleep before the search for another thread. *)
Block(th, t, channel) ==
    [th EXCEPT ![t].state = "BLOCKED", ![t].wait_channel = channel]

(* sched_yield and sched_sleep hand the CPU over with a fresh quantum. *)
Dispatch(th, next) ==
    [th EXCEPT ![next].state = "RUNNING", ![next].ticks_remaining = Quantum]

(* sched_exit_status hands it over with whatever quantum is left. *)
DispatchAsIs(th, next) == [th EXCEPT ![next].state = "RUNNING"]

(* sched_tick: the decrement that precedes the test. *)
Elapse(th, t) ==
    [th EXCEPT ![t].ticks_remaining = IF @ > 0 THEN @ - 1 ELSE 0]

SetState(th, t, s) == [th EXCEPT ![t].state = s]

(* sched_spawn takes the lowest UNUSED slot below the capacity. *)
IsSpawnSlot(th, capacity, t) ==
    /\ t < capacity
    /\ th[t].state = "UNUSED"
    /\ \A u \in Tids : u < t => th[u].state # "UNUSED"

TableFull(th, capacity) ==
    \A t \in Tids : t < capacity => th[t].state # "UNUSED"

(* The fields a fresh thread starts with; the uid is the spawner's. *)
SpawnIn(th, slot, u) ==
    [th EXCEPT ![slot].state = "READY",
               ![slot].ticks_remaining = Quantum,
               ![slot].uid = u]

(* reap_zombie's reset of the slot: uid and ticks_remaining keep their values. *)
ClearSlot(th, t) == [th EXCEPT ![t].state = "UNUSED", ![t].wait_channel = 0]

(* grow_thread_table: copy_thread_slot copies every field but uid into a    *)
(* freshly allocated, unzeroed table, so after the copy the uids of the old *)
(* slots are whatever `garbage` the heap block held.                        *)
CopyTable(th, capacity, garbage) ==
    [t \in Tids |->
        IF t < capacity THEN [th[t] EXCEPT !.uid = garbage[t]]
                        ELSE [init_thread_slot EXCEPT !.uid = garbage[t]]]

=============================================================================
