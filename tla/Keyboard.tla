------------------------------ MODULE Keyboard ------------------------------
(***************************************************************************)
(* kernel/drivers/keyboard/keyboard.c and its kernel/lib/ring_buffer.c:    *)
(* the interrupt handler pushes the bytes of a key, a reader pops them.    *)
(* The handler runs with interrupts off and is one step.  The reader is    *)
(* the kernel shell, which pops with interrupts on, so the handler may run *)
(* between any two accesses of ring_buffer_pop to the shared buffer.  (A   *)
(* program that reads the console pops inside a system call, which is the  *)
(* special case of no interruption.)                                       *)
(***************************************************************************)
EXTENDS Integers, Sequences

CONSTANTS
    KeyByte,          \* bytes that keys produce
    Keys,             \* keys other than shift
    Layout,           \* keyboard_layout_translate: [Keys \X BOOLEAN -> Seq(KeyByte)],
                      \* <<>> for a key without a character
    KBD_BUFFER_SIZE   \* 256 in the code

ASSUME KeyboardAssumption ==
    /\ KBD_BUFFER_SIZE \in Nat \ {0}
    /\ Layout \in [Keys \X BOOLEAN -> Seq(KeyByte)]

VARIABLES
    kbd_storage, head, tail,  \* kbd_buffer
    shift_held,
    at,      \* the reader: "user", or inside ring_buffer_pop at "test", "load", "advance"
    out,     \* the reader's *out
    taken    \* what the last successful kbd_getchar has returned

kbdVars == <<kbd_storage, head, tail, shift_held, at, out, taken>>

KbdPositions == 0..(KBD_BUFFER_SIZE - 1)

(* The static storage is zeroed; no key produces that byte. *)
NUL == "NUL"

KbdInit ==
    /\ kbd_storage = [i \in KbdPositions |-> NUL]
    /\ head = 0 /\ tail = 0
    /\ shift_held = FALSE
    /\ at = "user"
    /\ out = NUL
    /\ taken = <<>>

Wrap(i) == i % KBD_BUFFER_SIZE

(* Mutant of Room: all slots are used, so that full looks like empty. *)
AllSlots == KBD_BUFFER_SIZE - Wrap(head - tail)

(* Slots that ring_buffer_push can still fill: the last one stays empty, so *)
(* that head = tail means empty.                                            *)
Room == Wrap(tail - head - 1)

(* ring_buffer_push for each byte of seq; a push into a full buffer is      *)
(* dropped, and so are then the ones that follow.                           *)
ring_buffer_push(seq) ==
    LET n == IF Len(seq) < Room THEN Len(seq) ELSE Room
    IN  /\ kbd_storage' = [i \in KbdPositions |->
              IF \E k \in 1..n : Wrap(head + k - 1) = i
              THEN seq[CHOOSE k \in 1..n : Wrap(head + k - 1) = i]
              ELSE kbd_storage[i]]
        /\ head' = Wrap(head + n)

(* keyboard_irq_handler: a shift key goes down or up *)
ShiftIrq ==
    /\ shift_held' \in BOOLEAN
    /\ UNCHANGED <<kbd_storage, head, tail, at, out, taken>>

(* keyboard_irq_handler: another key goes down; keys without a character    *)
(* and keys that go up change nothing.                                      *)
KeyIrq(key) ==
    /\ Layout[<<key, shift_held>>] # <<>>
    /\ ring_buffer_push(Layout[<<key, shift_held>>])
    /\ UNCHANGED <<tail, shift_held, at, out, taken>>

(* kbd_getchar calls ring_buffer_pop, at first and after every sleep *)
Getchar ==
    /\ at = "user"
    /\ at' = "test"
    /\ UNCHANGED <<kbd_storage, head, tail, shift_held, out, taken>>

PopTest ==
    /\ at = "test"
    /\ at' = IF tail = head THEN "user" ELSE "load"
    /\ UNCHANGED <<kbd_storage, head, tail, shift_held, out, taken>>

PopLoad ==
    /\ at = "load"
    /\ out' = kbd_storage[tail]
    /\ at' = "advance"
    /\ UNCHANGED <<kbd_storage, head, tail, shift_held, taken>>

(* Mutant of PopAdvance: the tail is not wrapped. *)
AdvanceWithoutWrap ==
    /\ at = "advance"
    /\ tail' = tail + 1
    /\ taken' = <<out>>
    /\ at' = "user"
    /\ UNCHANGED <<kbd_storage, head, shift_held, out>>

PopAdvance ==
    /\ at = "advance"
    /\ tail' = Wrap(tail + 1)
    /\ taken' = <<out>>
    /\ at' = "user"
    /\ UNCHANGED <<kbd_storage, head, shift_held, out>>

KbdNext ==
    \/ ShiftIrq
    \/ \E key \in Keys : KeyIrq(key)
    \/ Getchar \/ PopTest \/ PopLoad \/ PopAdvance

KbdSpec == KbdInit /\ [][KbdNext]_kbdVars

(***************************************************************************)
(* Properties                                                              *)
(***************************************************************************)

KbdTypeOK ==
    /\ kbd_storage \in [KbdPositions -> KeyByte \cup {NUL}]
    /\ head \in KbdPositions /\ tail \in KbdPositions
    /\ shift_held \in BOOLEAN
    /\ at \in {"user", "test", "load", "advance"}
    /\ out \in KeyByte \cup {NUL}
    /\ taken \in Seq(KeyByte)

(* The bytes in the buffer, oldest first *)
Waiting == [i \in 1..Wrap(head - tail) |-> kbd_storage[Wrap(tail + i - 1)]]

(* The ring implements the lossy queue although the interrupt handler may   *)
(* push between the steps of a pop: a byte that the reader has loaded is    *)
(* not overwritten before the reader moves on, and none is handed out twice.*)
KeyRing == INSTANCE KeyQueue WITH KeyStrings <- {Layout[k] : k \in Keys \X BOOLEAN},
                                  Capacity <- KBD_BUFFER_SIZE - 1,
                                  queue <- Waiting

ImplementsKeyQueue == KeyRing!Spec

=============================================================================
