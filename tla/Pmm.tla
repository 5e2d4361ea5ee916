-------------------------------- MODULE Pmm ---------------------------------
(***************************************************************************)
(* The physical frame allocator, kernel/mm/pmm.c: a bitmap over all frames *)
(* below PMM_MAX_MEMORY, a counter of free frames and a search hint.       *)
(* Every function runs with interrupts off (irq_save) and is one step.     *)
(* Frames are numbered; an address is a frame number times PMM_FRAME_SIZE. *)
(***************************************************************************)
EXTENDS Integers, FiniteSets

CONSTANTS
    PMM_MAX_FRAMES,  \* 2^20 in the code
    Usable,          \* frames that the e820 map reports as usable memory
    Reserved,        \* frames that pmm_init reserves: boot area, kernel image, VGA
    MaxRun           \* bound on the argument of pmm_alloc_contiguous

Frames == 0..(PMM_MAX_FRAMES - 1)

ASSUME PmmAssumption ==
    /\ PMM_MAX_FRAMES \in Nat \ {0}
    /\ Usable \subseteq Frames
    /\ Reserved \subseteq Frames
    /\ 0 \in Reserved    \* reserve_range(0x0, 0x8200)
    /\ MaxRun \in Nat

VARIABLES
    used,         \* the frames whose bit is set in bitmap
    free_frames,  \* the counter behind pmm_free_frames()
    search_hint,
    held          \* what the rest of the kernel has been given and not returned

pmmVars == <<used, free_frames, search_hint, held>>

(***************************************************************************)
(* The bitmap: set_used and set_free count a frame only when its bit       *)
(* changes; the counter stops at 0.  S is the set of frames of one call.   *)
(***************************************************************************)

(* Mutant of set_used: one frame is counted, however many are taken. *)
CountsOne(S) ==
    /\ used' = used \cup S
    /\ free_frames' = IF 1 <= free_frames THEN free_frames - 1 ELSE 0

set_used(S) ==
    LET n == Cardinality(S \ used)
    IN  /\ used' = used \cup S
        /\ free_frames' = IF n <= free_frames THEN free_frames - n ELSE 0

set_free(S) ==
    /\ used' = used \ S
    /\ free_frames' = free_frames + Cardinality(S \cap used)

(* Outside the tracked range a frame counts as used. *)
is_used(f) == f \notin Frames \/ f \in used

(* pmm_init: everything used, then the usable frames free, then the         *)
(* reserved ones used again                                                 *)
PmmInit ==
    /\ used = (Frames \ Usable) \cup Reserved
    /\ free_frames = Cardinality(Usable \ Reserved)
    /\ search_hint = 0
    /\ held = {}

(* pmm_alloc_frame: first fit from search_hint on, around the end *)
pmm_alloc_frame ==
    \E i \in Frames :
        LET At(k) == (search_hint + k) % PMM_MAX_FRAMES
        IN  /\ ~ is_used(At(i))
            /\ \A j \in Frames : j < i => is_used(At(j))
            /\ set_used({At(i)})
            /\ search_hint' = At(i) + 1
            /\ held' = held \cup {At(i)}

(* The frames of a run *)
Run(first, count) == first..(first + count - 1)

(* Mutant of IsFreeRun: a used frame does not start the run over. *)
StartsFree(first, count) == ~ is_used(first) /\ first + count <= PMM_MAX_FRAMES

IsFreeRun(first, count) == \A f \in Run(first, count) : ~ is_used(f)

(* The lowest run of count free frames is taken. *)
TakeRun(first, count) ==
    /\ IsFreeRun(first, count)
    /\ \A g \in Frames : g < first => ~ IsFreeRun(g, count)
    /\ set_used(Run(first, count))
    /\ held' = held \cup Run(first, count)
    /\ UNCHANGED search_hint

pmm_alloc_contiguous(count) == \E first \in Frames : TakeRun(first, count)

(* pmm_free_frame, by a caller that holds the frame *)
pmm_free_frame(f) ==
    /\ f \in held
    /\ set_free({f})
    /\ held' = held \ {f}
    /\ UNCHANGED search_hint

PmmNext ==
    \/ pmm_alloc_frame
    \/ \E count \in 1..MaxRun : pmm_alloc_contiguous(count)
    \/ \E f \in Frames : pmm_free_frame(f)

PmmSpec == PmmInit /\ [][PmmNext]_pmmVars

(***************************************************************************)
(* Properties                                                              *)
(***************************************************************************)

PmmTypeOK ==
    /\ used \subseteq Frames
    /\ free_frames \in Nat
    /\ search_hint \in 0..PMM_MAX_FRAMES
    /\ held \subseteq Frames

(* The counter that SYS_MEMINFO reports is the number of clear bits. *)
FreeCount == free_frames = Cardinality(Frames \ used)

(* The bitmap is exact: the free frames are the usable ones that are        *)
(* neither reserved nor held by somebody, so no allocation hands out        *)
(* a frame twice, a reserved one or one that is not memory, and frame 0,    *)
(* whose address means failure, is never handed out.                        *)
BitmapExact == /\ Frames \ used = (Usable \ Reserved) \ held
               /\ held \subseteq Usable \ Reserved
               /\ 0 \notin held

=============================================================================
