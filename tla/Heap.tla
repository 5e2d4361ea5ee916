-------------------------------- MODULE Heap --------------------------------
(***************************************************************************)
(* The kernel heap, kernel/mm/heap.c: a list of blocks, each a header      *)
(* followed by its bytes, first fit with splitting, coalescing on free.    *)
(* kmalloc and kfree do their work with interrupts off and are one step    *)
(* each.  The heap grows with frames from module Pmm, which the rest of    *)
(* the kernel (page tables, stacks, programs) uses as well.  Addresses and *)
(* sizes are in words of 8 bytes.                                          *)
(***************************************************************************)
EXTENDS Pmm, Sequences

CONSTANTS
    HEAP_HEADER_SIZE,  \* 3 words: size, free, next
    HEAP_ALIGN,        \* 2 words
    PMM_FRAME_SIZE,    \* 512 words in the code
    Requests,          \* sizes that callers of kmalloc ask for
    MaxLive            \* bound on allocations that are alive at a time

ASSUME HeapAssumption ==
    /\ HEAP_HEADER_SIZE \in Nat \ {0} /\ HEAP_ALIGN \in Nat \ {0}
    /\ PMM_FRAME_SIZE \in Nat /\ PMM_FRAME_SIZE > HEAP_HEADER_SIZE
    /\ Requests \subseteq Nat
    /\ MaxLive \in Nat

VARIABLES
    blocks,  \* the list from heap_head on: [addr, size, free] of each header
    owned,   \* frames that the heap has got from pmm_alloc_contiguous
    live     \* what callers hold: [ptr, size] as kmalloc returned and was asked

heapVars == <<blocks, owned, live>>
vars == <<pmmVars, heapVars>>

(* heap_init, after pmm_init *)
Init == PmmInit /\ blocks = <<>> /\ owned = {} /\ live = {}

align_up(value, align) == ((value + align - 1) \div align) * align

(* One past the last word of a block *)
End(b) == b.addr + HEAP_HEADER_SIZE + b.size

(* Mutant of Fits: blocks in use are taken too. *)
LargeEnough(b, size) == b.size >= size

Fits(b, size) == b.free /\ b.size >= size

(* The block at list position i becomes a used block of `size` words; what  *)
(* remains becomes a free block behind it if a header and one unit fit.     *)
Carve(list, i, size) ==
    LET b    == list[i]
        rest == [addr |-> b.addr + HEAP_HEADER_SIZE + size,
                 size |-> b.size - size - HEAP_HEADER_SIZE,
                 free |-> TRUE]
    IN  IF b.size >= size + HEAP_HEADER_SIZE + HEAP_ALIGN
        THEN SubSeq(list, 1, i - 1)
             \o <<[addr |-> b.addr, size |-> size, free |-> FALSE], rest>>
             \o SubSeq(list, i + 1, Len(list))
        ELSE [list EXCEPT ![i].free = FALSE]

(* grow_heap: a run of frames from pmm_alloc_contiguous becomes one free    *)
(* block at the head of the list.                                           *)
FrameCount(size) == (HEAP_HEADER_SIZE + size + PMM_FRAME_SIZE - 1) \div PMM_FRAME_SIZE

Grown(first, n) ==
    <<[addr |-> first * PMM_FRAME_SIZE,
       size |-> n * PMM_FRAME_SIZE - HEAP_HEADER_SIZE,
       free |-> TRUE]>> \o blocks

Hand(ptr, request) == live' = live \cup {[ptr |-> ptr, size |-> request]}

kmalloc(request) ==
    LET size  == align_up(request, HEAP_ALIGN)
        fit   == {i \in DOMAIN blocks : Fits(blocks[i], size)}
        n     == FrameCount(size)
    IN  /\ request # 0
        /\ Cardinality(live) < MaxLive
        /\ \/ \E i \in fit :
                /\ \A j \in fit : i <= j
                /\ blocks' = Carve(blocks, i, size)
                /\ Hand(blocks[i].addr + HEAP_HEADER_SIZE, request)
                /\ UNCHANGED <<owned, pmmVars>>
           \/ \E first \in Frames :
                /\ fit = {}
                /\ TakeRun(first, n)
                /\ blocks' = Carve(Grown(first, n), 1, size)
                /\ Hand(first * PMM_FRAME_SIZE + HEAP_HEADER_SIZE, request)
                /\ owned' = owned \cup Run(first, n)

(* Mutant of Swallow: neighbours in the list are taken for neighbours in memory. *)
SwallowAny(done, b) ==
    LET k == Len(done)
    IN  IF k > 0 /\ done[k].free /\ b.free
        THEN [done EXCEPT ![k].size = @ + HEAP_HEADER_SIZE + b.size]
        ELSE Append(done, b)

(* kfree's pass over the list: a free block that ends where the next one in *)
(* the list begins, free too, swallows it.                                  *)
Swallow(done, b) ==
    LET k == Len(done)
    IN  IF k > 0 /\ done[k].free /\ b.free /\ End(done[k]) = b.addr
        THEN [done EXCEPT ![k].size = @ + HEAP_HEADER_SIZE + b.size]
        ELSE Append(done, b)

(* Mutant of Coalesce: freed blocks are never merged. *)
KeepApart(list) == list

(* The list as the pass has left its first n blocks *)
Passed(list) ==
    LET done[n \in 0..Len(list)] ==
            IF n = 0 THEN <<>> ELSE Swallow(done[n - 1], list[n])
    IN  done

Coalesce(list) == Passed(list)[Len(list)]

(* kfree of any pointer: the header is looked up in the list, and a pointer *)
(* that is no allocated block is ignored.                                   *)
kfree(ptr) ==
    \E i \in DOMAIN blocks :
        /\ blocks[i].addr + HEAP_HEADER_SIZE = ptr
        /\ ~ blocks[i].free
        /\ blocks' = Coalesce([blocks EXCEPT ![i].free = TRUE])
        /\ live' = {a \in live : a.ptr # ptr}
        /\ UNCHANGED <<owned, pmmVars>>

(* Callers free what they hold; a stale pointer freed a second time is      *)
(* ignored unless the block has been handed out again.                      *)
HeapStep ==
    \/ \E request \in Requests : kmalloc(request)
    \/ \E a \in live : kfree(a.ptr)

(* The other users of frames; they return what they hold, never the heap's. *)
OtherStep ==
    /\ \/ pmm_alloc_frame
       \/ \E count \in 1..MaxRun : pmm_alloc_contiguous(count)
       \/ \E f \in held \ owned : pmm_free_frame(f)
    /\ UNCHANGED heapVars

Next == HeapStep \/ OtherStep

Spec == Init /\ [][Next]_vars

(***************************************************************************)
(* Properties                                                              *)
(***************************************************************************)

TypeOK ==
    /\ PmmTypeOK
    /\ blocks \in Seq([addr : Nat, size : Nat, free : BOOLEAN])
    /\ owned \subseteq Frames
    /\ live \subseteq [ptr : Nat, size : Nat]

Extent(b) == b.addr..(End(b) - 1)

(* The blocks tile the heap's memory: no two overlap and every word of      *)
(* every frame the heap owns belongs to one, through splits and merges,     *)
(* merges across two runs of frames included; and nobody else holds those   *)
(* frames.                                                                  *)
BlocksTile ==
    /\ TypeOK
    /\ owned \subseteq held
    /\ \A i, j \in DOMAIN blocks : i # j => Extent(blocks[i]) \cap Extent(blocks[j]) = {}
    /\ UNION {Extent(blocks[i]) : i \in DOMAIN blocks}
         = UNION {(f * PMM_FRAME_SIZE)..((f + 1) * PMM_FRAME_SIZE - 1) : f \in owned}

(* Every live allocation is the used part of exactly one block that is      *)
(* large enough for it, and the used blocks are those and no more.          *)
AllocationsIntact ==
    /\ \A a \in live : \E i \in DOMAIN blocks :
          /\ ~ blocks[i].free
          /\ blocks[i].addr + HEAP_HEADER_SIZE = a.ptr
          /\ blocks[i].size >= a.size
    /\ Cardinality({i \in DOMAIN blocks : ~ blocks[i].free}) = Cardinality(live)

(* Splitting leaves neighbours of a run in list order, so that one pass     *)
(* after a kfree merges every pair of adjacent free blocks of the same run. *)
FreeMergesNeighbours ==
    [][live' \subseteq live =>
         \A i, j \in DOMAIN blocks' :
            (blocks'[i].free /\ blocks'[j].free /\ End(blocks'[i]) = blocks'[j].addr) =>
               blocks'[j].addr % PMM_FRAME_SIZE = 0]_vars

=============================================================================
