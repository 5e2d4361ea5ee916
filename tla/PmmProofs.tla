----------------------------- MODULE PmmProofs ------------------------------
(***************************************************************************)
(* The frame allocator is correct for every amount of memory, every e820   *)
(* map and every set of reserved frames: the three invariants of module    *)
(* Pmm together are inductive.                                             *)
(***************************************************************************)
EXTENDS Pmm, FiniteSetTheorems, TLAPS

(* The inductive invariant.  The parts need each other: the counter stays   *)
(* exact because set_used and set_free count the bits that change, and a    *)
(* freed frame is a usable one only because held frames are.                *)
IInv == PmmTypeOK /\ FreeCount /\ BitmapExact

(* The tracked frames are finitely many, and so are the free ones. *)
LEMMA FramesFinite ==
    /\ IsFiniteSet(Frames)
    /\ \A S : S \subseteq Frames => IsFiniteSet(S) /\ Cardinality(S) \in Nat
<1>1. IsFiniteSet(Frames)
  BY PmmAssumption, FS_Interval DEF Frames
<1>2. ASSUME NEW S, S \subseteq Frames
      PROVE  IsFiniteSet(S) /\ Cardinality(S) \in Nat
  BY <1>1, <1>2, FS_Subset, FS_CardinalityType
<1> QED
  BY <1>1, <1>2

(* Taking free frames keeps the counter of pmm.c exact: set_used subtracts  *)
(* as many as leave the set of clear bits.                                  *)
LEMMA SetUsedCounts ==
    ASSUME PmmTypeOK, FreeCount, NEW S \in SUBSET Frames, set_used(S)
    PROVE  /\ used' = used \cup S
           /\ free_frames' \in Nat
           /\ FreeCount'
<1> DEFINE F == Frames \ used
<1>1. IsFiniteSet(F) /\ Cardinality(F) \in Nat
  BY FramesFinite
<1>2. /\ IsFiniteSet(F \cap S)
      /\ Cardinality(F \cap S) \in Nat
      /\ Cardinality(F \cap S) <= Cardinality(F)
      /\ Cardinality(F \ S) = Cardinality(F) - Cardinality(F \cap S)
  BY <1>1, FS_Intersection, FS_Difference, FS_CardinalityType
<1>3. S \ used = F \cap S
  OBVIOUS
<1>4. /\ used' = used \cup S
      /\ free_frames' = free_frames - Cardinality(F \cap S)
  BY <1>1, <1>2, <1>3 DEF set_used, FreeCount
<1>5. Frames \ used' = F \ S
  BY <1>4
<1>6. free_frames' = Cardinality(F \ S)
  BY <1>2, <1>4 DEF FreeCount
<1>7. free_frames' \in Nat
  BY <1>1, <1>2, <1>6
<1> QED
  BY <1>4, <1>5, <1>6, <1>7 DEF FreeCount

(* Returning frames keeps the counter exact as well. *)
LEMMA SetFreeCounts ==
    ASSUME PmmTypeOK, FreeCount, NEW S \in SUBSET Frames, set_free(S)
    PROVE  /\ used' = used \ S
           /\ free_frames' \in Nat
           /\ FreeCount'
<1> DEFINE F == Frames \ used
           G == S \cap used
<1>1. /\ IsFiniteSet(F) /\ Cardinality(F) \in Nat
      /\ IsFiniteSet(G) /\ Cardinality(G) \in Nat
  BY FramesFinite
<1>2. F \cap G = {}
  OBVIOUS
<1>3. Cardinality(F \cup G) = Cardinality(F) + Cardinality(G)
  <2>1. Cardinality(F \cup G) = Cardinality(F) + Cardinality(G) - Cardinality(F \cap G)
    BY <1>1, FS_Union
  <2> QED
    BY <1>1, <1>2, <2>1, FS_EmptySet
<1>4. Frames \ used' = F \cup G
  BY DEF set_free, PmmTypeOK
<1> QED
  BY <1>1, <1>3, <1>4 DEF set_free, FreeCount

(* pmm_init leaves exactly the usable, unreserved frames clear. *)
LEMMA InitInv == PmmInit => IInv
<1> SUFFICES ASSUME PmmInit PROVE IInv
  OBVIOUS
<1>1. Frames \ used = Usable \ Reserved
  BY PmmAssumption DEF PmmInit
<1>2. Cardinality(Usable \ Reserved) \in Nat
  BY FramesFinite, PmmAssumption
<1> QED
  BY <1>1, <1>2, PmmAssumption DEF PmmInit, IInv, PmmTypeOK, FreeCount, BitmapExact, Frames

(* Frames that were free are handed out: what both allocation functions     *)
(* have in common.                                                          *)
LEMMA TakeInv ==
    ASSUME IInv, NEW S \in SUBSET (Frames \ used),
           set_used(S), held' = held \cup S, search_hint' \in 0..PMM_MAX_FRAMES
    PROVE  IInv'
<1>1. /\ used' = used \cup S
      /\ free_frames' \in Nat
      /\ FreeCount'
  BY SetUsedCounts DEF IInv
<1>2. PmmTypeOK'
  BY <1>1 DEF IInv, PmmTypeOK
<1>3. S \subseteq (Usable \ Reserved) \ held
  BY DEF IInv, BitmapExact
<1>4. BitmapExact'
  BY <1>1, <1>3, PmmAssumption DEF IInv, BitmapExact
<1> QED
  BY <1>1, <1>2, <1>4 DEF IInv

(* Both allocation functions and pmm_free_frame preserve IInv. *)
LEMMA NextInv == IInv /\ [PmmNext]_pmmVars => IInv'
<1> SUFFICES ASSUME IInv, [PmmNext]_pmmVars PROVE IInv'
  OBVIOUS
<1>1. CASE pmm_alloc_frame
  <2>1. PICK f : /\ ~ is_used(f)
                 /\ set_used({f})
                 /\ search_hint' = f + 1
                 /\ held' = held \cup {f}
    BY <1>1 DEF pmm_alloc_frame
  <2>2. f \in Frames \ used
    BY <2>1 DEF is_used
  <2>3. f + 1 \in 0..PMM_MAX_FRAMES
    BY <2>2, PmmAssumption DEF Frames
  <2> QED
    BY <2>1, <2>2, <2>3, TakeInv
<1>2. ASSUME NEW count \in 1..MaxRun, pmm_alloc_contiguous(count)
      PROVE  IInv'
  <2>1. PICK first \in Frames : /\ IsFreeRun(first, count)
                                /\ set_used(Run(first, count))
                                /\ held' = held \cup Run(first, count)
                                /\ UNCHANGED search_hint
    BY <1>2 DEF pmm_alloc_contiguous, TakeRun
  <2>2. Run(first, count) \subseteq Frames \ used
    BY <2>1 DEF IsFreeRun, is_used
  <2> QED
    BY <2>1, <2>2, TakeInv DEF IInv, PmmTypeOK
<1>3. ASSUME NEW f \in Frames, pmm_free_frame(f)
      PROVE  IInv'
  <2>1. /\ f \in held
        /\ set_free({f})
        /\ held' = held \ {f}
        /\ UNCHANGED search_hint
    BY <1>3 DEF pmm_free_frame
  <2>2. /\ used' = used \ {f}
        /\ free_frames' \in Nat
        /\ FreeCount'
    BY <2>1, SetFreeCounts DEF IInv
  <2>3. PmmTypeOK'
    BY <2>1, <2>2 DEF IInv, PmmTypeOK
  <2>4. BitmapExact'
    BY <2>1, <2>2 DEF IInv, BitmapExact
  <2> QED
    BY <2>2, <2>3, <2>4 DEF IInv
<1>4. CASE UNCHANGED pmmVars
  BY <1>4 DEF IInv, PmmTypeOK, FreeCount, BitmapExact, pmmVars
<1> QED
  BY <1>1, <1>2, <1>3, <1>4 DEF PmmNext

(* pmm.c keeps its data within the tracked range: the hint never leaves     *)
(* 0..PMM_MAX_FRAMES and the bitmap never grows beyond the frames.          *)
THEOREM TypeCorrect == PmmSpec => []PmmTypeOK
<1>1. IInv => PmmTypeOK
  BY DEF IInv
<1> QED
  BY <1>1, InitInv, NextInv, PTL DEF PmmSpec

(* The number pmm_free_frames reports is exact, whatever the interleaving   *)
(* of single and contiguous allocations and frees.                          *)
THEOREM FreeCountExact == PmmSpec => []FreeCount
<1>1. IInv => FreeCount
  BY DEF IInv
<1> QED
  BY <1>1, InitInv, NextInv, PTL DEF PmmSpec

(* No frame is handed out twice, and no reserved frame, no frame outside    *)
(* usable memory and not frame 0 is ever handed out.                        *)
THEOREM NoDoubleAllocation == PmmSpec => []BitmapExact
<1>1. IInv => BitmapExact
  BY DEF IInv
<1> QED
  BY <1>1, InitInv, NextInv, PTL DEF PmmSpec

=============================================================================
