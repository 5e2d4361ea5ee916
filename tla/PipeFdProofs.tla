---------------------------- MODULE PipeFdProofs ----------------------------
(***************************************************************************)
(* The reference counts of the pipes are exact and no sleeper misses its   *)
(* wakeup, for every number of threads, descriptors and pipes, every ring  *)
(* size and every choice of transfers and closes.                          *)
(*                                                                         *)
(* The first part counts descriptors, the second says what the functions   *)
(* of pipe.c do to a record, the third is the invariant and its proof.     *)
(***************************************************************************)
EXTENDS PipeFd, FiniteSetTheorems, TLAPS

(***************************************************************************)
(* Part 1.  Descriptors                                                    *)
(***************************************************************************)

(* What a descriptor is: free, the console or a file, or an end of a pipe. *)
Slot == {FdUnused, Other} \cup {ReadEnd(p) : p \in Pipes} \cup {WriteEnd(p) : p \in Pipes}

Table == [Tids -> [Fds -> Slot]]

(* The descriptors of all threads that hold the slot s *)
Holders(f, s) == {e \in Tids \X Fds : f[e[1]][e[2]] = s}

(* The kinds of slots are told apart by their fields. *)
LEMMA SlotKinds ==
    /\ FdUnused \in Slot /\ Other \in Slot
    /\ \A p \in Pipes : ReadEnd(p) \in Slot /\ WriteEnd(p) \in Slot
    /\ Slot \subseteq FdSlot
    /\ \A p, q : /\ ReadEnd(p) = ReadEnd(q) => p = q
                 /\ WriteEnd(p) = WriteEnd(q) => p = q
                 /\ ReadEnd(p) # WriteEnd(q)
                 /\ ReadEnd(p) # FdUnused /\ ReadEnd(p) # Other
                 /\ WriteEnd(p) # FdUnused /\ WriteEnd(p) # Other
    /\ \A s \in Slot : /\ s.kind = "PIPE_READ" => s.handle \in Pipes /\ s = ReadEnd(s.handle)
                       /\ s.kind = "PIPE_WRITE" => s.handle \in Pipes /\ s = WriteEnd(s.handle)
                       /\ s.kind = "UNUSED" => s = FdUnused
                       /\ s.kind \notin {"PIPE_READ", "PIPE_WRITE"} =>
                            \A p : s # ReadEnd(p) /\ s # WriteEnd(p)
<1>1. /\ FdUnused \in Slot /\ Other \in Slot
      /\ \A p \in Pipes : ReadEnd(p) \in Slot /\ WriteEnd(p) \in Slot
  BY DEF Slot
<1>2. /\ FdUnused \in FdSlot /\ FdUnused.kind = "UNUSED"
      /\ Other \in FdSlot /\ Other.kind = "OTHER"
  BY DEF FdUnused, Other, FdSlot, FdKind
<1>3. \A p : /\ ReadEnd(p).kind = "PIPE_READ" /\ ReadEnd(p).handle = p
             /\ WriteEnd(p).kind = "PIPE_WRITE" /\ WriteEnd(p).handle = p
  BY DEF ReadEnd, WriteEnd
<1>4. \A p \in Pipes : ReadEnd(p) \in FdSlot /\ WriteEnd(p) \in FdSlot
  BY DEF ReadEnd, WriteEnd, FdSlot, FdKind
<1>5. Slot \subseteq FdSlot
  BY <1>2, <1>4 DEF Slot
<1>6. \A p, q : /\ ReadEnd(p) = ReadEnd(q) => p = q
                /\ WriteEnd(p) = WriteEnd(q) => p = q
                /\ ReadEnd(p) # WriteEnd(q)
                /\ ReadEnd(p) # FdUnused /\ ReadEnd(p) # Other
                /\ WriteEnd(p) # FdUnused /\ WriteEnd(p) # Other
  <2>1. TAKE p, q
  <2>2. /\ ReadEnd(p) = ReadEnd(q) => p = q
        /\ WriteEnd(p) = WriteEnd(q) => p = q
    <3>1. ASSUME ReadEnd(p) = ReadEnd(q) PROVE p = q
      <4>1. ReadEnd(p).handle = ReadEnd(q).handle
        BY <3>1
      <4> QED
        BY <1>3, <4>1
    <3>2. ASSUME WriteEnd(p) = WriteEnd(q) PROVE p = q
      <4>1. WriteEnd(p).handle = WriteEnd(q).handle
        BY <3>2
      <4> QED
        BY <1>3, <4>1
    <3> QED
      BY <3>1, <3>2
  <2> QED
    BY <1>2, <1>3, <2>2
<1>7. ASSUME NEW s \in Slot
      PROVE  /\ s.kind = "PIPE_READ" => s.handle \in Pipes /\ s = ReadEnd(s.handle)
             /\ s.kind = "PIPE_WRITE" => s.handle \in Pipes /\ s = WriteEnd(s.handle)
             /\ s.kind = "UNUSED" => s = FdUnused
             /\ s.kind \notin {"PIPE_READ", "PIPE_WRITE"} =>
                  \A p : s # ReadEnd(p) /\ s # WriteEnd(p)
  <2>1. CASE s = FdUnused \/ s = Other
    BY <1>2, <1>3, <2>1
  <2>2. ASSUME NEW p \in Pipes, s = ReadEnd(p)
        PROVE  /\ s.kind = "PIPE_READ" /\ s.handle \in Pipes /\ s = ReadEnd(s.handle)
    BY <1>3, <2>2
  <2>3. ASSUME NEW p \in Pipes, s = WriteEnd(p)
        PROVE  /\ s.kind = "PIPE_WRITE" /\ s.handle \in Pipes /\ s = WriteEnd(s.handle)
    BY <1>3, <2>3
  <2> QED
    BY <2>1, <2>2, <2>3 DEF Slot
<1> QED
  BY <1>1, <1>5, <1>6, <1>7

(* There are finitely many descriptors. *)
LEMMA HoldersFinite ==
    ASSUME NEW f, NEW s
    PROVE  /\ IsFiniteSet(Holders(f, s))
           /\ Cardinality(Holders(f, s)) \in Nat
           /\ Cardinality(Holders(f, s)) = 0 <=> Holders(f, s) = {}
<1>1. IsFiniteSet(Fds)
  BY FS_Interval, PipeFdAssumption DEF Fds
<1>2. IsFiniteSet(Tids \X Fds)
  BY <1>1, FS_Product, PipeFdAssumption
<1>3. Holders(f, s) \in SUBSET (Tids \X Fds)
  BY DEF Holders
<1>4. IsFiniteSet(Holders(f, s))
  BY <1>2, <1>3, FS_Subset
<1> QED
  BY <1>4, FS_CardinalityType, FS_EmptySet

(* A write of one slot adds or removes one holder. *)
LEMMA HoldersOneSlot ==
    ASSUME NEW f \in Table, NEW g \in Table, NEW t \in Tids, NEW fd \in Fds,
           \A x \in Tids, y \in Fds : x # t \/ y # fd => g[x][y] = f[x][y]
    PROVE  \A s : Holders(g, s) = IF s = g[t][fd] THEN Holders(f, s) \cup {<<t, fd>>}
                                  ELSE Holders(f, s) \ {<<t, fd>>}
<1>1. ASSUME NEW s, NEW e \in Tids \X Fds
      PROVE  e \in Holders(g, s) <=>
               IF s = g[t][fd] THEN e \in Holders(f, s) \cup {<<t, fd>>}
               ELSE e \in Holders(f, s) \ {<<t, fd>>}
  BY DEF Holders
<1>2. \A s : Holders(f, s) \subseteq Tids \X Fds /\ Holders(g, s) \subseteq Tids \X Fds
  BY DEF Holders
<1> QED
  BY <1>1, <1>2

(* A write of a whole table replaces what its thread holds. *)
LEMMA HoldersOneThread ==
    ASSUME NEW f \in Table, NEW g \in Table, NEW t \in Tids,
           \A x \in Tids : x # t => g[x] = f[x]
    PROVE  \A s : Holders(g, s) = (Holders(f, s) \ ({t} \X {fd \in Fds : f[t][fd] = s}))
                                     \cup ({t} \X {fd \in Fds : g[t][fd] = s})
<1>1. ASSUME NEW s, NEW x \in Tids, NEW y \in Fds
      PROVE  <<x, y>> \in Holders(g, s) <=>
               <<x, y>> \in (Holders(f, s) \ ({t} \X {fd \in Fds : f[t][fd] = s}))
                               \cup ({t} \X {fd \in Fds : g[t][fd] = s})
  BY DEF Holders
<1>2. \A s : Holders(f, s) \subseteq Tids \X Fds /\ Holders(g, s) \subseteq Tids \X Fds
  BY DEF Holders
<1>3. ASSUME NEW s
      PROVE  Holders(g, s) = (Holders(f, s) \ ({t} \X {fd \in Fds : f[t][fd] = s}))
                               \cup ({t} \X {fd \in Fds : g[t][fd] = s})
  BY <1>1, <1>2
<1> QED
  BY <1>3

(* As many descriptors of a thread hold a slot as its own table has *)
LEMMA OwnHolders ==
    ASSUME NEW t \in Tids, NEW F \in SUBSET Fds
    PROVE  IsFiniteSet({t} \X F) /\ Cardinality({t} \X F) = Cardinality(F)
<1>0. IsFiniteSet(Fds)
  BY FS_Interval, PipeFdAssumption DEF Fds
<1>1. IsFiniteSet(F) /\ Cardinality(F) \in Nat
  BY <1>0, FS_Subset, FS_CardinalityType
<1>2. IsFiniteSet({t}) /\ Cardinality({t}) = 1
  BY FS_Singleton
<1>3. /\ IsFiniteSet({t} \X F)
      /\ Cardinality({t} \X F) = Cardinality({t}) * Cardinality(F)
  BY <1>1, <1>2, FS_Product
<1> QED
  BY <1>1, <1>2, <1>3

(***************************************************************************)
(* Part 2.  Pipe records                                                   *)
(***************************************************************************)

(* The counts of a record against the descriptors that hold its ends *)
Exact(rec, R, W) ==
    IF rec.in_use
    THEN /\ rec.readers = Cardinality(R)
         /\ rec.writers = Cardinality(W)
         /\ rec.readers + rec.writers > 0
    ELSE R = {} /\ W = {}

(* What the closes of pipe.c make of one record *)
LEMMA ClosedRecord ==
    ASSUME NEW ps \in [Pipes -> PipeRec], NEW p \in Pipes, NEW r \in Nat, NEW w \in Nat
    PROVE  /\ CloseEnds(ps, p, r, w) \in [Pipes -> PipeRec]
           /\ CloseEnds(ps, p, r, w)[p].count = ps[p].count
           /\ ps[p].in_use =>
                /\ CloseEnds(ps, p, r, w)[p].readers = Less(ps[p].readers, r)
                /\ CloseEnds(ps, p, r, w)[p].writers = Less(ps[p].writers, w)
                /\ CloseEnds(ps, p, r, w)[p].in_use <=>
                     Less(ps[p].readers, r) > 0 \/ Less(ps[p].writers, w) > 0
           /\ ~ ps[p].in_use => ~ CloseEnds(ps, p, r, w)[p].in_use
           /\ \A q \in Pipes : q # p => CloseEnds(ps, p, r, w)[q] = ps[q]
<1>1. CASE ~ ps[p].in_use
  BY <1>1 DEF CloseEnds
<1>2. CASE ps[p].in_use
  <2> DEFINE rd == Less(ps[p].readers, r)
             wr == Less(ps[p].writers, w)
             up == rd > 0 \/ wr > 0
             new == [in_use |-> up, count |-> ps[p].count, readers |-> rd, writers |-> wr]
  <2>1. rd \in Nat /\ wr \in Nat /\ up \in BOOLEAN /\ ps[p].count \in 0..PIPE_BUF_SIZE
    BY DEF Less, PipeRec
  <2>2. CloseEnds(ps, p, r, w) = [ps EXCEPT ![p] = new]
    BY <1>2 DEF CloseEnds
  <2> HIDE DEF rd, wr, up
  <2>3. /\ new \in PipeRec
        /\ new.count = ps[p].count /\ new.readers = rd /\ new.writers = wr
        /\ new.in_use = up
    BY <2>1 DEF PipeRec
  <2> HIDE DEF new
  <2>4. /\ CloseEnds(ps, p, r, w) \in [Pipes -> PipeRec]
        /\ CloseEnds(ps, p, r, w)[p] = new
        /\ \A x \in Pipes : x # p => CloseEnds(ps, p, r, w)[x] = ps[x]
    BY <2>2, <2>3, Zenon
  <2> QED
    BY <1>2, <2>3, <2>4 DEF rd, wr, up
<1> QED
  BY <1>1, <1>2

(* Closing descriptors keeps a record exact, if each is counted. *)
LEMMA CloseKeepsExact ==
    ASSUME NEW ps \in [Pipes -> PipeRec], NEW p \in Pipes,
           NEW R, IsFiniteSet(R), NEW W, IsFiniteSet(W), Exact(ps[p], R, W),
           NEW RC \in SUBSET R, NEW WC \in SUBSET W
    PROVE  Exact(CloseEnds(ps, p, Cardinality(RC), Cardinality(WC))[p], R \ RC, W \ WC)
<1>1. /\ IsFiniteSet(RC) /\ Cardinality(RC) \in Nat /\ IsFiniteSet(WC) /\ Cardinality(WC) \in Nat
      /\ Cardinality(RC) <= Cardinality(R) /\ Cardinality(WC) <= Cardinality(W)
      /\ Cardinality(R) \in Nat /\ Cardinality(W) \in Nat
  BY FS_Subset, FS_CardinalityType
<1>2. /\ IsFiniteSet(R \ RC) /\ Cardinality(R \ RC) = Cardinality(R) - Cardinality(RC)
      /\ IsFiniteSet(W \ WC) /\ Cardinality(W \ WC) = Cardinality(W) - Cardinality(WC)
  <2>1. R \cap RC = RC /\ W \cap WC = WC
    OBVIOUS
  <2>2. /\ IsFiniteSet(R \ RC)
        /\ Cardinality(R \ RC) = Cardinality(R) - Cardinality(R \cap RC)
    BY FS_Difference
  <2>3. /\ IsFiniteSet(W \ WC)
        /\ Cardinality(W \ WC) = Cardinality(W) - Cardinality(W \cap WC)
    BY FS_Difference
  <2> QED
    BY <2>1, <2>2, <2>3
<1>3. /\ Cardinality(R \ RC) = 0 => R \ RC = {}
      /\ Cardinality(W \ WC) = 0 => W \ WC = {}
  BY <1>2, FS_EmptySet
<1> DEFINE new == CloseEnds(ps, p, Cardinality(RC), Cardinality(WC))[p]
<1>4. /\ ps[p].in_use =>
           /\ new.readers = Less(ps[p].readers, Cardinality(RC))
           /\ new.writers = Less(ps[p].writers, Cardinality(WC))
           /\ new.in_use <=> new.readers > 0 \/ new.writers > 0
      /\ ~ ps[p].in_use => ~ new.in_use
  BY <1>1, ClosedRecord
<1> HIDE DEF new
<1>5. CASE ps[p].in_use
  <2>1. /\ ps[p].readers = Cardinality(R) /\ ps[p].writers = Cardinality(W)
    BY <1>5 DEF Exact
  <2>2. /\ new.readers = Cardinality(R \ RC) /\ new.writers = Cardinality(W \ WC)
        /\ new.readers \in Nat /\ new.writers \in Nat
        /\ new.in_use <=> new.readers > 0 \/ new.writers > 0
    BY <1>1, <1>2, <1>4, <1>5, <2>1 DEF Less
  <2>3. CASE new.in_use
    BY <2>2, <2>3 DEF Exact, new
  <2>4. CASE ~ new.in_use
    BY <1>3, <2>2, <2>4 DEF Exact, new
  <2> QED
    BY <2>3, <2>4
<1>6. CASE ~ ps[p].in_use
  BY <1>4, <1>6 DEF Exact, new
<1> QED
  BY <1>5, <1>6

(* A descriptor more on an end, and one more reader or writer, if the pipe *)
(* is in use.                                                              *)
LEMMA AddKeepsExact ==
    ASSUME NEW rec \in PipeRec, NEW new \in PipeRec, new.in_use = rec.in_use,
           NEW R, IsFiniteSet(R), NEW W, IsFiniteSet(W), Exact(rec, R, W),
           NEW RN, NEW WN,
           \/ RN = R /\ new.readers = rec.readers
           \/ /\ rec.in_use /\ new.readers = rec.readers + 1
              /\ \E e : e \notin R /\ RN = R \cup {e},
           \/ WN = W /\ new.writers = rec.writers
           \/ /\ rec.in_use /\ new.writers = rec.writers + 1
              /\ \E e : e \notin W /\ WN = W \cup {e}
    PROVE  Exact(new, RN, WN)
<1>1. CASE ~ rec.in_use
  BY <1>1 DEF Exact
<1>2. CASE rec.in_use
  <2>1. /\ rec.readers = Cardinality(R) /\ rec.writers = Cardinality(W)
        /\ rec.readers \in Nat /\ rec.writers \in Nat
        /\ rec.readers + rec.writers > 0
    BY <1>2 DEF Exact, PipeRec
  <2>2. Cardinality(RN) = new.readers /\ new.readers >= rec.readers /\ new.readers \in Nat
    BY <2>1, FS_AddElement
  <2>3. Cardinality(WN) = new.writers /\ new.writers >= rec.writers /\ new.writers \in Nat
    BY <2>1, FS_AddElement
  <2> QED
    BY <1>2, <2>1, <2>2, <2>3 DEF Exact
<1> QED
  BY <1>1, <1>2

(***************************************************************************)
(* Part 3.  The invariant                                                  *)
(***************************************************************************)

(* Every pipe's counts against the descriptors *)
AllExact(ps, f) ==
    \A p \in Pipes : Exact(ps[p], Holders(f, ReadEnd(p)), Holders(f, WriteEnd(p)))

(* A slot of the thread table that is free holds no descriptor, so the     *)
(* table that a spawn writes into it drops none.                           *)
UnusedHoldNothing == \A t \in Tids : life[t] = "unused" => fds[t] = NoFds

(* A thread inside pipe_read or pipe_write is alive and holds the end that *)
(* it uses, because it cannot close anything meanwhile.                    *)
CallsHold ==
    \A t \in Tids : call[t] # NoCall =>
        /\ life[t] = "live"
        /\ \/ call[t].op = "read" /\ \E fd \in Fds : fds[t][fd] = ReadEnd(call[t].idx)
           \/ call[t].op = "write" /\ \E fd \in Fds : fds[t][fd] = WriteEnd(call[t].idx)

(* The pipe gives a caller of this kind nothing to do. *)
Starves(rec, op) ==
    /\ rec.in_use
    /\ op = "read" => rec.count = 0 /\ rec.writers > 0
    /\ op = "write" => rec.count = PIPE_BUF_SIZE /\ rec.readers > 0

SleepersWait ==
    \A t \in blocked : call[t] # NoCall /\ Starves(pipes[call[t].idx], call[t].op)

IInv ==
    /\ TypeOK /\ fds \in Table
    /\ AllExact(pipes, fds)
    /\ UnusedHoldNothing
    /\ CallsHold
    /\ SleepersWait

(* The inductive invariant gives the two properties. *)
LEMMA InvariantImplies == IInv => RefCounts /\ NoLostPipeWakeup
<1> SUFFICES ASSUME IInv PROVE RefCounts /\ NoLostPipeWakeup
  OBVIOUS
<1>1. RefCounts
  BY DEF IInv, RefCounts, AllExact, Exact, ReadEnds, WriteEnds, Holders
<1>2. ASSUME NEW t \in blocked
      PROVE  /\ life[t] = "live"
             /\ pipes[call[t].idx].in_use
             /\ call[t].op = "read" =>
                  /\ pipes[call[t].idx].count = 0 /\ pipes[call[t].idx].writers > 0
                  /\ ReadEndsOf(t, call[t].idx) # {}
             /\ call[t].op = "write" =>
                  /\ pipes[call[t].idx].count = PIPE_BUF_SIZE
                  /\ pipes[call[t].idx].readers > 0
                  /\ WriteEndsOf(t, call[t].idx) # {}
  <2>1. t \in Tids
    BY DEF IInv, TypeOK
  <2>2. call[t] # NoCall /\ Starves(pipes[call[t].idx], call[t].op)
    BY DEF IInv, SleepersWait
  <2>3. /\ life[t] = "live"
        /\ \/ call[t].op = "read" /\ \E fd \in Fds : fds[t][fd] = ReadEnd(call[t].idx)
           \/ call[t].op = "write" /\ \E fd \in Fds : fds[t][fd] = WriteEnd(call[t].idx)
    BY <2>1, <2>2 DEF IInv, CallsHold
  <2> QED
    BY <2>2, <2>3 DEF Starves, ReadEndsOf, WriteEndsOf
<1> QED
  BY <1>1, <1>2 DEF NoLostPipeWakeup

(* A thread that holds an end holds it of a pipe in use. *)
LEMMA HeldPipe ==
    ASSUME IInv, NEW t \in Tids, NEW fd \in Fds
    PROVE  /\ fds[t][fd] \in Slot
           /\ \A p : fds[t][fd] = ReadEnd(p) \/ fds[t][fd] = WriteEnd(p) =>
                p \in Pipes /\ pipes[p].in_use
<1>1. fds[t][fd] \in Slot
  BY DEF IInv, Table
<1>2. ASSUME NEW p, fds[t][fd] = ReadEnd(p) \/ fds[t][fd] = WriteEnd(p)
      PROVE  p \in Pipes /\ pipes[p].in_use
  <2>1. p \in Pipes
    <3>1. /\ ReadEnd(p).kind = "PIPE_READ" /\ ReadEnd(p).handle = p
          /\ WriteEnd(p).kind = "PIPE_WRITE" /\ WriteEnd(p).handle = p
      BY DEF ReadEnd, WriteEnd
    <3> QED
      BY <1>1, <1>2, <3>1, SlotKinds
  <2>2. <<t, fd>> \in Holders(fds, ReadEnd(p)) \cup Holders(fds, WriteEnd(p))
    BY <1>2 DEF Holders
  <2> QED
    BY <2>1, <2>2 DEF IInv, AllExact, Exact
<1> QED
  BY <1>1, <1>2

(* The pipe of a call is a pipe in use. *)
LEMMA CalledPipe ==
    ASSUME IInv, NEW t \in Tids, call[t] # NoCall
    PROVE  call[t].idx \in Pipes /\ pipes[call[t].idx].in_use
  BY HeldPipe DEF IInv, CallsHold

(* A thread in user mode does not sleep. *)
LEMMA UserIsAwake ==
    ASSUME IInv, NEW t \in Tids, InUser(t)
    PROVE  t \notin blocked
  BY DEF IInv, SleepersWait, InUser

(* A step after which the sleepers that are left are as hungry as before. *)
LEMMA SleepersKept ==
    ASSUME IInv, blocked' \subseteq blocked,
           \A t \in blocked' : call'[t] = call[t] /\
                               Starves(pipes'[call[t].idx], call[t].op)
    PROVE  SleepersWait'
  BY DEF IInv, SleepersWait, Starves

(* What IInv needs of a record that a transfer leaves behind *)
LEMMA CallTypes ==
    /\ NoCall \in Call
    /\ \A op \in {"read", "write"}, idx \in Pipes, len \in Lens \cup {0} :
         /\ [op |-> op, idx |-> idx, len |-> len] \in Call
         /\ [op |-> op, idx |-> idx, len |-> len].op = op
         /\ [op |-> op, idx |-> idx, len |-> len].idx = idx
         /\ [op |-> op, idx |-> idx, len |-> len] # NoCall
<1>1. NoCall \in Call
  BY DEF NoCall, Call
<1>2. ASSUME NEW op \in {"read", "write"}, NEW idx \in Pipes, NEW len \in Lens \cup {0}
      PROVE  /\ [op |-> op, idx |-> idx, len |-> len] \in Call
             /\ [op |-> op, idx |-> idx, len |-> len].op = op
             /\ [op |-> op, idx |-> idx, len |-> len].idx = idx
             /\ [op |-> op, idx |-> idx, len |-> len] # NoCall
  <2>1. NoCall.op = "none"
    BY DEF NoCall
  <2>2. [op |-> op, idx |-> idx, len |-> len].op # "none"
    OBVIOUS
  <2> QED
    BY <2>1, <2>2 DEF Call
<1> QED
  BY <1>1, <1>2

(* A thread that is awake leaves its call. *)
LEMMA ReturnStep ==
    ASSUME IInv, NEW t \in Tids, t \notin blocked, life[t] = "live", Return(t),
           UNCHANGED <<life, parent, fds, pipes, blocked>>
    PROVE  IInv'
<1>1. /\ call' = [call EXCEPT ![t] = NoCall] /\ call \in [Tids -> Call]
      /\ blocked \subseteq Tids
  BY DEF Return, IInv, TypeOK
<1>2. /\ call' \in [Tids -> Call] /\ call'[t] = NoCall
      /\ \A x \in Tids : x # t => call'[x] = call[x]
  BY <1>1, CallTypes
<1>3. TypeOK' /\ fds' \in Table /\ AllExact(pipes', fds') /\ UnusedHoldNothing'
  BY <1>2 DEF IInv, TypeOK, UnusedHoldNothing
<1>4. CallsHold'
  BY <1>2 DEF IInv, CallsHold
<1>5. SleepersWait'
  BY <1>1, <1>2 DEF IInv, SleepersWait
<1> QED
  BY <1>3, <1>4, <1>5 DEF IInv

(* A thread that is awake moves bytes, wakes the sleepers of the pipe and  *)
(* leaves its call.                                                        *)
LEMMA TransferStep ==
    ASSUME IInv, NEW t \in Tids, t \notin blocked, life[t] = "live",
           NEW idx \in Pipes, NEW n \in 0..PIPE_BUF_SIZE,
           pipes' = [pipes EXCEPT ![idx].count = n],
           blocked' = blocked \ Woken(idx), Return(t),
           UNCHANGED <<life, parent, fds>>
    PROVE  IInv'
<1>1. /\ call' = [call EXCEPT ![t] = NoCall] /\ call \in [Tids -> Call]
      /\ blocked \subseteq Tids /\ pipes \in [Pipes -> PipeRec]
  BY DEF Return, IInv, TypeOK
<1>2. /\ call' \in [Tids -> Call] /\ call'[t] = NoCall
      /\ \A x \in Tids : x # t => call'[x] = call[x]
  BY <1>1, CallTypes
<1>3. /\ pipes' \in [Pipes -> PipeRec]
      /\ pipes'[idx].in_use = pipes[idx].in_use
      /\ pipes'[idx].readers = pipes[idx].readers
      /\ pipes'[idx].writers = pipes[idx].writers
      /\ \A q \in Pipes : q # idx => pipes'[q] = pipes[q]
  BY <1>1 DEF PipeRec
<1>4. TypeOK' /\ fds' \in Table /\ UnusedHoldNothing'
  BY <1>2, <1>3 DEF IInv, TypeOK, UnusedHoldNothing
<1>5. AllExact(pipes', fds')
  <2>1. SUFFICES ASSUME NEW p \in Pipes
                 PROVE  Exact(pipes'[p], Holders(fds, ReadEnd(p)), Holders(fds, WriteEnd(p)))
    BY DEF AllExact
  <2>2. Exact(pipes[p], Holders(fds, ReadEnd(p)), Holders(fds, WriteEnd(p)))
    BY DEF IInv, AllExact
  <2> QED
    BY <1>3, <2>2 DEF Exact
<1>6. CallsHold'
  BY <1>2 DEF IInv, CallsHold
<1>7. SleepersWait'
  <2>1. SUFFICES ASSUME NEW x \in blocked'
                 PROVE  call'[x] = call[x] /\ Starves(pipes'[call[x].idx], call[x].op)
    BY SleepersKept
  <2>2. x \in blocked /\ x \in Tids /\ call[x].idx # idx /\ x # t
    BY <1>1 DEF Woken
  <2>3. call[x] # NoCall /\ Starves(pipes[call[x].idx], call[x].op)
    BY <2>2 DEF IInv, SleepersWait
  <2>4. call[x].idx \in Pipes
    BY <2>2, <2>3, CalledPipe
  <2> QED
    BY <1>2, <1>3, <2>2, <2>3, <2>4
<1> QED
  BY <1>4, <1>5, <1>6, <1>7 DEF IInv

(* A thread that finds nothing to do goes to sleep on a pipe it holds. *)
LEMMA SleepStep ==
    ASSUME IInv, NEW t \in Tids, life[t] = "live",
           NEW op \in {"read", "write"}, NEW idx \in Pipes, NEW len \in Lens \cup {0},
           op = "read" => \E fd \in Fds : fds[t][fd] = ReadEnd(idx),
           op = "write" => \E fd \in Fds : fds[t][fd] = WriteEnd(idx),
           Starves(pipes[idx], op),
           Sleep(t, [op |-> op, idx |-> idx, len |-> len]),
           UNCHANGED <<life, parent, fds>>
    PROVE  IInv'
<1> DEFINE c == [op |-> op, idx |-> idx, len |-> len]
<1>1. c \in Call /\ c.op = op /\ c.idx = idx /\ c # NoCall
  BY CallTypes
<1>2. /\ call' = [call EXCEPT ![t] = c] /\ call \in [Tids -> Call]
      /\ blocked' = blocked \cup {t} /\ pipes' = pipes /\ blocked \subseteq Tids
  BY DEF Sleep, IInv, TypeOK
<1> HIDE DEF c
<1>3. /\ call' \in [Tids -> Call] /\ call'[t] = c
      /\ \A x \in Tids : x # t => call'[x] = call[x]
  BY <1>1, <1>2
<1>4. TypeOK' /\ fds' \in Table /\ AllExact(pipes', fds') /\ UnusedHoldNothing'
  BY <1>2, <1>3 DEF IInv, TypeOK, UnusedHoldNothing
<1>5. CallsHold'
  BY <1>1, <1>3 DEF IInv, CallsHold
<1>6. SleepersWait'
  BY <1>1, <1>2, <1>3 DEF IInv, SleepersWait
<1> QED
  BY <1>4, <1>5, <1>6 DEF IInv

(* One pass through the loop of pipe_read *)
LEMMA ReadStep ==
    ASSUME IInv, NEW t \in Tids, t \notin blocked, life[t] = "live",
           NEW idx, NEW len \in Lens \cup {0},
           NEW fd \in Fds, fds[t][fd] = ReadEnd(idx),
           pipe_read(t, idx, len), UNCHANGED <<life, parent, fds>>
    PROVE  IInv'
<1>1. idx \in Pipes /\ pipes[idx].in_use
  BY HeldPipe
<1>2. /\ pipes \in [Pipes -> PipeRec] /\ pipes[idx].count \in 0..PIPE_BUF_SIZE
      /\ pipes[idx].writers \in Nat /\ len \in Nat
  BY <1>1, PipeFdAssumption DEF IInv, TypeOK, PipeRec
<1>3. CASE Return(t) /\ UNCHANGED <<pipes, blocked>>
  BY <1>3, ReturnStep
<1>4. CASE /\ pipes' = [pipes EXCEPT ![idx].count = @ - Smaller(@, len)]
           /\ blocked' = blocked \ Woken(idx) /\ Return(t)
  <2>1. pipes[idx].count - Smaller(pipes[idx].count, len) \in 0..PIPE_BUF_SIZE
    BY <1>2, PipeFdAssumption DEF Smaller
  <2>2. pipes' = [pipes EXCEPT ![idx].count = pipes[idx].count - Smaller(pipes[idx].count, len)]
    BY <1>1, <1>2, <1>4
  <2> QED
    BY <1>1, <1>4, <2>1, <2>2, TransferStep
<1>5. CASE /\ pipes[idx].count = 0 /\ pipes[idx].writers > 0
           /\ Sleep(t, [op |-> "read", idx |-> idx, len |-> len])
  <2>1. Starves(pipes[idx], "read")
    BY <1>1, <1>5 DEF Starves
  <2> QED
    BY <1>1, <1>5, <2>1, SleepStep
<1> QED
  BY <1>3, <1>4, <1>5 DEF pipe_read

(* One pass through the loop of pipe_write *)
LEMMA WriteStep ==
    ASSUME IInv, NEW t \in Tids, t \notin blocked, life[t] = "live",
           NEW idx, NEW len \in Lens \cup {0},
           NEW fd \in Fds, fds[t][fd] = WriteEnd(idx),
           pipe_write(t, idx, len), UNCHANGED <<life, parent, fds>>
    PROVE  IInv'
<1>1. idx \in Pipes /\ pipes[idx].in_use
  BY HeldPipe
<1>2. /\ pipes \in [Pipes -> PipeRec] /\ pipes[idx].count \in 0..PIPE_BUF_SIZE
      /\ pipes[idx].readers \in Nat /\ len \in Nat
  BY <1>1, PipeFdAssumption DEF IInv, TypeOK, PipeRec
<1>3. CASE Return(t) /\ UNCHANGED <<pipes, blocked>>
  BY <1>3, ReturnStep
<1>4. CASE /\ pipes' = [pipes EXCEPT ![idx].count = @ + Smaller(PIPE_BUF_SIZE - @, len)]
           /\ blocked' = blocked \ Woken(idx) /\ Return(t)
  <2>1. pipes[idx].count + Smaller(PIPE_BUF_SIZE - pipes[idx].count, len) \in 0..PIPE_BUF_SIZE
    BY <1>2, PipeFdAssumption DEF Smaller
  <2>2. pipes' = [pipes EXCEPT ![idx].count =
                    pipes[idx].count + Smaller(PIPE_BUF_SIZE - pipes[idx].count, len)]
    BY <1>1, <1>2, <1>4
  <2> QED
    BY <1>1, <1>4, <2>1, <2>2, TransferStep
<1>5. CASE /\ pipes[idx].readers > 0 /\ pipes[idx].count = PIPE_BUF_SIZE
           /\ Sleep(t, [op |-> "write", idx |-> idx, len |-> len])
  <2>1. Starves(pipes[idx], "write")
    BY <1>1, <1>5 DEF Starves
  <2> QED
    BY <1>1, <1>5, <2>1, SleepStep
<1> QED
  BY <1>3, <1>4, <1>5 DEF pipe_write

(* SYS_READ on a pipe descriptor *)
LEMMA SysReadStep == ASSUME IInv, NEW t \in Tids, SysRead(t) PROVE IInv'
<1>1. PICK fd \in Fds, len \in Lens :
        fds[t][fd].kind = "PIPE_READ" /\ pipe_read(t, fds[t][fd].handle, len)
  BY DEF SysRead
<1>2. life[t] = "live" /\ t \notin blocked /\ UNCHANGED <<life, parent, fds>>
  BY UserIsAwake DEF SysRead, InUser
<1>3. fds[t][fd] = ReadEnd(fds[t][fd].handle)
  BY <1>1, HeldPipe, SlotKinds
<1> QED
  BY <1>1, <1>2, <1>3, ReadStep

(* SYS_WRITE on a pipe descriptor *)
LEMMA SysWriteStep == ASSUME IInv, NEW t \in Tids, SysWrite(t) PROVE IInv'
<1>1. PICK fd \in Fds, len \in Lens :
        fds[t][fd].kind = "PIPE_WRITE" /\ pipe_write(t, fds[t][fd].handle, len)
  BY DEF SysWrite
<1>2. life[t] = "live" /\ t \notin blocked /\ UNCHANGED <<life, parent, fds>>
  BY UserIsAwake DEF SysWrite, InUser
<1>3. fds[t][fd] = WriteEnd(fds[t][fd].handle)
  BY <1>1, HeldPipe, SlotKinds
<1> QED
  BY <1>1, <1>2, <1>3, WriteStep

(* The loop after a wakeup *)
LEMMA RetryStep == ASSUME IInv, NEW t \in Tids, Retry(t) PROVE IInv'
<1>1. /\ life[t] = "live" /\ t \notin blocked /\ call[t] # NoCall
      /\ UNCHANGED <<life, parent, fds>>
  BY DEF Retry
<1>2. call[t].len \in Lens \cup {0}
  BY DEF IInv, TypeOK, Call
<1>3. \/ call[t].op = "read" /\ \E fd \in Fds : fds[t][fd] = ReadEnd(call[t].idx)
      \/ call[t].op = "write" /\ \E fd \in Fds : fds[t][fd] = WriteEnd(call[t].idx)
  BY <1>1 DEF IInv, CallsHold
<1>4. \/ call[t].op = "read" /\ pipe_read(t, call[t].idx, call[t].len)
      \/ call[t].op = "write" /\ pipe_write(t, call[t].idx, call[t].len)
  BY DEF Retry
<1> QED
  BY <1>1, <1>2, <1>3, <1>4, ReadStep, WriteStep

(* SYS_PIPE: a fresh record and its two ends *)
LEMMA SysPipeStep == ASSUME IInv, NEW t \in Tids, SysPipe(t) PROVE IInv'
<1>1. PICK p \in Pipes, r \in Fds, w \in Fds :
        /\ IsFreePipe(p)
        /\ IsFreeFd(fds[t], r)
        /\ IsFreeFd([fds[t] EXCEPT ![r] = ReadEnd(p)], w)
        /\ pipes' = [pipes EXCEPT ![p] = NewPipe]
        /\ fds' = [fds EXCEPT ![t][r] = ReadEnd(p), ![t][w] = WriteEnd(p)]
  BY DEF SysPipe
<1>2. InUser(t) /\ UNCHANGED <<life, parent, call, blocked>>
  BY DEF SysPipe
<1>3. fds \in Table /\ fds[t] \in [Fds -> Slot] /\ pipes \in [Pipes -> PipeRec]
  BY DEF IInv, Table, TypeOK
<1>4. r # w /\ fds[t][r] = FdUnused /\ fds[t][w] = FdUnused
  <2>1. fds[t][r].kind = "UNUSED"
    BY <1>1 DEF IsFreeFd
  <2>2. [fds[t] EXCEPT ![r] = ReadEnd(p)][w].kind = "UNUSED"
    BY <1>1 DEF IsFreeFd
  <2>3. r # w
    BY <1>3, <2>2 DEF ReadEnd
  <2>4. fds[t][w].kind = "UNUSED"
    BY <1>3, <2>2, <2>3
  <2> QED
    BY <1>3, <2>1, <2>3, <2>4, SlotKinds
<1> DEFINE f == [fds EXCEPT ![t][r] = ReadEnd(p)]
<1>5. fds' = [f EXCEPT ![t][w] = WriteEnd(p)]
  BY <1>1
<1>0. ReadEnd(p) \in Slot /\ WriteEnd(p) \in Slot
  BY SlotKinds
<1>6. /\ f \in Table
      /\ \A s : Holders(f, s) = IF s = ReadEnd(p) THEN Holders(fds, s) \cup {<<t, r>>}
                                ELSE Holders(fds, s) \ {<<t, r>>}
  <2>1. /\ f \in Table /\ f[t][r] = ReadEnd(p)
        /\ \A x \in Tids, y \in Fds : x # t \/ y # r => f[x][y] = fds[x][y]
    BY <1>0, <1>3 DEF Table
  <2> HIDE DEF f
  <2> QED
    BY <1>3, <2>1, HoldersOneSlot
<1> HIDE DEF f
<1>7. /\ fds' \in Table
      /\ \A s : Holders(fds', s) = IF s = WriteEnd(p) THEN Holders(f, s) \cup {<<t, w>>}
                                   ELSE Holders(f, s) \ {<<t, w>>}
  <2>1. /\ fds' \in Table /\ fds'[t][w] = WriteEnd(p)
        /\ \A x \in Tids, y \in Fds : x # t \/ y # w => fds'[x][y] = f[x][y]
    BY <1>0, <1>5, <1>6 DEF Table
  <2> QED
    BY <1>6, <2>1, HoldersOneSlot
<1>8. /\ pipes' \in [Pipes -> PipeRec] /\ pipes'[p] = NewPipe
      /\ \A q \in Pipes : q # p => pipes'[q] = pipes[q]
  <2>1. NewPipe \in PipeRec
    BY PipeFdAssumption DEF NewPipe, PipeRec
  <2> QED
    BY <1>1, <1>3, <2>1
<1>9. ~ pipes[p].in_use
  BY <1>1 DEF IsFreePipe
<1>10. /\ \A s : <<t, r>> \in Holders(fds, s) => s = FdUnused
       /\ \A s : <<t, w>> \in Holders(fds, s) => s = FdUnused
  BY <1>4 DEF Holders
<1>11. AllExact(pipes', fds')
  <2>1. SUFFICES ASSUME NEW q \in Pipes
                 PROVE  Exact(pipes'[q], Holders(fds', ReadEnd(q)), Holders(fds', WriteEnd(q)))
    BY DEF AllExact
  <2>2. Exact(pipes[q], Holders(fds, ReadEnd(q)), Holders(fds, WriteEnd(q)))
    BY DEF IInv, AllExact
  <2>3. CASE q = p
    <3>1. Holders(fds, ReadEnd(p)) = {} /\ Holders(fds, WriteEnd(p)) = {}
      BY <1>9, <2>2, <2>3 DEF Exact
    <3>2. Holders(fds', ReadEnd(p)) = {<<t, r>>} /\ Holders(fds', WriteEnd(p)) = {<<t, w>>}
      BY <1>4, <1>6, <1>7, <3>1, SlotKinds
    <3>3. Cardinality({<<t, r>>}) = 1 /\ Cardinality({<<t, w>>}) = 1
      BY FS_Singleton
    <3> QED
      BY <1>8, <2>3, <3>2, <3>3 DEF Exact, NewPipe
  <2>4. CASE q # p
    <3>1. ReadEnd(q) # ReadEnd(p) /\ WriteEnd(q) # WriteEnd(p)
          /\ ReadEnd(q) # WriteEnd(p) /\ WriteEnd(q) # ReadEnd(p)
          /\ ReadEnd(q) # FdUnused /\ WriteEnd(q) # FdUnused
      BY <2>4, SlotKinds
    <3>2. /\ Holders(fds', ReadEnd(q)) = (Holders(fds, ReadEnd(q)) \ {<<t, r>>}) \ {<<t, w>>}
          /\ Holders(fds', WriteEnd(q)) = (Holders(fds, WriteEnd(q)) \ {<<t, r>>}) \ {<<t, w>>}
      BY <1>6, <1>7, <3>1
    <3>3. /\ Holders(fds', ReadEnd(q)) = Holders(fds, ReadEnd(q))
          /\ Holders(fds', WriteEnd(q)) = Holders(fds, WriteEnd(q))
      <4>1. /\ <<t, r>> \notin Holders(fds, ReadEnd(q)) /\ <<t, w>> \notin Holders(fds, ReadEnd(q))
            /\ <<t, r>> \notin Holders(fds, WriteEnd(q)) /\ <<t, w>> \notin Holders(fds, WriteEnd(q))
        BY <1>10, <3>1
      <4> QED
        BY <3>2, <4>1
    <3> QED
      BY <1>8, <2>2, <2>4, <3>3
  <2> QED
    BY <2>3, <2>4
<1>12. /\ \A x \in Tids : x # t => fds'[x] = fds[x]
  BY <1>3, <1>1 DEF Table
<1>13. TypeOK' /\ UnusedHoldNothing'
  <2>1. fds' \in [Tids -> [Fds -> FdSlot]]
    BY <1>7, SlotKinds DEF Table
  <2> QED
    BY <1>2, <1>8, <1>12, <2>1 DEF IInv, TypeOK, UnusedHoldNothing, InUser
<1>14. CallsHold'
  BY <1>2, <1>12 DEF IInv, CallsHold, InUser
<1>15. SleepersWait'
  <2>1. SUFFICES ASSUME NEW x \in blocked
                 PROVE  Starves(pipes'[call[x].idx], call[x].op)
    BY <1>2, SleepersKept
  <2>2. x \in Tids /\ call[x] # NoCall /\ Starves(pipes[call[x].idx], call[x].op)
    BY DEF IInv, TypeOK, SleepersWait
  <2>3. call[x].idx \in Pipes /\ call[x].idx # p
    BY <1>9, <2>2, CalledPipe
  <2> QED
    BY <1>8, <2>2, <2>3
<1> QED
  BY <1>7, <1>11, <1>13, <1>14, <1>15 DEF IInv

(* A step that closes ends of pipe p only and wakes its sleepers: what is  *)
(* left is exact and nobody sleeps on.                                     *)
LEMMA SleepersOfOthers ==
    ASSUME IInv, NEW D \in SUBSET Pipes,
           \A q \in Pipes : q \notin D => pipes'[q] = pipes[q],
           blocked' = {x \in blocked : call[x].idx \notin D}, call' = call
    PROVE  SleepersWait'
<1>1. SUFFICES ASSUME NEW x \in blocked, call[x].idx \notin D
               PROVE  Starves(pipes'[call[x].idx], call[x].op)
  BY SleepersKept
<1>2. x \in Tids /\ call[x] # NoCall /\ Starves(pipes[call[x].idx], call[x].op)
  BY DEF IInv, TypeOK, SleepersWait
<1>3. call[x].idx \in Pipes
  BY <1>2, CalledPipe
<1> QED
  BY <1>1, <1>2, <1>3

(* SYS_PIPE without descriptors: the fresh record is free again *)
LEMMA SysPipeFailsStep == ASSUME IInv, NEW t \in Tids, SysPipeFails(t) PROVE IInv'
<1>1. PICK p \in Pipes :
        /\ IsFreePipe(p)
        /\ pipes' = CloseEnds([pipes EXCEPT ![p] = NewPipe], p, 1, 1)
        /\ blocked' = blocked \ Woken(p)
  BY DEF SysPipeFails
<1>2. UNCHANGED <<life, parent, fds, call>>
  BY DEF SysPipeFails
<1> DEFINE ps == [pipes EXCEPT ![p] = NewPipe]
<1>3. /\ ps \in [Pipes -> PipeRec] /\ ps[p] = NewPipe
      /\ \A q \in Pipes : q # p => ps[q] = pipes[q]
  <2>1. NewPipe \in PipeRec
    BY PipeFdAssumption DEF NewPipe, PipeRec
  <2> QED
    BY <2>1 DEF IInv, TypeOK
<1> HIDE DEF ps
<1>4. /\ pipes' \in [Pipes -> PipeRec]
      /\ ~ pipes'[p].in_use
      /\ \A q \in Pipes : q # p => pipes'[q] = pipes[q]
  <2>1. ps[p].in_use /\ ps[p].readers = 1 /\ ps[p].writers = 1
    BY <1>3 DEF NewPipe
  <2>2. Less(1, 1) = 0
    BY DEF Less
  <2>3. /\ CloseEnds(ps, p, 1, 1) \in [Pipes -> PipeRec]
        /\ CloseEnds(ps, p, 1, 1)[p].in_use <=> Less(1, 1) > 0 \/ Less(1, 1) > 0
        /\ \A q \in Pipes : q # p => CloseEnds(ps, p, 1, 1)[q] = ps[q]
    BY <1>3, <2>1, ClosedRecord
  <2>4. pipes' = CloseEnds(ps, p, 1, 1)
    BY <1>1 DEF ps
  <2> QED
    BY <1>3, <2>2, <2>3, <2>4
<1>5. ~ pipes[p].in_use
  BY <1>1 DEF IsFreePipe
<1>6. AllExact(pipes', fds')
  <2>1. SUFFICES ASSUME NEW q \in Pipes
                 PROVE  Exact(pipes'[q], Holders(fds, ReadEnd(q)), Holders(fds, WriteEnd(q)))
    BY <1>2 DEF AllExact
  <2>2. Exact(pipes[q], Holders(fds, ReadEnd(q)), Holders(fds, WriteEnd(q)))
    BY DEF IInv, AllExact
  <2> QED
    BY <1>4, <1>5, <2>2 DEF Exact
<1>7. SleepersWait'
  <2>1. blocked' = {x \in blocked : call[x].idx \notin {p}}
    BY <1>1 DEF Woken
  <2> QED
    BY <1>2, <1>4, <2>1, SleepersOfOthers, ZenonT(60)
<1>8. blocked' \subseteq blocked
  BY <1>1
<1> QED
  BY <1>2, <1>4, <1>6, <1>7, <1>8 DEF IInv, TypeOK, UnusedHoldNothing, CallsHold

(* A thread exits or is killed. *)
LEMMA DieStep == ASSUME IInv, NEW t \in Tids, Die(t) PROVE IInv'
<1>1. /\ life' = [life EXCEPT ![t] = "zombie"] /\ life[t] = "live"
      /\ call' = [call EXCEPT ![t] = NoCall]
      /\ blocked' = blocked \ {t}
      /\ UNCHANGED <<parent, fds, pipes>>
  BY DEF Die
<1>2. /\ call \in [Tids -> Call] /\ life \in [Tids -> {"unused", "live", "zombie"}]
      /\ blocked \subseteq Tids
  BY DEF IInv, TypeOK
<1>3. /\ call' \in [Tids -> Call] /\ call'[t] = NoCall
      /\ \A x \in Tids : x # t => call'[x] = call[x]
      /\ life' \in [Tids -> {"unused", "live", "zombie"}] /\ life'[t] = "zombie"
      /\ \A x \in Tids : x # t => life'[x] = life[x]
  BY <1>1, <1>2, CallTypes
<1>4. TypeOK' /\ fds' \in Table /\ AllExact(pipes', fds')
  BY <1>1, <1>3 DEF IInv, TypeOK
<1>5. UnusedHoldNothing' /\ CallsHold'
  BY <1>1, <1>3 DEF IInv, UnusedHoldNothing, CallsHold
<1>6. SleepersWait'
  BY <1>1, <1>2, <1>3 DEF IInv, SleepersWait
<1> QED
  BY <1>4, <1>5, <1>6 DEF IInv

(* SYS_CLOSE: the pipe of the descriptor loses the end that is closed *)
LEMMA SysCloseStep == ASSUME IInv, NEW t \in Tids, SysClose(t) PROVE IInv'
<1>1. PICK fd \in Fds :
        /\ fds[t][fd].kind # "UNUSED"
        /\ fds' = [fds EXCEPT ![t][fd] = FdUnused]
        /\ \/ /\ fds[t][fd].kind = "PIPE_READ"
              /\ pipes' = CloseEnds(pipes, fds[t][fd].handle, 1, 0)
              /\ blocked' = blocked \ Woken(fds[t][fd].handle)
           \/ /\ fds[t][fd].kind = "PIPE_WRITE"
              /\ pipes' = CloseEnds(pipes, fds[t][fd].handle, 0, 1)
              /\ blocked' = blocked \ Woken(fds[t][fd].handle)
           \/ /\ fds[t][fd].kind \notin {"PIPE_READ", "PIPE_WRITE"}
              /\ UNCHANGED <<pipes, blocked>>
  BY DEF SysClose
<1>2. InUser(t) /\ UNCHANGED <<life, parent, call>>
  BY DEF SysClose
<1>3. /\ fds \in Table /\ fds[t][fd] \in Slot /\ pipes \in [Pipes -> PipeRec]
      /\ FdUnused \in Slot
  BY SlotKinds DEF IInv, Table, TypeOK
<1>4. /\ fds' \in Table /\ fds'[t][fd] = FdUnused
      /\ \A x \in Tids, y \in Fds : x # t \/ y # fd => fds'[x][y] = fds[x][y]
      /\ \A x \in Tids : x # t => fds'[x] = fds[x]
  BY <1>1, <1>3 DEF Table
<1>5. \A s : s # FdUnused => Holders(fds', s) = Holders(fds, s) \ {<<t, fd>>}
  BY <1>3, <1>4, HoldersOneSlot
<1>6. \A s : <<t, fd>> \in Holders(fds, s) <=> s = fds[t][fd]
  BY DEF Holders
<1>7. \A s : s # FdUnused /\ s # fds[t][fd] => Holders(fds', s) = Holders(fds, s)
  BY <1>5, <1>6
<1>8. /\ pipes' \in [Pipes -> PipeRec] /\ AllExact(pipes', fds')
      /\ SleepersWait' /\ blocked' \subseteq blocked
  <2>1. CASE fds[t][fd].kind \notin {"PIPE_READ", "PIPE_WRITE"}
    <3>1. UNCHANGED <<pipes, blocked>>
      BY <1>1, <2>1
    <3>2. \A p \in Pipes : /\ Holders(fds', ReadEnd(p)) = Holders(fds, ReadEnd(p))
                           /\ Holders(fds', WriteEnd(p)) = Holders(fds, WriteEnd(p))
      BY <1>3, <1>7, <2>1, SlotKinds
    <3> QED
      BY <1>2, <1>3, <3>1, <3>2 DEF IInv, AllExact, SleepersWait
  <2>2. CASE fds[t][fd].kind \in {"PIPE_READ", "PIPE_WRITE"}
    <3>1. PICK p \in Pipes :
            \/ /\ fds[t][fd] = ReadEnd(p) /\ pipes' = CloseEnds(pipes, p, 1, 0)
               /\ blocked' = blocked \ Woken(p)
            \/ /\ fds[t][fd] = WriteEnd(p) /\ pipes' = CloseEnds(pipes, p, 0, 1)
               /\ blocked' = blocked \ Woken(p)
      BY <1>1, <1>3, <2>2, SlotKinds
    <3> DEFINE e == {<<t, fd>>}
               RC == IF fds[t][fd] = ReadEnd(p) THEN e ELSE {}
               WC == IF fds[t][fd] = ReadEnd(p) THEN {} ELSE e
               R == Holders(fds, ReadEnd(p))
               W == Holders(fds, WriteEnd(p))
    <3>2. Cardinality(e) = 1 /\ Cardinality({}) = 0
      BY FS_Singleton, FS_EmptySet
    <3>3. pipes' = CloseEnds(pipes, p, Cardinality(RC), Cardinality(WC))
      BY <3>1, <3>2, SlotKinds
    <3>4. RC \subseteq R /\ WC \subseteq W
      BY <1>6, <3>1
    <3>5. Holders(fds', ReadEnd(p)) = R \ RC /\ Holders(fds', WriteEnd(p)) = W \ WC
      <4>1. CASE fds[t][fd] = ReadEnd(p)
        BY <1>5, <1>7, <4>1, SlotKinds
      <4>2. CASE fds[t][fd] # ReadEnd(p)
        BY <1>5, <1>7, <3>1, <4>2, SlotKinds
      <4> QED
        BY <4>1, <4>2
    <3>6. IsFiniteSet(R) /\ IsFiniteSet(W)
      BY HoldersFinite
    <3>7. Exact(pipes[p], R, W)
      BY DEF IInv, AllExact
    <3> HIDE DEF e, RC, WC, R, W
    <3>8. Exact(pipes'[p], R \ RC, W \ WC)
      BY <1>3, <3>3, <3>4, <3>6, <3>7, CloseKeepsExact
    <3>9. /\ pipes' \in [Pipes -> PipeRec]
          /\ \A q \in Pipes : q # p => pipes'[q] = pipes[q]
      BY <1>3, <3>1, ClosedRecord
    <3>10. AllExact(pipes', fds')
      <4>1. SUFFICES ASSUME NEW q \in Pipes, q # p
                     PROVE  Exact(pipes'[q], Holders(fds', ReadEnd(q)), Holders(fds', WriteEnd(q)))
        BY <3>5, <3>8 DEF AllExact
      <4>2. /\ Holders(fds', ReadEnd(q)) = Holders(fds, ReadEnd(q))
            /\ Holders(fds', WriteEnd(q)) = Holders(fds, WriteEnd(q))
        BY <1>7, <3>1, <4>1, SlotKinds
      <4> QED
        BY <3>9, <4>1, <4>2 DEF IInv, AllExact
    <3>11. SleepersWait' /\ blocked' \subseteq blocked
      <4>1. blocked' = {x \in blocked : call[x].idx \notin {p}}
        BY <3>1 DEF Woken
      <4> QED
        BY <1>2, <3>9, <4>1, SleepersOfOthers, ZenonT(60)
    <3> QED
      BY <3>9, <3>10, <3>11
  <2> QED
    BY <2>1, <2>2
<1>9. TypeOK' /\ UnusedHoldNothing'
  <2>1. fds' \in [Tids -> [Fds -> FdSlot]]
    BY <1>4, SlotKinds DEF Table
  <2> QED
    BY <1>2, <1>4, <1>8, <2>1 DEF IInv, TypeOK, UnusedHoldNothing, InUser
<1>10. CallsHold'
  BY <1>2, <1>4 DEF IInv, CallsHold, InUser
<1> QED
  BY <1>4, <1>8, <1>9, <1>10 DEF IInv

(* process_wait reaps a zombie: every end that it held is closed *)
LEMMA ReapStep == ASSUME IInv, NEW u \in Tids, Reap(u) PROVE IInv'
<1> DEFINE R(p) == ReadEndsOf(u, p)
           W(p) == WriteEndsOf(u, p)
           held == {p \in Pipes : R(p) \cup W(p) # {}}
<1>1. /\ life[u] = "zombie"
      /\ pipes' = [p \in Pipes |->
             IF p \in held THEN CloseEnds(pipes, p, Cardinality(R(p)), Cardinality(W(p)))[p]
             ELSE pipes[p]]
      /\ blocked' = {x \in blocked : call[x].idx \notin held}
      /\ fds' = [fds EXCEPT ![u] = NoFds]
      /\ life' = [life EXCEPT ![u] = "unused"]
      /\ parent' = [x \in Tids |-> IF x = u \/ parent[x] = u THEN "nobody" ELSE parent[x]]
      /\ UNCHANGED call
  BY DEF Reap
<1>2. /\ fds \in Table /\ pipes \in [Pipes -> PipeRec]
      /\ life \in [Tids -> {"unused", "live", "zombie"}]
      /\ parent \in [Tids -> Parents] /\ call \in [Tids -> Call] /\ blocked \subseteq Tids
  BY DEF IInv, TypeOK
<1>3. /\ fds' \in Table /\ fds'[u] = NoFds
      /\ \A x \in Tids : x # u => fds'[x] = fds[x]
  <2>1. NoFds \in [Fds -> Slot]
    BY SlotKinds DEF NoFds
  <2> QED
    BY <1>1, <1>2, <2>1 DEF Table
<1>4. \A p : R(p) \in SUBSET Fds /\ W(p) \in SUBSET Fds
  BY DEF ReadEndsOf, WriteEndsOf
<1>5. ASSUME NEW p \in Pipes
      PROVE  /\ Holders(fds', ReadEnd(p)) = Holders(fds, ReadEnd(p)) \ ({u} \X R(p))
             /\ Holders(fds', WriteEnd(p)) = Holders(fds, WriteEnd(p)) \ ({u} \X W(p))
             /\ {u} \X R(p) \in SUBSET Holders(fds, ReadEnd(p))
             /\ {u} \X W(p) \in SUBSET Holders(fds, WriteEnd(p))
  <2>1. /\ {fd \in Fds : fds'[u][fd] = ReadEnd(p)} = {}
        /\ {fd \in Fds : fds'[u][fd] = WriteEnd(p)} = {}
    BY <1>3, SlotKinds DEF NoFds
  <2>2. /\ {fd \in Fds : fds[u][fd] = ReadEnd(p)} = R(p)
        /\ {fd \in Fds : fds[u][fd] = WriteEnd(p)} = W(p)
    BY DEF ReadEndsOf, WriteEndsOf
  <2>3. \A s : Holders(fds', s) = (Holders(fds, s) \ ({u} \X {fd \in Fds : fds[u][fd] = s}))
                                     \cup ({u} \X {fd \in Fds : fds'[u][fd] = s})
    BY <1>2, <1>3, HoldersOneThread
  <2>4. /\ Holders(fds', ReadEnd(p)) = (Holders(fds, ReadEnd(p)) \ ({u} \X R(p))) \cup ({u} \X {})
        /\ Holders(fds', WriteEnd(p)) = (Holders(fds, WriteEnd(p)) \ ({u} \X W(p))) \cup ({u} \X {})
    BY <2>1, <2>2, <2>3
  <2>5. /\ {u} \X R(p) \in SUBSET Holders(fds, ReadEnd(p))
        /\ {u} \X W(p) \in SUBSET Holders(fds, WriteEnd(p))
    BY DEF Holders, ReadEndsOf, WriteEndsOf
  <2> QED
    BY <2>4, <2>5
<1>6. ASSUME NEW p \in Pipes
      PROVE  /\ pipes'[p] \in PipeRec
             /\ p \notin held => pipes'[p] = pipes[p]
             /\ Exact(pipes'[p], Holders(fds', ReadEnd(p)), Holders(fds', WriteEnd(p)))
  <2>1. Exact(pipes[p], Holders(fds, ReadEnd(p)), Holders(fds, WriteEnd(p)))
    BY DEF IInv, AllExact
  <2>2. CASE p \notin held
    <3>1. R(p) = {} /\ W(p) = {}
      BY <2>2
    <3>2. /\ Holders(fds', ReadEnd(p)) = Holders(fds, ReadEnd(p))
          /\ Holders(fds', WriteEnd(p)) = Holders(fds, WriteEnd(p))
      BY <1>5, <3>1
    <3>3. pipes'[p] = pipes[p]
      BY <1>1, <2>2
    <3> QED
      BY <1>2, <2>1, <3>2, <3>3
  <2>3. CASE p \in held
    <3>1. pipes'[p] = CloseEnds(pipes, p, Cardinality(R(p)), Cardinality(W(p)))[p]
      BY <1>1, <2>3
    <3>2. /\ Cardinality({u} \X R(p)) = Cardinality(R(p))
          /\ Cardinality({u} \X W(p)) = Cardinality(W(p))
          /\ IsFiniteSet({u} \X R(p)) /\ IsFiniteSet({u} \X W(p))
      BY <1>4, OwnHolders
    <3>3. Cardinality(R(p)) \in Nat /\ Cardinality(W(p)) \in Nat
      BY <3>2, FS_CardinalityType
    <3>4. /\ IsFiniteSet(Holders(fds, ReadEnd(p))) /\ IsFiniteSet(Holders(fds, WriteEnd(p)))
      BY HoldersFinite
    <3> HIDE DEF R, W, held
    <3>5. Exact(CloseEnds(pipes, p, Cardinality({u} \X R(p)), Cardinality({u} \X W(p)))[p],
                Holders(fds, ReadEnd(p)) \ ({u} \X R(p)),
                Holders(fds, WriteEnd(p)) \ ({u} \X W(p)))
      BY <1>2, <1>5, <2>1, <3>4, CloseKeepsExact
    <3>6. pipes'[p] \in PipeRec
      BY <1>2, <3>1, <3>3, ClosedRecord
    <3> QED
      BY <1>5, <2>3, <3>1, <3>2, <3>5, <3>6
  <2> QED
    BY <2>2, <2>3
<1>7. pipes' \in [Pipes -> PipeRec] /\ AllExact(pipes', fds')
  <2>1. DOMAIN pipes' = Pipes /\ pipes' = [p \in Pipes |-> pipes'[p]]
    BY <1>1
  <2> HIDE DEF held, R, W
  <2> QED
    BY <1>6, <2>1 DEF AllExact
<1>8. SleepersWait'
  BY <1>1, <1>6, SleepersOfOthers
<1>9. /\ life' \in [Tids -> {"unused", "live", "zombie"}] /\ life'[u] = "unused"
      /\ \A x \in Tids : x # u => life'[x] = life[x]
      /\ parent' \in [Tids -> Parents] /\ blocked' \subseteq blocked
  BY <1>1, <1>2 DEF Parents
<1>10. TypeOK'
  <2>1. fds' \in [Tids -> [Fds -> FdSlot]]
    BY <1>3, SlotKinds DEF Table
  <2> QED
    BY <1>1, <1>2, <1>7, <1>9, <2>1 DEF TypeOK
<1>11. UnusedHoldNothing'
  BY <1>3, <1>9 DEF IInv, UnusedHoldNothing
<1>12. CallsHold'
  BY <1>1, <1>3, <1>9 DEF IInv, CallsHold
<1> QED
  BY <1>3, <1>7, <1>8, <1>10, <1>11, <1>12 DEF IInv

(* SYS_SPAWN_REDIRECT: the child's descriptors are counted on the pipes    *)
(* that the caller names.                                                  *)
LEMMA SysSpawnStep == ASSUME IInv, NEW t \in Tids, SysSpawn(t) PROVE IInv'
<1>1. PICK u \in Tids, in \in Fds \cup {-1}, out \in Fds \cup {-1} :
        /\ life[u] = "unused"
        /\ LET ri == FdGet(t, in).handle
               wi == FdGet(t, out).handle
               piped_in  == FdGet(t, in).kind = "PIPE_READ"
               piped_out == FdGet(t, out).kind = "PIPE_WRITE"
               added == IF piped_in THEN [pipes EXCEPT ![ri].readers = @ + 1] ELSE pipes
           IN  /\ pipes' = IF piped_out THEN [added EXCEPT ![wi].writers = @ + 1] ELSE added
               /\ fds' = [fds EXCEPT ![u] =
                     [ConsoleFds EXCEPT ![0] = IF piped_in THEN ReadEnd(ri) ELSE Other,
                                        ![1] = IF piped_out THEN WriteEnd(wi) ELSE Other]]
        /\ life' = [life EXCEPT ![u] = "live"]
        /\ parent' = [parent EXCEPT ![u] = t]
  BY DEF SysSpawn
<1>2. InUser(t) /\ UNCHANGED <<call, blocked>>
  BY DEF SysSpawn
<1> DEFINE ri == FdGet(t, in).handle
           wi == FdGet(t, out).handle
           piped_in == FdGet(t, in).kind = "PIPE_READ"
           piped_out == FdGet(t, out).kind = "PIPE_WRITE"
           s0 == IF piped_in THEN ReadEnd(ri) ELSE Other
           s1 == IF piped_out THEN WriteEnd(wi) ELSE Other
           added == IF piped_in THEN [pipes EXCEPT ![ri].readers = @ + 1] ELSE pipes
<1>3. /\ fds \in Table /\ pipes \in [Pipes -> PipeRec]
      /\ life \in [Tids -> {"unused", "live", "zombie"}] /\ parent \in [Tids -> Parents]
      /\ fds[u] = NoFds
  BY <1>1 DEF IInv, TypeOK, UnusedHoldNothing
<1>4. /\ piped_in => ri \in Pipes /\ pipes[ri].in_use
      /\ piped_out => wi \in Pipes /\ pipes[wi].in_use
  <2>1. FdUnused.kind = "UNUSED"
    BY DEF FdUnused
  <2>2. ASSUME piped_in
        PROVE  ri \in Pipes /\ pipes[ri].in_use
    <3>1. in \in Fds /\ FdGet(t, in) = fds[t][in]
      BY <2>1, <2>2 DEF FdGet
    <3>2. fds[t][in] \in Slot
      BY <3>1, HeldPipe
    <3>3. fds[t][in] = ReadEnd(fds[t][in].handle)
      BY <2>2, <3>1, <3>2, SlotKinds
    <3> QED
      BY <3>1, <3>3, HeldPipe
  <2>3. ASSUME piped_out
        PROVE  wi \in Pipes /\ pipes[wi].in_use
    <3>1. out \in Fds /\ FdGet(t, out) = fds[t][out]
      BY <2>1, <2>3 DEF FdGet
    <3>2. fds[t][out] \in Slot
      BY <3>1, HeldPipe
    <3>3. fds[t][out] = WriteEnd(fds[t][out].handle)
      BY <2>3, <3>1, <3>2, SlotKinds
    <3> QED
      BY <3>1, <3>3, HeldPipe
  <2> QED
    BY <2>2, <2>3
<1>5. /\ pipes' = IF piped_out THEN [added EXCEPT ![wi].writers = @ + 1] ELSE added
      /\ fds' = [fds EXCEPT ![u] = [ConsoleFds EXCEPT ![0] = s0, ![1] = s1]]
  BY <1>1
<1> HIDE DEF ri, wi, piped_in, piped_out
<1>6. ASSUME NEW p \in Pipes
      PROVE  /\ added \in [Pipes -> PipeRec]
             /\ added[p].in_use = pipes[p].in_use /\ added[p].count = pipes[p].count
             /\ added[p].writers = pipes[p].writers
             /\ added[p].readers = IF piped_in /\ p = ri THEN pipes[p].readers + 1
                                   ELSE pipes[p].readers
  BY <1>3, <1>4 DEF PipeRec
<1>7. ASSUME NEW p \in Pipes
      PROVE  /\ pipes' \in [Pipes -> PipeRec]
             /\ pipes'[p].in_use = pipes[p].in_use /\ pipes'[p].count = pipes[p].count
             /\ pipes'[p].readers = IF piped_in /\ p = ri THEN pipes[p].readers + 1
                                    ELSE pipes[p].readers
             /\ pipes'[p].writers = IF piped_out /\ p = wi THEN pipes[p].writers + 1
                                    ELSE pipes[p].writers
  <2> HIDE DEF added
  <2>1. CASE ~ piped_out
    BY <1>5, <1>6, <2>1
  <2>2. CASE piped_out
    <3>1. pipes' = [added EXCEPT ![wi].writers = @ + 1] /\ wi \in Pipes
      BY <1>4, <1>5, <2>2
    <3>2. /\ pipes' \in [Pipes -> PipeRec]
          /\ pipes'[p].in_use = added[p].in_use /\ pipes'[p].count = added[p].count
          /\ pipes'[p].readers = added[p].readers
          /\ pipes'[p].writers = IF p = wi THEN added[p].writers + 1 ELSE added[p].writers
      BY <1>6, <3>1 DEF PipeRec
    <3> QED
      BY <1>6, <2>2, <3>2
  <2> QED
    BY <2>1, <2>2
<1>8. pipes' \in [Pipes -> PipeRec]
  <2>1. CASE Pipes = {}
    BY <1>3, <1>4, <1>5, <2>1
  <2> QED
    BY <1>7, <2>1
<1>9. /\ fds' \in Table
      /\ \A x \in Tids : x # u => fds'[x] = fds[x]
      /\ \A fd \in Fds : fds'[u][fd] = IF fd = 0 THEN s0 ELSE IF fd = 1 THEN s1 ELSE FdUnused
  <2>1. s0 \in Slot /\ s1 \in Slot /\ FdUnused \in Slot /\ Other \in Slot
    BY <1>4, SlotKinds
  <2>2. 0 \in Fds /\ 1 \in Fds
    BY PipeFdAssumption DEF Fds
  <2> HIDE DEF s0, s1
  <2> DEFINE g == [ConsoleFds EXCEPT ![0] = s0, ![1] = s1]
  <2>3. /\ g \in [Fds -> Slot]
        /\ \A fd \in Fds : g[fd] = IF fd = 0 THEN s0 ELSE IF fd = 1 THEN s1 ELSE FdUnused
    <3>1. /\ ConsoleFds \in [Fds -> Slot]
          /\ \A fd \in Fds : fd # 0 /\ fd # 1 => ConsoleFds[fd] = FdUnused
      BY <2>1 DEF ConsoleFds
    <3> QED
      BY <2>1, <2>2, <3>1
  <2>4. fds' = [fds EXCEPT ![u] = g]
    BY <1>5
  <2> HIDE DEF g
  <2> QED
    BY <1>3, <2>3, <2>4 DEF Table
<1>10. AllExact(pipes', fds')
  <2>1. SUFFICES ASSUME NEW p \in Pipes
                 PROVE  Exact(pipes'[p], Holders(fds', ReadEnd(p)), Holders(fds', WriteEnd(p)))
    BY DEF AllExact
  <2> DEFINE R == Holders(fds, ReadEnd(p))
             W == Holders(fds, WriteEnd(p))
  <2>2. Exact(pipes[p], R, W) /\ IsFiniteSet(R) /\ IsFiniteSet(W)
    BY HoldersFinite DEF IInv, AllExact
  <2>3. \A s : Holders(fds', s) = (Holders(fds, s) \ ({u} \X {fd \in Fds : fds[u][fd] = s}))
                                     \cup ({u} \X {fd \in Fds : fds'[u][fd] = s})
    BY <1>3, <1>9, HoldersOneThread
  <2>4. /\ {fd \in Fds : fds[u][fd] = ReadEnd(p)} = {}
        /\ {fd \in Fds : fds[u][fd] = WriteEnd(p)} = {}
    BY <1>3, SlotKinds DEF NoFds
  <2>5. 0 \in Fds /\ 1 \in Fds
    BY PipeFdAssumption DEF Fds
  <2>6. {fd \in Fds : fds'[u][fd] = ReadEnd(p)} = IF piped_in /\ p = ri THEN {0} ELSE {}
    BY <1>9, <2>5, SlotKinds
  <2>7. {fd \in Fds : fds'[u][fd] = WriteEnd(p)} = IF piped_out /\ p = wi THEN {1} ELSE {}
    BY <1>9, <2>5, SlotKinds
  <2>8. Holders(fds', ReadEnd(p)) = IF piped_in /\ p = ri THEN R \cup {<<u, 0>>} ELSE R
    <3>1. Holders(fds', ReadEnd(p)) =
            (R \ ({u} \X {})) \cup ({u} \X (IF piped_in /\ p = ri THEN {0} ELSE {}))
      BY <2>3, <2>4, <2>6
    <3> QED
      BY <3>1
  <2>9. Holders(fds', WriteEnd(p)) = IF piped_out /\ p = wi THEN W \cup {<<u, 1>>} ELSE W
    <3>1. Holders(fds', WriteEnd(p)) =
            (W \ ({u} \X {})) \cup ({u} \X (IF piped_out /\ p = wi THEN {1} ELSE {}))
      BY <2>3, <2>4, <2>7
    <3> QED
      BY <3>1
  <2>10. <<u, 0>> \notin R /\ <<u, 1>> \notin W
    BY <2>4, <2>5 DEF Holders
  <2> HIDE DEF R, W
  <2>11. \/ Holders(fds', ReadEnd(p)) = R /\ pipes'[p].readers = pipes[p].readers
         \/ /\ pipes[p].in_use /\ pipes'[p].readers = pipes[p].readers + 1
            /\ \E e : e \notin R /\ Holders(fds', ReadEnd(p)) = R \cup {e}
    BY <1>4, <1>7, <2>8, <2>10
  <2>12. \/ Holders(fds', WriteEnd(p)) = W /\ pipes'[p].writers = pipes[p].writers
         \/ /\ pipes[p].in_use /\ pipes'[p].writers = pipes[p].writers + 1
            /\ \E e : e \notin W /\ Holders(fds', WriteEnd(p)) = W \cup {e}
    BY <1>4, <1>7, <2>9, <2>10
  <2>13. pipes[p] \in PipeRec /\ pipes'[p] \in PipeRec /\ pipes'[p].in_use = pipes[p].in_use
    BY <1>3, <1>7, <1>8
  <2> QED
    BY <2>2, <2>11, <2>12, <2>13, AddKeepsExact
<1>11. /\ life' \in [Tids -> {"unused", "live", "zombie"}] /\ life'[u] = "live"
       /\ \A x \in Tids : x # u => life'[x] = life[x]
       /\ parent' \in [Tids -> Parents]
  BY <1>1, <1>3 DEF Parents
<1>12. TypeOK'
  <2>1. fds' \in [Tids -> [Fds -> FdSlot]]
    BY <1>9, SlotKinds DEF Table
  <2> QED
    BY <1>2, <1>8, <1>11, <2>1 DEF IInv, TypeOK
<1>13. UnusedHoldNothing'
  BY <1>9, <1>11 DEF IInv, UnusedHoldNothing
<1>14. CallsHold'
  BY <1>1, <1>2, <1>9, <1>11 DEF IInv, CallsHold
<1>15. SleepersWait'
  <2>1. SUFFICES ASSUME NEW x \in blocked
                 PROVE  Starves(pipes'[call[x].idx], call[x].op)
    BY <1>2, SleepersKept
  <2>2. x \in Tids /\ call[x] # NoCall /\ Starves(pipes[call[x].idx], call[x].op)
    BY DEF IInv, TypeOK, SleepersWait
  <2>3. PICK p \in Pipes : p = call[x].idx
    BY <2>2, CalledPipe
  <2>4. pipes[p].readers \in Nat /\ pipes[p].writers \in Nat
    BY <1>3 DEF PipeRec
  <2>5. /\ pipes'[p].in_use = pipes[p].in_use /\ pipes'[p].count = pipes[p].count
        /\ pipes'[p].readers >= pipes[p].readers /\ pipes'[p].writers >= pipes[p].writers
        /\ pipes'[p].readers \in Nat /\ pipes'[p].writers \in Nat
    BY <1>7, <2>4
  <2> QED
    BY <2>2, <2>3, <2>4, <2>5 DEF Starves
<1> QED
  BY <1>9, <1>10, <1>12, <1>13, <1>14, <1>15 DEF IInv

(* The first program starts with the console and nobody sleeps. *)
LEMMA InvariantInit == Init => IInv
<1> SUFFICES ASSUME Init PROVE IInv
  OBVIOUS
<1>1. ConsoleFds \in [Fds -> Slot] /\ NoFds \in [Fds -> Slot]
  BY SlotKinds DEF ConsoleFds, NoFds
<1>2. fds \in Table
  BY <1>1 DEF Init, Table
<1>3. TypeOK
  <2>1. fds \in [Tids -> [Fds -> FdSlot]]
    BY <1>2, SlotKinds DEF Table
  <2>2. pipes \in [Pipes -> PipeRec]
    BY PipeFdAssumption DEF Init, PipeRec
  <2> QED
    BY <2>1, <2>2, CallTypes DEF Init, TypeOK, Parents
<1>4. AllExact(pipes, fds)
  <2>1. SUFFICES ASSUME NEW p \in Pipes
                 PROVE  Exact(pipes[p], Holders(fds, ReadEnd(p)), Holders(fds, WriteEnd(p)))
    BY DEF AllExact
  <2>2. ~ pipes[p].in_use
    BY DEF Init
  <2>3. \A x \in Tids, fd \in Fds : fds[x][fd] = Other \/ fds[x][fd] = FdUnused
    BY DEF Init, ConsoleFds, NoFds
  <2>4. Holders(fds, ReadEnd(p)) = {} /\ Holders(fds, WriteEnd(p)) = {}
    BY <2>3, SlotKinds DEF Holders
  <2> QED
    BY <2>2, <2>4 DEF Exact
<1>5. UnusedHoldNothing /\ CallsHold /\ SleepersWait
  BY DEF Init, UnusedHoldNothing, CallsHold, SleepersWait
<1> QED
  BY <1>2, <1>3, <1>4, <1>5 DEF IInv

(* Every step keeps the invariant. *)
LEMMA InvariantStep == IInv /\ [Next]_vars => IInv'
<1> SUFFICES ASSUME IInv, [Next]_vars PROVE IInv'
  OBVIOUS
<1>1. ASSUME NEW t \in Tids, Step(t)
      PROVE  IInv'
  BY <1>1, SysPipeStep, SysPipeFailsStep, SysCloseStep, SysReadStep, SysWriteStep,
     RetryStep, SysSpawnStep, DieStep, ReapStep DEF Step
<1>2. CASE UNCHANGED vars
  BY <1>2 DEF vars, IInv, TypeOK, UnusedHoldNothing, CallsHold, SleepersWait
<1> QED
  BY <1>1, <1>2 DEF Next

(* The inductive invariant of descriptors, pipes and sleepers *)
THEOREM PipeFdInvariant == Spec => []IInv
  BY InvariantInit, InvariantStep, PTL DEF Spec

(* The reference counts of pipe.c are exact, for every number of threads,  *)
(* descriptors and pipes: a record in use counts exactly the descriptors   *)
(* that refer to it, zombies' included, and a record that pipe_create may  *)
(* hand out again has none.                                                *)
THEOREM RefCountsExact == Spec => []RefCounts
  BY PipeFdInvariant, InvariantImplies, PTL

(* No thread sleeps through its wakeup: whoever sleeps in pipe_read or     *)
(* pipe_write has nothing to do now and somebody who can change that.      *)
THEOREM SleepersAreNeverForgotten == Spec => []NoLostPipeWakeup
  BY PipeFdInvariant, InvariantImplies, PTL
=============================================================================
