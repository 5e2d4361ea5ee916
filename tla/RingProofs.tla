----------------------------- MODULE RingProofs -----------------------------
(***************************************************************************)
(* The two rings of bytes in the kernel are queues.                        *)
(*                                                                         *)
(* The ring of one pipe is a bounded FIFO channel for every size of the    *)
(* ring, every bound on a transfer and every number of ends: the           *)
(* arithmetic of positions (part 1), the inductive invariant (part 2) and  *)
(* the refinement of module Fifo (part 3).                                 *)
(*                                                                         *)
(* The keyboard's ring buffer is a lossy queue for every size of the       *)
(* buffer and every layout, although the interrupt handler may push        *)
(* between any two steps of a pop: parts 4 to 6, in the same order, with   *)
(* the refinement of module KeyQueue.                                      *)
(***************************************************************************)
EXTENDS Pipe, Keyboard, SequenceTheorems, TLAPS


(***************************************************************************)
(* Part 1.  Positions                                                      *)
(***************************************************************************)

(* A step of at most one lap wraps once: the modulus is one subtraction.   *)
LEMMA AheadWraps ==
    ASSUME NEW p \in Positions, NEW i \in 0..PIPE_BUF_SIZE
    PROVE  /\ Ahead(p, i) = IF p + i < PIPE_BUF_SIZE THEN p + i
                            ELSE p + i - PIPE_BUF_SIZE
           /\ Ahead(p, i) \in Positions
  BY PipeAssumption DEF Ahead, Positions

(* Two steps that stay within one lap add up. *)
LEMMA AheadAdds ==
    ASSUME NEW p \in Positions,
           NEW i \in 0..PIPE_BUF_SIZE, NEW j \in 0..PIPE_BUF_SIZE,
           i + j <= PIPE_BUF_SIZE
    PROVE  Ahead(Ahead(p, i), j) = Ahead(p, i + j)
<1>1. i + j \in 0..PIPE_BUF_SIZE
  BY PipeAssumption
<1>2. /\ Ahead(p, i) = IF p + i < PIPE_BUF_SIZE THEN p + i ELSE p + i - PIPE_BUF_SIZE
      /\ Ahead(p, i) \in Positions
  BY AheadWraps
<1>3. Ahead(Ahead(p, i), j) = IF Ahead(p, i) + j < PIPE_BUF_SIZE THEN Ahead(p, i) + j
                              ELSE Ahead(p, i) + j - PIPE_BUF_SIZE
  BY <1>2, AheadWraps
<1>4. Ahead(p, i + j) = IF p + (i + j) < PIPE_BUF_SIZE THEN p + (i + j)
                        ELSE p + (i + j) - PIPE_BUF_SIZE
  BY <1>1, AheadWraps
<1> QED
  BY <1>2, <1>3, <1>4, PipeAssumption DEF Positions

(* Within one lap no place is met twice, so a byte that is written behind  *)
(* the waiting ones overwrites none of them.                               *)
LEMMA AheadInjective ==
    ASSUME NEW p \in Positions,
           NEW i \in 0..(PIPE_BUF_SIZE - 1), NEW j \in 0..(PIPE_BUF_SIZE - 1),
           Ahead(p, i) = Ahead(p, j)
    PROVE  i = j
<1>1. i \in 0..PIPE_BUF_SIZE /\ j \in 0..PIPE_BUF_SIZE
  BY PipeAssumption
<1>2. Ahead(p, i) = IF p + i < PIPE_BUF_SIZE THEN p + i ELSE p + i - PIPE_BUF_SIZE
  BY <1>1, AheadWraps
<1>3. Ahead(p, j) = IF p + j < PIPE_BUF_SIZE THEN p + j ELSE p + j - PIPE_BUF_SIZE
  BY <1>1, AheadWraps
<1>4. (IF p + i < PIPE_BUF_SIZE THEN p + i ELSE p + i - PIPE_BUF_SIZE)
        = (IF p + j < PIPE_BUF_SIZE THEN p + j ELSE p + j - PIPE_BUF_SIZE)
  BY <1>2, <1>3
<1> QED
  BY <1>4, PipeAssumption DEF Positions

(* A row of bytes is a sequence. *)
LEMMA RowIsSeq ==
    ASSUME NEW S, NEW n \in Nat, NEW f \in [1..n -> S]
    PROVE  f \in Seq(S) /\ Len(f) = n /\ DOMAIN f = 1..n
  OBVIOUS

(* How much one call moves *)
LEMMA SmallerType ==
    ASSUME NEW a \in Nat, NEW b \in Nat
    PROVE  /\ Smaller(a, b) \in Nat
           /\ Smaller(a, b) <= a /\ Smaller(a, b) <= b
           /\ Smaller(a, b) = 0 => a = 0 \/ b = 0
  BY DEF Smaller

(***************************************************************************)
(* Part 2.  The invariant                                                  *)
(***************************************************************************)

(* The record is in use exactly while an end is open: maybe_free runs in   *)
(* every close, and no step adds an end to a free record.                  *)
EndsHold == in_use <=> (readers + writers > 0)

IInv == PositionsAgree /\ EndsHold

(* What a write puts into the ring: the bytes that wait stay, the new ones *)
(* follow them.                                                            *)
LEMMA WrittenBytes ==
    ASSUME IInv, NEW data \in Data, WriteBytes(data)
    PROVE  LET n == Smaller(PIPE_BUF_SIZE - count, Len(data))
           IN  /\ n \in 0..Len(data) /\ count + n <= PIPE_BUF_SIZE
               /\ buf' \in [Positions -> Byte]
               /\ \A i \in 1..(count + n) :
                    buf'[Ahead(read_pos, i - 1)] =
                      IF i <= count THEN buf[Ahead(read_pos, i - 1)]
                      ELSE data[i - count]
<1> DEFINE n == Smaller(PIPE_BUF_SIZE - count, Len(data))
<1>1. /\ count \in 0..PIPE_BUF_SIZE /\ read_pos \in Positions /\ write_pos \in Positions
      /\ write_pos = Ahead(read_pos, count)
      /\ buf \in [Positions -> Byte]
  BY DEF IInv, PositionsAgree, TypeOK
<1>2. PICK m \in 0..MaxLen : data \in [1..m -> Byte]
  BY DEF Data
<1>3. Len(data) = m /\ m \in Nat
  BY <1>2, PipeAssumption
<1>4. PIPE_BUF_SIZE - count \in Nat
  BY <1>1, PipeAssumption
<1>5. n \in Nat /\ n <= m /\ n <= PIPE_BUF_SIZE - count
  BY <1>3, <1>4, SmallerType
<1> HIDE DEF n
<1>6. /\ n \in 0..Len(data) /\ count + n <= PIPE_BUF_SIZE
  BY <1>1, <1>3, <1>5, PipeAssumption
<1>7. buf' = [pos \in Positions |->
                IF \E i \in 1..n : Ahead(write_pos, i - 1) = pos
                THEN data[CHOOSE i \in 1..n : Ahead(write_pos, i - 1) = pos]
                ELSE buf[pos]]
  BY DEF WriteBytes, n
<1>8. buf' \in [Positions -> Byte]
  <2>1. SUFFICES ASSUME NEW pos \in Positions
                 PROVE  (IF \E i \in 1..n : Ahead(write_pos, i - 1) = pos
                         THEN data[CHOOSE i \in 1..n : Ahead(write_pos, i - 1) = pos]
                         ELSE buf[pos]) \in Byte
    BY <1>7
  <2>2. CASE \E i \in 1..n : Ahead(write_pos, i - 1) = pos
    <3>1. (CHOOSE i \in 1..n : Ahead(write_pos, i - 1) = pos) \in 1..n
      BY <2>2
    <3>2. (CHOOSE i \in 1..n : Ahead(write_pos, i - 1) = pos) \in 1..m
      BY <3>1, <1>3, <1>5
    <3> QED
      BY <2>2, <3>2, <1>2
  <2> QED
    BY <2>2, <1>1
<1>9. ASSUME NEW i \in 1..(count + n)
      PROVE  buf'[Ahead(read_pos, i - 1)] =
               IF i <= count THEN buf[Ahead(read_pos, i - 1)] ELSE data[i - count]
  <2> DEFINE pos == Ahead(read_pos, i - 1)
  <2>1. /\ i - 1 \in 0..(PIPE_BUF_SIZE - 1) /\ i - 1 \in 0..PIPE_BUF_SIZE
        /\ i \in Int /\ count \in Int /\ n \in Int
    BY <1>1, <1>5, PipeAssumption
  <2>2. pos \in Positions
    BY <1>1, <2>1, AheadWraps
  <2>3. ASSUME NEW k \in 1..n
        PROVE  /\ Ahead(write_pos, k - 1) = Ahead(read_pos, count + (k - 1))
               /\ count + (k - 1) \in 0..(PIPE_BUF_SIZE - 1)
    <3>1. /\ k - 1 \in 0..PIPE_BUF_SIZE /\ count + (k - 1) <= PIPE_BUF_SIZE
          /\ count + (k - 1) \in 0..(PIPE_BUF_SIZE - 1)
      BY <1>1, <1>5, PipeAssumption
    <3> QED
      BY <1>1, <3>1, AheadAdds
  <2>4. ASSUME NEW k \in 1..n, Ahead(write_pos, k - 1) = pos
        PROVE  i = count + k
    <3>1. count + (k - 1) = i - 1
      BY <1>1, <2>1, <2>3, <2>4, AheadInjective
    <3> QED
      BY <3>1, <2>1
  <2>5. CASE i <= count
    <3>1. ~ \E k \in 1..n : Ahead(write_pos, k - 1) = pos
      BY <2>1, <2>4, <2>5
    <3> QED
      BY <1>7, <2>2, <2>5, <3>1
  <2>6. CASE ~ (i <= count)
    <3>1. i - count \in 1..n
      BY <2>1, <2>6, <1>5
    <3>2. Ahead(write_pos, (i - count) - 1) = pos
      <4>1. count + ((i - count) - 1) = i - 1
        BY <2>1
      <4> QED
        BY <3>1, <2>3, <4>1
    <3>3. (CHOOSE k \in 1..n : Ahead(write_pos, k - 1) = pos) = i - count
      <4> DEFINE c == CHOOSE k \in 1..n : Ahead(write_pos, k - 1) = pos
      <4>1. c \in 1..n /\ Ahead(write_pos, c - 1) = pos
        BY <3>1, <3>2
      <4> HIDE DEF c
      <4>2. i = count + c
        BY <2>4, <4>1
      <4>3. c = i - count
        BY <2>1, <4>1, <4>2
      <4> QED
        BY <4>3 DEF c
    <3> QED
      BY <1>7, <2>2, <2>6, <3>1, <3>2, <3>3
  <2> QED
    BY <2>5, <2>6
<1> QED
  BY <1>6, <1>8, <1>9 DEF n

(* Every step keeps the positions `count` apart and the record in use      *)
(* exactly while an end is open.                                           *)
LEMMA InvariantStep == IInv /\ [Next]_vars => IInv'
<1> SUFFICES ASSUME IInv, [Next]_vars PROVE IInv'
  OBVIOUS
<1> USE DEF IInv, PositionsAgree, TypeOK, EndsHold
<1>1. CASE pipe_create
  <2>1. 0 \in Positions /\ 0 \in 0..PIPE_BUF_SIZE
    BY PipeAssumption DEF Positions
  <2>2. Ahead(0, 0) = 0
    BY PipeAssumption DEF Ahead
  <2> QED
    BY <1>1, <2>1, <2>2 DEF pipe_create
<1>2. CASE pipe_add_reader
  BY <1>2 DEF pipe_add_reader, ring, Ahead
<1>3. CASE pipe_add_writer
  BY <1>3 DEF pipe_add_writer, ring, Ahead
<1>4. CASE pipe_close_reader
  <2>1. in_use' = (in_use /\ ~ (readers' <= 0 /\ writers <= 0)) /\ in_use
    BY <1>4 DEF pipe_close_reader, MaybeFree
  <2>2. in_use' \in BOOLEAN /\ (in_use' <=> ~ (readers' <= 0 /\ writers <= 0))
    BY <2>1, Zenon
  <2>3. /\ readers > 0 /\ readers' = readers - 1
        /\ UNCHANGED <<buf, read_pos, write_pos, count, writers, got>>
    BY <1>4 DEF pipe_close_reader, ring
  <2> QED
    BY <2>2, <2>3 DEF Ahead
<1>5. CASE pipe_close_writer
  <2>1. in_use' = (in_use /\ ~ (readers <= 0 /\ writers' <= 0)) /\ in_use
    BY <1>5 DEF pipe_close_writer, MaybeFree
  <2>2. in_use' \in BOOLEAN /\ (in_use' <=> ~ (readers <= 0 /\ writers' <= 0))
    BY <2>1, Zenon
  <2>3. /\ writers > 0 /\ writers' = writers - 1
        /\ UNCHANGED <<buf, read_pos, write_pos, count, readers, got>>
    BY <1>5 DEF pipe_close_writer, ring
  <2> QED
    BY <2>2, <2>3 DEF Ahead
<1>6. ASSUME NEW len \in 0..MaxLen, ReadBytes(len)
      PROVE  IInv'
  <2> DEFINE n == Smaller(count, len)
  <2>0. count \in Nat /\ len \in Nat
    BY PipeAssumption
  <2>1. n \in Nat /\ n <= count /\ n <= len
    BY <2>0, SmallerType
  <2> HIDE DEF n
  <2>2. /\ got' = [i \in 1..n |-> buf[Ahead(read_pos, i - 1)]]
        /\ read_pos' = Ahead(read_pos, n)
        /\ count' = count - n
        /\ UNCHANGED <<in_use, buf, write_pos, readers, writers>>
    BY <1>6 DEF ReadBytes, n
  <2>3. n \in 0..PIPE_BUF_SIZE /\ count - n \in 0..PIPE_BUF_SIZE
        /\ n + (count - n) = count
    BY <2>1, PipeAssumption
  <2>4. Ahead(read_pos, n) \in Positions
    BY <2>3, AheadWraps
  <2>5. Ahead(Ahead(read_pos, n), count - n) = Ahead(read_pos, count)
    BY <2>3, AheadAdds, PipeAssumption
  <2>6. got' \in Seq(Byte)
    <3>1. ASSUME NEW i \in 1..n
          PROVE  buf[Ahead(read_pos, i - 1)] \in Byte
      <4>1. i - 1 \in 0..PIPE_BUF_SIZE
        BY <2>1, <2>3, PipeAssumption
      <4> QED
        BY <4>1, AheadWraps
    <3>2. got' \in [1..n -> Byte]
      BY <2>2, <3>1
    <3> QED
      BY <2>1, <3>2, RowIsSeq
  <2>7. Ahead(read_pos', count') = Ahead(Ahead(read_pos, n), count - n)
    BY <2>2 DEF Ahead
  <2> QED
    BY <2>2, <2>3, <2>4, <2>5, <2>6, <2>7
<1>7. CASE ReadEof
  BY <1>7 DEF ReadEof, ring, Ahead
<1>8. ASSUME NEW data \in Data, WriteBytes(data)
      PROVE  IInv'
  <2> DEFINE n == Smaller(PIPE_BUF_SIZE - count, Len(data))
  <2>1. /\ n \in 0..Len(data) /\ count + n <= PIPE_BUF_SIZE
        /\ buf' \in [Positions -> Byte]
    BY <1>8, WrittenBytes
  <2>2. /\ write_pos' = Ahead(write_pos, n)
        /\ count' = count + n
        /\ got' = <<>>
        /\ UNCHANGED <<in_use, read_pos, readers, writers>>
    BY <1>8 DEF WriteBytes
  <2> HIDE DEF n
  <2>3. n \in 0..PIPE_BUF_SIZE /\ count + n \in 0..PIPE_BUF_SIZE
    BY <2>1, PipeAssumption
  <2>4. Ahead(write_pos, n) \in Positions
    BY <2>3, AheadWraps
  <2>5. Ahead(Ahead(read_pos, count), n) = Ahead(read_pos, count + n)
    BY <2>1, <2>3, AheadAdds
  <2>6. Ahead(read_pos', count') = Ahead(read_pos, count + n)
    BY <2>2 DEF Ahead
  <2> QED
    BY <2>1, <2>2, <2>3, <2>4, <2>5, <2>6
<1>9. CASE WriteBroken
  BY <1>9 DEF WriteBroken, ring, Ahead
<1>10. CASE UNCHANGED vars
  BY <1>10 DEF vars, ring, Ahead
<1> QED
  BY <1>1, <1>2, <1>3, <1>4, <1>5, <1>6, <1>7, <1>8, <1>9, <1>10 DEF Next

(* The inductive invariant of one pipe record, for every ring size: the    *)
(* positions of pipe.c agree with its count, and maybe_free leaves the     *)
(* record in use exactly as long as it has an end.                         *)
THEOREM PipeInvariant == Spec => []IInv
<1>1. ASSUME Init PROVE IInv
  <2>1. 0 \in Positions /\ Ahead(0, 0) = 0 /\ 0 \in 0..PIPE_BUF_SIZE
    BY PipeAssumption DEF Ahead, Positions
  <2>2. buf \in [Positions -> Byte]
    BY <1>1 DEF Init
  <2>3. got \in Seq(Byte)
    BY <1>1, EmptySeq DEF Init
  <2> QED
    BY <1>1, <2>1, <2>2, <2>3 DEF Init, IInv, PositionsAgree, TypeOK, EndsHold
<1> QED
  BY <1>1, InvariantStep, PTL DEF Spec

(* The writer of pipe.c is always `count` places ahead of the reader, for  *)
(* every ring size and through every wrap-around, partial read and partial *)
(* write.                                                                  *)
THEOREM PositionsNeverDrift == Spec => []PositionsAgree
<1>1. IInv => PositionsAgree
  BY DEF IInv
<1> QED
  BY <1>1, PipeInvariant, PTL

(***************************************************************************)
(* Part 3.  The refinement                                                 *)
(***************************************************************************)

(* The c bytes of a ring that follow a position, oldest first *)
Window(b, p, c) == [i \in 1..c |-> b[Ahead(p, i - 1)]]

(* A window of a ring is a sequence of bytes. *)
LEMMA WindowType ==
    ASSUME NEW b \in [Positions -> Byte], NEW p \in Positions,
           NEW c \in 0..PIPE_BUF_SIZE
    PROVE  /\ Window(b, p, c) \in Seq(Byte) /\ Len(Window(b, p, c)) = c
           /\ \A i \in 1..c : /\ Window(b, p, c)[i] = b[Ahead(p, i - 1)]
                               /\ Window(b, p, c)[i] \in Byte
<1>1. c \in Nat
  BY PipeAssumption
<1>2. ASSUME NEW i \in 1..c
      PROVE  b[Ahead(p, i - 1)] \in Byte
  <2>1. i - 1 \in 0..PIPE_BUF_SIZE
    BY <1>1, PipeAssumption
  <2> QED
    BY <2>1, AheadWraps
<1>3. Window(b, p, c) \in [1..c -> Byte]
  BY <1>2 DEF Window
<1>4. \A i \in 1..c : Window(b, p, c)[i] = b[Ahead(p, i - 1)]
  BY DEF Window
<1> QED
  BY <1>1, <1>2, <1>3, <1>4, RowIsSeq

(* A read of pipe.c takes a prefix of what waits and leaves the rest. *)
LEMMA ReadRefines ==
    ASSUME IInv, IInv', NEW len \in 0..MaxLen, ReadBytes(len)
    PROVE  Channel!Read(len)
<1> DEFINE n == Smaller(count, len)
<1>1. /\ count \in 0..PIPE_BUF_SIZE /\ count \in Nat /\ len \in Nat
      /\ read_pos \in Positions /\ buf \in [Positions -> Byte]
  BY PipeAssumption DEF IInv, PositionsAgree, TypeOK
<1>2. n \in Nat /\ n <= count /\ n <= len /\ (n = 0 => count = 0 \/ len = 0)
  BY <1>1, SmallerType
<1>3. /\ in_use /\ count > 0
      /\ got' = [i \in 1..n |-> buf[Ahead(read_pos, i - 1)]]
      /\ read_pos' = Ahead(read_pos, n)
      /\ count' = count - n
      /\ UNCHANGED <<in_use, buf, write_pos, readers, writers>>
  BY DEF ReadBytes
<1> HIDE DEF n
<1>4. /\ Queue \in Seq(Byte) /\ Len(Queue) = count
      /\ \A i \in 1..count : Queue[i] = buf[Ahead(read_pos, i - 1)]
      /\ \A i \in 1..count : Queue[i] \in Byte
  <2>1. Queue = Window(buf, read_pos, count)
    BY <1>3 DEF Queue, Window
  <2> QED
    BY <1>1, <2>1, WindowType
<1>5. \A i \in 1..count : Queue[i] \in Byte
  BY <1>4
<1>6. got' = SubSeq(Queue, 1, n)
  <2>1. /\ SubSeq(Queue, 1, n) \in Seq(Byte)
        /\ Len(SubSeq(Queue, 1, n)) = n
        /\ \A i \in 1..n : SubSeq(Queue, 1, n)[i] = Queue[i]
    <3>1. \A i \in 1..n : Queue[i] \in Byte
      BY <1>1, <1>2, <1>5
    <3>2. /\ SubSeq(Queue, 1, n) \in Seq(Byte)
          /\ Len(SubSeq(Queue, 1, n)) = IF 1 <= n THEN n - 1 + 1 ELSE 0
          /\ \A i \in 1..(n - 1 + 1) : SubSeq(Queue, 1, n)[i] = Queue[1 + i - 1]
      BY <1>2, <3>1, SubSeqProperties
    <3>3. n - 1 + 1 = n /\ \A i \in 1..n : 1 + i - 1 = i
      BY <1>2
    <3> QED
      BY <1>2, <3>2, <3>3
  <2>2. got' \in Seq(Byte)
    BY DEF IInv, PositionsAgree, TypeOK
  <2>3. Len(got') = n /\ \A i \in 1..n : got'[i] = Queue[i]
    BY <1>1, <1>2, <1>3, <1>4
  <2> QED
    BY <2>1, <2>2, <2>3, SeqEqual
<1>7. Queue' = SubSeq(Queue, n + 1, Len(Queue))
  <2>1. /\ SubSeq(Queue, n + 1, count) \in Seq(Byte)
        /\ Len(SubSeq(Queue, n + 1, count)) = count - n
        /\ \A i \in 1..(count - n) : SubSeq(Queue, n + 1, count)[i] = Queue[n + i]
    <3>1. \A i \in (n + 1)..count : Queue[i] \in Byte
      BY <1>1, <1>2, <1>5
    <3>2. /\ SubSeq(Queue, n + 1, count) \in Seq(Byte)
          /\ Len(SubSeq(Queue, n + 1, count)) =
               IF n + 1 <= count THEN count - (n + 1) + 1 ELSE 0
          /\ \A i \in 1..(count - (n + 1) + 1) :
               SubSeq(Queue, n + 1, count)[i] = Queue[n + 1 + i - 1]
      BY <1>1, <1>2, <3>1, SubSeqProperties
    <3>3. /\ count - (n + 1) + 1 = count - n
          /\ \A i \in 1..(count - n) : n + 1 + i - 1 = n + i
          /\ ~ (n + 1 <= count) => count - n = 0
      BY <1>1, <1>2
    <3> QED
      BY <3>2, <3>3
  <2>2. /\ Queue' \in Seq(Byte) /\ Len(Queue') = count - n
        /\ \A i \in 1..(count - n) : Queue'[i] = buf[Ahead(Ahead(read_pos, n), i - 1)]
    <3>1. Queue' = Window(buf, Ahead(read_pos, n), count - n)
      BY <1>3 DEF Queue, Window
    <3>2. count - n \in 0..PIPE_BUF_SIZE /\ n \in 0..PIPE_BUF_SIZE
      BY <1>1, <1>2, PipeAssumption
    <3>3. Ahead(read_pos, n) \in Positions
      BY <1>1, <3>2, AheadWraps
    <3> QED
      BY <1>1, <3>1, <3>2, <3>3, WindowType
  <2>3. ASSUME NEW i \in 1..(count - n)
        PROVE  Queue'[i] = Queue[n + i]
    <3>1. /\ n \in 0..PIPE_BUF_SIZE /\ i - 1 \in 0..PIPE_BUF_SIZE
          /\ n + (i - 1) <= PIPE_BUF_SIZE /\ n + (i - 1) = (n + i) - 1
          /\ n + i \in 1..count
      BY <1>1, <1>2, PipeAssumption
    <3>2. Ahead(Ahead(read_pos, n), i - 1) = Ahead(read_pos, (n + i) - 1)
      BY <1>1, <3>1, AheadAdds
    <3> QED
      BY <1>4, <2>2, <3>1, <3>2
  <2>4. Queue' = SubSeq(Queue, n + 1, count)
    BY <2>1, <2>2, <2>3, SeqEqual
  <2> QED
    BY <1>4, <2>4
<1>8. Queue # <<>>
  BY <1>3, <1>4, EmptySeq
<1>9. n \in 0..len /\ (n = 0 => len = 0) /\ n <= Len(Queue)
  BY <1>1, <1>2, <1>3, <1>4
<1> QED
  BY <1>3, <1>6, <1>7, <1>8, <1>9 DEF Channel!Read

(* A write of pipe.c appends a prefix of its bytes and loses none of those *)
(* that wait.                                                              *)
LEMMA WriteRefines ==
    ASSUME IInv, IInv', NEW data \in Data, WriteBytes(data)
    PROVE  Channel!Write(data)
<1> DEFINE n == Smaller(PIPE_BUF_SIZE - count, Len(data))
<1>1. /\ count \in 0..PIPE_BUF_SIZE /\ count \in Nat
      /\ read_pos \in Positions /\ buf \in [Positions -> Byte]
  BY PipeAssumption DEF IInv, PositionsAgree, TypeOK
<1>2. /\ n \in 0..Len(data) /\ count + n <= PIPE_BUF_SIZE
      /\ buf' \in [Positions -> Byte]
      /\ \A i \in 1..(count + n) :
           buf'[Ahead(read_pos, i - 1)] =
             IF i <= count THEN buf[Ahead(read_pos, i - 1)] ELSE data[i - count]
  BY WrittenBytes
<1>3. /\ in_use /\ readers > 0 /\ PIPE_BUF_SIZE - count > 0
      /\ count' = count + n /\ got' = <<>>
      /\ UNCHANGED <<in_use, read_pos, readers, writers>>
  BY DEF WriteBytes
<1>4. data \in Seq(Byte) /\ Len(data) \in Nat
  <2>1. PICK m \in 0..MaxLen : data \in [1..m -> Byte]
    BY DEF Data
  <2> QED
    BY <2>1, RowIsSeq, PipeAssumption
<1>5. n = 0 => data = <<>>
  <2>1. PIPE_BUF_SIZE - count \in Nat
    BY <1>1, PipeAssumption
  <2>2. n = 0 => PIPE_BUF_SIZE - count = 0 \/ Len(data) = 0
    BY <1>4, <2>1, SmallerType
  <2> QED
    BY <1>3, <1>4, <2>1, <2>2, EmptySeq
<1> HIDE DEF n
<1>6. /\ Queue \in Seq(Byte) /\ Len(Queue) = count
      /\ \A i \in 1..count : Queue[i] = buf[Ahead(read_pos, i - 1)]
  <2>1. Queue = Window(buf, read_pos, count)
    BY <1>3 DEF Queue, Window
  <2> QED
    BY <1>1, <2>1, WindowType
<1>7. /\ Queue' \in Seq(Byte) /\ Len(Queue') = count + n
      /\ \A i \in 1..(count + n) : Queue'[i] = buf'[Ahead(read_pos, i - 1)]
  <2>1. Queue' = Window(buf', read_pos, count + n)
    BY <1>3 DEF Queue, Window
  <2>2. count + n \in 0..PIPE_BUF_SIZE
    BY <1>1, <1>2, <1>4, PipeAssumption
  <2> QED
    BY <1>1, <1>2, <2>1, <2>2, WindowType
<1>8. /\ SubSeq(data, 1, n) \in Seq(Byte)
      /\ Len(SubSeq(data, 1, n)) = n
      /\ \A i \in 1..n : SubSeq(data, 1, n)[i] = data[i]
  <2>1. n \in Nat /\ n <= Len(data)
    BY <1>2, <1>4
  <2>2. \A i \in 1..n : data[i] \in Byte
    BY <1>4, <2>1
  <2>3. /\ SubSeq(data, 1, n) \in Seq(Byte)
        /\ Len(SubSeq(data, 1, n)) = IF 1 <= n THEN n - 1 + 1 ELSE 0
        /\ \A i \in 1..(n - 1 + 1) : SubSeq(data, 1, n)[i] = data[1 + i - 1]
    BY <2>1, <2>2, SubSeqProperties
  <2>4. n - 1 + 1 = n /\ \A i \in 1..n : 1 + i - 1 = i
    BY <2>1
  <2> QED
    BY <2>1, <2>3, <2>4
<1>9. Queue' = Queue \o SubSeq(data, 1, n)
  <2> DEFINE q == Queue
             d == SubSeq(data, 1, n)
  <2>1. /\ q \o d \in Seq(Byte)
        /\ Len(q \o d) = Len(q) + Len(d)
        /\ \A i \in 1..(Len(q) + Len(d)) :
             (q \o d)[i] = IF i <= Len(q) THEN q[i] ELSE d[i - Len(q)]
    BY <1>6, <1>8, ConcatProperties
  <2>2. Len(q) = count /\ Len(d) = n
    BY <1>6, <1>8
  <2> HIDE DEF d
  <2>3. ASSUME NEW i \in 1..(count + n)
        PROVE  Queue'[i] = (q \o d)[i]
    <3>1. (q \o d)[i] = IF i <= count THEN q[i] ELSE d[i - count]
      BY <2>1, <2>2
    <3>2. Queue'[i] = IF i <= count THEN buf[Ahead(read_pos, i - 1)] ELSE data[i - count]
      BY <1>2, <1>7
    <3>3. CASE i <= count
      <4>1. i \in 1..count
        BY <3>3, <1>1
      <4> QED
        BY <1>6, <3>1, <3>2, <3>3, <4>1
    <3>4. CASE ~ (i <= count)
      <4>1. i - count \in 1..n
        BY <3>4, <1>1, <1>2, <1>4
      <4>2. d[i - count] = data[i - count]
        BY <1>8, <4>1 DEF d
      <4> QED
        BY <3>1, <3>2, <3>4, <4>2
    <3> QED
      BY <3>3, <3>4
  <2> QED
    BY <1>7, <2>1, <2>2, <2>3, SeqEqual DEF d
<1>10. Len(Queue) + n <= PIPE_BUF_SIZE
  BY <1>2, <1>6
<1> QED
  BY <1>2, <1>3, <1>5, <1>9, <1>10 DEF Channel!Write, Channel!Nothing

(* The steps that move no byte leave what waits as it is. *)
LEMMA QueueUnchanged ==
    ASSUME in_use' = in_use, ring' = ring
    PROVE  Queue' = Queue
  BY DEF Queue, ring, Ahead

(* Every step of the ring is a step of the channel or changes nothing of it. *)
LEMMA StepRefines ==
    ASSUME IInv, IInv', [Next]_vars
    PROVE  [Channel!Next]_Channel!fifoVars
<1> USE DEF Channel!fifoVars
<1>1. CASE pipe_create
  <2>1. Queue = <<>> /\ Queue' = <<>>
    <3>1. Queue' = [i \in 1..0 |-> buf'[Ahead(read_pos', i - 1)]]
      BY <1>1 DEF pipe_create, Queue
    <3>2. Queue' \in [1..0 -> Byte]
      BY <3>1
    <3> QED
      BY <1>1, <3>2, RowIsSeq, EmptySeq DEF pipe_create, Queue
  <2> QED
    BY <1>1, <2>1 DEF pipe_create, Channel!Next, Channel!Open, Channel!Nothing
<1>2. CASE pipe_add_reader
  <2>1. Queue' = Queue
    BY <1>2, QueueUnchanged DEF pipe_add_reader
  <2> QED
    BY <1>2, <2>1 DEF pipe_add_reader, Channel!Next, Channel!Duplicate
<1>3. CASE pipe_add_writer
  <2>1. Queue' = Queue
    BY <1>3, QueueUnchanged DEF pipe_add_writer
  <2> QED
    BY <1>3, <2>1 DEF pipe_add_writer, Channel!Next, Channel!Duplicate
<1>4. CASE pipe_close_reader \/ pipe_close_writer
  <2>1. /\ in_use /\ in_use' = (readers' + writers' > 0) /\ ring' = ring /\ got' = got
        /\ \/ readers > 0 /\ readers' = readers - 1 /\ writers' = writers
           \/ writers > 0 /\ writers' = writers - 1 /\ readers' = readers
    <3>1. in_use' \in BOOLEAN /\ (in_use' <=> (readers' + writers' > 0))
      BY DEF IInv, EndsHold, PositionsAgree, TypeOK
    <3>2. in_use' = (readers' + writers' > 0)
      <4> DEFINE held == readers' + writers' > 0
      <4>1. held \in BOOLEAN
        OBVIOUS
      <4>2. in_use' \in BOOLEAN /\ (in_use' <=> held)
        BY <3>1
      <4> HIDE DEF held
      <4>3. in_use' = held
        BY <4>1, <4>2
      <4> QED
        BY <4>3 DEF held
    <3> QED
      BY <1>4, <3>2 DEF pipe_close_reader, pipe_close_writer
  <2>2. Queue' = IF in_use' THEN Queue ELSE <<>>
    BY <2>1 DEF Queue, ring, Ahead
  <2> QED
    BY <2>1, <2>2 DEF Channel!Next, Channel!Close
<1>5. ASSUME NEW len \in 0..MaxLen, ReadBytes(len)
      PROVE  Channel!Next
  BY <1>5, ReadRefines DEF Channel!Next
<1>6. CASE ReadEof
  <2>1. Queue' = Queue
    BY <1>6, QueueUnchanged DEF ReadEof
  <2>2. Queue = <<>>
    <3>1. Queue \in [1..0 -> Byte]
      BY <1>6 DEF ReadEof, Queue
    <3> QED
      BY <3>1, RowIsSeq, EmptySeq
  <2>3. writers = 0
    BY <1>6 DEF ReadEof, IInv, PositionsAgree, TypeOK
  <2> QED
    BY <1>6, <2>1, <2>2, <2>3 DEF ReadEof, Channel!Next, Channel!EndOfFile, Channel!Nothing
<1>7. ASSUME NEW data \in Data, WriteBytes(data)
      PROVE  Channel!Next
  BY <1>7, WriteRefines DEF Channel!Next
<1>8. CASE WriteBroken
  <2>1. Queue' = Queue
    BY <1>8, QueueUnchanged DEF WriteBroken
  <2>2. readers = 0
    BY <1>8 DEF WriteBroken, IInv, PositionsAgree, TypeOK
  <2> QED
    BY <1>8, <2>1, <2>2 DEF WriteBroken, Channel!Next, Channel!BrokenPipe, Channel!Nothing
<1>9. CASE UNCHANGED vars
  <2>1. Queue' = Queue
    BY <1>9, QueueUnchanged DEF vars
  <2> QED
    BY <1>9, <2>1 DEF vars
<1> QED
  BY <1>1, <1>2, <1>3, <1>4, <1>5, <1>6, <1>7, <1>8, <1>9 DEF Next

(* The ring of pipe.c implements the bounded FIFO channel for every ring   *)
(* size and every length of a transfer: no byte is lost, duplicated,       *)
(* reordered or overwritten before it is read, end of file comes only once *)
(* everything written has been read, and the bytes go only with the last   *)
(* end.                                                                    *)
THEOREM RingImplementsFifo == Spec => ImplementsFifo
<1>1. Init => Channel!Init
  BY DEF Init, Channel!Init, Channel!Nothing, Queue
<1>2. IInv /\ IInv' /\ [Next]_vars => [Channel!Next]_Channel!fifoVars
  BY StepRefines
<1> QED
  BY <1>1, <1>2, PipeInvariant, PTL DEF Spec, ImplementsFifo, Channel!Spec


(***************************************************************************)
(* Part 4.  The ring of keys                                               *)
(***************************************************************************)

(* A step of at most one lap forward wraps once. *)
LEMMA WrapForward ==
    ASSUME NEW p \in KbdPositions, NEW i \in 0..KBD_BUFFER_SIZE
    PROVE  /\ Wrap(p + i) = IF p + i < KBD_BUFFER_SIZE THEN p + i
                            ELSE p + i - KBD_BUFFER_SIZE
           /\ Wrap(p + i) \in KbdPositions
  BY KeyboardAssumption DEF Wrap, KbdPositions

(* The distance between two positions *)
LEMMA WrapDistance ==
    ASSUME NEW p \in KbdPositions, NEW q \in KbdPositions
    PROVE  /\ Wrap(p - q) = IF q <= p THEN p - q ELSE p - q + KBD_BUFFER_SIZE
           /\ Wrap(p - q) \in KbdPositions
           /\ Wrap(q + Wrap(p - q)) = p
           /\ Wrap(p - q) = 0 <=> p = q
           /\ Wrap(q - p - 1) = KBD_BUFFER_SIZE - 1 - Wrap(p - q)
<1>1. /\ Wrap(p - q) = IF q <= p THEN p - q ELSE p - q + KBD_BUFFER_SIZE
      /\ Wrap(p - q) \in KbdPositions
  BY KeyboardAssumption DEF Wrap, KbdPositions
<1>2. Wrap(p - q) \in 0..KBD_BUFFER_SIZE
  BY <1>1, KeyboardAssumption DEF KbdPositions
<1>3. Wrap(q + Wrap(p - q)) = IF q + Wrap(p - q) < KBD_BUFFER_SIZE THEN q + Wrap(p - q)
                              ELSE q + Wrap(p - q) - KBD_BUFFER_SIZE
  BY <1>2, WrapForward
<1>4. Wrap(q + Wrap(p - q)) = p
  BY <1>1, <1>3, KeyboardAssumption DEF KbdPositions
<1>5. Wrap(p - q) = 0 <=> p = q
  BY <1>1, KeyboardAssumption DEF KbdPositions
<1>6. Wrap(q - p - 1) = IF p + 1 <= q THEN q - p - 1 ELSE q - p - 1 + KBD_BUFFER_SIZE
  BY KeyboardAssumption DEF Wrap, KbdPositions
<1>7. Wrap(q - p - 1) = KBD_BUFFER_SIZE - 1 - Wrap(p - q)
  BY <1>1, <1>6, KeyboardAssumption DEF KbdPositions
<1> QED
  BY <1>1, <1>4, <1>5, <1>7

(* Two steps that stay within one lap add up. *)
LEMMA WrapAdds ==
    ASSUME NEW p \in KbdPositions,
           NEW i \in 0..KBD_BUFFER_SIZE, NEW j \in 0..KBD_BUFFER_SIZE,
           i + j <= KBD_BUFFER_SIZE
    PROVE  Wrap(Wrap(p + i) + j) = Wrap(p + (i + j))
<1>1. i + j \in 0..KBD_BUFFER_SIZE
  BY KeyboardAssumption
<1>2. /\ Wrap(p + i) = IF p + i < KBD_BUFFER_SIZE THEN p + i ELSE p + i - KBD_BUFFER_SIZE
      /\ Wrap(p + i) \in KbdPositions
  BY WrapForward
<1>3. Wrap(Wrap(p + i) + j) = IF Wrap(p + i) + j < KBD_BUFFER_SIZE THEN Wrap(p + i) + j
                              ELSE Wrap(p + i) + j - KBD_BUFFER_SIZE
  BY <1>2, WrapForward
<1>4. Wrap(p + (i + j)) = IF p + (i + j) < KBD_BUFFER_SIZE THEN p + (i + j)
                          ELSE p + (i + j) - KBD_BUFFER_SIZE
  BY <1>1, WrapForward
<1> QED
  BY <1>2, <1>3, <1>4, KeyboardAssumption DEF KbdPositions

(* Within one lap no place is met twice. *)
LEMMA WrapInjective ==
    ASSUME NEW p \in KbdPositions, NEW i \in KbdPositions, NEW j \in KbdPositions,
           Wrap(p + i) = Wrap(p + j)
    PROVE  i = j
<1>1. i \in 0..KBD_BUFFER_SIZE /\ j \in 0..KBD_BUFFER_SIZE
  BY KeyboardAssumption DEF KbdPositions
<1>2. Wrap(p + i) = IF p + i < KBD_BUFFER_SIZE THEN p + i ELSE p + i - KBD_BUFFER_SIZE
  BY <1>1, WrapForward
<1>3. Wrap(p + j) = IF p + j < KBD_BUFFER_SIZE THEN p + j ELSE p + j - KBD_BUFFER_SIZE
  BY <1>1, WrapForward
<1>4. (IF p + i < KBD_BUFFER_SIZE THEN p + i ELSE p + i - KBD_BUFFER_SIZE)
        = (IF p + j < KBD_BUFFER_SIZE THEN p + j ELSE p + j - KBD_BUFFER_SIZE)
  BY <1>2, <1>3
<1> QED
  BY <1>4, KeyboardAssumption DEF KbdPositions

(* A step forward and the way back *)
LEMMA WrapBack ==
    ASSUME NEW p \in KbdPositions, NEW i \in KbdPositions
    PROVE  Wrap(Wrap(p + i) - p) = i
<1>1. i \in 0..KBD_BUFFER_SIZE
  BY KeyboardAssumption DEF KbdPositions
<1>2. /\ Wrap(p + i) = IF p + i < KBD_BUFFER_SIZE THEN p + i ELSE p + i - KBD_BUFFER_SIZE
      /\ Wrap(p + i) \in KbdPositions
  BY <1>1, WrapForward
<1>3. Wrap(Wrap(p + i) - p) = IF p <= Wrap(p + i) THEN Wrap(p + i) - p
                              ELSE Wrap(p + i) - p + KBD_BUFFER_SIZE
  BY <1>2, WrapDistance
<1> QED
  BY <1>2, <1>3, KeyboardAssumption DEF KbdPositions

(***************************************************************************)
(* Part 5.  Its invariant                                                  *)
(***************************************************************************)

(* How many bytes wait *)
Used == Wrap(head - tail)

(* What waits are bytes of keys, never the zeros of the static storage. *)
WaitingAreBytes == \A i \in 1..Used : kbd_storage[Wrap(tail + i - 1)] \in KeyByte

(* The reader inside ring_buffer_pop, past its test: there is a byte for   *)
(* it, and once loaded it is still the byte at the tail, whatever the      *)
(* handler has pushed since.                                               *)
PopIsSafe ==
    /\ at \in {"load", "advance"} => head # tail
    /\ at = "advance" => out = kbd_storage[tail]

KbdInv == KbdTypeOK /\ WaitingAreBytes /\ PopIsSafe

(* The ring in numbers *)
LEMMA RingFacts ==
    ASSUME KbdTypeOK
    PROVE  /\ Used \in 0..(KBD_BUFFER_SIZE - 1)
           /\ Room = KBD_BUFFER_SIZE - 1 - Used
           /\ head = Wrap(tail + Used)
           /\ Used = 0 <=> head = tail
  BY WrapDistance DEF KbdTypeOK, Used, Room, KbdPositions

(* What the handler does to the ring: the bytes that wait stay, as many of *)
(* the new ones as there is room for follow them.                          *)
LEMMA PushedBytes ==
    ASSUME KbdTypeOK, NEW seq \in Seq(KeyByte), ring_buffer_push(seq)
    PROVE  LET n == IF Len(seq) < Room THEN Len(seq) ELSE Room
           IN  /\ n \in 0..Len(seq) /\ Used + n \in 0..(KBD_BUFFER_SIZE - 1)
               /\ head' \in KbdPositions /\ head' = Wrap(tail + (Used + n))
               /\ Wrap(head' - tail) = Used + n
               /\ kbd_storage' \in [KbdPositions -> KeyByte \cup {NUL}]
               /\ \A i \in 1..(Used + n) :
                    kbd_storage'[Wrap(tail + i - 1)] =
                      IF i <= Used THEN kbd_storage[Wrap(tail + i - 1)]
                      ELSE seq[i - Used]
<1> DEFINE n == IF Len(seq) < Room THEN Len(seq) ELSE Room
<1> USE KeyboardAssumption
<1>1. /\ Used \in 0..(KBD_BUFFER_SIZE - 1) /\ Used \in Nat
      /\ Room = KBD_BUFFER_SIZE - 1 - Used
      /\ head = Wrap(tail + Used)
  BY RingFacts
<1>2. /\ head \in KbdPositions /\ tail \in KbdPositions
      /\ kbd_storage \in [KbdPositions -> KeyByte \cup {NUL}]
  BY DEF KbdTypeOK
<1>3. Len(seq) \in Nat /\ \A k \in 1..Len(seq) : seq[k] \in KeyByte
  BY LenProperties
<1>4. n \in 0..Len(seq) /\ n <= KBD_BUFFER_SIZE - 1 - Used
  BY <1>1, <1>3
<1>5. /\ kbd_storage' = [i \in KbdPositions |->
              IF \E k \in 1..n : Wrap(head + k - 1) = i
              THEN seq[CHOOSE k \in 1..n : Wrap(head + k - 1) = i]
              ELSE kbd_storage[i]]
      /\ head' = Wrap(head + n)
  BY DEF ring_buffer_push
<1> HIDE DEF n
<1>6. /\ n \in 0..Len(seq) /\ n \in Nat /\ Used + n \in 0..(KBD_BUFFER_SIZE - 1)
      /\ n \in 0..KBD_BUFFER_SIZE /\ Used \in 0..KBD_BUFFER_SIZE
      /\ Used + n \in 0..KBD_BUFFER_SIZE /\ Used + n <= KBD_BUFFER_SIZE
  BY <1>1, <1>3, <1>4
<1>7. head' = Wrap(tail + (Used + n))
  BY <1>1, <1>2, <1>5, <1>6, WrapAdds
<1>8. head' \in KbdPositions
  BY <1>2, <1>6, <1>7, WrapForward
<1>9. Wrap(head' - tail) = Used + n
  BY <1>2, <1>6, <1>7, WrapBack DEF KbdPositions
<1>10. kbd_storage' \in [KbdPositions -> KeyByte \cup {NUL}]
  <2>1. SUFFICES ASSUME NEW pos \in KbdPositions
                 PROVE  (IF \E k \in 1..n : Wrap(head + k - 1) = pos
                         THEN seq[CHOOSE k \in 1..n : Wrap(head + k - 1) = pos]
                         ELSE kbd_storage[pos]) \in KeyByte \cup {NUL}
    BY <1>5
  <2>2. CASE \E k \in 1..n : Wrap(head + k - 1) = pos
    <3>1. (CHOOSE k \in 1..n : Wrap(head + k - 1) = pos) \in 1..n
      BY <2>2
    <3>2. (CHOOSE k \in 1..n : Wrap(head + k - 1) = pos) \in 1..Len(seq)
      BY <3>1, <1>3, <1>6
    <3> QED
      BY <2>2, <3>2, <1>3
  <2> QED
    BY <2>2, <1>2
<1>11. ASSUME NEW i \in 1..(Used + n)
       PROVE  kbd_storage'[Wrap(tail + i - 1)] =
                IF i <= Used THEN kbd_storage[Wrap(tail + i - 1)] ELSE seq[i - Used]
  <2> DEFINE pos == Wrap(tail + i - 1)
  <2>1. /\ i - 1 \in KbdPositions /\ i - 1 \in 0..KBD_BUFFER_SIZE /\ i \in Int
        /\ tail + i - 1 = tail + (i - 1)
    BY <1>2, <1>6 DEF KbdPositions
  <2>2. pos \in KbdPositions /\ pos = Wrap(tail + (i - 1))
    BY <1>2, <2>1, WrapForward
  <2> HIDE DEF pos
  <2>3. ASSUME NEW k \in 1..n
        PROVE  /\ Wrap(head + k - 1) = Wrap(tail + (Used + (k - 1)))
               /\ Used + (k - 1) \in KbdPositions
    <3>1. /\ k - 1 \in 0..KBD_BUFFER_SIZE /\ Used + (k - 1) <= KBD_BUFFER_SIZE
          /\ Used + (k - 1) \in KbdPositions /\ head + k - 1 = head + (k - 1)
      BY <1>1, <1>2, <1>6 DEF KbdPositions
    <3> QED
      BY <1>1, <1>2, <1>6, <3>1, WrapAdds
  <2>4. ASSUME NEW k \in 1..n, Wrap(head + k - 1) = pos
        PROVE  i = Used + k
    <3>1. Used + (k - 1) = i - 1
      BY <1>2, <2>1, <2>2, <2>3, <2>4, WrapInjective
    <3> QED
      BY <3>1, <2>1, <1>1
  <2>5. CASE i <= Used
    <3>1. ~ \E k \in 1..n : Wrap(head + k - 1) = pos
      BY <1>1, <2>1, <2>4, <2>5
    <3> QED
      BY <1>5, <2>2, <2>5, <3>1 DEF pos
  <2>6. CASE ~ (i <= Used)
    <3>1. i - Used \in 1..n
      BY <2>1, <2>6, <1>1, <1>6
    <3>2. Wrap(head + (i - Used) - 1) = pos
      <4>1. Used + ((i - Used) - 1) = i - 1
        BY <1>1, <2>1
      <4> QED
        BY <2>2, <2>3, <3>1, <4>1
    <3>3. (CHOOSE k \in 1..n : Wrap(head + k - 1) = pos) = i - Used
      <4> DEFINE c == CHOOSE k \in 1..n : Wrap(head + k - 1) = pos
      <4>1. c \in 1..n /\ Wrap(head + c - 1) = pos
        BY <3>1, <3>2
      <4> HIDE DEF c
      <4>2. i = Used + c
        BY <2>4, <4>1
      <4>3. c = i - Used
        BY <1>1, <2>1, <4>1, <4>2
      <4> QED
        BY <4>3 DEF c
    <3> QED
      BY <1>5, <2>2, <2>6, <3>1, <3>2, <3>3 DEF pos
  <2> QED
    BY <2>5, <2>6
<1> QED
  BY <1>6, <1>7, <1>8, <1>9, <1>10, <1>11 DEF n

(* What the last step of a pop does to the ring: one byte fewer waits. *)
LEMMA AdvancedRing ==
    ASSUME KbdTypeOK, head # tail
    PROVE  /\ Wrap(tail + 1) \in KbdPositions
           /\ Used - 1 \in Nat /\ Wrap(head - Wrap(tail + 1)) = Used - 1
           /\ Wrap(tail + 1 - 1) = tail
           /\ \A i \in 1..(Used - 1) :
                Wrap(Wrap(tail + 1) + i - 1) = Wrap(tail + (i + 1) - 1)
<1> USE KeyboardAssumption
<1>1. /\ Used \in 1..(KBD_BUFFER_SIZE - 1) /\ head = Wrap(tail + Used)
      /\ head \in KbdPositions /\ tail \in KbdPositions
  BY RingFacts DEF KbdTypeOK
<1>2. 1 \in 0..KBD_BUFFER_SIZE /\ Used - 1 \in Nat /\ Used - 1 \in KbdPositions
      /\ Used - 1 \in 0..KBD_BUFFER_SIZE /\ 1 + (Used - 1) = Used
  BY <1>1 DEF KbdPositions
<1>3. Wrap(tail + 1) \in KbdPositions
  BY <1>1, <1>2, WrapForward
<1>4. Wrap(head - Wrap(tail + 1)) = Used - 1
  <2>1. Wrap(Wrap(tail + 1) + (Used - 1)) = head
    BY <1>1, <1>2, WrapAdds
  <2> QED
    BY <1>2, <1>3, <2>1, WrapBack
<1>5. Wrap(tail + 1 - 1) = tail
  <2>1. tail + 1 - 1 = tail + 0 /\ 0 \in 0..KBD_BUFFER_SIZE
    BY <1>1 DEF KbdPositions
  <2>2. Wrap(tail + 0) = IF tail + 0 < KBD_BUFFER_SIZE THEN tail + 0
                         ELSE tail + 0 - KBD_BUFFER_SIZE
    BY <1>1, <2>1, WrapForward
  <2> QED
    BY <1>1, <2>1, <2>2 DEF KbdPositions
<1>6. ASSUME NEW i \in 1..(Used - 1)
      PROVE  Wrap(Wrap(tail + 1) + i - 1) = Wrap(tail + (i + 1) - 1)
  <2>1. /\ i - 1 \in 0..KBD_BUFFER_SIZE /\ 1 + (i - 1) <= KBD_BUFFER_SIZE
        /\ Wrap(tail + 1) + i - 1 = Wrap(tail + 1) + (i - 1)
        /\ tail + (i + 1) - 1 = tail + (1 + (i - 1))
    BY <1>1, <1>2, <1>3 DEF KbdPositions
  <2> QED
    BY <1>1, <1>2, <2>1, WrapAdds
<1> QED
  BY <1>2, <1>3, <1>4, <1>5, <1>6

(* The bytes of a key are a string of the layout. *)
LEMMA LayoutType ==
    ASSUME KbdTypeOK, NEW key \in Keys
    PROVE  /\ Layout[<<key, shift_held>>] \in Seq(KeyByte)
           /\ Layout[<<key, shift_held>>] \in {Layout[k] : k \in Keys \X BOOLEAN}
<1>1. <<key, shift_held>> \in Keys \X BOOLEAN
  BY DEF KbdTypeOK
<1> QED
  BY <1>1, KeyboardAssumption

(* Every step keeps the invariant, the handler's between two steps of a    *)
(* pop included.                                                           *)
LEMMA KbdInvariantStep == KbdInv /\ [KbdNext]_kbdVars => KbdInv'
<1> SUFFICES ASSUME KbdInv, [KbdNext]_kbdVars PROVE KbdInv'
  OBVIOUS
<1>1. KbdTypeOK /\ WaitingAreBytes /\ PopIsSafe
  BY DEF KbdInv
<1>2. CASE ShiftIrq
  <2>1. shift_held' \in BOOLEAN /\ UNCHANGED <<kbd_storage, head, tail, at, out, taken>>
    BY <1>2 DEF ShiftIrq
  <2> QED
    BY <1>1, <2>1 DEF KbdInv, KbdTypeOK, WaitingAreBytes, Used, PopIsSafe, Wrap
<1>3. ASSUME NEW key \in Keys, KeyIrq(key)
      PROVE  KbdInv'
  <2> DEFINE seq == Layout[<<key, shift_held>>]
             n == IF Len(seq) < Room THEN Len(seq) ELSE Room
  <2>1. seq \in Seq(KeyByte)
    BY <1>1, LayoutType
  <2>2. ring_buffer_push(seq) /\ UNCHANGED <<tail, shift_held, at, out, taken>>
    BY <1>3 DEF KeyIrq
  <2> HIDE DEF seq
  <2>3. /\ n \in 0..Len(seq) /\ Used + n \in 0..(KBD_BUFFER_SIZE - 1)
        /\ head' \in KbdPositions /\ head' = Wrap(tail + (Used + n))
        /\ Wrap(head' - tail) = Used + n
        /\ kbd_storage' \in [KbdPositions -> KeyByte \cup {NUL}]
        /\ \A i \in 1..(Used + n) :
             kbd_storage'[Wrap(tail + i - 1)] =
               IF i <= Used THEN kbd_storage[Wrap(tail + i - 1)] ELSE seq[i - Used]
    BY <1>1, <2>1, <2>2, PushedBytes
  <2> HIDE DEF n
  <2>4. Used \in Nat /\ Used' = Used + n /\ (Used = 0 <=> head = tail) /\ n \in Nat
    <3>1. Used' = Wrap(head' - tail)
      BY <2>2 DEF Used, Wrap
    <3>2. Len(seq) \in Nat
      BY <2>1, LenProperties
    <3> QED
      BY <1>1, <2>3, <3>1, <3>2, RingFacts, KeyboardAssumption
  <2>5. KbdTypeOK'
    BY <1>1, <2>2, <2>3 DEF KbdTypeOK
  <2>6. WaitingAreBytes'
    <3>1. SUFFICES ASSUME NEW i \in 1..(Used + n)
                   PROVE  kbd_storage'[Wrap(tail + i - 1)] \in KeyByte
      BY <2>2, <2>4 DEF WaitingAreBytes, Wrap
    <3>2. CASE i <= Used
      <4>1. i \in 1..Used
        BY <2>4, <3>2
      <4> QED
        BY <1>1, <2>3, <3>2, <4>1 DEF WaitingAreBytes
    <3>3. CASE ~ (i <= Used)
      <4>1. i - Used \in 1..Len(seq)
        <5>1. Len(seq) \in Nat
          BY <2>1, LenProperties
        <5> QED
          BY <2>3, <2>4, <3>3, <5>1
      <4>2. seq[i - Used] \in KeyByte
        BY <2>1, <4>1, ElementOfSeq
      <4> QED
        BY <2>3, <3>3, <4>2
    <3> QED
      BY <3>2, <3>3
  <2>7. PopIsSafe'
    <3>1. SUFFICES ASSUME at \in {"load", "advance"}
                   PROVE  head' # tail /\ (at = "advance" => out = kbd_storage'[tail])
      BY <2>2 DEF PopIsSafe
    <3>2. head # tail /\ Used \in 1..(Used + n) /\ 1 \in 1..(Used + n) /\ 1 <= Used
      BY <1>1, <2>4, <3>1 DEF PopIsSafe
    <3>3. Wrap(tail + 1 - 1) = tail
      BY <1>1, <3>2, AdvancedRing
    <3>4. kbd_storage'[tail] = kbd_storage[tail]
      BY <2>3, <3>2, <3>3
    <3>5. head' # tail
      <4>1. Wrap(head' - tail) # 0
        BY <2>3, <2>4, <3>2
      <4> QED
        BY <1>1, <2>3, <4>1, WrapDistance DEF KbdTypeOK
    <3> QED
      BY <1>1, <3>4, <3>5 DEF PopIsSafe
  <2> QED
    BY <2>5, <2>6, <2>7 DEF KbdInv
<1>4. CASE Getchar
  <2>1. at' = "test" /\ UNCHANGED <<kbd_storage, head, tail, shift_held, out, taken>>
    BY <1>4 DEF Getchar
  <2> QED
    BY <1>1, <2>1 DEF KbdInv, KbdTypeOK, WaitingAreBytes, Used, PopIsSafe, Wrap
<1>5. CASE PopTest
  <2>1. /\ at' = IF tail = head THEN "user" ELSE "load"
        /\ UNCHANGED <<kbd_storage, head, tail, shift_held, out, taken>>
    BY <1>5 DEF PopTest
  <2> QED
    BY <1>1, <2>1 DEF KbdInv, KbdTypeOK, WaitingAreBytes, Used, PopIsSafe, Wrap
<1>6. CASE PopLoad
  <2>1. /\ at = "load" /\ out' = kbd_storage[tail] /\ at' = "advance"
        /\ UNCHANGED <<kbd_storage, head, tail, shift_held, taken>>
    BY <1>6 DEF PopLoad
  <2> QED
    BY <1>1, <2>1 DEF KbdInv, KbdTypeOK, WaitingAreBytes, Used, PopIsSafe, Wrap
<1>7. CASE PopAdvance
  <2>1. /\ at = "advance" /\ tail' = Wrap(tail + 1) /\ taken' = <<out>> /\ at' = "user"
        /\ UNCHANGED <<kbd_storage, head, shift_held, out>>
    BY <1>7 DEF PopAdvance
  <2>2. head # tail /\ out = kbd_storage[tail]
    BY <1>1, <2>1 DEF PopIsSafe
  <2>3. /\ Wrap(tail + 1) \in KbdPositions
        /\ Used - 1 \in Nat /\ Wrap(head - Wrap(tail + 1)) = Used - 1
        /\ Wrap(tail + 1 - 1) = tail
        /\ \A i \in 1..(Used - 1) :
             Wrap(Wrap(tail + 1) + i - 1) = Wrap(tail + (i + 1) - 1)
    BY <1>1, <2>2, AdvancedRing
  <2>4. Used \in Nat /\ Used' = Used - 1
    BY <1>1, <2>1, <2>3, RingFacts, KeyboardAssumption DEF Used, Wrap
  <2>5. out \in KeyByte
    <3>1. 1 \in 1..Used
      BY <2>3, <2>4
    <3> QED
      BY <1>1, <2>2, <2>3, <3>1 DEF WaitingAreBytes
  <2>6. KbdTypeOK'
    BY <1>1, <2>1, <2>3, <2>5 DEF KbdTypeOK
  <2>7. WaitingAreBytes'
    <3>1. SUFFICES ASSUME NEW i \in 1..(Used - 1)
                   PROVE  kbd_storage[Wrap(Wrap(tail + 1) + i - 1)] \in KeyByte
      BY <2>1, <2>4 DEF WaitingAreBytes, Wrap
    <3>2. i + 1 \in 1..Used
      BY <2>4
    <3> QED
      BY <1>1, <2>3, <3>2 DEF WaitingAreBytes
  <2> QED
    BY <2>1, <2>6, <2>7 DEF KbdInv, PopIsSafe
<1>8. CASE UNCHANGED kbdVars
  BY <1>1, <1>8 DEF kbdVars, KbdInv, KbdTypeOK, WaitingAreBytes, Used, PopIsSafe, Wrap
<1> QED
  BY <1>2, <1>3, <1>4, <1>5, <1>6, <1>7, <1>8 DEF KbdNext

(* The zeroed buffer is empty. *)
LEMMA InitInv == KbdInit => KbdInv /\ Used = 0
<1> SUFFICES ASSUME KbdInit PROVE KbdInv /\ Used = 0
  OBVIOUS
<1>1. 0 \in KbdPositions /\ Wrap(0 - 0) = 0
  BY KeyboardAssumption DEF KbdPositions, Wrap
<1>2. Used = 0
  BY <1>1 DEF KbdInit, Used
<1>3. KbdTypeOK
  BY <1>1, EmptySeq DEF KbdInit, KbdTypeOK
<1> QED
  BY <1>2, <1>3 DEF KbdInit, KbdInv, WaitingAreBytes, PopIsSafe

(* The inductive invariant of the keyboard buffer: what waits are bytes of *)
(* keys, and a pop that has passed its test finds its byte whatever the    *)
(* interrupt handler pushes in between.                                    *)
THEOREM KeyboardInvariant == KbdSpec => []KbdInv
  BY InitInv, KbdInvariantStep, PTL DEF KbdSpec

(* The positions stay in the buffer and every byte that kbd_getchar        *)
(* returns is a byte of a key, for every buffer size and every layout.     *)
THEOREM KeyboardTypes == KbdSpec => []KbdTypeOK
<1>1. KbdInv => KbdTypeOK
  BY DEF KbdInv
<1> QED
  BY <1>1, KeyboardInvariant, PTL

(***************************************************************************)
(* Part 6.  Its refinement                                                 *)
(***************************************************************************)

(* The bytes that wait, as a sequence *)
LEMMA WaitingType ==
    ASSUME KbdInv
    PROVE  /\ Waiting \in Seq(KeyByte) /\ Len(Waiting) = Used
           /\ \A i \in 1..Used : Waiting[i] = kbd_storage[Wrap(tail + i - 1)]
<1>1. KbdTypeOK /\ WaitingAreBytes
  BY DEF KbdInv
<1>2. Used \in Nat
  BY <1>1, RingFacts, KeyboardAssumption
<1>3. /\ Waiting \in [1..Used -> KeyByte]
      /\ \A i \in 1..Used : Waiting[i] = kbd_storage[Wrap(tail + i - 1)]
  BY <1>1 DEF Waiting, Used, WaitingAreBytes
<1> QED
  BY <1>2, <1>3

(* The same of the state that a step leads to *)
LEMMA WaitingTypeNext ==
    KbdInv' => /\ Waiting' \in Seq(KeyByte) /\ Len(Waiting') = Used'
             /\ \A i \in 1..Used' : Waiting'[i] = kbd_storage'[Wrap(tail' + i - 1)]
<1>1. KbdInv => /\ Waiting \in Seq(KeyByte) /\ Len(Waiting) = Used
              /\ \A i \in 1..Used : Waiting[i] = kbd_storage[Wrap(tail + i - 1)]
  BY WaitingType
<1>2. (KbdInv => /\ Waiting \in Seq(KeyByte) /\ Len(Waiting) = Used
               /\ \A i \in 1..Used : Waiting[i] = kbd_storage[Wrap(tail + i - 1)])'
  BY <1>1, PTL
<1> QED
  BY <1>2 DEF Wrap

(* The interrupt handler appends what fits of the key's bytes. *)
LEMMA PressRefines ==
    ASSUME KbdInv, KbdInv', NEW key \in Keys, KeyIrq(key)
    PROVE  KeyRing!Press(Layout[<<key, shift_held>>])
<1> DEFINE seq == Layout[<<key, shift_held>>]
           n == IF Len(seq) < Room THEN Len(seq) ELSE Room
<1>1. KbdTypeOK
  BY DEF KbdInv
<1>2. seq \in Seq(KeyByte)
  BY <1>1, LayoutType
<1>3. ring_buffer_push(seq) /\ UNCHANGED <<tail, shift_held, at, out, taken>>
  BY DEF KeyIrq
<1> HIDE DEF seq
<1>4. /\ n \in 0..Len(seq) /\ Used + n \in 0..(KBD_BUFFER_SIZE - 1)
      /\ Wrap(head' - tail) = Used + n
      /\ \A i \in 1..(Used + n) :
           kbd_storage'[Wrap(tail + i - 1)] =
             IF i <= Used THEN kbd_storage[Wrap(tail + i - 1)] ELSE seq[i - Used]
  BY <1>1, <1>2, <1>3, PushedBytes
<1>5. /\ Waiting \in Seq(KeyByte) /\ Len(Waiting) = Used
      /\ \A i \in 1..Used : Waiting[i] = kbd_storage[Wrap(tail + i - 1)]
  BY WaitingType
<1>6. Used \in Nat /\ Room = (KBD_BUFFER_SIZE - 1) - Used /\ Len(seq) \in Nat
  BY <1>1, <1>2, RingFacts, LenProperties, KeyboardAssumption
<1>7. n = KeyRing!Smaller(Len(seq), (KBD_BUFFER_SIZE - 1) - Len(Waiting))
  BY <1>5, <1>6 DEF KeyRing!Smaller
<1> HIDE DEF n
<1>8. /\ Waiting' \in Seq(KeyByte) /\ Len(Waiting') = Used + n
      /\ \A i \in 1..(Used + n) :
           Waiting'[i] = IF i <= Used THEN Waiting[i] ELSE seq[i - Used]
  <2>1. Used' = Used + n
    BY <1>3, <1>4 DEF Used, Wrap
  <2>2. /\ Waiting' \in Seq(KeyByte) /\ Len(Waiting') = Used + n
        /\ \A i \in 1..(Used + n) : Waiting'[i] = kbd_storage'[Wrap(tail + i - 1)]
    BY <1>3, <2>1, WaitingTypeNext
  <2>3. \A i \in 1..(Used + n) : i <= Used => i \in 1..Used
    BY <1>6
  <2> QED
    BY <1>4, <1>5, <2>2, <2>3
<1>9. /\ SubSeq(seq, 1, n) \in Seq(KeyByte)
      /\ Len(SubSeq(seq, 1, n)) = n
      /\ \A i \in 1..n : SubSeq(seq, 1, n)[i] = seq[i]
  <2>1. n \in Nat /\ n <= Len(seq)
    BY <1>4, <1>6
  <2>2. \A i \in 1..n : seq[i] \in KeyByte
    BY <1>2, <1>6, <2>1, ElementOfSeq
  <2>3. /\ SubSeq(seq, 1, n) \in Seq(KeyByte)
        /\ Len(SubSeq(seq, 1, n)) = IF 1 <= n THEN n - 1 + 1 ELSE 0
        /\ \A i \in 1..(n - 1 + 1) : SubSeq(seq, 1, n)[i] = seq[1 + i - 1]
    BY <2>1, <2>2, SubSeqProperties
  <2>4. n - 1 + 1 = n /\ \A i \in 1..n : 1 + i - 1 = i
    BY <2>1
  <2> QED
    BY <2>1, <2>3, <2>4
<1>10. Waiting' = Waiting \o SubSeq(seq, 1, n)
  <2> DEFINE d == SubSeq(seq, 1, n)
  <2>1. /\ Waiting \o d \in Seq(KeyByte)
        /\ Len(Waiting \o d) = Used + n
        /\ \A i \in 1..(Used + n) :
             (Waiting \o d)[i] = IF i <= Used THEN Waiting[i] ELSE d[i - Used]
    BY <1>5, <1>9, ConcatProperties
  <2>2. \A i \in 1..(Used + n) : ~ (i <= Used) => d[i - Used] = seq[i - Used]
    <3>1. \A i \in 1..(Used + n) : ~ (i <= Used) => i - Used \in 1..n
      BY <1>4, <1>6
    <3> QED
      BY <1>9, <3>1
  <2> HIDE DEF d
  <2>3. \A i \in 1..(Used + n) : Waiting'[i] = (Waiting \o d)[i]
    BY <1>8, <2>1, <2>2
  <2> QED
    BY <1>8, <2>1, <2>3, SeqEqual DEF d
<1> QED
  BY <1>3, <1>7, <1>10 DEF KeyRing!Press, seq

(* The last step of a pop takes the oldest byte: it is the one that was    *)
(* loaded before.                                                          *)
LEMMA TakeRefines ==
    ASSUME KbdInv, KbdInv', PopAdvance
    PROVE  KeyRing!Take
<1>1. KbdTypeOK /\ PopIsSafe
  BY DEF KbdInv
<1>2. /\ at = "advance" /\ tail' = Wrap(tail + 1) /\ taken' = <<out>>
      /\ UNCHANGED <<kbd_storage, head>>
  BY DEF PopAdvance
<1>3. head # tail /\ out = kbd_storage[tail]
  BY <1>1, <1>2 DEF PopIsSafe
<1>4. /\ Used - 1 \in Nat /\ Wrap(head - Wrap(tail + 1)) = Used - 1
      /\ Wrap(tail + 1 - 1) = tail
      /\ \A i \in 1..(Used - 1) :
           Wrap(Wrap(tail + 1) + i - 1) = Wrap(tail + (i + 1) - 1)
  BY <1>1, <1>3, AdvancedRing
<1>5. /\ Waiting \in Seq(KeyByte) /\ Len(Waiting) = Used
      /\ \A i \in 1..Used : Waiting[i] = kbd_storage[Wrap(tail + i - 1)]
  BY WaitingType
<1>6. Used \in Nat /\ 1 \in 1..Used
  BY <1>1, <1>4, RingFacts, KeyboardAssumption
<1>7. Waiting # <<>>
  BY <1>5, <1>6, EmptySeq
<1>8. Head(Waiting) = out
  BY <1>3, <1>4, <1>5, <1>6, <1>7
<1>9. /\ Waiting' \in Seq(KeyByte) /\ Len(Waiting') = Used - 1
      /\ \A i \in 1..(Used - 1) : Waiting'[i] = Waiting[i + 1]
  <2>1. Used' = Used - 1
    BY <1>2, <1>4 DEF Used, Wrap
  <2>2. /\ Waiting' \in Seq(KeyByte) /\ Len(Waiting') = Used - 1
        /\ \A i \in 1..(Used - 1) :
             Waiting'[i] = kbd_storage[Wrap(Wrap(tail + 1) + i - 1)]
    BY <1>2, <2>1, WaitingTypeNext
  <2>3. \A i \in 1..(Used - 1) : i + 1 \in 1..Used
    BY <1>6
  <2> QED
    BY <1>4, <1>5, <2>2, <2>3
<1>10. /\ Tail(Waiting) \in Seq(KeyByte) /\ Len(Tail(Waiting)) = Used - 1
       /\ \A i \in 1..(Used - 1) : Tail(Waiting)[i] = Waiting[i + 1]
  BY <1>5, <1>7, HeadTailProperties
<1>11. Waiting' = Tail(Waiting)
  <2>1. \A i \in 1..(Used - 1) : Waiting'[i] = Tail(Waiting)[i]
    BY <1>9, <1>10
  <2> QED
    BY <1>9, <1>10, <2>1, SeqEqual
<1> QED
  BY <1>2, <1>7, <1>8, <1>11 DEF KeyRing!Take

(* Every step of the driver is a step of the queue or changes nothing of   *)
(* it.                                                                     *)
LEMMA KbdStepRefines ==
    ASSUME KbdInv, KbdInv', [KbdNext]_kbdVars
    PROVE  [KeyRing!Next]_KeyRing!keyVars
<1>1. ASSUME NEW key \in Keys, KeyIrq(key)
      PROVE  KeyRing!Next
  <2>1. KeyRing!Press(Layout[<<key, shift_held>>])
    BY <1>1, PressRefines
  <2>2. Layout[<<key, shift_held>>] \in {Layout[k] : k \in Keys \X BOOLEAN}
    BY LayoutType DEF KbdInv
  <2> QED
    BY <2>1, <2>2 DEF KeyRing!Next
<1>2. CASE PopAdvance
  BY <1>2, TakeRefines DEF KeyRing!Next
<1>3. CASE ShiftIrq \/ Getchar \/ PopTest \/ PopLoad \/ UNCHANGED kbdVars
  <2>1. UNCHANGED <<kbd_storage, head, tail, taken>>
    BY <1>3 DEF ShiftIrq, Getchar, PopTest, PopLoad, kbdVars
  <2> QED
    BY <2>1 DEF KeyRing!keyVars, Waiting, Wrap
<1> QED
  BY <1>1, <1>2, <1>3 DEF KbdNext

(* The driver implements the lossy queue for every buffer size and every   *)
(* layout: the bytes of the pressed keys, in order, each once; what finds  *)
(* no room is dropped when the key is pressed and nothing else ever is,    *)
(* although the handler may push in the middle of a pop.                   *)
THEOREM RingImplementsKeyQueue == KbdSpec => ImplementsKeyQueue
<1>1. ASSUME KbdInit PROVE KeyRing!Init
  <2>1. KbdInv /\ Used = 0
    BY <1>1, InitInv
  <2>2. Waiting \in Seq(KeyByte) /\ Len(Waiting) = 0
    BY <2>1, WaitingType
  <2> QED
    BY <1>1, <2>2, EmptySeq DEF KbdInit, KeyRing!Init
<1>2. KbdInv /\ KbdInv' /\ [KbdNext]_kbdVars => [KeyRing!Next]_KeyRing!keyVars
  BY KbdStepRefines
<1> QED
  BY <1>1, <1>2, KeyboardInvariant, PTL DEF KbdSpec, ImplementsKeyQueue, KeyRing!Spec

=============================================================================
