-------------------------------- MODULE Pipe --------------------------------
(***************************************************************************)
(* One record of the pipe table of kernel/core/pipe.c with its ring of     *)
(* bytes: buf, read_pos, write_pos and count.  Each function runs with     *)
(* interrupts off from its test to its return or to sched_sleep, so it is  *)
(* one step; the call that sleeps changes nothing and is the absence of a  *)
(* step (module PipeFd shows that the sleeper is woken).  The ends that    *)
(* programs hold are counted in module PipeFd, so here an end is added or  *)
(* closed, read from or written to only while there is one.                *)
(***************************************************************************)
EXTENDS Integers, Sequences

CONSTANTS
    Byte,           \* the bytes that programs write
    PIPE_BUF_SIZE,  \* 1024 in the code
    MaxLen,         \* bound on the length of one read or write (4096 in the code)
    MaxEnds         \* bound on the ends of either kind

ASSUME PipeAssumption ==
    /\ PIPE_BUF_SIZE \in Nat \ {0}
    /\ MaxLen \in Nat
    /\ MaxEnds \in Nat \ {0}

VARIABLES
    in_use, buf, read_pos, write_pos, count, readers, writers,
    got             \* the bytes that the last completed call left in its caller's buffer

ring == <<buf, read_pos, write_pos, count>>
vars == <<in_use, ring, readers, writers, got>>

Positions == 0..(PIPE_BUF_SIZE - 1)

(* Byte strings that one SYS_WRITE may carry *)
Data == UNION {[1..n -> Byte] : n \in 0..MaxLen}

(* pipes[] is static: zeroed, whatever zero is as a byte *)
Init ==
    /\ in_use = FALSE
    /\ \E zero \in Byte : buf = [i \in Positions |-> zero]
    /\ read_pos = 0 /\ write_pos = 0 /\ count = 0
    /\ readers = 0 /\ writers = 0
    /\ got = <<>>

(* Mutant of pipe_create: read_pos keeps the value of the pipe before. *)
CreateKeepsReadPos ==
    /\ ~ in_use
    /\ in_use' = TRUE
    /\ write_pos' = 0 /\ count' = 0
    /\ readers' = 1 /\ writers' = 1
    /\ got' = <<>>
    /\ UNCHANGED <<buf, read_pos>>

(* pipe_create takes a free record and resets all of it but the bytes. *)
pipe_create ==
    /\ ~ in_use
    /\ in_use' = TRUE
    /\ read_pos' = 0 /\ write_pos' = 0 /\ count' = 0
    /\ readers' = 1 /\ writers' = 1
    /\ got' = <<>>
    /\ UNCHANGED buf

pipe_add_reader ==
    /\ in_use /\ readers \in 1..(MaxEnds - 1)
    /\ readers' = readers + 1
    /\ UNCHANGED <<in_use, ring, writers, got>>

pipe_add_writer ==
    /\ in_use /\ writers \in 1..(MaxEnds - 1)
    /\ writers' = writers + 1
    /\ UNCHANGED <<in_use, ring, readers, got>>

(* Mutant of MaybeFree: the pipe goes with either kind of end. *)
FreeWithEitherEnd(r, w) == in_use' = (in_use /\ ~ (r <= 0 \/ w <= 0))

(* maybe_free *)
MaybeFree(r, w) == in_use' = (in_use /\ ~ (r <= 0 /\ w <= 0))

pipe_close_reader ==
    /\ in_use /\ readers > 0
    /\ readers' = readers - 1
    /\ MaybeFree(readers', writers)
    /\ UNCHANGED <<ring, writers, got>>

pipe_close_writer ==
    /\ in_use /\ writers > 0
    /\ writers' = writers - 1
    /\ MaybeFree(readers, writers')
    /\ UNCHANGED <<ring, readers, got>>

Smaller(a, b) == IF a < b THEN a ELSE b

(* The byte i places after a position of the ring *)
Ahead(pos, i) == (pos + i) % PIPE_BUF_SIZE

(* pipe_read: bytes are there *)
ReadBytes(len) ==
    LET n == Smaller(count, len)
    IN  /\ in_use /\ readers > 0 /\ count > 0
        /\ got' = [i \in 1..n |-> buf[Ahead(read_pos, i - 1)]]
        /\ read_pos' = Ahead(read_pos, n)
        /\ count' = count - n
        /\ UNCHANGED <<in_use, buf, write_pos, readers, writers>>

(* pipe_read: "EOF: nothing buffered, and nobody left to write more" *)
ReadEof ==
    /\ in_use /\ readers > 0 /\ count = 0 /\ writers <= 0
    /\ got' = <<>>
    /\ UNCHANGED <<in_use, ring, readers, writers>>

(* pipe_write: there is room; as much as fits is written *)
WriteBytes(data) ==
    LET free == PIPE_BUF_SIZE - count
        n    == Smaller(free, Len(data))
    IN  /\ in_use /\ writers > 0 /\ readers > 0 /\ free > 0
        /\ buf' = [pos \in Positions |->
                     IF \E i \in 1..n : Ahead(write_pos, i - 1) = pos
                     THEN data[CHOOSE i \in 1..n : Ahead(write_pos, i - 1) = pos]
                     ELSE buf[pos]]
        /\ write_pos' = Ahead(write_pos, n)
        /\ count' = count + n
        /\ got' = <<>>
        /\ UNCHANGED <<in_use, read_pos, readers, writers>>

(* pipe_write: "broken pipe: nobody left to ever read this" *)
WriteBroken ==
    /\ in_use /\ writers > 0 /\ readers <= 0
    /\ got' = <<>>
    /\ UNCHANGED <<in_use, ring, readers, writers>>

Next ==
    \/ pipe_create
    \/ pipe_add_reader \/ pipe_add_writer
    \/ pipe_close_reader \/ pipe_close_writer
    \/ \E len \in 0..MaxLen : ReadBytes(len)
    \/ ReadEof
    \/ \E data \in Data : WriteBytes(data)
    \/ WriteBroken

Spec == Init /\ [][Next]_vars

(***************************************************************************)
(* Properties                                                              *)
(***************************************************************************)

TypeOK ==
    /\ in_use \in BOOLEAN
    /\ buf \in [Positions -> Byte]
    /\ read_pos \in Positions /\ write_pos \in Positions
    /\ count \in 0..PIPE_BUF_SIZE
    /\ readers \in Nat /\ writers \in Nat
    /\ got \in Seq(Byte)

(* The two positions stay in the ring and never drift apart: the writer is  *)
(* always `count` places ahead of the reader, across wrap-around and        *)
(* partial reads and writes.                                                *)
PositionsAgree == TypeOK /\ write_pos = Ahead(read_pos, count)

(* The bytes in the pipe, oldest first; none once the record is free. *)
Queue == IF in_use THEN [i \in 1..count |-> buf[Ahead(read_pos, i - 1)]] ELSE <<>>

(* The ring implements the bounded FIFO channel: no byte is lost,           *)
(* duplicated, reordered or overwritten before it is read.                  *)
Channel == INSTANCE Fifo WITH Lens <- 0..MaxLen, Capacity <- PIPE_BUF_SIZE,
                               open <- in_use, queue <- Queue

ImplementsFifo == Channel!Spec

=============================================================================
