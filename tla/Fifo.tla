-------------------------------- MODULE Fifo --------------------------------
(***************************************************************************)
(* What a pipe promises to the programs on its two ends: a bounded         *)
(* first-in-first-out channel with counted ends.  A write delivers a       *)
(* prefix of its bytes, a read takes a prefix of what is queued, a read    *)
(* from an empty channel that nobody can write any more is an end of file, *)
(* a write that nobody can read is an error.  Blocking is the absence of a *)
(* step.                                                                   *)
(***************************************************************************)
EXTENDS Integers, Sequences

CONSTANTS Data,      \* the byte strings that programs write
          Lens,      \* the lengths that programs ask for
          Capacity   \* how many bytes the channel holds

VARIABLES open,      \* somebody holds an end
          queue,     \* the bytes written and not yet read
          readers,   \* read ends
          writers,   \* write ends
          got        \* what the last completed call handed its caller

fifoVars == <<open, queue, readers, writers, got>>

Nothing == <<>>      \* end of file, an error, or a call that moves no bytes

Init ==
    /\ open = FALSE
    /\ queue = <<>>
    /\ readers = 0
    /\ writers = 0
    /\ got = Nothing

Open ==
    /\ ~ open
    /\ open' = TRUE
    /\ queue' = <<>>
    /\ readers' = 1
    /\ writers' = 1
    /\ got' = Nothing

(* The writer's bytes up to n enter the queue in order; n > 0 unless the    *)
(* writer has nothing to write.                                             *)
Write(data) ==
    /\ open /\ readers > 0
    /\ \E n \in 0..Len(data) :
         /\ n = 0 => data = <<>>
         /\ Len(queue) + n <= Capacity
         /\ queue' = queue \o SubSeq(data, 1, n)
    /\ got' = Nothing
    /\ UNCHANGED <<open, readers, writers>>

(* The reader gets the oldest bytes, in order, each once. *)
Read(len) ==
    /\ open /\ queue # <<>>
    /\ \E n \in 0..len :
         /\ n = 0 => len = 0
         /\ n <= Len(queue)
         /\ got' = SubSeq(queue, 1, n)
         /\ queue' = SubSeq(queue, n + 1, Len(queue))
    /\ UNCHANGED <<open, readers, writers>>

EndOfFile ==
    /\ open /\ queue = <<>> /\ writers = 0
    /\ got' = Nothing
    /\ UNCHANGED <<open, queue, readers, writers>>

BrokenPipe ==
    /\ open /\ readers = 0
    /\ got' = Nothing
    /\ UNCHANGED <<open, queue, readers, writers>>

Duplicate ==
    /\ open
    /\ \/ readers > 0 /\ readers' = readers + 1 /\ writers' = writers
       \/ writers > 0 /\ writers' = writers + 1 /\ readers' = readers
    /\ UNCHANGED <<open, queue, got>>

(* The channel goes away with its last end; its bytes go only then. *)
Close ==
    /\ open
    /\ \/ readers > 0 /\ readers' = readers - 1 /\ writers' = writers
       \/ writers > 0 /\ writers' = writers - 1 /\ readers' = readers
    /\ open' = (readers' + writers' > 0)
    /\ queue' = IF open' THEN queue ELSE <<>>
    /\ UNCHANGED got

Next ==
    \/ Open \/ EndOfFile \/ BrokenPipe \/ Duplicate \/ Close
    \/ \E data \in Data : Write(data)
    \/ \E len \in Lens : Read(len)

Spec == Init /\ [][Next]_fifoVars

=============================================================================
