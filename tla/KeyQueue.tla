------------------------------ MODULE KeyQueue ------------------------------
(***************************************************************************)
(* What the keyboard driver promises its readers: the bytes of the keys    *)
(* that were pressed, in order, each once; what does not fit when a key is *)
(* pressed is dropped, and nothing else ever is.                           *)
(***************************************************************************)
EXTENDS Integers, Sequences

CONSTANTS KeyStrings,  \* the byte strings that keys produce
          Capacity     \* how many bytes wait at most

VARIABLES queue,       \* the bytes waiting
          taken        \* the last byte handed to a reader, as <<byte>>

keyVars == <<queue, taken>>

Smaller(a, b) == IF a < b THEN a ELSE b

Init == queue = <<>> /\ taken = <<>>

Press(seq) ==
    /\ queue' = queue \o SubSeq(seq, 1, Smaller(Len(seq), Capacity - Len(queue)))
    /\ UNCHANGED taken

Take ==
    /\ queue # <<>>
    /\ taken' = <<Head(queue)>>
    /\ queue' = Tail(queue)

Next == Take \/ \E seq \in KeyStrings : Press(seq)

Spec == Init /\ [][Next]_keyVars

=============================================================================
