------------------------------- MODULE MCVmm --------------------------------
(* Vmm with program files of a few bytes: pages have two bytes and tables   *)
(* four entries, so that a program and its stack need tables of their own.  *)
(* Without the heap two programs fit, with it memory runs out on the way.   *)
EXTENDS Vmm

Segment(x, offset, vaddr, filesz, memsz) ==
    [type |-> "LOAD", x |-> x, offset |-> offset, vaddr |-> vaddr,
     filesz |-> filesz, memsz |-> memsz]

File(id, size, entry, phdrs) ==
    [id |-> id, size |-> size, ident |-> TRUE, phoff |-> 1, entry |-> entry,
     phdrs |-> phdrs]

(* A segment, and one that starts in the same page and ends with bss *)
Good == File("good", 5, 64, <<Segment(TRUE, 3, 64, 1, 1), Segment(FALSE, 4, 65, 1, 3)>>)

(* A segment that ends behind the file *)
Bad == File("bad", 6, 64, <<Segment(TRUE, 5, 64, 2, 2)>>)

(* The entry point is not in an executable segment. *)
NoEntry == File("noentry", 6, 64, <<Segment(FALSE, 4, 64, 1, 1)>>)

Programs == {Good, Bad, NoEntry}

TheDemo == [id |-> "demo"]

UsableFrames == 0..31

Tables4 == <<1, 2, 3, 4>>

(* Buffers across the end of the image, into the stack and around the       *)
(* end of the address space *)
SomeBuffers ==
    {[offset |-> o, len |-> n] : o \in {3, 15, 365}, n \in {2, 3}}

=============================================================================
