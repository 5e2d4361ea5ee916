-------------------------------- MODULE Elf ---------------------------------
(***************************************************************************)
(* The arithmetic of the ELF loader, kernel/core/elf/elf_loader.c: which   *)
(* headers it accepts, which pages a segment needs and which bytes each    *)
(* page gets.  Addresses are unsigned and wrap at WORD (2^64 in the code). *)
(* A byte of a program file is named by the program and its offset.        *)
(***************************************************************************)
EXTENDS Integers, Sequences

CONSTANTS
    WORD,          \* number of addresses
    PAGE_SIZE,     \* PAGE_SIZE_4K
    EHDR_SIZE,     \* sizeof(elf64_ehdr_t)
    PHENT_SIZE     \* sizeof(elf64_phdr_t)

ASSUME ElfAssumption ==
    /\ PAGE_SIZE \in Nat \ {0}
    /\ WORD \in Nat \ {0} /\ WORD % PAGE_SIZE = 0
    /\ EHDR_SIZE \in Nat /\ PHENT_SIZE \in Nat \ {0}

Zero == <<"zero">>

(* The byte of program p at an offset of its file *)
DataByte(p, off) == <<p.id, off>>

Plus(a, b) == (a + b) % WORD

PageOf(a) == a - (a % PAGE_SIZE)

(* p_vaddr + load_bias *)
segment_vaddr(ph, bias) == Plus(ph.vaddr, bias)

vaddr_end(ph, bias) ==
    PageOf(Plus(Plus(segment_vaddr(ph, bias), ph.memsz), PAGE_SIZE - 1))

(* Mutant of SegmentOk: the end of the file is not looked at. *)
SegmentOkNoSize(p, ph, bias) == ph.filesz <= ph.memsz

(* load_segment goes on to map pages, or has none to map. *)
SegmentOk(p, ph, bias) ==
    /\ ph.filesz <= ph.memsz
    /\ ph.offset <= p.size
    /\ ph.filesz <= p.size - ph.offset
    /\ segment_vaddr(ph, bias) >= ph.vaddr
    /\ ph.memsz > 0 => vaddr_end(ph, bias) >= segment_vaddr(ph, bias)

(* The pages that the loop of load_segment visits, in increasing order *)
SegmentPages(ph, bias) ==
    IF ph.memsz = 0 THEN {}
    ELSE {va \in PageOf(segment_vaddr(ph, bias))..(vaddr_end(ph, bias) - 1) :
            va % PAGE_SIZE = 0}

(* The zeroed page at va with copy_start..copy_end taken from the file *)
PageBytes(p, ph, bias, va) ==
    LET data_start == segment_vaddr(ph, bias)
        data_end   == Plus(data_start, ph.filesz)
        copy_start == IF va > data_start THEN va ELSE data_start
        copy_end   == IF va + PAGE_SIZE < data_end THEN va + PAGE_SIZE ELSE data_end
    IN  [k \in 0..(PAGE_SIZE - 1) |->
            IF va + k >= copy_start /\ va + k < copy_end
            THEN DataByte(p, ph.offset + (va + k - data_start))
            ELSE Zero]

(* A segment in which entry_is_executable looks for the entry point *)
Executable(ph) == ph.type = "LOAD" /\ ph.x /\ ph.memsz > 0

entry_is_executable(p) ==
    \E i \in DOMAIN p.phdrs :
        LET ph == p.phdrs[i]
        IN  /\ Executable(ph)
            /\ p.entry >= ph.vaddr /\ p.entry < Plus(ph.vaddr, ph.memsz)
            /\ \A j \in 1..i : Executable(p.phdrs[j]) =>
                  Plus(p.phdrs[j].vaddr, p.phdrs[j].memsz) >= p.phdrs[j].vaddr

(* The checks of elf_load before the first segment: identification, class,  *)
(* machine, type and e_phentsize are one flag of the program.               *)
HeaderOk(p) ==
    /\ p.size >= EHDR_SIZE
    /\ p.ident
    /\ p.phoff <= p.size
    /\ Len(p.phdrs) <= (p.size - p.phoff) \div PHENT_SIZE
    /\ entry_is_executable(p)

(* The check of elf_load after the last segment *)
EntryOk(p, bias) == Plus(p.entry, bias) >= p.entry

(***************************************************************************)
(* What the program file asks for, as a reference: the bytes of memory     *)
(* from p_vaddr on, first the p_filesz bytes at p_offset, then zeros.      *)
(***************************************************************************)

Loads(p) == {i \in DOMAIN p.phdrs : p.phdrs[i].type = "LOAD"}

(* The byte of segment i for address a *)
SegmentByte(p, i, a) ==
    LET ph == p.phdrs[i]
    IN  IF a >= ph.vaddr /\ a - ph.vaddr < ph.filesz
        THEN DataByte(p, ph.offset + (a - ph.vaddr)) ELSE Zero

=============================================================================
