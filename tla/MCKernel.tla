------------------------------ MODULE MCKernel -------------------------------
(***************************************************************************)
(* A timer and one more line; the boot thread, two demo threads and a      *)
(* third that may be prepared later, with stacks some of which are too     *)
(* small or wrap around; images whose numbers reach the end of a word of   *)
(* four bits.                                                              *)
(***************************************************************************)
EXTENDS Kernel

Ph(type, flags, offset, filesz, vaddr, memsz, align) ==
    [type |-> type, flags |-> flags, offset |-> offset, filesz |-> filesz,
     vaddr |-> vaddr, memsz |-> memsz, align |-> align]
Image(header, size, entry, phoff, phentsize, phdrs) ==
    [header |-> header, size |-> size, entry |-> entry, phoff |-> phoff,
     phentsize |-> phentsize, phdrs |-> phdrs]

Text == Ph("LOAD", {"R", "X"}, 2, 2, 4, 3, 2)
Note == Ph("NOTE", {"R"}, 0, 0, 0, 0, 0)
Long == Ph("LOAD", {"R", "W"}, 2, 2, 11, 3, 0)

(* Every order of good, bad and other segments, past the limit; every      *)
(* header with a good segment; every segment with a good header.           *)
MCImages ==
    { Image("OK", 10, 4, 2, 2, phdrs) : phdrs \in UNION { [1..n -> {Text, Note, Long}] : n \in 0..4 } }
    \cup { Image(header, size, entry, phoff, phentsize, <<Text>>) :
             header \in {"OK", "MAGIC"}, size \in {1, 2, 5, 6}, entry \in {3, 4, 12, 13, 15},
             phoff \in {2, 4, 5, 14, 15}, phentsize \in {1, 2} }
    \cup { Image("OK", 6, 4, 2, 2, <<Ph("LOAD", flags, 2, 2, 4, 3, 2)>>) :
             flags \in SUBSET {"R", "W", "X", "other"} }
    \cup { Image("OK", 6, 4, 2, 2, <<Ph("LOAD", {"R"}, offset, filesz, vaddr, memsz, align)>>) :
             offset \in {2, 5, 15}, filesz \in {0, 1, 2}, vaddr \in {3, 4, 9, 14},
             memsz \in {0, 1, 4, 9}, align \in {0, 2, 3, 6} }

=============================================================================
