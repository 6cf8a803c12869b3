------------------------------ MODULE ElfLoader ------------------------------
(***************************************************************************)
(* The plan that m11_elf64_plan_load (kernel/user/m11_elf_loader.c) makes  *)
(* of an ELF image.  Numbers are those of uint64_t, below U64.  The        *)
(* fields that are compared with one right value are taken together: header*)
(* is "OK" or the name of the first that is wrong.  phdrs are the program  *)
(* headers that the image's table has.                                     *)
(***************************************************************************)
EXTENDS Integers, Sequences

CONSTANTS
    WordBits,       \* bits of uint64_t
    EhSize, PhSize, \* bytes of the header and of a program header
    MaxSegs,        \* M11_MAX_LOAD_SEGMENTS
    UserBase, UserLimit     \* the user region

(* The powers of two up to the first that is no word.                      *)
Power[k \in 0..WordBits] == IF k = 0 THEN 1 ELSE 2 * Power[k - 1]

U64 == Power[WordBits]

ASSUME ElfAssumption ==
    /\ WordBits \in Nat /\ EhSize \in Nat /\ PhSize \in Nat /\ MaxSegs \in Nat
    /\ UserBase \in 0..(U64 - 1) /\ UserLimit \in 0..(U64 - 1)

(* What the bytes of an image can say.  e_phnum has 16 bits, so that the   *)
(* size of the table is a word.                                            *)
U64s == 0..(U64 - 1)
PhdrRec == [type : STRING, flags : SUBSET STRING,
            offset : U64s, filesz : U64s, vaddr : U64s, memsz : U64s, align : U64s]
ImageRec == { image \in [header : STRING, size : U64s, entry : U64s, phoff : U64s,
                         phentsize : U64s, phdrs : Seq(PhdrRec)] :
                PhSize * Len(image.phdrs) < U64 }

(* m11_add_overflow_u64.                                                   *)
AddOverflows(a, b) == (a + b) % U64 < a
Sum(a, b) == (a + b) % U64

(* m11_validate_user_range.  Mutant: only the start has to be below the    *)
(* limit.                                                                  *)
RangeValidMut(first, size) ==
    /\ UserBase < UserLimit
    /\ size # 0
    /\ ~AddOverflows(first, size)
    /\ first >= UserBase /\ first <= UserLimit /\ Sum(first, size) > first

RangeValid(first, size) ==
    /\ UserBase < UserLimit
    /\ size # 0
    /\ ~AddOverflows(first, size)
    /\ first >= UserBase /\ Sum(first, size) <= UserLimit /\ Sum(first, size) > first

(* m11_is_power_of_two_u64.                                                *)
PowerOfTwo(n) == \E k \in 0..(WordBits - 1) : n = Power[k]

(* m11_validate_load_segment.                                              *)
SegmentError(ph, imageSize) ==
    IF ph.flags \notin SUBSET {"R", "W", "X"} \/ {"W", "X"} \subseteq ph.flags THEN "FLAGS"
    ELSE IF ph.memsz < ph.filesz THEN "SEGBOUNDS"
    ELSE IF ph.align \notin {0, 1}
            /\ (~PowerOfTwo(ph.align) \/ ph.vaddr % ph.align # ph.offset % ph.align) THEN "ALIGN"
    ELSE IF \/ AddOverflows(ph.offset, ph.filesz)
            \/ Sum(ph.offset, ph.filesz) > imageSize \/ ph.offset > imageSize THEN "SEGBOUNDS"
    ELSE IF ~RangeValid(ph.vaddr, ph.memsz) THEN "SEGRANGE"
    ELSE "OK"

(* m11_validate_phdr_bounds.                                               *)
PhdrError(image) ==
    LET bytes == PhSize * Len(image.phdrs)
    IN IF image.phdrs = <<>> THEN "PHBOUNDS"
       ELSE IF image.phentsize # PhSize THEN "PHENTSIZE"
       ELSE IF AddOverflows(image.phoff, bytes) \/ Sum(image.phoff, bytes) > image.size
               \/ image.phoff > image.size THEN "PHBOUNDS"
       ELSE "OK"

HeaderError(image) ==
    IF image.size < EhSize THEN "SIZE"
    ELSE IF image.header # "OK" THEN image.header
    ELSE IF PhdrError(image) # "OK" THEN PhdrError(image)
    ELSE IF ~RangeValid(image.entry, 1) THEN "ENTRY"
    ELSE "OK"

(* The plan that a call leaves, with its result.                           *)
NoImage == [header |-> "NONE"]
NoPlan == [rc |-> "NONE"]
Plan(rc, entry, segments) == [rc |-> rc, entry |-> entry, segments |-> segments]

(* One turn of the loop: a plan that is refused is emptied.                *)
Refuse(plan, rc) == [plan EXCEPT !.rc = rc, !.entry = 0, !.segments = <<>>]

AddSegment(ph, imageSize, plan) ==
    LET err == SegmentError(ph, imageSize)
    IN IF plan.rc # "OK" \/ ph.type # "LOAD" THEN plan
       ELSE IF Len(plan.segments) >= MaxSegs THEN Refuse(plan, "SEGCOUNT")
       ELSE IF err # "OK" THEN Refuse(plan, err)
       ELSE [plan EXCEPT !.segments = Append(@, ph)]

(* m11_elf64_plan_load.                                                    *)
PlanLoad(image) ==
    LET after[n \in 0..Len(image.phdrs)] ==
          IF n = 0 THEN Plan("OK", image.entry, <<>>)
          ELSE AddSegment(image.phdrs[n], image.size, after[n - 1])
        full == after[Len(image.phdrs)]
    IN IF HeaderError(image) # "OK" THEN Plan(HeaderError(image), 0, <<>>)
       ELSE IF full.rc = "OK" /\ full.segments = <<>> THEN [full EXCEPT !.rc = "SEGCOUNT"]
       ELSE full

-----------------------------------------------------------------------------
(* What a good image is, without the order of the checks and in unbounded  *)
(* numbers.                                                                *)
Loads(image) ==
    LET loads[n \in 0..Len(image.phdrs)] ==
          IF n = 0 THEN <<>>
          ELSE IF image.phdrs[n].type # "LOAD" THEN loads[n - 1]
          ELSE Append(loads[n - 1], image.phdrs[n])
    IN loads[Len(image.phdrs)]

InUserRegion(first, size) == UserBase <= first /\ first + size <= UserLimit /\ size > 0

GoodSegment(ph, imageSize) ==
    /\ ph.flags \subseteq {"R", "W", "X"} /\ ~({"W", "X"} \subseteq ph.flags)
    /\ ph.filesz <= ph.memsz
    /\ ph.offset + ph.filesz <= imageSize
    /\ InUserRegion(ph.vaddr, ph.memsz)
    /\ ph.align > 1 => /\ \A d \in 2..ph.align : ph.align % d = 0 => d % 2 = 0
                       /\ (ph.vaddr - ph.offset) % ph.align = 0

GoodImage(image) ==
    /\ image.size >= EhSize /\ image.header = "OK"
    /\ image.phentsize = PhSize
    /\ image.phoff + Len(image.phdrs) * PhSize <= image.size
    /\ InUserRegion(image.entry, 1)
    /\ Len(Loads(image)) \in 1..MaxSegs
    /\ \A i \in 1..Len(Loads(image)) : GoodSegment(Loads(image)[i], image.size)

=============================================================================
