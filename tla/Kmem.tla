-------------------------------- MODULE Kmem --------------------------------
(***************************************************************************)
(* The kernel heap of kernel/mm/kmem.c: blocks with a header each, in a    *)
(* doubly linked list, first fit, split on allocation and merged on free.  *)
(*                                                                         *)
(* blk is the memory as far as kmem.c reads it: its domain are the         *)
(* addresses that hold a header with KMEM_MAGIC.  Payloads, and with them  *)
(* the memset of kmem_calloc, are left out; callers do not write outside   *)
(* theirs, nor KMEM_MAGIC inside.  The heap is not reentrant, and is set   *)
(* up once (m8_heap_bootstrap).                                            *)
(***************************************************************************)
EXTENDS Integers, FiniteSets

CONSTANTS
    AddrSpace,      \* number of addresses; SIZE_MAX is one less
    Align,          \* KMEM_ALIGN
    Header,         \* sizeof(kmem_block_t)
    MinSplit,       \* KMEM_MIN_SPLIT
    Arenas,         \* memory that kmem_init may be given: [base, bytes]
    Size, Count,    \* sizes and counts that callers pass
    Ptr             \* pointers that callers free

SizeMax == AddrSpace - 1
BlockLimit == 1048576   \* how many blocks kmem_validate goes along

ASSUME KmemAssumption ==
    /\ {AddrSpace, Align, Header, MinSplit} \subseteq Nat \ {0}
    /\ Header % Align = 0 /\ AddrSpace % Align = 0
    /\ Size \subseteq 0..SizeMax /\ Count \subseteq 0..SizeMax
    /\ Ptr \subseteq 0..SizeMax
    /\ Arenas \subseteq [base : 0..SizeMax, bytes : 0..SizeMax]
    /\ \A r \in Arenas :
         /\ r.base + r.bytes < AddrSpace
         /\ r.bytes + Header + MinSplit < AddrSpace  \* sums in the split do not wrap
         /\ r.bytes <= BlockLimit * Header  \* kmem_validate comes to the end

VARIABLES
    ready,          \* g_initialized
    base, end,      \* g_heap_base, which is also g_head; g_heap_end
    blk,            \* the headers
    call, ret       \* the last call and what it returned

kvars == <<ready, base, end, blk, call, ret>>

Null == 0

KInit ==
    /\ ready = FALSE
    /\ base = Null /\ end = Null
    /\ blk = [a \in {} |-> 0]
    /\ call = <<"none", 0>> /\ ret = 0

-----------------------------------------------------------------------------
(* kmem_align_up_size and kmem_align_up_ptr: 0 if the result does not fit. *)
AlignUp(v) ==
    IF v > SizeMax - (Align - 1) THEN 0
    ELSE (v + Align - 1) - ((v + Align - 1) % Align)

Payload(a) == a + Header
InHeap(p) == ready /\ base <= p /\ p < end

(* The end of block a, where the next one is expected.                     *)
Expected(b, a) == AlignUp(Payload(a) + b[a].size)

(* kmem_validate, from the list's node cur on, which follows prev: each    *)
(* node starts where the one before it ends, points back to it, and stays  *)
(* in the heap.                                                            *)
Valid(b, lo, hi) ==
    LET Nodes == DOMAIN b \cup {Null}
        OkFrom[n \in Nodes \X Nodes] ==
          LET cur == n[1]
              prev == n[2]
          IN \/ cur = Null
             \/ /\ cur = IF prev = Null THEN lo ELSE Expected(b, prev)
                /\ cur >= lo /\ cur + Header <= hi
                /\ b[cur].prev = prev
                /\ b[cur].size <= hi - Payload(cur)
                /\ Expected(b, cur) # 0 /\ Expected(b, cur) <= hi
                /\ b[cur].next \in Nodes
                /\ OkFrom[<<b[cur].next, cur>>]
    IN lo \in DOMAIN b /\ lo < hi /\ OkFrom[<<lo, Null>>]

-----------------------------------------------------------------------------
(* kmem_init.                                                              *)
Usable(r) ==
    LET usable == r.bytes - (AlignUp(r.base) - r.base)
    IN usable - (usable % Align)

InitError(r) ==
    CASE r.base = Null \/ r.bytes < Header + MinSplit -> -1
      [] r.base # Null /\ r.bytes >= Header + MinSplit /\ AlignUp(r.base) = 0 -> -2
      [] OTHER ->
           IF r.bytes <= (AlignUp(r.base) - r.base) + Header + MinSplit THEN -3
           ELSE IF Usable(r) <= Header + MinSplit THEN -4
           ELSE 0

KmemInit(r) ==
    /\ ~ready
    /\ call' = <<"init", 0>>
    /\ \/ /\ InitError(r) # 0
          /\ ret' = InitError(r)
          /\ UNCHANGED <<ready, base, end, blk>>
       \/ /\ InitError(r) = 0
          /\ ready' = TRUE
          /\ base' = AlignUp(r.base)
          /\ end' = base' + Usable(r)
          /\ blk' = [a \in {base'} |->
                       [size |-> Usable(r) - Header, free |-> TRUE, prev |-> Null, next |-> Null]]
          /\ ret' = IF Valid(blk', base', end') THEN 0 ELSE -1

(* Mutant: the header of the new block is not counted.                     *)
SplitMut(b, a, wanted) ==
    LET new == AlignUp(Payload(a) + wanted)
        rest == [size |-> b[a].size - wanted, free |-> TRUE, prev |-> a, next |-> b[a].next]
    IN IF b[a].size <= wanted + Header + MinSplit THEN b
       ELSE [x \in DOMAIN b \cup {new} |->
               CASE x = new -> rest
                 [] x = a -> [b[a] EXCEPT !.size = wanted, !.next = new]
                 [] x \notin {new, a} -> IF x = b[a].next THEN [b[x] EXCEPT !.prev = new] ELSE b[x]]

(* kmem_split_if_useful.                                                   *)
Split(b, a, wanted) ==
    LET new == AlignUp(Payload(a) + wanted)
        consumed == new - Payload(a)
        rest == [size |-> b[a].size - consumed - Header, free |-> TRUE,
                 prev |-> a, next |-> b[a].next]
    IN IF \/ b[a].size < wanted + AlignUp(Header) + MinSplit
          \/ new = 0
          \/ new + Header >= end
          \/ b[a].size <= consumed + Header + MinSplit
         THEN b
         ELSE [x \in DOMAIN b \cup {new} |->
                 CASE x = new -> rest
                   [] x = a -> [b[a] EXCEPT !.size = wanted, !.next = new]
                   [] x \notin {new, a} ->
                        IF x = b[a].next THEN [b[x] EXCEPT !.prev = new] ELSE b[x]]

(* The blocks kmem_alloc may take.  The list is in the order of addresses  *)
(* (Tiled below), so that its first is the lowest.                         *)
Fitting(wanted) == { a \in DOMAIN blk : blk[a].free /\ blk[a].size >= wanted }

(* kmem_alloc: what it returns and leaves.                                 *)
Alloc(bytes) ==
    LET wanted == AlignUp(bytes)
        fitting == Fitting(wanted)
    IN \/ /\ ready /\ bytes # 0 /\ wanted # 0
          /\ \E a \in fitting :
               /\ \A x \in fitting : a <= x
               /\ blk' = [Split(blk, a, wanted) EXCEPT ![a].free = FALSE]
               /\ ret' = Payload(a)
       \/ /\ ~ready \/ bytes = 0 \/ wanted = 0 \/ fitting = {}
          /\ ret' = Null
          /\ UNCHANGED blk

KmemAlloc(bytes) ==
    /\ call' = <<"alloc", bytes>>
    /\ Alloc(bytes)
    /\ UNCHANGED <<ready, base, end>>

(* kmem_calloc, whose product is one of SIZE_MAX + 1 values.               *)
KmemCalloc(count, bytes) ==
    /\ call' = <<"alloc", count * bytes>>
    /\ IF count # 0 /\ bytes > SizeMax \div count
         THEN ret' = Null /\ UNCHANGED blk
         ELSE Alloc((count * bytes) % AddrSpace)
    /\ UNCHANGED <<ready, base, end>>

-----------------------------------------------------------------------------
(* One round of kmem_coalesce_forward: the block after a is merged into it,*)
(* and its magic cleared, if it is free and begins where a ends.  As no two*)
(* neighbours are free afterwards (Tiled below), there is no second round. *)
Coalesce(b, a) ==
    LET n == b[a].next
    IN IF n = Null THEN b
       ELSE IF ~b[n].free \/ Expected(b, a) # n THEN b
       ELSE [x \in DOMAIN b \ {n} |->
               CASE x = a -> [b[a] EXCEPT !.size = @ + Header + b[n].size, !.next = b[n].next]
                 [] x # a -> IF x = b[n].next THEN [b[x] EXCEPT !.prev = a] ELSE b[x]]

(* The checks of kmem_free_checked.                                        *)
FreeError(p) ==
    CASE ~InHeap(p) -> -1
      [] InHeap(p) /\ p % Align # 0 -> -2
      [] OTHER ->
           IF ~InHeap(p - Header) \/ p - Header \notin DOMAIN blk THEN -3
           ELSE IF blk[p - Header].free THEN -4
           ELSE 0

(* Mutant: the block is not merged with the one before it.                 *)
FreedMut(a) == Coalesce([blk EXCEPT ![a].free = TRUE], a)

(* The headers after block a is freed.                                     *)
Freed(a) ==
    LET forward == Coalesce([blk EXCEPT ![a].free = TRUE], a)
        prev == forward[a].prev
    IN IF prev = Null THEN forward
       ELSE IF forward[prev].free THEN Coalesce(forward, prev) ELSE forward

(* kmem_free_checked.                                                      *)
KmemFree(p) ==
    /\ call' = <<"free", p>>
    /\ \/ /\ p = Null
          /\ ret' = 0
          /\ UNCHANGED blk
       \/ /\ p # Null /\ FreeError(p) # 0
          /\ ret' = FreeError(p)
          /\ UNCHANGED blk
       \/ /\ p # Null /\ FreeError(p) = 0
          /\ blk' = Freed(p - Header)
          /\ ret' = IF Valid(blk', base, end) THEN 0 ELSE -1
    /\ UNCHANGED <<ready, base, end>>

KNext ==
    \/ \E r \in Arenas : KmemInit(r)
    \/ \E bytes \in Size : KmemAlloc(bytes)
    \/ \E count \in Count, bytes \in Size : KmemCalloc(count, bytes)
    \/ \E p \in Ptr : KmemFree(p)

KSpec == KInit /\ [][KNext]_kvars

-----------------------------------------------------------------------------
(* Properties.                                                             *)

Block == [size : 0..SizeMax, free : BOOLEAN, prev : 0..SizeMax, next : 0..SizeMax]

KTypeOK ==
    /\ ready \in BOOLEAN
    /\ base \in 0..SizeMax /\ end \in 0..SizeMax
    /\ DOMAIN blk \subseteq 0..SizeMax
    /\ \A a \in DOMAIN blk : blk[a] \in Block
    /\ ret \in -9..SizeMax

BlockEnd(a) == a + Header + blk[a].size

(* The blocks tile the heap without a gap from its base to its end, linked *)
(* in that order in both directions; every header and payload is aligned   *)
(* and every payload non-empty; and of two neighbours one is in use, so    *)
(* that free memory never stays in pieces.                                 *)
Tiled ==
    /\ base \in DOMAIN blk /\ blk[base].prev = Null
    /\ \A a \in DOMAIN blk :
         /\ base <= a /\ a % Align = 0
         /\ blk[a].size > 0 /\ blk[a].size % Align = 0
         /\ BlockEnd(a) <= end
         /\ \A x \in DOMAIN blk : x <= a \/ BlockEnd(a) <= x
         /\ blk[a].next = IF BlockEnd(a) = end THEN Null ELSE BlockEnd(a)
         /\ blk[a].next # Null =>
              /\ blk[a].next \in DOMAIN blk
              /\ blk[blk[a].next].prev = a
              /\ ~(blk[a].free /\ blk[blk[a].next].free)

(* The inductive invariant of kmem_alloc, kmem_calloc and                  *)
(* kmem_free_checked: types, and the tiling of the heap by the list.       *)
KmemInv ==
    /\ KTypeOK
    /\ IF ready THEN 0 < base /\ base < end /\ base % Align = 0 /\ Tiled
                ELSE DOMAIN blk = {} /\ base = Null /\ end = Null

(* kmem.c is a heap: allocations are disjoint and long enough, also when   *)
(* count * bytes does not fit; exactly they can be freed, once, and        *)
(* kmem_validate finds nothing wrong afterwards; and after the last free   *)
(* the whole arena can be allocated again.                                 *)
H == INSTANCE Heap WITH
       Size <- Size \cup { c * n : c \in Count, n \in Size },
       Overhead <- Header,
       arena <- [lo |-> base, hi |-> end],
       live <- { [ptr |-> Payload(a), len |-> blk[a].size] :
                   a \in { x \in DOMAIN blk : ~blk[x].free } },
       ret <- IF ret < 0 THEN -1 ELSE ret
ImplementsHeap == H!HSpec
=============================================================================
