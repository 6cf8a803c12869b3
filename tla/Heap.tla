-------------------------------- MODULE Heap --------------------------------
(***************************************************************************)
(* What the kernel heap promises its callers: live allocations are         *)
(* disjoint, aligned ranges of the arena, at least as long as was asked    *)
(* for; exactly they can be freed; and an arena with no live allocation is *)
(* as good as new.                                                         *)
(***************************************************************************)
EXTENDS Integers

CONSTANTS
    Ptr, Size,      \* pointers and sizes that callers pass
    Align,          \* alignment of what is handed out
    Overhead        \* bytes that the first allocation costs

VARIABLES
    arena,          \* [lo, hi]: the bytes from lo to hi - 1; empty at first
    live,           \* allocations, as records [ptr, len]
    call, ret       \* the last call and what it returned: a pointer, 0 for
                    \* null or success, -1 for an error

hvars == <<arena, live, call, ret>>

NoArena == [lo |-> 0, hi |-> 0]

HInit ==
    /\ arena = NoArena /\ live = {}
    /\ call = <<"none", 0>> /\ ret = 0

(* The heap is given its arena, or refuses it.                             *)
Setup ==
    /\ call' = <<"init", 0>>
    /\ live' = live
    /\ \/ arena = NoArena /\ arena'.lo < arena'.hi /\ ret' = 0
       \/ arena' = arena /\ ret' = -1

Apart(r, s) == r.ptr + r.len <= s.ptr \/ s.ptr + s.len <= r.ptr

(* An allocation of n bytes returns a new range.                           *)
Allocate(n) ==
    /\ call' = <<"alloc", n>>
    /\ n > 0
    /\ \E r \in live' :
         /\ live' = live \cup {r}
         /\ ret' = r.ptr
         /\ r.len >= n
         /\ r.ptr % Align = 0
         /\ arena.lo < r.ptr /\ r.ptr + r.len <= arena.hi
         /\ \A s \in live : Apart(r, s)
    /\ UNCHANGED arena

(* It may fail for want of room, but not if nothing is allocated and the   *)
(* arena is large enough.                                                  *)
NoRoom(n) ==
    /\ call' = <<"alloc", n>>
    /\ n = 0 \/ live # {} \/ n > arena.hi - arena.lo - Overhead
    /\ ret' = 0
    /\ UNCHANGED <<arena, live>>

(* A live allocation can be freed, once; nothing happens for null; any     *)
(* other pointer is refused.                                               *)
Release(p) ==
    /\ call' = <<"free", p>>
    /\ ret' = IF p = 0 \/ \E r \in live : r.ptr = p THEN 0 ELSE -1
    /\ live' = { r \in live : r.ptr # p }
    /\ UNCHANGED arena

HNext ==
    \/ Setup
    \/ \E n \in Size : Allocate(n) \/ NoRoom(n)
    \/ \E p \in Ptr : Release(p)

HSpec == HInit /\ [][HNext]_hvars
=============================================================================
