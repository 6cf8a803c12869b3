--------------------------------- MODULE Pmm ---------------------------------
(***************************************************************************)
(* The physical memory manager of src/pmm.c: a bitmap of page frames, two  *)
(* counters and a search hint.  Addresses have the width of the code's     *)
(* uint64_t: AddrSpace of them, and arithmetic wraps around.  The counters *)
(* reserved_frames and ignored_frames are statistics and left out.         *)
(***************************************************************************)
EXTENDS Integers, FiniteSets

CONSTANTS
    AddrSpace,      \* 2^64
    PageSize,       \* PMM_PAGE_SIZE
    FrameCount,     \* max_phys_bytes / PMM_PAGE_SIZE
    Maps,           \* memory maps the boot loader may pass, as sets of regions
    Ranges,         \* ranges that callers reserve
    Addrs,          \* addresses that callers free
    NoFrame         \* PMM_INVALID_FRAME

Addr == 0..(AddrSpace - 1)

ASSUME PmmAssumption ==
    /\ AddrSpace \in Nat /\ PageSize \in Nat \ {0} /\ FrameCount \in Nat \ {0}
    /\ AddrSpace % PageSize = 0
    /\ FrameCount * PageSize <= AddrSpace
    /\ NoFrame \notin Nat
    /\ Addrs \subseteq Addr
    /\ Ranges \subseteq [base : Addr, length : Addr]
    /\ \A m \in Maps : m \subseteq [base : Addr, length : Addr, usable : BOOLEAN]

VARIABLES
    ready,          \* pmm->initialized
    used,           \* the bitmap: frames whose bit is 1
    freeFrames,     \* pmm->free_frames
    usedFrames,     \* pmm->used_frames
    hint,           \* pmm->next_hint
    ret,            \* what the last call returned
    map,            \* ghost: the memory map
    owned,          \* ghost: frames handed out and not given back
    strays          \* ghost: frames freed that had not been handed out

pvars == <<ready, used, freeFrames, usedFrames, hint, ret, map, owned, strays>>

Frame == 0..(FrameCount - 1)
MaxPhys == FrameCount * PageSize

PInit ==
    /\ ready = FALSE
    /\ used = {}
    /\ freeFrames = 0 /\ usedFrames = 0
    /\ hint = 0
    /\ ret = NoFrame
    /\ map = {}
    /\ owned = {} /\ strays = {}

-----------------------------------------------------------------------------
AlignDown(a) == a - (a % PageSize)
AlignUp(a) == AlignDown((a + PageSize - 1) % AddrSpace)

Overflows(base, length) == base + length >= AddrSpace

(* The loop over the frames from start to stop, both multiples of a page.  *)
FramesFrom(start, stop) == { f \in Frame : start <= f * PageSize /\ f * PageSize < stop }

(* The frames that mark_range_free and mark_range_used go through.         *)
FreeRange(base, length) ==
    IF length = 0 \/ Overflows(base, length) THEN {}
    ELSE FramesFrom(AlignUp(base), AlignDown(base + length))

(* Mutant: the last, partly covered page is left out.                      *)
UsedRangeMut(base, length) ==
    IF length = 0 \/ Overflows(base, length) THEN {}
    ELSE FramesFrom(AlignDown(base), AlignDown(base + length))

UsedRange(base, length) ==
    IF length = 0 \/ Overflows(base, length) THEN {}
    ELSE FramesFrom(AlignDown(base), AlignUp(base + length))

(* mark_frame_free and mark_frame_used for each frame of a set, with what  *)
(* they do to the counters: neither counter goes below zero.               *)
Less(n, k) == IF n >= k THEN n - k ELSE 0
Lowest(S, f) == f \in S /\ \A g \in S : f <= g

(* Mutant: frames that were used before are counted again.                 *)
MarkUsedMut(S) ==
    /\ used' = used \cup S
    /\ freeFrames' = Less(freeFrames, Cardinality(S))
    /\ usedFrames' = usedFrames + Cardinality(S)

MarkUsed(S) ==
    /\ used' = used \cup S
    /\ freeFrames' = Less(freeFrames, Cardinality(S \ used))
    /\ usedFrames' = usedFrames + Cardinality(S \ used)

(* Mutant: the hint is not moved back to a frame that becomes free.        *)
MarkFreeMut(f) ==
    /\ used' = used \ {f}
    /\ freeFrames' = freeFrames + 1
    /\ usedFrames' = Less(usedFrames, 1)
    /\ UNCHANGED hint

MarkFree(f) ==
    /\ used' = used \ {f}
    /\ freeFrames' = freeFrames + 1
    /\ usedFrames' = Less(usedFrames, 1)
    /\ hint' = IF f < hint THEN f ELSE hint

-----------------------------------------------------------------------------
(* pmm_init_from_map: all frames used, usable regions freed, then frame 0  *)
(* and the other regions marked as used.  The hint stays 0.                *)
InitFromMap(m) ==
    LET freed == UNION { FreeRange(r.base, r.length) : r \in { x \in m : x.usable } }
        kept == {0} \cup UNION { UsedRange(r.base, r.length) : r \in { x \in m : ~x.usable } }
    IN /\ ~ready
       /\ m # {}
       /\ ready' = TRUE
       /\ used' = (Frame \ freed) \cup kept
       /\ freeFrames' = Cardinality(freed \ kept)
       /\ usedFrames' = FrameCount - Cardinality(freed \ kept)
       /\ hint' = 0
       /\ ret' = NoFrame
       /\ map' = m
       /\ UNCHANGED <<owned, strays>>

(* pmm_alloc_frame: from the hint upwards, then from 0 to the hint.        *)
AllocFrame ==
    LET above == { f \in Frame \ used : f >= hint }
        below == { f \in Frame \ used : f < hint }
        found == IF above # {} THEN above ELSE below
    IN /\ ready
       /\ freeFrames # 0
       /\ \E f \in found :
            /\ Lowest(found, f)
            /\ MarkUsed({f})
            /\ hint' = f + 1
            /\ ret' = f
            /\ owned' = owned \cup {f}
       /\ UNCHANGED <<ready, map, strays>>

AllocFails ==
    /\ ~ready \/ freeFrames = 0 \/ Frame \subseteq used
    /\ ret' = NoFrame
    /\ UNCHANGED <<ready, used, freeFrames, usedFrames, hint, map, owned, strays>>

Freeable(a) ==
    /\ ready
    /\ a % PageSize = 0 /\ a # 0 /\ a < MaxPhys
    /\ a \div PageSize \in used

(* pmm_free_frame, which frees any frame that is used.                     *)
FreeFrame(a) ==
    /\ Freeable(a)
    /\ MarkFree(a \div PageSize)
    /\ ret' = TRUE
    /\ owned' = owned \ {a \div PageSize}
    /\ strays' = strays \cup ({a \div PageSize} \ owned)
    /\ UNCHANGED <<ready, map>>

FreeRefused(a) ==
    /\ ~Freeable(a)
    /\ ret' = FALSE
    /\ UNCHANGED <<ready, used, freeFrames, usedFrames, hint, map, owned, strays>>

(* pmm_reserve_range.                                                      *)
ReserveRange(base, length) ==
    /\ IF ready /\ length # 0
         THEN /\ MarkUsed(UsedRange(base, length))
              /\ ret' = TRUE
         ELSE /\ ret' = FALSE
              /\ UNCHANGED <<used, freeFrames, usedFrames>>
    /\ UNCHANGED <<ready, hint, map, owned, strays>>

PNext ==
    \/ \E m \in Maps : InitFromMap(m)
    \/ AllocFrame
    \/ AllocFails
    \/ \E a \in Addrs : FreeFrame(a) \/ FreeRefused(a)
    \/ \E r \in Ranges : ReserveRange(r.base, r.length)

PSpec == PInit /\ [][PNext]_pvars

-----------------------------------------------------------------------------
PTypeOK ==
    /\ used \subseteq Frame
    /\ freeFrames \in Nat /\ usedFrames \in Nat
    /\ hint \in 0..FrameCount
    /\ owned \subseteq Frame /\ strays \subseteq Frame
    /\ map \subseteq [base : Addr, length : Addr, usable : BOOLEAN]

(* The counters count the bitmap.                                          *)
CountsExact ==
    ready => /\ freeFrames = Cardinality(Frame \ used)
             /\ usedFrames = Cardinality(used)

(* Every frame below the hint is used: pmm_alloc_frame finds the lowest    *)
(* free frame, and its second loop never finds one.                        *)
HintBelowFree == \A f \in Frame \ used : ready => hint <= f

(* A frame that is handed out is marked as used, so that no two callers    *)
(* get the same one, and frame 0 is never handed out.                      *)
OwnedAreUsed ==
    /\ owned \subseteq used
    /\ ready => 0 \in used
    /\ 0 \notin owned
    /\ ~ready => owned = {}

(* The inductive invariant of pmm_alloc_frame, pmm_free_frame and          *)
(* pmm_reserve_range: bitmap, counters, hint and owners agree.             *)
PmmInv == PTypeOK /\ CountsExact /\ HintBelowFree /\ OwnedAreUsed

(* pmm_alloc_frame fails only when there is no free frame: the counter, the*)
(* hint and the bitmap never disagree about that.                          *)
AllocFailsOnlyWhenFull ==
    [][AllocFails /\ ready => Frame \subseteq used]_pvars

(* Frame f lies in region r, entirely or in part.  An empty region has no  *)
(* part.                                                                   *)
Inside(f, r) ==
    /\ ~Overflows(r.base, r.length)
    /\ r.base <= f * PageSize /\ (f + 1) * PageSize <= r.base + r.length
Touches(f, r) ==
    /\ r.length # 0 /\ ~Overflows(r.base, r.length)
    /\ r.base < (f + 1) * PageSize /\ f * PageSize < r.base + r.length

(* align_up takes the start of a usable region, or the end of another, to  *)
(* 0 if it is in the last page of the address space.                       *)
Wraps(r) ==
    /\ ~Overflows(r.base, r.length)
    /\ (IF r.usable THEN r.base ELSE r.base + r.length) > AddrSpace - PageSize

(* Frame f lies in a usable region and touches no other, unless the map    *)
(* has a region for which align_up wraps around.                           *)
Usable(f) ==
    \/ \E r \in map : Wraps(r)
    \/ /\ \E r \in map : r.usable /\ Inside(f, r)
       /\ \A r \in map : ~r.usable => ~Touches(f, r)

(* Frames that are handed out lie in usable regions and touch no other:    *)
(* pmm_alloc_frame does not return a frame of a non-usable region.  The    *)
(* exception are frames that pmm_free_frame was given by one who did not   *)
(* own them.                                                               *)
OwnedAreUsable == \A f \in owned \ strays : Usable(f)
=============================================================================
