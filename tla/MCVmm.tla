-------------------------------- MODULE MCVmm --------------------------------
(* Frames of four addresses in an address space of eight pages.  Regions   *)
(* overlap, end inside pages, exceed max_phys, overflow, and start or end  *)
(* in the last page.  Tables of two entries; the addresses share tables at *)
(* every level, and some are not canonical or not aligned.                 *)
EXTENDS Vmm

Region(b, n, u) == [base |-> b, length |-> n, usable |-> u]
Range(b, n) == [base |-> b, length |-> n]

MCMaps == { {Region(0, 30, TRUE), Region(29, 2, TRUE), Region(9, 0, FALSE)},
            {Region(3, 20, TRUE), Region(8, 22, FALSE)},
            {Region(3, 23, TRUE), Region(16, 30, FALSE), Region(5, 2, FALSE)} }
MCRanges == { Range(18, 1), Range(8, 0) }
MCAddrs == {3, 20}
MCVAddrs == {0, 4, 124, 60, 2}
MCFlagSets == {{"WRITABLE", "HUGE"}}
=============================================================================
