--------------------------------- MODULE Vmm ---------------------------------
(***************************************************************************)
(* Page tables of four levels (src/vmm.c) in frames that the physical      *)
(* memory manager hands out, as kernel.c connects the two.  vmm_map_page   *)
(* is one step per table it goes through; nothing else runs meanwhile.     *)
(* Virtual addresses keep their layout: a page offset, four indices of     *)
(* base Fan, and upper bits that repeat the sign bit.  The frame of a root *)
(* that was not zero is not followed further: the tables would be whatever *)
(* it happens to point to.                                                 *)
(***************************************************************************)
EXTENDS Pmm

CONSTANTS
    Fan,            \* VMM_ENTRIES_PER_TABLE
    Upper,          \* values of the bits above the indices: 2^16
    PhysSize,       \* addresses that an entry has room for: 2^52
    VAddrs,         \* virtual addresses that callers pass
    Targets,        \* physical addresses that callers map to
    FlagSets        \* flags that callers pass

ASSUME VmmAssumption ==
    /\ Fan \in Nat \ {0, 1} /\ Fan % 2 = 0 /\ Upper \in Nat \ {0}
    /\ PhysSize \in Nat \ {0}
    /\ VAddrs \subseteq Nat /\ Targets \subseteq Nat

VARIABLES
    root,           \* kernel_space.root_paddr, NoFrame before kernel_vmm_init
    mem,            \* what each frame holds, read as a table
    call,           \* the vmm_map_page in progress
    rc,             \* what the last call returned
    tables,         \* ghost: frames allocated for tables
    dirty           \* ghost: the root was not zero when it was allocated

vmvars == <<root, mem, call, rc, tables, dirty>>
vars == <<pvars, vmvars>>

Idx == 0..(Fan - 1)
None == [present |-> FALSE]
Entry(to, flags) == [present |-> TRUE, to |-> to, flags |-> flags]

(* The entry of a page: VMM_PTE_ADDR_MASK cuts off what is above PhysSize, *)
(* and flags that are not allowed are dropped.                             *)
LeafEntry(to, flags) == Entry(to % PhysSize, flags \ {"HUGE"})

ZeroPage == [i \in Idx |-> None]
NoCall == [level |-> 0]

(* What a frame holds that nobody zeroed: entries that look present.       *)
UsedPage == [i \in Idx |-> Entry(1, {})]

Init ==
    /\ PInit
    /\ root = NoFrame
    /\ mem = [f \in Frame |-> UsedPage]
    /\ call = NoCall
    /\ rc = "OK"
    /\ tables = {}
    /\ dirty = FALSE

-----------------------------------------------------------------------------
(* idx_pt for level 1, idx_pd, idx_pdpt and idx_pml4 for level 4.          *)
Index(v, level) ==
    (v \div (PageSize * (CASE level = 1 -> 1 [] level = 2 -> Fan
                           [] level = 3 -> Fan * Fan [] level = 4 -> Fan * Fan * Fan))) % Fan

Canonical(v) ==
    LET sign == (v \div (PageSize * Fan * Fan * Fan * (Fan \div 2))) % 2
        upper == v \div (PageSize * Fan * Fan * Fan * Fan)
    IN upper = IF sign = 1 THEN Upper - 1 ELSE 0

Aligned(a) == a % PageSize = 0

(* The walk of vmm_query_page and vmm_unmap_page: the level 1 table for v, *)
(* or NoFrame.                                                             *)
Down(t, v, level) ==
    IF t = NoFrame THEN NoFrame
    ELSE LET e == mem[t][Index(v, level)]
         IN IF e.present /\ "HUGE" \notin e.flags /\ e.to # 0 THEN e.to ELSE NoFrame

PageTable(v) ==
    LET pdpt == Down(root, v, 4)
        pd == Down(pdpt, v, 3)
    IN Down(pd, v, 2)

Translate(v) ==
    LET pt == PageTable(v)
    IN IF pt = NoFrame THEN None ELSE mem[pt][Index(v, 1)]

-----------------------------------------------------------------------------
Done(code) == rc' = code /\ call' = NoCall

(* kernel_vmm_init.  Nothing zeroes the root: it is zero if the memory was.*)
VmmInit ==
    /\ ready /\ root = NoFrame
    /\ \/ /\ AllocFrame
          /\ root' = ret'
          /\ tables' = {ret'}
          /\ \E page \in {ZeroPage, UsedPage} :
               mem' = [mem EXCEPT ![ret'] = page] /\ dirty' = (page # ZeroPage)
       \/ /\ AllocFails
          /\ UNCHANGED <<root, mem, tables, dirty>>
    /\ UNCHANGED <<call, rc>>

(* vmm_map_page, up to its first table.                                    *)
MapPage(v, to, flags) ==
    /\ root # NoFrame /\ ~dirty /\ call = NoCall
    /\ IF Canonical(v) /\ Aligned(v) /\ Aligned(to)
         THEN call' = [level |-> 4, table |-> root, v |-> v, to |-> to, flags |-> flags] /\ UNCHANGED rc
         ELSE Done("INVAL")
    /\ UNCHANGED <<pvars, root, mem, tables, dirty>>

(* get_or_alloc_next_table, for an entry that is present.                  *)
NextTable ==
    /\ call.level > 1
    /\ LET e == mem[call.table][Index(call.v, call.level)]
       IN /\ e.present
          /\ IF "HUGE" \in e.flags THEN Done("EXISTS")
             ELSE IF e.to = 0 THEN Done("INVAL")
             ELSE call' = [call EXCEPT !.level = @ - 1, !.table = e.to] /\ UNCHANGED rc
    /\ UNCHANGED <<pvars, root, mem, tables, dirty>>

(* For one that is not: the new table is zeroed, then entered.  Mutant:    *)
(* it is not zeroed.                                                       *)
AllocTableMut(f) ==
    mem' = [mem EXCEPT ![call.table][Index(call.v, call.level)] = Entry(f, {"WRITABLE"})]

AllocTable(f) ==
    mem' = [mem EXCEPT ![f] = ZeroPage,
                       ![call.table][Index(call.v, call.level)] = Entry(f, {"WRITABLE"})]

NewTable ==
    /\ call.level > 1
    /\ ~mem[call.table][Index(call.v, call.level)].present
    /\ \/ /\ AllocFrame
          /\ AllocTable(ret')
          /\ call' = [call EXCEPT !.level = @ - 1, !.table = ret']
          /\ tables' = tables \cup {ret'}
          /\ UNCHANGED rc
       \/ /\ AllocFails
          /\ Done("NOMEM")
          /\ UNCHANGED <<mem, tables>>
    /\ UNCHANGED <<root, dirty>>

(* The end of vmm_map_page.  Mutant: a page that is mapped is mapped anew. *)
SetEntryMut ==
    /\ mem' = [mem EXCEPT ![call.table][Index(call.v, 1)] = LeafEntry(call.to, call.flags)]
    /\ Done("OK")

SetEntry ==
    IF mem[call.table][Index(call.v, 1)].present THEN Done("EXISTS") /\ UNCHANGED mem
    ELSE /\ mem' = [mem EXCEPT ![call.table][Index(call.v, 1)] = LeafEntry(call.to, call.flags)]
         /\ Done("OK")

MapLeaf ==
    /\ call.level = 1
    /\ SetEntry
    /\ UNCHANGED <<pvars, root, tables, dirty>>

UnmapPage(v) ==
    /\ root # NoFrame /\ ~dirty /\ call = NoCall
    /\ IF ~Canonical(v) \/ ~Aligned(v) THEN Done("INVAL") /\ UNCHANGED mem
       ELSE IF ~Translate(v).present THEN Done("NOT_FOUND") /\ UNCHANGED mem
       ELSE mem' = [mem EXCEPT ![PageTable(v)][Index(v, 1)] = None] /\ Done("OK")
    /\ UNCHANGED <<pvars, root, tables, dirty>>

(* The other callers of the memory manager, who do not free tables.        *)
OtherCalls ==
    /\ call = NoCall
    /\ PNext
    /\ tables \cap owned \subseteq owned'
    /\ UNCHANGED vmvars

Next ==
    \/ VmmInit
    \/ \E v \in VAddrs, to \in Targets, flags \in FlagSets : MapPage(v, to, flags)
    \/ NextTable \/ NewTable \/ MapLeaf
    \/ \E v \in VAddrs : UnmapPage(v)
    \/ OtherCalls

Spec == Init /\ [][Next]_vars

-----------------------------------------------------------------------------
(* Properties.                                                             *)

(* The entries of a set of tables, and the tables they point to.           *)
Entries(S) == { x \in S \X Idx : mem[x[1]][x[2]].present }
Below(S) == { mem[x[1]][x[2]].to : x \in Entries(S) }

(* The tables that can be reached form a tree of four levels under the     *)
(* root: each is entered once and at one level.  What is reached belongs   *)
(* to the tables: the memory manager counts it as handed out, so nobody    *)
(* else is given a frame that a walk goes through.  And no frame leaks: one*)
(* allocated for a table and not given back is reached, also after a       *)
(* vmm_map_page that ran out of memory half way.                           *)
TableTree ==
    LET L3 == Below({root})
        L2 == Below(L3)
        L1 == Below(L2)
        reached == {root} \cup L3 \cup L2 \cup L1
    IN root # NoFrame /\ ~dirty =>
         /\ reached \subseteq owned
         /\ tables \cap owned \subseteq reached
         /\ Cardinality(reached) = 1 + Cardinality(L3) + Cardinality(L2) + Cardinality(L1)
         /\ Cardinality(reached) = 1 + Cardinality(Entries({root})) + Cardinality(Entries(L3))
                                     + Cardinality(Entries(L2))

(* The pages and what they can be mapped to.                               *)
VPage == { v \in VAddrs : Canonical(v) /\ Aligned(v) }
Leaves == { LeafEntry(to, flags) : to \in Targets, flags \in FlagSets }

A == INSTANCE AddressSpace WITH
       Page <- VPage,
       Target <- Leaves,
       Unmapped <- None,
       Nothing <- NoCall,
       asked <- IF call = NoCall THEN NoCall
                ELSE [page |-> call.v, target |-> LeafEntry(call.to, call.flags)],
       space <- [v \in VPage |-> IF dirty THEN None ELSE Translate(v)],
       rc <- IF dirty THEN "OK" ELSE rc

(* vmm_map_page maps the page it was given to the target it was given, and *)
(* that stays until the page is unmapped; another page's mapping is never  *)
(* changed, a page already mapped is refused, and a call that fails changes*)
(* no mapping, at whatever table it ran out of memory.  Promised if the    *)
(* root was zero when it was allocated.                                    *)
ImplementsAddressSpace == A!ASpec

=============================================================================
