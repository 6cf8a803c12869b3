----------------------------- MODULE BlockCache -----------------------------
(***************************************************************************)
(* The block layer of kernel/block: a table of devices and a write-back    *)
(* cache of MCSOS_BUFFER_CACHE_ENTRIES blocks that is never evicted, over  *)
(* drivers such as ramblk.c.  A driver may refuse to read or write a block *)
(* for a while.  Calls do not overlap: the layer has no locks and the      *)
(* kernel does not preempt it.                                             *)
(***************************************************************************)
EXTENDS Integers, FiniteSets, FiniteSetsExt

CONSTANTS
    Dev,        \* devices
    Ram,        \* the RAM disk, registered by ramblk_init
    NumDev,     \* MCSOS_MAX_BLOCK_DEVICES
    NumEntry,   \* MCSOS_BUFFER_CACHE_ENTRIES
    Lba,        \* block addresses, some beyond the devices
    Blocks,     \* block_count of each device
    Flaky,      \* devices that may refuse a block
    Val, Zero,  \* block contents
    NoDev, NoEntry

Id == 0..(NumDev - 1)
Slot == 1..NumEntry
Block(d) == 0..(Blocks[d] - 1)
Entry == [id : Id, lba : Nat, dirty : BOOLEAN, val : Val]

ASSUME BlockAssumption ==
    /\ Ram \in Dev /\ NoDev \notin Dev /\ NoEntry \notin Entry /\ Flaky \subseteq Dev
    /\ NumDev \in Nat \ {0} /\ NumEntry \in Nat /\ Blocks \in [Dev -> Nat]
    /\ Lba \subseteq Nat
    /\ Zero \in Val

VARIABLES
    table,      \* block_device_table
    count,      \* num_registered_devices
    cache,      \* buffer_cache: entries, NoEntry where valid is 0
    store,      \* what the drivers hold
    broken,     \* <<device, lba>> that the driver refuses
    rc,         \* result of the last call
    latest,     \* ghost: the last block written with BLK_OK
    dropped,    \* ghost: <<device, lba>> whose last write found no room
    stale       \* ghost: since blk_init, a call used a number not given since

bvars == <<table, count, cache, store, broken, rc, latest, dropped, stale>>

(* ramblk_init has run: the RAM disk is device 0.                          *)
BInit ==
    /\ table = [i \in Id |-> IF i = 0 THEN Ram ELSE NoDev]
    /\ count = 1
    /\ cache = [s \in Slot |-> NoEntry]
    /\ store = [d \in Dev |-> [l \in Block(d) |-> Zero]]
    /\ broken = {}
    /\ rc = "none"
    /\ latest = store
    /\ dropped = {}
    /\ stale = FALSE

(* blk_cache_lookup and blk_cache_find_empty: the entries they choose from.*)
Lookup(i, l) == { s \in Slot : cache[s] # NoEntry /\ cache[s].id = i /\ cache[s].lba = l }
Empty == { s \in Slot : cache[s] = NoEntry }

Fill(s, i, l, d, v) == cache' = [cache EXCEPT ![s] = [id |-> i, lba |-> l, dirty |-> d, val |-> v]]

-----------------------------------------------------------------------------
(* The numbers that blk_register_device has given since blk_init.          *)
Given == 0..(count - 1)

(* blk_register_device, by a caller that registers a device once after each*)
(* blk_init.                                                               *)
Register(d) ==
    /\ \A i \in Given : table[i] # d
    /\ IF count < NumDev
         THEN /\ table' = [table EXCEPT ![count] = d]
              /\ count' = count + 1
              /\ rc' = "OK"
         ELSE /\ rc' = "INVALID_DEV"
              /\ UNCHANGED <<table, count>>
    /\ UNCHANGED <<cache, store, broken, latest, dropped, stale>>

(* ramblk_init called again.  blk_init forgets the cache, also what is     *)
(* dirty, and the number of devices, but not the table of devices.         *)
Reinit ==
    /\ cache' = [s \in Slot |-> NoEntry]
    /\ table' = [table EXCEPT ![0] = Ram]
    /\ count' = 1
    /\ latest' = store
    /\ dropped' = {}
    /\ stale' = FALSE
    /\ rc' = "OK"
    /\ UNCHANGED <<store, broken>>

(* The checks that blk_read and blk_write begin with.                      *)
BadCall(i, l) ==
    /\ i \in Id /\ table[i] # NoDev => l >= Blocks[table[i]]
    /\ rc' = IF i \notin Id \/ table[i] = NoDev THEN "INVALID_DEV" ELSE "INVALID_LBA"
    /\ UNCHANGED <<table, count, cache, store, broken, latest, dropped, stale>>

(* They look at the table and not at the number of devices: one that was   *)
(* registered before the last blk_init is still there.                     *)
Good(i, l) ==
    /\ table[i] # NoDev /\ l < Blocks[table[i]]
    /\ stale' = (stale \/ i \notin Given)

(* Mutant: a block is put into the cache without looking for its entry.    *)
ReadMut(i, l) ==
    /\ Good(i, l)
    /\ rc' = "OK"
    /\ IF Empty # {} THEN Fill(Min(Empty), i, l, FALSE, store[table[i]][l])
                     ELSE UNCHANGED cache
    /\ UNCHANGED <<table, count, store, broken, latest, dropped>>

(* blk_read returns View(i, l), below; a block that was not in the cache   *)
(* is put there if there is room.                                          *)
Read(i, l) ==
    /\ Good(i, l)
    /\ rc' = "OK"
    /\ IF Lookup(i, l) = {} /\ Empty # {}
         THEN Fill(Min(Empty), i, l, FALSE, store[table[i]][l])
         ELSE UNCHANGED cache
    /\ UNCHANGED <<table, count, store, broken, latest, dropped>>

ReadFails(i, l) ==
    /\ Good(i, l)
    /\ Lookup(i, l) = {} /\ <<table[i], l>> \in broken
    /\ rc' = "DRIVER_FAIL"
    /\ UNCHANGED <<table, count, cache, store, broken, latest, dropped>>

(* Without an entry and without room the block goes nowhere, and the call  *)
(* returns BLK_OK.                                                         *)
Write(i, l, v) ==
    LET room == IF Lookup(i, l) # {} THEN Lookup(i, l) ELSE Empty
    IN /\ Good(i, l)
       /\ IF room # {} THEN Fill(Min(room), i, l, TRUE, v) ELSE UNCHANGED cache
       /\ latest' = [latest EXCEPT ![table[i]][l] = v]
       /\ dropped' = IF room # {} THEN dropped \ {<<table[i], l>>}
                                  ELSE dropped \cup {<<table[i], l>>}
       /\ rc' = "OK"
       /\ UNCHANGED <<table, count, store, broken>>

-----------------------------------------------------------------------------
(* The dirty entries of the devices I, those that the driver refuses, being*)
(* broken or beyond its end, and the writing of a set of entries.          *)
Dirty(I) == { s \in Slot : cache[s] # NoEntry /\ cache[s].dirty /\ cache[s].id \in I }
Refused(S) ==
    { s \in S : \/ <<table[cache[s].id], cache[s].lba>> \in broken
                \/ cache[s].lba >= Blocks[table[cache[s].id]] }

WriteOut(S) ==
    /\ store' = [d \in Dev |-> [l \in Block(d) |->
         LET new == { s \in S : table[cache[s].id] = d /\ cache[s].lba = l }
         IN IF new = {} THEN store[d][l] ELSE cache[Max(new)].val]]
    /\ cache' = [s \in Slot |-> IF s \in S THEN [cache[s] EXCEPT !.dirty = FALSE] ELSE cache[s]]

(* Mutant: every entry is taken for written, whatever the driver says.     *)
FlushMut(i) ==
    /\ table[i] # NoDev
    /\ store' = [store EXCEPT ![table[i]] = [l \in Block(table[i]) |->
         LET new == { s \in Dirty({i}) \ Refused(Dirty({i})) : cache[s].lba = l }
         IN IF new = {} THEN @[l] ELSE cache[Max(new)].val]]
    /\ cache' = [s \in Slot |->
         IF s \in Dirty({i}) THEN [cache[s] EXCEPT !.dirty = FALSE] ELSE cache[s]]
    /\ rc' = "OK"
    /\ UNCHANGED <<table, count, broken, latest, dropped, stale>>

(* blk_flush stops at the first entry that the driver refuses.             *)
Flush(i) ==
    LET bad == Refused(Dirty({i}))
    IN /\ table[i] # NoDev
       /\ WriteOut({ s \in Dirty({i}) : \A b \in bad : s < b })
       /\ rc' = IF bad = {} THEN "OK" ELSE "DRIVER_FAIL"
       /\ UNCHANGED <<table, count, broken, latest, dropped, stale>>

(* blk_cache_flush_all goes on after an entry that is refused.             *)
FlushAll ==
    LET bad == Refused(Dirty(Id))
    IN /\ WriteOut(Dirty(Id) \ bad)
       /\ rc' = IF bad = {} THEN "OK" ELSE "DRIVER_FAIL"
       /\ UNCHANGED <<table, count, broken, latest, dropped, stale>>

(* The media of devices go bad, or are repaired: the driver refuses these  *)
(* blocks.  One that refuses everything is a RAM disk whose magic is gone. *)
Fault(blocks) ==
    /\ broken' = blocks
    /\ UNCHANGED <<table, count, cache, store, rc, latest, dropped, stale>>

-----------------------------------------------------------------------------
BNext ==
    \/ \E d \in Dev : Register(d)
    \/ Reinit
    \/ \E i \in Id \cup {NumDev}, l \in Lba : BadCall(i, l)
    \/ \E i \in Id, l \in Lba : Read(i, l) \/ ReadFails(i, l) \/ \E v \in Val : Write(i, l, v)
    \/ \E i \in Id : Flush(i)
    \/ FlushAll
    \/ \E blocks \in SUBSET UNION { {d} \X Block(d) : d \in Flaky } : Fault(blocks)

BSpec == BInit /\ [][BNext]_bvars

-----------------------------------------------------------------------------
AllBlocks(f) == DOMAIN f = Dev /\ \A d \in Dev : f[d] \in [Block(d) -> Val]

BTypeOK ==
    /\ table \in [Id -> Dev \cup {NoDev}]
    /\ count \in 1..NumDev
    /\ cache \in [Slot -> Entry \cup {NoEntry}]
    /\ AllBlocks(store) /\ AllBlocks(latest)
    /\ stale \in BOOLEAN

(* The devices of the numbers given are different, at most one entry is for*)
(* each block of them, and a clean entry equals the block on its device.   *)
EntriesHonest ==
    /\ \A i \in Given : table[i] \in Dev
    /\ \A i, j \in Given : table[i] = table[j] => i = j
    /\ \A s, u \in Slot : cache[s] # NoEntry /\ cache[u] # NoEntry
         /\ cache[s].id = cache[u].id /\ cache[s].lba = cache[u].lba => s = u
    /\ \A s \in Slot : cache[s] # NoEntry =>
         /\ cache[s].id \in Given /\ cache[s].lba \in Block(table[cache[s].id])
         /\ ~cache[s].dirty => cache[s].val = store[table[cache[s].id]][cache[s].lba]

(* What blk_read returns for block l of device number i.                   *)
View(i, l) ==
    IF Lookup(i, l) # {} THEN cache[Min(Lookup(i, l))].val ELSE store[table[i]][l]

(* Reads return the last block written, through any sequence of reads,     *)
(* writes, flushes and driver errors, for every block whose last write     *)
(* found room in the cache.                                                *)
CachedWritesRead ==
    \A i \in Given : \A l \in Block(table[i]) :
      <<table[i], l>> \notin dropped => View(i, l) = latest[table[i]][l]

(* What blk_read, blk_write, blk_flush and blk_cache_flush_all keep true of*)
(* the cache: one honest entry for each block, and no write forgotten.     *)
(* Only callers that use no number from before the last blk_init have this *)
(* promise: blk_get_device still finds such a device, and the next one to  *)
(* register takes over its number and the entries made under it.           *)
BlockInv == BTypeOK /\ (~stale => EntriesHonest /\ CachedWritesRead)

(* A flush that returns BLK_OK has put on the device every block written   *)
(* to it that found room in the cache.                                     *)
FlushDurable ==
    [][ \A i \in Given : Flush(i) /\ rc' = "OK" /\ ~stale =>
          \A l \in Block(table[i]) : <<table[i], l>> \notin dropped =>
            store'[table[i]][l] = latest[table[i]][l] ]_bvars
=============================================================================
