-------------------------- MODULE BlockCacheProofs --------------------------
(***************************************************************************)
(* The buffer cache forgets no write that it took, and a flush that returns*)
(* BLK_OK made all of them durable: for every number of devices, of cache  *)
(* entries and of blocks, and whatever the drivers refuse.                 *)
(***************************************************************************)
EXTENDS BlockCache, NatFacts, TLAPS

(* blk_cache_find_empty and blk_cache_lookup return an entry if there is   *)
(* one.                                                                    *)
LEMMA MinIn ==
  ASSUME NEW S \in SUBSET Slot, S # {}
  PROVE  Min(S) \in S
<1>1. S \subseteq Nat
  BY BlockAssumption DEF Slot
<1>2. \E x \in S : \A y \in S : x <= y
  BY <1>1, LeastNatural, Zenon
<1> QED BY <1>2, Zenon DEF Min

LEMMA MaxIn ==
  ASSUME NEW S \in SUBSET Slot, S # {}
  PROVE  Max(S) \in S
<1> DEFINE T == { NumEntry - x : x \in S }
<1>1. S \subseteq Int /\ \A x \in S : x <= NumEntry
  BY BlockAssumption DEF Slot
<1>2. T \subseteq Nat /\ T # {}
  <2>1. \A x \in S : NumEntry - x \in Nat
    BY <1>1, BlockAssumption
  <2>2. PICK x \in S : TRUE
    BY Zenon
  <2> QED BY <2>1, <2>2, Zenon
<1> HIDE DEF T
<1>3. PICK m \in T : \A y \in T : m <= y
  BY <1>2, LeastNatural, Zenon
<1>4. PICK x \in S : m = NumEntry - x
  BY Zenon DEF T
<1>5. ASSUME NEW y \in S PROVE x >= y
  <2>1. NumEntry - x <= NumEntry - y
    BY <1>3, <1>4, Zenon DEF T
  <2> QED BY <1>1, <2>1, BlockAssumption
<1> QED BY <1>5, Zenon DEF Max

LEMMA OneOf ==
  ASSUME NEW s \in Slot
  PROVE  Min({s}) = s /\ Max({s}) = s
<1>1. s \in Int
  BY BlockAssumption DEF Slot
<1> QED BY <1>1 DEF Min, Max

(* The conjuncts of CachedWritesRead without View: what an entry holds, and*)
(* what the device holds of a block that has none.                         *)
EntriesLatest ==
    \A s \in Slot : cache[s] # NoEntry /\ <<table[cache[s].id], cache[s].lba>> \notin dropped =>
      cache[s].val = latest[table[cache[s].id]][cache[s].lba]

OthersLatest ==
    \A i \in Given : \A l \in Block(table[i]) :
      Lookup(i, l) = {} /\ <<table[i], l>> \notin dropped =>
        store[table[i]][l] = latest[table[i]][l]

(* Nobody has written to a device without a number since blk_init.         *)
Untouched == \A d \in Dev : (\A i \in Given : table[i] # d) => store[d] = latest[d]

Sound == EntriesHonest /\ EntriesLatest /\ OthersLatest /\ Untouched
IInv == BTypeOK /\ (~stale => Sound)

(* An entry is the only one of its block.                                  *)
LEMMA LookupOne ==
  ASSUME EntriesHonest, NEW s \in Slot, cache[s] # NoEntry
  PROVE  Lookup(cache[s].id, cache[s].lba) = {s}
BY Zenon DEF EntriesHonest, Lookup

LEMMA SoundReads == Sound => CachedWritesRead
<1> SUFFICES ASSUME Sound, NEW i \in Given, NEW l \in Block(table[i]),
                    <<table[i], l>> \notin dropped
             PROVE  View(i, l) = latest[table[i]][l]
  BY Zenon DEF CachedWritesRead
<1>1. CASE Lookup(i, l) = {}
  BY <1>1, Zenon DEF View, Sound, OthersLatest
<1>2. CASE Lookup(i, l) # {}
  <2>1. PICK s \in Slot : cache[s] # NoEntry /\ cache[s].id = i /\ cache[s].lba = l
    BY <1>2, Zenon DEF Lookup
  <2>2. Lookup(i, l) = {s}
    BY <2>1, LookupOne, Zenon DEF Sound
  <2>3. View(i, l) = cache[s].val
    BY <2>2, OneOf, Zenon DEF View
  <2> QED BY <2>1, <2>3, Zenon DEF Sound, EntriesLatest
<1> QED BY <1>1, <1>2, Zenon

-----------------------------------------------------------------------------
LEMMA InitBlock == BInit => IInv
<1> SUFFICES ASSUME BInit PROVE IInv
  BY Zenon
<1>1. BTypeOK
  <2>1. AllBlocks(store)
    BY BlockAssumption, Zenon DEF BInit, AllBlocks
  <2>2. AllBlocks(latest)
    BY <2>1, Zenon DEF BInit
  <2>3. table \in [Id -> Dev \cup {NoDev}] /\ count \in 1..NumDev
    BY BlockAssumption DEF BInit, Id
  <2>4. cache \in [Slot -> Entry \cup {NoEntry}] /\ stale \in BOOLEAN
    BY Zenon DEF BInit
  <2> QED BY <2>1, <2>2, <2>3, <2>4, Zenon DEF BTypeOK
<1>2. Given = {0} /\ table[0] = Ram
  BY BlockAssumption DEF BInit, Given, Id
<1>3. EntriesHonest
  BY <1>2, BlockAssumption, Zenon DEF BInit, EntriesHonest
<1>4. EntriesLatest /\ OthersLatest /\ Untouched
  BY Zenon DEF BInit, EntriesLatest, OthersLatest, Untouched
<1> QED BY <1>1, <1>3, <1>4, Zenon DEF IInv, Sound

(* A number that is given anew has no entries under it, as long as no call *)
(* has used it before.                                                     *)
LEMMA RegisterKeeps ==
  ASSUME IInv, NEW d \in Dev, Register(d)
  PROVE  IInv'
<1> USE BlockAssumption
<1>1. CASE ~(count < NumDev)
  BY <1>1 DEF Register, IInv, BTypeOK, Sound, EntriesHonest, EntriesLatest, OthersLatest, Untouched, Given, Lookup
<1>2. CASE count < NumDev
  <2>1. /\ table' = [table EXCEPT ![count] = d] /\ count' = count + 1
        /\ UNCHANGED <<cache, store, latest, dropped, stale>>
        /\ \A i \in Given : table[i] # d
    BY <1>2, Zenon DEF Register
  <2>2. BTypeOK'
    BY <1>2, <2>1 DEF IInv, BTypeOK, Id
  <2>3. /\ count \in Id /\ count \notin Given /\ Given' = Given \cup {count} /\ Given \subseteq Id
        /\ table'[count] = d /\ \A i \in Given : table'[i] = table[i]
    BY <1>2, <2>1 DEF IInv, BTypeOK, Given, Id
  <2>4. ASSUME Sound PROVE EntriesHonest' /\ EntriesLatest'
    <3>1. \A s \in Slot : cache[s] # NoEntry => table'[cache[s].id] = table[cache[s].id]
      BY <2>3, <2>4, Zenon DEF Sound, EntriesHonest
    <3>2. EntriesHonest'
      BY <2>1, <2>3, <2>4, <3>1 DEF Sound, EntriesHonest
    <3> QED BY <2>1, <2>4, <3>1, <3>2 DEF Sound, EntriesLatest
  <2>5. ASSUME Sound PROVE OthersLatest'
    <3> SUFFICES ASSUME NEW i \in Given', NEW l \in Block(table'[i]),
                        Lookup(i, l) = {}, <<table'[i], l>> \notin dropped
                 PROVE  store[table'[i]][l] = latest[table'[i]][l]
      BY <2>1 DEF OthersLatest, Lookup
    <3>1. CASE i \in Given
      BY <2>3, <2>5, <3>1 DEF Sound, OthersLatest
    <3>2. CASE i = count
      BY <2>1, <2>3, <2>5, <3>2 DEF Sound, Untouched
    <3> QED BY <2>3, <3>1, <3>2, Zenon
  <2>6. ASSUME Sound PROVE Untouched'
    BY <2>1, <2>3, <2>6, Zenon DEF Sound, Untouched
  <2> QED BY <2>1, <2>2, <2>4, <2>5, <2>6, Zenon DEF IInv, Sound
<1> QED BY <1>1, <1>2, Zenon

(* blk_init forgets entries and numbers alike.                             *)
LEMMA ReinitKeeps ==
  ASSUME IInv, Reinit
  PROVE  IInv'
<1> USE BlockAssumption
<1>1. BTypeOK'
  <2>1. AllBlocks(store)' /\ AllBlocks(latest)'
    BY Zenon DEF IInv, BTypeOK, Reinit, AllBlocks
  <2>2. table' \in [Id -> Dev \cup {NoDev}] /\ count' \in 1..NumDev
    BY DEF IInv, BTypeOK, Reinit, Id
  <2>3. cache' \in [Slot -> Entry \cup {NoEntry}] /\ stale' \in BOOLEAN
    BY Zenon DEF Reinit
  <2> QED BY <2>1, <2>2, <2>3, Zenon DEF BTypeOK
<1>2. Given' = {0} /\ table'[0] = Ram /\ (\A s \in Slot : cache'[s] = NoEntry)
  BY DEF IInv, BTypeOK, Reinit, Given, Id
<1>3. EntriesHonest'
  BY <1>2, Zenon DEF EntriesHonest
<1>4. EntriesLatest' /\ OthersLatest' /\ Untouched'
  BY <1>2, Zenon DEF Reinit, EntriesLatest, OthersLatest, Untouched
<1> QED BY <1>1, <1>3, <1>4, Zenon DEF IInv, Sound

-----------------------------------------------------------------------------
(* An entry is put where the block already has one, or where none is.      *)
LEMMA FillTyped ==
  ASSUME BTypeOK, NEW i \in Id, NEW l \in Nat, NEW s \in Slot, NEW b \in BOOLEAN, NEW v \in Val,
         Fill(s, i, l, b, v)
  PROVE  /\ cache' \in [Slot -> Entry \cup {NoEntry}]
         /\ cache'[s] # NoEntry /\ cache'[s].id = i /\ cache'[s].lba = l
         /\ cache'[s].dirty = b /\ cache'[s].val = v
         /\ \A u \in Slot \ {s} : cache'[u] = cache[u]
<1>1. [id |-> i, lba |-> l, dirty |-> b, val |-> v] \in Entry
  BY Zenon DEF Entry
<1> QED BY <1>1, BlockAssumption, Zenon DEF Fill, BTypeOK

LEMMA FillHonest ==
  ASSUME BTypeOK, EntriesHonest, UNCHANGED <<table, count, store>>,
         NEW i \in Given, NEW l \in Block(table[i]), NEW s \in Slot,
         NEW b \in BOOLEAN, NEW v \in Val, Fill(s, i, l, b, v),
         Lookup(i, l) \subseteq {s},
         ~b => v = store[table[i]][l]
  PROVE  EntriesHonest'
<1>1. i \in Id /\ l \in Nat /\ Given' = Given
  BY BlockAssumption DEF BTypeOK, Given, Id, EntriesHonest, Block
<1>2. /\ cache'[s] # NoEntry /\ cache'[s].id = i /\ cache'[s].lba = l
      /\ cache'[s].dirty = b /\ cache'[s].val = v
      /\ \A u \in Slot \ {s} : cache'[u] = cache[u]
  BY <1>1, FillTyped
<1>3. \A u \in Slot \ {s} : cache[u] # NoEntry => ~(cache[u].id = i /\ cache[u].lba = l)
  BY Zenon DEF Lookup
<1>4. ASSUME NEW u \in Slot, NEW w \in Slot, cache'[u] # NoEntry, cache'[w] # NoEntry,
             cache'[u].id = cache'[w].id, cache'[u].lba = cache'[w].lba
      PROVE  u = w
  BY <1>2, <1>3, <1>4 DEF EntriesHonest
<1>5. ASSUME NEW u \in Slot, cache'[u] # NoEntry
      PROVE  /\ cache'[u].id \in Given /\ cache'[u].lba \in Block(table[cache'[u].id])
             /\ ~cache'[u].dirty => cache'[u].val = store[table[cache'[u].id]][cache'[u].lba]
  BY <1>2, <1>5, Zenon DEF EntriesHonest
<1> QED BY <1>1, <1>4, <1>5 DEF EntriesHonest

(* blk_read and blk_write make a caller stale that uses a number not given,*)
(* and nothing is promised to that one.                                    *)
LEMMA GoodCall ==
  ASSUME IInv, NEW i \in Id, NEW l \in Lba, Good(i, l)
  PROVE  /\ table[i] \in Dev /\ l \in Block(table[i]) /\ l \in Nat
         /\ stale' \in BOOLEAN
         /\ ~stale' => ~stale /\ i \in Given
<1>1. table[i] \in Dev
  BY Zenon DEF Good, IInv, BTypeOK
<1>2. l \in Nat /\ Blocks[table[i]] \in Nat
  BY <1>1, BlockAssumption, Zenon
<1>3. stale' \in BOOLEAN /\ (~stale' => ~stale /\ i \in Given)
  BY Zenon DEF Good, IInv, BTypeOK
<1> QED BY <1>1, <1>2, <1>3 DEF Good, Block

LEMMA ReadKeeps ==
  ASSUME IInv, NEW i \in Id, NEW l \in Lba, Read(i, l)
  PROVE  IInv'
<1>1. /\ Good(i, l) /\ UNCHANGED <<table, count, store, latest, dropped>>
  BY Zenon DEF Read
<1>2. /\ table[i] \in Dev /\ l \in Block(table[i]) /\ l \in Nat
      /\ stale' \in BOOLEAN
      /\ ~stale' => ~stale /\ i \in Given
  BY <1>1, GoodCall, Zenon
<1>3. CASE Lookup(i, l) = {} /\ Empty # {}
  <2>1. PICK s \in Slot : s = Min(Empty) /\ cache[s] = NoEntry
    BY <1>3, MinIn, Zenon DEF Empty
  <2>2. PICK v \in Val : v = store[table[i]][l]
    BY <1>2, Zenon DEF IInv, BTypeOK, AllBlocks
  <2>3. PICK b \in BOOLEAN : ~b /\ Fill(s, i, l, b, v)
    BY <1>3, <2>1, <2>2, Zenon DEF Read
  <2>7. BTypeOK
    BY Zenon DEF IInv
  <2>4. /\ cache' \in [Slot -> Entry \cup {NoEntry}]
        /\ cache'[s] # NoEntry /\ cache'[s].id = i /\ cache'[s].lba = l
        /\ cache'[s].dirty = b /\ cache'[s].val = v
        /\ \A u \in Slot \ {s} : cache'[u] = cache[u]
    BY <1>2, <2>3, <2>7, FillTyped
  <2>5. BTypeOK'
    BY <1>1, <1>2, <2>4, Zenon DEF IInv, BTypeOK, AllBlocks
  <2>6. ASSUME ~stale' PROVE Sound'
    <3>1. Sound /\ i \in Given /\ Given' = Given
      BY <1>1, <1>2, <2>6, Zenon DEF IInv, Given
    <3>2. BTypeOK /\ EntriesHonest /\ Lookup(i, l) \subseteq {s}
      BY <1>3, <3>1, Zenon DEF IInv, Sound
    <3>7. EntriesHonest'
      BY <1>1, <1>2, <2>2, <2>3, <3>1, <3>2, FillHonest, Zenon
    <3>3. EntriesLatest'
      <4> SUFFICES ASSUME NEW u \in Slot, cache'[u] # NoEntry,
                          <<table[cache'[u].id], cache'[u].lba>> \notin dropped
                   PROVE  cache'[u].val = latest[table[cache'[u].id]][cache'[u].lba]
        BY <1>1, Zenon DEF EntriesLatest
      <4>1. CASE u = s
        BY <1>2, <1>3, <2>2, <2>4, <3>1, <4>1 DEF Sound, OthersLatest
      <4>2. CASE u # s
        BY <2>4, <3>1, <4>2, Zenon DEF Sound, EntriesLatest
      <4> QED BY <4>1, <4>2, Zenon
    <3>4. \A j, k : Lookup(j, k)' = {} => Lookup(j, k) = {}
      BY <2>1, <2>4 DEF Lookup
    <3>5. OthersLatest'
      BY <1>1, <3>1, <3>4 DEF Sound, OthersLatest
    <3>6. Untouched'
      BY <1>1, <3>1, Zenon DEF Sound, Untouched
    <3> QED BY <3>3, <3>5, <3>6, <3>7, Zenon DEF Sound
  <2> QED BY <2>5, <2>6, Zenon DEF IInv
<1>4. CASE ~(Lookup(i, l) = {} /\ Empty # {})
  <2>1. cache' = cache
    BY <1>4, Zenon DEF Read
  <2>2. BTypeOK'
    BY <1>1, <1>2, <2>1, Zenon DEF IInv, BTypeOK, AllBlocks
  <2>3. Sound => Sound'
    BY <1>1, <2>1 DEF Sound, EntriesHonest, EntriesLatest, OthersLatest, Untouched, Given, Lookup
  <2> QED BY <1>2, <2>2, <2>3, Zenon DEF IInv
<1> QED BY <1>3, <1>4, Zenon

LEMMA WriteKeeps ==
  ASSUME IInv, NEW i \in Id, NEW l \in Lba, NEW v \in Val, Write(i, l, v)
  PROVE  IInv'
<1> DEFINE room == IF Lookup(i, l) # {} THEN Lookup(i, l) ELSE Empty
<1>1. /\ Good(i, l) /\ UNCHANGED <<table, count, store>>
      /\ latest' = [latest EXCEPT ![table[i]][l] = v]
      /\ IF room # {} THEN Fill(Min(room), i, l, TRUE, v) ELSE UNCHANGED cache
      /\ dropped' = IF room # {} THEN dropped \ {<<table[i], l>>} ELSE dropped \cup {<<table[i], l>>}
  BY Zenon DEF Write
<1>2. /\ table[i] \in Dev /\ l \in Block(table[i]) /\ l \in Nat
      /\ stale' \in BOOLEAN
      /\ ~stale' => ~stale /\ i \in Given
  BY <1>1, GoodCall, Zenon
<1>3. BTypeOK
  BY Zenon DEF IInv
<1>4. /\ AllBlocks(latest')
      /\ \A d \in Dev : \A k \in Block(d) :
           latest'[d][k] = IF d = table[i] /\ k = l THEN v ELSE latest[d][k]
      /\ \A d \in Dev : d # table[i] => latest'[d] = latest[d]
  BY <1>1, <1>2, <1>3, Zenon DEF BTypeOK, AllBlocks
<1>5. Given' = Given
  BY <1>1, Zenon DEF Given
<1>6. ASSUME Sound, NEW d \in Dev, NEW k \in Block(d), <<d, k>> \notin dropped', ~(d = table[i] /\ k = l)
      PROVE  <<d, k>> \notin dropped /\ latest'[d][k] = latest[d][k]
  BY <1>1, <1>4, <1>6
<1>7. ASSUME Sound, i \in Given PROVE Untouched'
  BY <1>1, <1>4, <1>5, <1>7, Zenon DEF Sound, Untouched
<1>8. CASE room # {}
  <2>1. PICK s \in Slot : s = Min(room) /\ s \in room
    BY <1>8, MinIn, Zenon DEF Lookup, Empty
  <2>2. PICK b \in BOOLEAN : b /\ Fill(s, i, l, b, v)
    BY <1>1, <1>8, <2>1, Zenon
  <2>6. Fill(s, i, l, b, v)
    BY <2>2, Zenon
  <2>3. /\ cache' \in [Slot -> Entry \cup {NoEntry}]
        /\ cache'[s] # NoEntry /\ cache'[s].id = i /\ cache'[s].lba = l
        /\ cache'[s].dirty = b /\ cache'[s].val = v
        /\ \A u \in Slot \ {s} : cache'[u] = cache[u]
    BY <1>2, <1>3, <2>6, FillTyped
  <2>4. BTypeOK'
    BY <1>1, <1>2, <1>3, <1>4, <2>3, Zenon DEF BTypeOK, AllBlocks
  <2>5. ASSUME Sound, i \in Given PROVE Sound'
    <3>1. /\ Lookup(i, l) \subseteq {s}
          /\ cache[s] = NoEntry \/ (cache[s].id = i /\ cache[s].lba = l)
      BY <2>1, <2>5 DEF Sound, EntriesHonest, Lookup, Empty
    <3>2. EntriesHonest'
      <4>1. EntriesHonest /\ UNCHANGED <<table, count, store>>
        BY <1>1, <2>5, Zenon DEF Sound
      <4>2. ~b => v = store[table[i]][l]
        BY <2>2, Zenon
      <4> QED BY <1>2, <1>3, <2>5, <2>6, <3>1, <4>1, <4>2, FillHonest
    <3>3. EntriesLatest'
      <4> SUFFICES ASSUME NEW u \in Slot, cache'[u] # NoEntry,
                          <<table[cache'[u].id], cache'[u].lba>> \notin dropped'
                   PROVE  cache'[u].val = latest'[table[cache'[u].id]][cache'[u].lba]
        BY <1>1, Zenon DEF EntriesLatest
      <4>1. CASE u = s
        BY <1>2, <1>4, <2>3, <4>1, Zenon
      <4>2. CASE u # s
        <5>1. cache'[u] = cache[u] /\ cache[u].id \in Given
              /\ table[cache[u].id] \in Dev /\ cache[u].lba \in Block(table[cache[u].id])
          BY <2>3, <2>5, <4>2, Zenon DEF Sound, EntriesHonest
        <5>2. ~(cache[u].id = i /\ cache[u].lba = l)
          BY <3>1, <4>2, <5>1, Zenon DEF Lookup
        <5>3. ~(table[cache[u].id] = table[i] /\ cache[u].lba = l)
          BY <2>5, <5>1, <5>2, Zenon DEF Sound, EntriesHonest
        <5>4. /\ <<table[cache[u].id], cache[u].lba>> \notin dropped
              /\ latest'[table[cache[u].id]][cache[u].lba] = latest[table[cache[u].id]][cache[u].lba]
          BY <1>6, <2>5, <5>1, <5>3, Zenon
        <5> QED BY <2>5, <5>1, <5>4, Zenon DEF Sound, EntriesLatest
      <4> QED BY <4>1, <4>2, Zenon
    <3>4. OthersLatest'
      <4> SUFFICES ASSUME NEW j \in Given, NEW k \in Block(table[j]), Lookup(j, k)' = {},
                          <<table[j], k>> \notin dropped'
                   PROVE  store[table[j]][k] = latest'[table[j]][k]
        BY <1>1, <1>5 DEF OthersLatest
      <4>1. ~(j = i /\ k = l)
        BY <2>3, Zenon DEF Lookup
      <4>2. Lookup(j, k) = {}
        BY <2>3, <3>1, <4>1, Zenon DEF Lookup
      <4>3. table[j] \in Dev /\ ~(table[j] = table[i] /\ k = l)
        BY <2>5, <4>1, Zenon DEF Sound, EntriesHonest
      <4>4. <<table[j], k>> \notin dropped /\ latest'[table[j]][k] = latest[table[j]][k]
        BY <1>6, <2>5, <4>3, Zenon
      <4> QED BY <2>5, <4>2, <4>4, Zenon DEF Sound, OthersLatest
    <3> QED BY <1>7, <2>5, <3>2, <3>3, <3>4, Zenon DEF Sound
  <2> QED BY <1>2, <2>4, <2>5, Zenon DEF IInv
<1>9. CASE room = {}
  <2>1. cache' = cache /\ dropped' = dropped \cup {<<table[i], l>>}
    BY <1>1, <1>9, Zenon
  <2>2. BTypeOK'
    BY <1>1, <1>2, <1>3, <1>4, <2>1, Zenon DEF BTypeOK, AllBlocks
  <2>3. ASSUME Sound, i \in Given PROVE Sound'
    <3>1. EntriesHonest'
      BY <1>1, <1>5, <2>1, <2>3, Zenon DEF Sound, EntriesHonest
    <3>2. \A d \in Dev : \A k \in Block(d) : <<d, k>> \notin dropped' =>
            <<d, k>> \notin dropped /\ latest'[d][k] = latest[d][k]
      BY <1>4, <2>1, Zenon
    <3>3. EntriesLatest'
      BY <1>1, <2>1, <2>3, <3>2 DEF Sound, EntriesLatest, EntriesHonest
    <3>4. OthersLatest'
      BY <1>1, <1>5, <2>1, <2>3, <3>2 DEF Sound, OthersLatest, EntriesHonest, Lookup
    <3> QED BY <1>7, <2>3, <3>1, <3>3, <3>4, Zenon DEF Sound
  <2> QED BY <1>2, <2>2, <2>3, Zenon DEF IInv
<1> QED BY <1>8, <1>9, Zenon

-----------------------------------------------------------------------------
(* Entries that are written out reach their own block and no other, as no  *)
(* two of them are of one block.                                           *)
LEMMA WrittenTyped ==
  ASSUME BTypeOK, NEW S \in SUBSET Dirty(Id), WriteOut(S)
  PROVE  /\ AllBlocks(store')
         /\ cache' \in [Slot -> Entry \cup {NoEntry}]
         /\ \A s \in Slot \ S : cache'[s] = cache[s]
         /\ \A s \in S : /\ s \in Slot /\ cache[s] # NoEntry /\ cache[s].dirty
                         /\ cache'[s] # NoEntry /\ ~cache'[s].dirty
                         /\ cache'[s].id = cache[s].id /\ cache'[s].lba = cache[s].lba
                         /\ cache'[s].val = cache[s].val
<1>1. \A s \in S : s \in Slot /\ cache[s] # NoEntry /\ cache[s].dirty /\ cache[s] \in Entry
  BY Zenon DEF Dirty, BTypeOK
<1>2. \A s \in S : cache[s].val \in Val
  BY <1>1, Zenon DEF Entry
<1>3. ASSUME NEW d \in Dev, NEW l \in Block(d)
      PROVE  store'[d][l] \in Val
  <2> DEFINE new == { s \in S : table[cache[s].id] = d /\ cache[s].lba = l }
  <2>1. store'[d][l] = IF new = {} THEN store[d][l] ELSE cache[Max(new)].val
    BY Zenon DEF WriteOut
  <2>2. new \in SUBSET Slot /\ new \subseteq S
    BY <1>1, Zenon
  <2>3. new # {} => Max(new) \in S
    BY <2>2, MaxIn, Zenon
  <2>4. store[d][l] \in Val
    BY Zenon DEF BTypeOK, AllBlocks
  <2> QED BY <1>2, <2>1, <2>3, <2>4, Zenon
<1>4. DOMAIN store' = Dev /\ \A d \in Dev : store'[d] = [l \in Block(d) |-> store'[d][l]]
  BY Zenon DEF WriteOut
<1>5. AllBlocks(store')
  BY <1>3, <1>4, Zenon DEF AllBlocks
<1>6. /\ DOMAIN cache' = Slot
      /\ \A s \in Slot \ S : cache'[s] = cache[s]
      /\ \A s \in S : cache'[s] = [cache[s] EXCEPT !.dirty = FALSE]
      /\ cache' = [s \in Slot |-> cache'[s]]
  BY <1>1, Zenon DEF WriteOut
<1>7. \A s \in S : /\ cache'[s] \in Entry /\ ~cache'[s].dirty
                  /\ cache'[s].id = cache[s].id /\ cache'[s].lba = cache[s].lba
                  /\ cache'[s].val = cache[s].val
  <2> SUFFICES ASSUME NEW s \in S
               PROVE  /\ cache'[s] \in Entry /\ ~cache'[s].dirty
                      /\ cache'[s].id = cache[s].id /\ cache'[s].lba = cache[s].lba
                      /\ cache'[s].val = cache[s].val
    BY Zenon
  <2>1. cache[s] \in [id : Id, lba : Nat, dirty : BOOLEAN, val : Val]
    BY <1>1, Zenon DEF Entry
  <2>2. cache'[s] = [cache[s] EXCEPT !.dirty = FALSE]
    BY <1>6, Zenon
  <2>3. cache'[s] \in Entry
    BY <2>1, <2>2, Zenon DEF Entry
  <2>4. ~cache'[s].dirty
    BY <2>1, <2>2, Zenon
  <2> QED BY <2>1, <2>2, <2>3, <2>4, Zenon
<1>8. \A s \in Slot : cache'[s] \in Entry \cup {NoEntry}
  BY <1>6, <1>7, Zenon DEF BTypeOK
<1> QED BY <1>1, <1>5, <1>6, <1>7, <1>8, BlockAssumption

LEMMA WrittenRight ==
  ASSUME BTypeOK, EntriesHonest, NEW S \in SUBSET Dirty(Id), WriteOut(S)
  PROVE  /\ \A s \in S : store'[table[cache[s].id]][cache[s].lba] = cache[s].val
         /\ \A i \in Given : \A l \in Block(table[i]) :
              S \cap Lookup(i, l) = {} => store'[table[i]][l] = store[table[i]][l]
         /\ \A d \in Dev : (\A i \in Given : table[i] # d) => store'[d] = store[d]
<1>1. \A s \in S : /\ s \in Slot /\ cache[s] # NoEntry /\ cache[s].id \in Given
                  /\ table[cache[s].id] \in Dev /\ cache[s].lba \in Block(table[cache[s].id])
  BY Zenon DEF Dirty, EntriesHonest
<1>2. \A d \in Dev : \A l \in Block(d) :
        LET new == { s \in S : table[cache[s].id] = d /\ cache[s].lba = l }
        IN store'[d][l] = IF new = {} THEN store[d][l] ELSE cache[Max(new)].val
  BY Zenon DEF WriteOut
<1>3. ASSUME NEW s \in S
      PROVE  store'[table[cache[s].id]][cache[s].lba] = cache[s].val
  <2>1. { u \in S : table[cache[u].id] = table[cache[s].id] /\ cache[u].lba = cache[s].lba } = {s}
    <3>1. ASSUME NEW u \in S, table[cache[u].id] = table[cache[s].id], cache[u].lba = cache[s].lba
          PROVE  u = s
      <4>1. cache[u].id = cache[s].id
        BY <1>1, <3>1, Zenon DEF EntriesHonest
      <4> QED BY <1>1, <3>1, <4>1, Zenon DEF EntriesHonest
    <3> QED BY <3>1, Zenon
  <2>2. Max({s}) = s
    BY <1>1, OneOf, Zenon
  <2> QED BY <1>1, <1>2, <2>1, <2>2
<1>4. ASSUME NEW i \in Given, NEW l \in Block(table[i]), S \cap Lookup(i, l) = {}
      PROVE  store'[table[i]][l] = store[table[i]][l]
  <2>1. table[i] \in Dev
    BY Zenon DEF EntriesHonest
  <2>2. { s \in S : table[cache[s].id] = table[i] /\ cache[s].lba = l } = {}
    BY <1>1, <1>4, Zenon DEF EntriesHonest, Lookup
  <2> QED BY <1>2, <2>1, <2>2, Zenon
<1>5. ASSUME NEW d \in Dev, \A i \in Given : table[i] # d
      PROVE  store'[d] = store[d]
  <2>1. \A l \in Block(d) : { s \in S : table[cache[s].id] = d /\ cache[s].lba = l } = {}
    BY <1>1, <1>5, Zenon
  <2>2. \A l \in Block(d) : store'[d][l] = store[d][l]
    BY <1>2, <2>1, Zenon
  <2>3. store[d] \in [Block(d) -> Val] /\ store'[d] \in [Block(d) -> Val]
    BY WrittenTyped, Zenon DEF BTypeOK, AllBlocks
  <2> QED BY <2>2, <2>3
<1> QED BY <1>3, <1>4, <1>5, Zenon

LEMMA WrittenKeeps ==
  ASSUME IInv, NEW S \in SUBSET Dirty(Id), WriteOut(S),
         UNCHANGED <<table, count, latest, dropped, stale>>
  PROVE  IInv'
<1>0. BTypeOK
  BY Zenon DEF IInv
<1>1. /\ AllBlocks(store')
      /\ cache' \in [Slot -> Entry \cup {NoEntry}]
      /\ \A s \in Slot \ S : cache'[s] = cache[s]
      /\ \A s \in S : /\ s \in Slot /\ cache[s] # NoEntry /\ cache[s].dirty
                      /\ cache'[s] # NoEntry /\ ~cache'[s].dirty
                      /\ cache'[s].id = cache[s].id /\ cache'[s].lba = cache[s].lba
                      /\ cache'[s].val = cache[s].val
  BY <1>0, WrittenTyped, Zenon
<1>2. BTypeOK'
  BY <1>0, <1>1, Zenon DEF BTypeOK, AllBlocks
<1>3. /\ Given' = Given
      /\ \A s \in Slot : /\ cache'[s] # NoEntry <=> cache[s] # NoEntry
                         /\ cache'[s].id = cache[s].id /\ cache'[s].lba = cache[s].lba
                         /\ cache'[s].val = cache[s].val
  BY <1>1, Zenon DEF Given
<1>4. \A i, l : Lookup(i, l)' = Lookup(i, l)
  BY <1>3 DEF Lookup
<1>5. ASSUME ~stale PROVE Sound'
  <2>1. Sound
    BY <1>5, Zenon DEF IInv
  <2>2. /\ \A s \in S : store'[table[cache[s].id]][cache[s].lba] = cache[s].val
        /\ \A i \in Given : \A l \in Block(table[i]) :
             S \cap Lookup(i, l) = {} => store'[table[i]][l] = store[table[i]][l]
        /\ \A d \in Dev : (\A i \in Given : table[i] # d) => store'[d] = store[d]
    BY <1>0, <2>1, WrittenRight, Zenon DEF Sound
  <2>3. ASSUME NEW s \in Slot, cache'[s] # NoEntry, ~cache'[s].dirty
        PROVE  cache'[s].val = store'[table[cache'[s].id]][cache'[s].lba]
    <3>1. CASE s \in S
      BY <1>3, <2>2, <3>1, Zenon
    <3>2. CASE s \notin S
      <4>1. cache[s] # NoEntry /\ ~cache[s].dirty
        BY <1>1, <2>3, <3>2, Zenon
      <4>2. Lookup(cache[s].id, cache[s].lba) = {s}
        BY <2>1, <4>1, LookupOne, Zenon DEF Sound
      <4>3. store'[table[cache[s].id]][cache[s].lba] = store[table[cache[s].id]][cache[s].lba]
        BY <2>1, <2>2, <3>2, <4>1, <4>2 DEF Sound, EntriesHonest
      <4> QED BY <1>3, <2>1, <4>1, <4>3, Zenon DEF Sound, EntriesHonest
    <3> QED BY <3>1, <3>2, Zenon
  <2>4. EntriesHonest'
    BY <1>3, <2>1, <2>3 DEF Sound, EntriesHonest
  <2>5. EntriesLatest'
    BY <1>3, <2>1, Zenon DEF Sound, EntriesLatest
  <2>6. OthersLatest'
    BY <1>3, <1>4, <2>1, <2>2 DEF Sound, OthersLatest
  <2>7. Untouched'
    BY <1>3, <2>1, <2>2, Zenon DEF Sound, Untouched
  <2> QED BY <2>4, <2>5, <2>6, <2>7, Zenon DEF Sound
<1> QED BY <1>2, <1>5, Zenon DEF IInv

-----------------------------------------------------------------------------
LEMMA NextBlock == IInv /\ [BNext]_bvars => IInv'
<1> SUFFICES ASSUME IInv, [BNext]_bvars PROVE IInv'
  BY Zenon
<1>1. ASSUME UNCHANGED <<table, count, cache, store, latest, dropped, stale>> PROVE IInv'
  <2>1. BTypeOK'
    BY <1>1, Zenon DEF IInv, BTypeOK, AllBlocks
  <2>2. Given' = Given
    BY <1>1, Zenon DEF Given
  <2>3. EntriesHonest => EntriesHonest'
    BY <1>1, <2>2, Zenon DEF EntriesHonest
  <2>4. EntriesLatest => EntriesLatest'
    BY <1>1, <2>2, Zenon DEF EntriesLatest
  <2>5. OthersLatest => OthersLatest'
    BY <1>1, <2>2 DEF OthersLatest, Lookup
  <2>6. Untouched => Untouched'
    BY <1>1, <2>2, Zenon DEF Untouched
  <2> QED BY <1>1, <2>1, <2>3, <2>4, <2>5, <2>6, Zenon DEF IInv, Sound
<1>2. ASSUME NEW d \in Dev, Register(d) PROVE IInv'
  BY <1>2, RegisterKeeps, Zenon
<1>3. CASE Reinit
  BY <1>3, ReinitKeeps, Zenon
<1>4. ASSUME NEW i \in Id \cup {NumDev}, NEW l \in Lba, BadCall(i, l) PROVE IInv'
  BY <1>1, <1>4, Zenon DEF BadCall
<1>5. ASSUME NEW i \in Id, NEW l \in Lba, Read(i, l) PROVE IInv'
  BY <1>5, ReadKeeps, Zenon
<1>6. ASSUME NEW i \in Id, NEW l \in Lba, ReadFails(i, l) PROVE IInv'
  <2>1. Good(i, l) /\ UNCHANGED <<table, count, cache, store, latest, dropped>>
    BY <1>6, Zenon DEF ReadFails
  <2>2. stale' \in BOOLEAN /\ (~stale' => ~stale)
    BY <2>1, GoodCall, Zenon
  <2>3. BTypeOK'
    BY <2>1, <2>2, Zenon DEF IInv, BTypeOK, AllBlocks
  <2>4. Sound => Sound'
    BY <2>1 DEF Sound, EntriesHonest, EntriesLatest, OthersLatest, Untouched, Given, Lookup
  <2> QED BY <2>2, <2>3, <2>4, Zenon DEF IInv
<1>7. ASSUME NEW i \in Id, NEW l \in Lba, NEW v \in Val, Write(i, l, v) PROVE IInv'
  BY <1>7, WriteKeeps, Zenon
<1>8. ASSUME NEW i \in Id, Flush(i) PROVE IInv'
  <2> DEFINE S == { s \in Dirty({i}) : \A b \in Refused(Dirty({i})) : s < b }
  <2>1. S \in SUBSET Dirty(Id) /\ WriteOut(S) /\ UNCHANGED <<table, count, latest, dropped, stale>>
    BY <1>8, Zenon DEF Flush, Dirty
  <2>2. PICK R \in SUBSET Dirty(Id) : R = S
    BY <2>1, Zenon
  <2> QED BY <2>1, <2>2, WrittenKeeps, Zenon
<1>9. CASE FlushAll
  <2>1. PICK R \in SUBSET Dirty(Id) : R = Dirty(Id) \ Refused(Dirty(Id))
    BY Zenon
  <2>2. WriteOut(R) /\ UNCHANGED <<table, count, latest, dropped, stale>>
    BY <1>9, <2>1, Zenon DEF FlushAll
  <2> QED BY <2>2, WrittenKeeps, Zenon
<1>10. ASSUME NEW blocks, Fault(blocks) PROVE IInv'
  BY <1>1, <1>10, Zenon DEF Fault
<1>11. CASE UNCHANGED bvars
  BY <1>1, <1>11, Zenon DEF bvars
<1> QED BY <1>2, <1>3, <1>4, <1>5, <1>6, <1>7, <1>8, <1>9, <1>10, <1>11, Zenon DEF BNext

(* Through every sequence of registrations, reads, writes, flushes, driver *)
(* errors and calls of blk_init, reads return what was last written unless *)
(* the cache had no room for it, and clean entries equal their blocks.     *)
THEOREM BlockHolds == BSpec => []BlockInv
<1>1. IInv => BlockInv
  BY SoundReads, Zenon DEF IInv, Sound, BlockInv
<1> QED BY InitBlock, NextBlock, <1>1, PTL DEF BSpec

(* blk_flush returns BLK_OK only when everything written to that device    *)
(* that found room in the cache is on it.                                  *)
THEOREM FlushIsDurable == BSpec => FlushDurable
<1>1. IInv /\ [BNext]_bvars =>
        [ \A i \in Given : Flush(i) /\ rc' = "OK" /\ ~stale =>
            \A l \in Block(table[i]) : <<table[i], l>> \notin dropped =>
              store'[table[i]][l] = latest[table[i]][l] ]_bvars
  <2> SUFFICES ASSUME IInv, NEW i \in Given, Flush(i), rc' = "OK", ~stale,
                      NEW l \in Block(table[i]), <<table[i], l>> \notin dropped
               PROVE  store'[table[i]][l] = latest[table[i]][l]
    BY Zenon
  <2>1. BTypeOK /\ Sound /\ i \in Id
    BY BlockAssumption DEF IInv, BTypeOK, Given, Id
  <2>2. Refused(Dirty({i})) = {}
    BY Zenon DEF Flush
  <2>3. PICK S \in SUBSET Dirty(Id) : S = Dirty({i}) /\ WriteOut(S)
    BY <2>1, <2>2, Zenon DEF Flush, Dirty
  <2>4. /\ \A s \in S : store'[table[cache[s].id]][cache[s].lba] = cache[s].val
        /\ S \cap Lookup(i, l) = {} => store'[table[i]][l] = store[table[i]][l]
    BY <2>1, <2>3, WrittenRight, Zenon DEF Sound
  <2>5. CASE Lookup(i, l) = {}
    BY <2>1, <2>4, <2>5, Zenon DEF Sound, OthersLatest
  <2>6. ASSUME NEW s \in Lookup(i, l) PROVE store'[table[i]][l] = latest[table[i]][l]
    <3>1. s \in Slot /\ cache[s] # NoEntry /\ cache[s].id = i /\ cache[s].lba = l
      BY Zenon DEF Lookup
    <3>2. cache[s].val = latest[table[i]][l]
      BY <2>1, <3>1, Zenon DEF Sound, EntriesLatest
    <3>3. CASE s \in S
      BY <2>4, <3>1, <3>2, <3>3, Zenon
    <3>4. CASE s \notin S
      <4>1. ~cache[s].dirty
        BY <2>3, <3>1, <3>4, Zenon DEF Dirty
      <4>2. Lookup(i, l) = {s}
        BY <2>1, <3>1, LookupOne, Zenon DEF Sound
      <4> QED BY <2>1, <2>4, <3>1, <3>2, <3>4, <4>1, <4>2, Zenon DEF Sound, EntriesHonest
    <3> QED BY <3>3, <3>4, Zenon
  <2> QED BY <2>5, <2>6, Zenon
<1> QED BY InitBlock, NextBlock, <1>1, PTL DEF BSpec, FlushDurable
=============================================================================
