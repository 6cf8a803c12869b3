----------------------------- MODULE KmemProofs -----------------------------
(***************************************************************************)
(* The heap.                                                               *)
(***************************************************************************)
EXTENDS Kmem, NatFacts, TLAPS

Al(x) == x % Align = 0

LEMMA KmemConstants ==
  /\ AddrSpace \in Nat /\ Align \in Nat /\ Header \in Nat /\ MinSplit \in Nat
  /\ Align > 0 /\ Header > 0 /\ AddrSpace > 0 /\ SizeMax \in Nat /\ SizeMax = AddrSpace - 1
  /\ Al(Header) /\ Al(AddrSpace) /\ Al(0)
<1>1. AddrSpace \in Nat \ {0} /\ Align \in Nat \ {0} /\ Header \in Nat \ {0} /\ MinSplit \in Nat \ {0}
  BY KmemAssumption, Zenon
<1>2. Al(Header) /\ Al(AddrSpace)
  BY KmemAssumption, Zenon DEF Al
<1>3. 0 = Align * 0 + 0
  BY <1>1
<1>4. Al(0)
  BY <1>1, <1>3, ModIs DEF Al
<1> QED BY <1>1, <1>2, <1>4 DEF SizeMax

(* Sums and differences of multiples of KMEM_ALIGN are multiples of it.    *)
LEMMA AlMultiple ==
  ASSUME NEW x \in Int
  PROVE  Al(x) <=> \E q \in Int : x = Align * q
<1>1. Align \in Nat \ {0}
  BY KmemConstants
<1>2. ASSUME Al(x) PROVE \E q \in Int : x = Align * q
  <2>1. PICK q \in Int : x = Align * q + (x % Align)
    BY <1>1, DivMod, Zenon
  <2>2. x = Align * q
    BY <2>1, <1>1, <1>2 DEF Al
  <2> QED BY <2>2, Zenon
<1>3. ASSUME NEW q \in Int, x = Align * q PROVE Al(x)
  <2>1. x = Align * q + 0
    BY <1>1, <1>3
  <2>2. 0 \in 0..(Align - 1)
    BY <1>1
  <2> QED BY <1>1, <2>1, <2>2, ModIs, Zenon DEF Al
<1> QED BY <1>2, <1>3, Zenon

LEMMA AlSum ==
  ASSUME NEW x \in Int, NEW y \in Int, Al(x), Al(y)
  PROVE  Al(x + y) /\ Al(x - y)
<1>1. Align \in Nat
  BY KmemConstants, Zenon
<1>2. PICK p \in Int : x = Align * p
  BY AlMultiple, Zenon
<1>3. PICK q \in Int : y = Align * q
  BY AlMultiple, Zenon
<1>4. x + y = Align * (p + q) /\ x - y = Align * (p - q)
  BY <1>1, <1>2, <1>3
<1>5. p + q \in Int /\ p - q \in Int /\ x + y \in Int /\ x - y \in Int
  OBVIOUS
<1> QED BY <1>4, <1>5, AlMultiple, Zenon

(* Two different multiples are at least one KMEM_ALIGN apart.              *)
LEMMA AlGap ==
  ASSUME NEW x \in Int, NEW y \in Int, Al(x), Al(y), x < y
  PROVE  x + Align <= y
<1>1. Align \in Nat /\ Align > 0
  BY KmemConstants, Zenon
<1>2. Al(y - x) /\ y - x \in Int /\ y - x > 0
  BY AlSum
<1>3. PICK q \in Int : y - x = Align * q
  BY <1>2, AlMultiple, Zenon
<1>4. q >= 1
  <2>1. q <= 0 => Align * q <= 0
    BY <1>1
  <2> QED BY <2>1, <1>2, <1>3
<1>5. Align * q >= Align
  BY <1>1, <1>4
<1> QED BY <1>1, <1>3, <1>5

(* kmem_align_up_size: the least multiple that is not below v, or 0.       *)
LEMMA AlignUpFacts ==
  ASSUME NEW v \in Nat
  PROVE  /\ AlignUp(v) \in 0..SizeMax /\ Al(AlignUp(v))
         /\ AlignUp(v) # 0 => v <= AlignUp(v) /\ AlignUp(v) < v + Align /\ v <= SizeMax - (Align - 1)
         /\ AlignUp(v) = 0 => v = 0 \/ v > SizeMax - (Align - 1)
<1>1. Align \in Nat \ {0} /\ SizeMax \in Nat
  BY KmemConstants
<1>2. CASE v > SizeMax - (Align - 1)
  BY <1>1, <1>2, KmemConstants DEF AlignUp
<1>3. CASE ~(v > SizeMax - (Align - 1))
  <2>0. v + Align - 1 \in Nat /\ v + Align - 1 <= SizeMax
    BY <1>1, <1>3
  <2>1. PICK w \in Nat : w = v + Align - 1 /\ w <= SizeMax
    BY <2>0, Zenon
  <2>2. PICK q \in Int : w = Align * q + (w % Align) /\ w % Align \in 0..(Align - 1)
    <3>1. w \in Int
      OBVIOUS
    <3> QED BY <1>1, <3>1, DivMod, Zenon
  <2>3. PICK r \in 0..(Align - 1) : r = w % Align
    BY <2>2, Zenon
  <2>4. AlignUp(v) = w - r
    BY <1>3, <2>1, <2>3, Zenon DEF AlignUp
  <2>5. w - r = Align * q /\ w - r \in Int
    <3>1. PICK k \in Int : k = Align * q
      BY <1>1
    <3>2. w = k + r
      BY <2>2, <2>3, <3>1, Zenon
    <3> QED BY <1>1, <3>1, <3>2
  <2>6. Al(AlignUp(v))
    BY <2>4, <2>5, AlMultiple, Zenon
  <2>7. v <= AlignUp(v) /\ AlignUp(v) < v + Align /\ AlignUp(v) <= SizeMax /\ AlignUp(v) \in Int
    BY <1>1, <2>1, <2>4
  <2> QED BY <1>1, <1>3, <2>6, <2>7
<1> QED BY <1>2, <1>3, Zenon

(* What is aligned already stays.                                          *)
LEMMA AlignUpSame ==
  ASSUME NEW v \in 0..SizeMax, Al(v)
  PROVE  AlignUp(v) = v
<1>1. Align \in Nat /\ Align > 0 /\ AddrSpace \in Nat /\ SizeMax = AddrSpace - 1 /\ Al(AddrSpace)
  BY KmemConstants, Zenon
<1>2. v + Align <= AddrSpace
  BY <1>1, AlGap
<1>3. v \in Nat /\ ~(v > SizeMax - (Align - 1))
  BY <1>1, <1>2
<1>4. CASE v = 0
  <2>1. (v + Align - 1) \in 0..(Align - 1) /\ v + Align - 1 = Align * 0 + (v + Align - 1)
    BY <1>1, <1>4
  <2>2. (v + Align - 1) % Align = v + Align - 1
    BY <1>1, <2>1, ModIs
  <2> QED BY <1>1, <1>3, <1>4, <2>2 DEF AlignUp
<1>5. CASE v # 0
  <2>1. AlignUp(v) # 0 /\ AlignUp(v) \in 0..SizeMax /\ Al(AlignUp(v)) /\ v <= AlignUp(v) /\ AlignUp(v) < v + Align
    BY <1>3, <1>5, AlignUpFacts, Zenon
  <2>2. ~(v < AlignUp(v))
    BY <1>1, <1>3, <2>1, AlGap
  <2> QED BY <1>3, <2>1, <2>2
<1> QED BY <1>4, <1>5, Zenon

-----------------------------------------------------------------------------
(* The tiling of the heap from lo to hi by headers b, with the condition   *)
(* on free neighbours apart, as it does not hold in the middle of a free.  *)
EndIn(b, a) == a + Header + b[a].size

Node(b, a, lo, hi) ==
    /\ b[a] \in Block
    /\ a \in 0..SizeMax /\ lo <= a /\ Al(a)
    /\ b[a].size > 0 /\ Al(b[a].size)
    /\ EndIn(b, a) <= hi
    /\ b[a].next = IF EndIn(b, a) = hi THEN Null ELSE EndIn(b, a)
    /\ b[a].next # Null => b[a].next \in DOMAIN b /\ b[b[a].next].prev = a

Apart(b) == \A a, x \in DOMAIN b : x <= a \/ EndIn(b, a) <= x

Tile(b, lo, hi) ==
    /\ lo \in 1..SizeMax /\ hi \in 0..SizeMax
    /\ lo \in DOMAIN b /\ b[lo].prev = Null
    /\ \A a \in DOMAIN b : Node(b, a, lo, hi)
    /\ Apart(b)

(* Two free neighbours.                                                    *)
BothFree(b, x) == b[x].next # Null /\ b[x].free /\ b[b[x].next].free

LEMMA NodeFacts ==
  ASSUME NEW b, NEW lo, NEW hi, Tile(b, lo, hi), NEW a \in DOMAIN b
  PROVE  /\ a \in Nat /\ a > 0 /\ a <= SizeMax /\ lo <= a /\ Al(a) /\ lo \in Nat /\ hi \in Nat /\ hi <= SizeMax
         /\ b[a].size \in Nat /\ b[a].size > 0 /\ Al(b[a].size) /\ b[a].free \in BOOLEAN
         /\ b[a].prev \in 0..SizeMax /\ b[a].next \in 0..SizeMax
         /\ EndIn(b, a) \in Nat /\ EndIn(b, a) = a + Header + b[a].size /\ EndIn(b, a) <= hi
         /\ Al(EndIn(b, a)) /\ Expected(b, a) = EndIn(b, a)
         /\ b[a].next # Null => /\ b[a].next \in DOMAIN b /\ b[a].next = EndIn(b, a)
                                /\ b[a].next > a /\ b[b[a].next].prev = a
<1>1. /\ lo \in 1..SizeMax /\ hi \in 0..SizeMax /\ b[a] \in Block
      /\ a \in 0..SizeMax /\ lo <= a /\ Al(a)
      /\ b[a].size > 0 /\ Al(b[a].size)
      /\ EndIn(b, a) <= hi
      /\ b[a].next = IF EndIn(b, a) = hi THEN Null ELSE EndIn(b, a)
      /\ b[a].next # Null => b[a].next \in DOMAIN b /\ b[b[a].next].prev = a
  BY Zenon DEF Tile, Node
<1>2. /\ b[a].size \in 0..SizeMax /\ b[a].free \in BOOLEAN
      /\ b[a].prev \in 0..SizeMax /\ b[a].next \in 0..SizeMax
  BY <1>1, Zenon DEF Block
<1>3. a \in Nat /\ a > 0 /\ a <= SizeMax /\ lo \in Nat /\ hi \in Nat /\ hi <= SizeMax /\ b[a].size \in Nat
  BY <1>1, <1>2, KmemConstants
<1>4. EndIn(b, a) \in Nat /\ EndIn(b, a) = a + Header + b[a].size /\ EndIn(b, a) > a
  BY <1>3, KmemConstants DEF EndIn
<1>5. Al(EndIn(b, a))
  <2>1. a \in Int /\ Header \in Int /\ a + Header \in Int /\ b[a].size \in Int
    BY <1>3, KmemConstants
  <2>2. Al(a + Header)
    BY <1>1, <2>1, KmemConstants, AlSum, Zenon
  <2>3. Al((a + Header) + b[a].size)
    BY <1>1, <2>1, <2>2, AlSum, Zenon
  <2> QED BY <1>4, <2>3, Zenon
<1>6. Expected(b, a) = EndIn(b, a)
  <2>1. EndIn(b, a) \in 0..SizeMax
    BY <1>1, <1>3, <1>4, KmemConstants
  <2>2. Expected(b, a) = AlignUp(EndIn(b, a))
    BY Zenon DEF Expected, Payload, EndIn
  <2> QED BY <1>5, <2>1, <2>2, AlignUpSame, Zenon
<1>7. b[a].next # Null => b[a].next = EndIn(b, a)
  BY <1>1, Zenon
<1> QED BY <1>1, <1>2, <1>3, <1>4, <1>5, <1>6, <1>7, Zenon

LEMMA ApartFacts ==
  ASSUME NEW b, NEW lo, NEW hi, Tile(b, lo, hi), NEW a \in DOMAIN b, NEW x \in DOMAIN b, a < x
  PROVE  EndIn(b, a) <= x
<1>1. x <= a \/ EndIn(b, a) <= x
  BY Zenon DEF Tile, Apart
<1>2. a \in Nat /\ x \in Nat
  BY NodeFacts, Zenon
<1> QED BY <1>1, <1>2

(* prev and next agree: every block but the first is next of its prev.     *)
LEMMA PrevLink ==
  ASSUME NEW b, NEW lo, NEW hi, Tile(b, lo, hi), NEW a \in DOMAIN b, a # lo
  PROVE  /\ b[a].prev \in DOMAIN b /\ b[a].prev # Null /\ b[b[a].prev].next = a
         /\ b[a].prev < a /\ EndIn(b, b[a].prev) = a
<1>1. lo \in DOMAIN b /\ a \in Nat /\ lo < a
  BY NodeFacts DEF Tile
<1> DEFINE T == { a - x : x \in { y \in DOMAIN b : y < a } }
<1>2. T \subseteq Nat
  BY <1>1, NodeFacts
<1>3. a - lo \in T
  BY <1>1, Zenon
<1>4. PICK d \in T : \A e \in T : d <= e
  <2> HIDE DEF T
  <2> QED BY <1>2, <1>3, LeastNatural, Zenon
<1>5. PICK x \in DOMAIN b : x < a /\ d = a - x
  BY <1>4, Zenon
<1>6. x \in Nat /\ x > 0 /\ EndIn(b, x) \in Nat /\ EndIn(b, x) > x
  BY NodeFacts, KmemConstants
<1>7. \A y \in DOMAIN b : y < a => y <= x
  <2> SUFFICES ASSUME NEW y \in DOMAIN b, y < a PROVE y <= x
    BY Zenon
  <2>1. a - y \in T
    BY Zenon
  <2>2. d <= a - y
    BY <1>4, <2>1, Zenon
  <2>3. y \in Nat
    BY NodeFacts, Zenon
  <2> QED BY <1>1, <1>5, <1>6, <2>2, <2>3
<1> HIDE DEF T
<1>8. EndIn(b, x) <= a
  BY <1>5, ApartFacts, Zenon
<1>9. EndIn(b, a) > a /\ EndIn(b, a) <= hi /\ EndIn(b, a) \in Nat /\ hi \in Nat
  BY NodeFacts, KmemConstants
<1>10. EndIn(b, x) # hi
  BY <1>1, <1>6, <1>8, <1>9
<1>11. b[x].next = EndIn(b, x)
  BY <1>10, Zenon DEF Tile, Node
<1>12. b[x].next # Null
  BY <1>6, <1>11 DEF Null
<1>13. b[x].next \in DOMAIN b /\ b[b[x].next].prev = x
  BY <1>12, NodeFacts, Zenon
<1>14. b[x].next = a
  BY <1>1, <1>6, <1>7, <1>8, <1>11, <1>13
<1>15. x # Null
  BY <1>6 DEF Null
<1> QED BY <1>5, <1>11, <1>13, <1>14, <1>15, Zenon

-----------------------------------------------------------------------------
(* What kmem_coalesce_forward leaves when it merges a with the next block. *)
Merged(b, a) ==
    LET n == b[a].next
    IN [x \in DOMAIN b \ {n} |->
          CASE x = a -> [b[a] EXCEPT !.size = @ + Header + b[n].size, !.next = b[n].next]
            [] x # a -> IF x = b[n].next THEN [b[x] EXCEPT !.prev = a] ELSE b[x]]

LEMMA CoalesceIs ==
  ASSUME NEW b, NEW lo, NEW hi, Tile(b, lo, hi), NEW a \in DOMAIN b
  PROVE  Coalesce(b, a) = IF b[a].next = Null THEN b
                          ELSE IF ~b[b[a].next].free THEN b ELSE Merged(b, a)
<1>1. b[a].next # Null => Expected(b, a) = b[a].next
  BY NodeFacts
<1> QED BY <1>1, Zenon DEF Coalesce, Merged

IsMerge(b, a, n, c) ==
    /\ DOMAIN c = DOMAIN b \ {n} /\ n \in DOMAIN b /\ a \in DOMAIN c /\ a < n
    /\ c[a].size = b[a].size + Header + b[n].size /\ c[a].next = b[n].next
    /\ c[a].prev = b[a].prev /\ c[a].free = b[a].free
    /\ \A x \in DOMAIN c \ {a} : /\ c[x].size = b[x].size /\ c[x].next = b[x].next /\ c[x].free = b[x].free
                                 /\ c[x].prev = IF x = b[n].next THEN a ELSE b[x].prev
    /\ \A x \in DOMAIN c : c[x] = [size |-> c[x].size, free |-> c[x].free, prev |-> c[x].prev, next |-> c[x].next]

LEMMA MergedFields ==
  ASSUME NEW b, NEW lo, NEW hi, Tile(b, lo, hi), NEW a \in DOMAIN b, b[a].next # Null
  PROVE  IsMerge(b, a, b[a].next, Merged(b, a))
<1>0. PICK n, c : n = b[a].next /\ n # Null /\ c = Merged(b, a)
  BY Zenon
<1>1. n \in DOMAIN b /\ a < n /\ a \in Nat /\ n \in Nat
  BY <1>0, NodeFacts, Zenon
<1>2. DOMAIN c = DOMAIN b \ {n} /\ a \in DOMAIN c
  BY <1>0, <1>1 DEF Merged
<1>3. \A x \in DOMAIN b : b[x] \in Block
  BY Zenon DEF Tile, Node
<1>4. c[a] = [b[a] EXCEPT !.size = @ + Header + b[n].size, !.next = b[n].next]
  BY <1>0, <1>1, <1>2, Zenon DEF Merged
<1>5. \A x \in DOMAIN c \ {a} : c[x] = IF x = b[n].next THEN [b[x] EXCEPT !.prev = a] ELSE b[x]
  BY <1>0, <1>1, <1>2, Zenon DEF Merged
<1>6. b[a] = [size |-> b[a].size, free |-> b[a].free, prev |-> b[a].prev, next |-> b[a].next]
  BY <1>3, Zenon DEF Block
<1>7. c[a] = [size |-> b[a].size + Header + b[n].size, free |-> b[a].free, prev |-> b[a].prev, next |-> b[n].next]
  BY <1>4, <1>6, Zenon
<1>8. ASSUME NEW x \in DOMAIN c \ {a}
      PROVE  c[x] = [size |-> b[x].size, free |-> b[x].free, prev |-> IF x = b[n].next THEN a ELSE b[x].prev,
                     next |-> b[x].next]
  <2>1. b[x] = [size |-> b[x].size, free |-> b[x].free, prev |-> b[x].prev, next |-> b[x].next]
    BY <1>2, <1>3, Zenon DEF Block
  <2> QED BY <1>5, <2>1, Zenon
<1>9. ASSUME NEW x \in DOMAIN c \ {a}
      PROVE  /\ c[x].size = b[x].size /\ c[x].next = b[x].next /\ c[x].free = b[x].free
             /\ c[x].prev = IF x = b[n].next THEN a ELSE b[x].prev
             /\ c[x] = [size |-> c[x].size, free |-> c[x].free, prev |-> c[x].prev, next |-> c[x].next]
  BY <1>8
<1>10. /\ c[a].size = b[a].size + Header + b[n].size /\ c[a].next = b[n].next
       /\ c[a].prev = b[a].prev /\ c[a].free = b[a].free
       /\ c[a] = [size |-> c[a].size, free |-> c[a].free, prev |-> c[a].prev, next |-> c[a].next]
  BY <1>7
<1>11. IsMerge(b, a, n, c)
  BY <1>1, <1>2, <1>9, <1>10, Zenon DEF IsMerge
<1> QED BY <1>0, <1>11, Zenon

LEMMA MergeTile ==
  ASSUME NEW b, NEW lo, NEW hi, Tile(b, lo, hi), NEW a \in DOMAIN b, b[a].next # Null
  PROVE  Tile(Merged(b, a), lo, hi)
<1>1. PICK n, c : n = b[a].next /\ n # Null /\ c = Merged(b, a)
  BY Zenon
<1>0. IsMerge(b, a, n, c)
  BY <1>1, MergedFields, Zenon
<1>2. /\ DOMAIN c = DOMAIN b \ {n} /\ n \in DOMAIN b /\ a \in DOMAIN c /\ a < n
      /\ c[a].size = b[a].size + Header + b[n].size /\ c[a].next = b[n].next
      /\ c[a].prev = b[a].prev /\ c[a].free = b[a].free
  BY <1>0, Zenon DEF IsMerge
<1>3. \A x \in DOMAIN c \ {a} : /\ c[x].size = b[x].size /\ c[x].next = b[x].next /\ c[x].free = b[x].free
                                /\ c[x].prev = IF x = b[n].next THEN a ELSE b[x].prev
  BY <1>0, Zenon DEF IsMerge
<1>4. \A x \in DOMAIN c :
        c[x] = [size |-> c[x].size, free |-> c[x].free, prev |-> c[x].prev, next |-> c[x].next]
  BY <1>0, Zenon DEF IsMerge
<1>5. PICK m : m = b[n].next
  BY Zenon
<1>6. /\ n = EndIn(b, a) /\ b[n].prev = a /\ a \in Nat /\ a > 0 /\ n \in Nat /\ lo \in Nat
      /\ hi \in Nat /\ hi <= SizeMax /\ b[a].size \in Nat /\ b[n].size \in Nat
      /\ EndIn(b, a) = a + Header + b[a].size /\ EndIn(b, n) = n + Header + b[n].size
      /\ EndIn(b, n) \in Nat /\ EndIn(b, n) <= hi
  <2>1. /\ n = EndIn(b, a) /\ b[n].prev = a /\ a \in Nat /\ a > 0 /\ lo \in Nat
        /\ hi \in Nat /\ hi <= SizeMax /\ b[a].size \in Nat /\ EndIn(b, a) = a + Header + b[a].size
    BY <1>1, NodeFacts, Zenon
  <2>2. /\ n \in Nat /\ b[n].size \in Nat /\ EndIn(b, n) = n + Header + b[n].size
        /\ EndIn(b, n) \in Nat /\ EndIn(b, n) <= hi
    BY <1>2, NodeFacts
  <2> QED BY <2>1, <2>2, Zenon
<1>7. m # Null => m \in DOMAIN b /\ m > n /\ b[m].prev = n /\ m = EndIn(b, n) /\ m \in Nat
  <2>1. m # Null => m \in DOMAIN b /\ m > n /\ b[m].prev = n /\ m = EndIn(b, n) /\ EndIn(b, n) \in Nat
    BY <1>2, <1>5, NodeFacts
  <2> QED BY <2>1, Zenon
<1>8. EndIn(c, a) = EndIn(b, n) /\ \A x \in DOMAIN c \ {a} : EndIn(c, x) = EndIn(b, x)
  BY <1>2, <1>3, <1>6, KmemConstants DEF EndIn
<1>9. Node(c, a, lo, hi)
  <2>1. c[a].size \in 0..SizeMax /\ c[a].size > 0
    BY <1>2, <1>6, KmemConstants
  <2>2. Al(c[a].size)
    <3>1. Al(b[a].size) /\ Al(Header) /\ Al(b[n].size)
      BY <1>2, NodeFacts, KmemConstants, Zenon
    <3>2. b[a].size \in Int /\ Header \in Int /\ b[n].size \in Int /\ b[a].size + Header \in Int
      BY <1>6, KmemConstants
    <3>3. Al(b[a].size + Header)
      BY <3>1, <3>2, AlSum, Zenon
    <3>4. Al((b[a].size + Header) + b[n].size)
      BY <3>1, <3>2, <3>3, AlSum, Zenon
    <3> QED BY <1>2, <3>4, Zenon
  <2>3. c[a].free \in BOOLEAN /\ c[a].prev \in 0..SizeMax /\ c[a].next \in 0..SizeMax
    BY <1>2, NodeFacts
  <2>4. c[a] \in Block
    BY <1>2, <1>4, <2>1, <2>3 DEF Block
  <2>5. c[a].next = IF EndIn(c, a) = hi THEN Null ELSE EndIn(c, a)
    BY <1>2, <1>8, Zenon DEF Tile, Node
  <2>6. c[a].next # Null => c[a].next \in DOMAIN c /\ c[c[a].next].prev = a
    <3> SUFFICES ASSUME c[a].next # Null PROVE c[a].next \in DOMAIN c /\ c[c[a].next].prev = a
      BY Zenon
    <3>1. c[a].next = m /\ m # n /\ m # a /\ m \in DOMAIN c
      BY <1>2, <1>5, <1>6, <1>7
    <3> QED BY <1>3, <1>5, <3>1, Zenon
  <2>7. a \in 0..SizeMax /\ lo <= a /\ Al(a)
    BY Zenon DEF Tile, Node
  <2> QED BY <1>6, <1>8, <2>1, <2>2, <2>4, <2>5, <2>6, <2>7, Zenon DEF Node
<1>10. ASSUME NEW x \in DOMAIN c \ {a} PROVE Node(c, x, lo, hi)
  <2>1. x \in DOMAIN b /\ x # n /\ x # a /\ Node(b, x, lo, hi)
    BY <1>2, Zenon DEF Tile
  <2>2. c[x].size = b[x].size /\ c[x].next = b[x].next /\ c[x].free = b[x].free /\ EndIn(c, x) = EndIn(b, x)
    BY <1>3, <1>8, Zenon
  <2>3. c[x].prev \in 0..SizeMax
    BY <1>3, <2>1, NodeFacts
  <2>4. c[x] \in Block
    BY <1>4, <2>1, <2>2, <2>3, NodeFacts DEF Node, Block
  <2>5. c[x].next # Null => c[x].next \in DOMAIN c /\ c[c[x].next].prev = x
    <3> SUFFICES ASSUME c[x].next # Null PROVE c[x].next \in DOMAIN c /\ c[c[x].next].prev = x
      BY Zenon
    <3>1. PICK y : y = b[x].next
      BY Zenon
    <3>2. y \in DOMAIN b /\ b[y].prev = x /\ y # Null
      BY <2>1, <2>2, <3>1, Zenon DEF Node
    <3>3. y # n /\ y \in DOMAIN c
      BY <1>2, <1>6, <2>1, <3>2, Zenon
    <3>4. y # m
      BY <1>7, <2>1, <3>2, Zenon
    <3>5. c[y].prev = x
      BY <1>2, <1>3, <1>5, <3>2, <3>3, <3>4, Zenon
    <3> QED BY <2>2, <3>1, <3>3, <3>5, Zenon
  <2> QED BY <2>1, <2>2, <2>4, <2>5, Zenon DEF Node
<1>11. lo \in DOMAIN c /\ c[lo].prev = Null
  <2>1. lo \in DOMAIN b /\ b[lo].prev = Null /\ lo # Null
    BY DEF Tile, Null
  <2>2. lo # n /\ lo # m
    BY <1>2, <1>6, <1>7, <2>1 DEF Null
  <2> QED BY <1>2, <1>3, <1>5, <2>1, <2>2, Zenon
<1>12. Apart(c)
  <2> SUFFICES ASSUME NEW y \in DOMAIN c, NEW x \in DOMAIN c, ~(x <= y) PROVE EndIn(c, y) <= x
    BY Zenon DEF Apart
  <2>1. x \in DOMAIN b /\ y \in DOMAIN b /\ x # n /\ x \in Nat /\ y \in Nat /\ y < x
    BY <1>2, NodeFacts
  <2>2. EndIn(b, y) <= x
    BY <2>1, ApartFacts, Zenon
  <2>3. CASE y = a
    <3>1. n < x
      BY <1>6, <2>1, <2>2, <2>3
    <3>2. EndIn(b, n) <= x
      BY <1>2, <2>1, <3>1, ApartFacts, Zenon
    <3> QED BY <1>8, <2>3, <3>2, Zenon
  <2>4. CASE y # a
    BY <1>8, <2>2, <2>4, Zenon
  <2> QED BY <2>3, <2>4, Zenon
<1> QED BY <1>1, <1>9, <1>10, <1>11, <1>12, Zenon DEF Tile

(* Blocks in use, and the condition on free neighbours.                    *)
UsedIn(b) == { x \in DOMAIN b : ~b[x].free }

NoTwoFree(b) == \A x \in DOMAIN b : ~BothFree(b, x)

(* A merge of free blocks leaves those in use, and makes no two free       *)
(* neighbours but for a and the block after the one merged.                *)
FreeMerge(b, a, n, c) ==
    /\ UsedIn(c) = UsedIn(b) /\ \A x \in UsedIn(b) : c[x].size = b[x].size
    /\ \A x \in DOMAIN c : BothFree(c, x) => (BothFree(b, x) /\ x # a) \/ (x = a /\ BothFree(b, n))
    /\ c[a].free /\ c[a].prev = b[a].prev /\ a \in DOMAIN c /\ DOMAIN c \subseteq DOMAIN b

LEMMA MergeFree ==
  ASSUME NEW b, NEW lo, NEW hi, Tile(b, lo, hi), NEW a \in DOMAIN b, BothFree(b, a)
  PROVE  FreeMerge(b, a, b[a].next, Merged(b, a))
<1>0. PICK c : c = Merged(b, a)
  BY Zenon
<1>1. PICK n : n = b[a].next /\ n # Null /\ b[a].free /\ b[n].free
  BY Zenon DEF BothFree
<1>2. IsMerge(b, a, n, c) /\ Tile(c, lo, hi)
  BY <1>0, <1>1, MergedFields, MergeTile, Zenon
<1>3. /\ DOMAIN c = DOMAIN b \ {n} /\ n \in DOMAIN b /\ a \in DOMAIN c /\ a < n
      /\ c[a].next = b[n].next /\ c[a].prev = b[a].prev /\ c[a].free = b[a].free
  BY <1>2, Zenon DEF IsMerge
<1>4. \A x \in DOMAIN c \ {a} : /\ c[x].size = b[x].size /\ c[x].next = b[x].next /\ c[x].free = b[x].free
  BY <1>2, Zenon DEF IsMerge
<1>5. UsedIn(c) = UsedIn(b) /\ \A x \in UsedIn(b) : c[x].size = b[x].size
  BY <1>1, <1>3, <1>4, Zenon DEF UsedIn
<1>6. \A x \in DOMAIN c : c[x].free = b[x].free
  BY <1>3, <1>4, Zenon
<1>7. \A x \in DOMAIN c : c[x].next # Null => c[x].next \in DOMAIN c
  BY <1>2, NodeFacts, Zenon
<1>8. ASSUME NEW x \in DOMAIN c, BothFree(c, x)
      PROVE  (BothFree(b, x) /\ x # a) \/ (x = a /\ BothFree(b, n))
  <2>1. c[x].next # Null /\ b[x].free /\ b[c[x].next].free
    BY <1>6, <1>7, <1>8, Zenon DEF BothFree
  <2>2. CASE x = a
    BY <1>1, <1>3, <2>1, <2>2, Zenon DEF BothFree
  <2>3. CASE x # a
    <3>1. c[x].next = b[x].next
      BY <1>4, <2>3, Zenon
    <3> QED BY <2>1, <2>3, <3>1, Zenon DEF BothFree
  <2> QED BY <2>2, <2>3, Zenon
<1>9. FreeMerge(b, a, n, c)
  BY <1>1, <1>3, <1>5, <1>8, Zenon DEF FreeMerge
<1> QED BY <1>0, <1>1, <1>9, Zenon

(* Setting a block's free flag changes nothing else.                       *)
IsSetFree(b, a, v, c) ==
    /\ DOMAIN c = DOMAIN b
    /\ \A x \in DOMAIN b : /\ c[x].size = b[x].size /\ c[x].next = b[x].next /\ c[x].prev = b[x].prev
                           /\ c[x].free = IF x = a THEN v ELSE b[x].free

LEMMA SetFree ==
  ASSUME NEW b, NEW lo, NEW hi, Tile(b, lo, hi), NEW a \in DOMAIN b, NEW v \in BOOLEAN
  PROVE  Tile([b EXCEPT ![a].free = v], lo, hi) /\ IsSetFree(b, a, v, [b EXCEPT ![a].free = v])
<1>0. PICK c : c = [b EXCEPT ![a].free = v]
  BY Zenon
<1>1. DOMAIN c = DOMAIN b /\ \A x \in DOMAIN b : b[x] \in Block
  BY <1>0, Zenon DEF Tile, Node
<1>2. \A x \in DOMAIN b : c[x] = IF x = a THEN [b[a] EXCEPT !.free = v] ELSE b[x]
  BY <1>0, Zenon
<1>3. \A x \in DOMAIN b : /\ c[x].size = b[x].size /\ c[x].next = b[x].next /\ c[x].prev = b[x].prev
                          /\ c[x] \in Block
  BY <1>1, <1>2 DEF Block
<1>8. \A x \in DOMAIN b : c[x].free = IF x = a THEN v ELSE b[x].free
  BY <1>1, <1>2, Zenon DEF Block
<1>4. \A x \in DOMAIN b : EndIn(c, x) = EndIn(b, x)
  BY <1>3, Zenon DEF EndIn
<1>5. ASSUME NEW x \in DOMAIN b PROVE Node(c, x, lo, hi)
  <2>1. Node(b, x, lo, hi)
    BY Zenon DEF Tile
  <2>2. b[x].next # Null => c[x].next \in DOMAIN c /\ c[c[x].next].prev = x
    BY <1>1, <1>3, <2>1, Zenon DEF Node
  <2>3. c[x].size = b[x].size /\ c[x].next = b[x].next /\ c[x] \in Block /\ EndIn(c, x) = EndIn(b, x)
    BY <1>3, <1>4, Zenon
  <2> QED BY <2>1, <2>2, <2>3, Zenon DEF Node
<1>6. Apart(b) => Apart(c)
  BY <1>1, <1>4, Zenon DEF Apart
<1>7. Tile(c, lo, hi)
  BY <1>1, <1>3, <1>5, <1>6, Zenon DEF Tile
<1>9. IsSetFree(b, a, v, c)
  BY <1>1, <1>3, <1>8, Zenon DEF IsSetFree
<1> QED BY <1>0, <1>7, <1>9, Zenon

-----------------------------------------------------------------------------
(* kmem_free_checked: what it leaves of a tiling b in which a was in use.  *)
FreedIn(b, a) ==
    LET forward == Coalesce([b EXCEPT ![a].free = TRUE], a)
        prev == forward[a].prev
    IN IF prev = Null THEN forward
       ELSE IF forward[prev].free THEN Coalesce(forward, prev) ELSE forward

IsFreed(b, a, c, lo, hi) ==
    /\ Tile(c, lo, hi) /\ NoTwoFree(c)
    /\ UsedIn(c) = UsedIn(b) \ {a}
    /\ \A x \in UsedIn(c) : c[x].size = b[x].size

IsForward(b, a, c, lo, hi) ==
    /\ Tile(c, lo, hi) /\ a \in DOMAIN c /\ c[a].free
    /\ \A x \in DOMAIN c : BothFree(c, x) => c[x].next = a
    /\ UsedIn(c) = UsedIn(b) \ {a} /\ \A x \in UsedIn(c) : c[x].size = b[x].size

LEMMA FreeForward ==
  ASSUME NEW b, NEW lo, NEW hi, Tile(b, lo, hi), NoTwoFree(b), NEW a \in DOMAIN b, ~b[a].free
  PROVE  IsForward(b, a, Coalesce([b EXCEPT ![a].free = TRUE], a), lo, hi)
<1>0. PICK c : c = Coalesce([b EXCEPT ![a].free = TRUE], a)
  BY Zenon
<1> SUFFICES IsForward(b, a, c, lo, hi)
  BY <1>0, Zenon
<1>1. PICK d : d = [b EXCEPT ![a].free = TRUE]
  BY Zenon
<1>2. /\ Tile(d, lo, hi) /\ DOMAIN d = DOMAIN b
      /\ \A x \in DOMAIN b : /\ d[x].size = b[x].size /\ d[x].next = b[x].next
                             /\ d[x].free = IF x = a THEN TRUE ELSE b[x].free
  <2>1. Tile(d, lo, hi) /\ IsSetFree(b, a, TRUE, d)
    BY <1>1, SetFree, Zenon
  <2> QED BY <2>1, Zenon DEF IsSetFree
<1>3. UsedIn(d) = UsedIn(b) \ {a} /\ (\A x \in UsedIn(d) : d[x].size = b[x].size) /\ d[a].free
  BY <1>2, Zenon DEF UsedIn
<1>4. \A x \in DOMAIN d : d[x].next # Null => d[x].next \in DOMAIN d /\ d[x].next # x
  <2> SUFFICES ASSUME NEW x \in DOMAIN d, d[x].next # Null PROVE d[x].next \in DOMAIN d /\ d[x].next # x
    BY Zenon
  <2>1. x \in Nat /\ d[x].next \in DOMAIN d /\ d[x].next > x
    BY <1>2, NodeFacts, Zenon
  <2> QED BY <2>1
<1>5. \A x \in DOMAIN d : BothFree(d, x) => x = a \/ d[x].next = a
  BY <1>2, <1>4 DEF NoTwoFree, BothFree
<1>6. CASE ~BothFree(d, a)
  <2>1. c = d
    BY <1>0, <1>1, <1>2, <1>3, <1>6, CoalesceIs, Zenon DEF BothFree
  <2> QED BY <1>2, <1>3, <1>5, <1>6, <2>1, Zenon DEF IsForward
<1>7. CASE BothFree(d, a)
  <2>1. c = Merged(d, a)
    BY <1>0, <1>1, <1>2, <1>7, CoalesceIs DEF BothFree
  <2>2. PICK n : n = d[a].next /\ n \in DOMAIN d /\ n # a /\ n # Null
    BY <1>2, <1>4, <1>7, Zenon DEF BothFree
  <2>3. /\ UsedIn(c) = UsedIn(d) /\ \A x \in UsedIn(d) : c[x].size = d[x].size
        /\ \A x \in DOMAIN c : BothFree(c, x) => (BothFree(d, x) /\ x # a) \/ (x = a /\ BothFree(d, n))
        /\ c[a].free /\ a \in DOMAIN c
    <3>1. FreeMerge(d, a, n, c)
      BY <1>2, <1>7, <2>1, <2>2, MergeFree, Zenon
    <3> QED BY <3>1, Zenon DEF FreeMerge
  <2>4. Tile(c, lo, hi)
    BY <1>2, <2>1, <2>2, MergeTile, Zenon
  <2>5. ~BothFree(d, n)
    <3> SUFFICES ASSUME BothFree(d, n) PROVE FALSE
      BY Zenon
    <3>1. d[n].next = a
      BY <1>5, <2>2, Zenon
    <3>2. a < n /\ n < a /\ a \in Nat /\ n \in Nat
      <4>1. a < n /\ a \in Nat
        BY <1>2, <2>2, NodeFacts, Zenon
      <4>2. a # Null
        BY <4>1, <1>2, NodeFacts DEF Null
      <4>3. n < a /\ n \in Nat
        BY <1>2, <2>2, <3>1, <4>2, NodeFacts
      <4> QED BY <4>1, <4>3, Zenon
    <3> QED BY <3>2
  <2>6. ASSUME NEW x \in DOMAIN c, BothFree(c, x) PROVE c[x].next = a
    <3>1. BothFree(d, x) /\ x # a
      BY <2>3, <2>5, <2>6, Zenon
    <3>2. x \in DOMAIN d /\ c[x].next = d[x].next
      <4>1. IsMerge(d, a, n, c)
        BY <1>2, <2>1, <2>2, MergedFields, Zenon
      <4> QED BY <3>1, <4>1, Zenon DEF IsMerge
    <3> QED BY <1>5, <3>1, <3>2, Zenon
  <2> QED BY <1>3, <2>3, <2>4, <2>6, Zenon DEF IsForward
<1> QED BY <1>6, <1>7, Zenon

LEMMA FreedTile ==
  ASSUME NEW b, NEW lo, NEW hi, Tile(b, lo, hi), NoTwoFree(b), NEW a \in DOMAIN b, ~b[a].free
  PROVE  IsFreed(b, a, FreedIn(b, a), lo, hi)
<1>1. PICK c : c = Coalesce([b EXCEPT ![a].free = TRUE], a)
  BY Zenon
<1>2. /\ Tile(c, lo, hi) /\ a \in DOMAIN c /\ c[a].free
      /\ \A x \in DOMAIN c : BothFree(c, x) => c[x].next = a
      /\ UsedIn(c) = UsedIn(b) \ {a} /\ \A x \in UsedIn(c) : c[x].size = b[x].size
  <2>1. IsForward(b, a, c, lo, hi)
    BY <1>1, FreeForward, Zenon
  <2> QED BY <2>1, Zenon DEF IsForward
<1>3. PICK p : p = c[a].prev
  BY Zenon
<1>4. FreedIn(b, a) = IF p = Null THEN c ELSE IF c[p].free THEN Coalesce(c, p) ELSE c
  BY <1>1, <1>3, Zenon DEF FreedIn
<1>5. \A x \in DOMAIN c : BothFree(c, x) => x = p /\ p # Null /\ c[p].free
  <2> SUFFICES ASSUME NEW x \in DOMAIN c, BothFree(c, x) PROVE x = p /\ p # Null /\ c[p].free
    BY Zenon
  <2>1. c[x].next = a /\ c[x].next # Null /\ c[x].free
    BY <1>2, Zenon DEF BothFree
  <2>2. c[c[x].next].prev = x /\ x > 0
    BY <1>2, <2>1, NodeFacts, Zenon
  <2> QED BY <1>3, <2>1, <2>2 DEF Null
<1>6. CASE p = Null \/ ~c[p].free
  <2>1. FreedIn(b, a) = c
    BY <1>4, <1>6, Zenon
  <2>2. NoTwoFree(c)
    BY <1>5, <1>6, Zenon DEF NoTwoFree
  <2> QED BY <1>2, <2>1, <2>2, Zenon DEF IsFreed
<1>7. CASE p # Null /\ c[p].free
  <2>1. a # lo
    BY <1>2, <1>3, <1>7, Zenon DEF Tile
  <2>2. p \in DOMAIN c /\ c[p].next = a /\ p < a /\ p \in Nat /\ a \in Nat /\ a > 0
    BY <1>2, <1>3, <2>1, PrevLink, NodeFacts
  <2>3. BothFree(c, p)
    BY <1>2, <1>7, <2>2 DEF BothFree, Null
  <2>4. Coalesce(c, p) = Merged(c, p)
    BY <1>2, <2>2, <2>3, CoalesceIs, Zenon DEF BothFree
  <2>5. PICK d : d = Merged(c, p)
    BY Zenon
  <2>6. Tile(d, lo, hi)
    BY <1>2, <2>2, <2>3, <2>5, MergeTile, Zenon DEF BothFree
  <2>7. /\ UsedIn(d) = UsedIn(c) /\ (\A x \in UsedIn(c) : d[x].size = c[x].size) /\ DOMAIN d \subseteq DOMAIN c
        /\ \A x \in DOMAIN d : BothFree(d, x) => (BothFree(c, x) /\ x # p) \/ (x = p /\ BothFree(c, a))
    <3>1. FreeMerge(c, p, a, d)
      BY <1>2, <2>2, <2>3, <2>5, MergeFree, Zenon
    <3> QED BY <3>1, Zenon DEF FreeMerge
  <2>8. ~BothFree(c, a)
    BY <1>2, <1>5, <2>2
  <2>9. NoTwoFree(d)
    BY <1>5, <2>7, <2>8, Zenon DEF NoTwoFree
  <2>10. FreedIn(b, a) = d
    BY <1>4, <1>7, <2>4, <2>5, Zenon
  <2> QED BY <1>2, <2>6, <2>7, <2>9, <2>10, Zenon DEF IsFreed
<1> QED BY <1>6, <1>7, Zenon

-----------------------------------------------------------------------------
(* What kmem_split_if_useful leaves when it splits a.                      *)
SplitOf(b, a, w, new) ==
    [x \in DOMAIN b \cup {new} |->
       CASE x = new -> [size |-> b[a].size - w - Header, free |-> TRUE, prev |-> a, next |-> b[a].next]
         [] x = a -> [b[a] EXCEPT !.size = w, !.next = new]
         [] x \notin {new, a} -> IF x = b[a].next THEN [b[x] EXCEPT !.prev = new] ELSE b[x]]

CanSplit(b, a, w, new) ==
    w \in Nat /\ w > 0 /\ Al(w) /\ w + Header < b[a].size /\ new = a + Header + w

IsSplit(b, a, w, new, c) ==
    /\ DOMAIN c = DOMAIN b \cup {new} /\ new \notin DOMAIN b
    /\ c[new] = [size |-> b[a].size - w - Header, free |-> TRUE, prev |-> a, next |-> b[a].next]
    /\ c[a] = [size |-> w, free |-> b[a].free, prev |-> b[a].prev, next |-> new]
    /\ \A x \in DOMAIN b \ {a} : c[x] = [size |-> b[x].size, free |-> b[x].free, next |-> b[x].next,
                                          prev |-> IF x = b[a].next THEN new ELSE b[x].prev]

LEMMA SplitFields ==
  ASSUME NEW b, NEW lo, NEW hi, Tile(b, lo, hi), NEW a \in DOMAIN b, NEW w, NEW new, CanSplit(b, a, w, new)
  PROVE  IsSplit(b, a, w, new, SplitOf(b, a, w, new))
<1>0. PICK c : c = SplitOf(b, a, w, new)
  BY Zenon
<1>1. \A x \in DOMAIN b : b[x] = [size |-> b[x].size, free |-> b[x].free, prev |-> b[x].prev, next |-> b[x].next]
  BY Zenon DEF Tile, Node, Block
<1>2. a < new /\ new < EndIn(b, a) /\ a \in Nat /\ new \in Nat /\ EndIn(b, a) \in Nat
  BY NodeFacts, KmemConstants DEF CanSplit
<1>3. new \notin DOMAIN b
  <2> SUFFICES ASSUME new \in DOMAIN b PROVE FALSE
    BY Zenon
  <2>1. EndIn(b, a) <= new
    BY <1>2, ApartFacts, Zenon
  <2> QED BY <1>2, <2>1
<1>4. DOMAIN c = DOMAIN b \cup {new} /\ a # new
  BY <1>0, <1>2 DEF SplitOf
<1>5. c[new] = [size |-> b[a].size - w - Header, free |-> TRUE, prev |-> a, next |-> b[a].next]
  BY <1>0, <1>4, Zenon DEF SplitOf
<1>6. c[a] = [size |-> w, free |-> b[a].free, prev |-> b[a].prev, next |-> new]
  <2>1. c[a] = [b[a] EXCEPT !.size = w, !.next = new]
    BY <1>0, <1>4, Zenon DEF SplitOf
  <2> QED BY <1>1, <2>1, Zenon
<1>7. ASSUME NEW x \in DOMAIN b \ {a}
      PROVE  c[x] = [size |-> b[x].size, free |-> b[x].free, next |-> b[x].next,
                     prev |-> IF x = b[a].next THEN new ELSE b[x].prev]
  <2>1. c[x] = IF x = b[a].next THEN [b[x] EXCEPT !.prev = new] ELSE b[x]
    BY <1>0, <1>3, Zenon DEF SplitOf
  <2>2. b[x] = [size |-> b[x].size, free |-> b[x].free, prev |-> b[x].prev, next |-> b[x].next]
    BY <1>1, Zenon
  <2> QED BY <2>1, <2>2, Zenon
<1> QED BY <1>0, <1>3, <1>4, <1>5, <1>6, <1>7, Zenon DEF IsSplit

LEMMA SplitTile ==
  ASSUME NEW b, NEW lo, NEW hi, Tile(b, lo, hi), NEW a \in DOMAIN b, NEW w, NEW new, CanSplit(b, a, w, new)
  PROVE  Tile(SplitOf(b, a, w, new), lo, hi)
<1>0. PICK c : c = SplitOf(b, a, w, new)
  BY Zenon
<1>1. IsSplit(b, a, w, new, c)
  BY <1>0, SplitFields, Zenon
<1>2. /\ DOMAIN c = DOMAIN b \cup {new} /\ new \notin DOMAIN b
      /\ c[new] = [size |-> b[a].size - w - Header, free |-> TRUE, prev |-> a, next |-> b[a].next]
      /\ c[a] = [size |-> w, free |-> b[a].free, prev |-> b[a].prev, next |-> new]
  BY <1>1, Zenon DEF IsSplit
<1>3. \A x \in DOMAIN b \ {a} :
         /\ c[x].size = b[x].size /\ c[x].next = b[x].next
         /\ c[x].prev = IF x = b[a].next THEN new ELSE b[x].prev
  BY <1>1 DEF IsSplit
<1>4. /\ w \in Nat /\ w > 0 /\ Al(w) /\ w + Header < b[a].size /\ new = a + Header + w
  BY Zenon DEF CanSplit
<1>5. /\ a \in Nat /\ a > 0 /\ a <= SizeMax /\ lo <= a /\ Al(a) /\ lo \in Nat /\ hi \in Nat /\ hi <= SizeMax
      /\ b[a].size \in Nat /\ Al(b[a].size) /\ b[a].free \in BOOLEAN
      /\ b[a].prev \in 0..SizeMax /\ b[a].next \in 0..SizeMax
      /\ EndIn(b, a) \in Nat /\ EndIn(b, a) = a + Header + b[a].size /\ EndIn(b, a) <= hi
      /\ (b[a].next # Null => /\ b[a].next \in DOMAIN b /\ b[a].next > a /\ b[b[a].next].prev = a)
  BY NodeFacts, Zenon
<1>6. new \in Nat /\ new > 0 /\ new < EndIn(b, a) /\ a < new /\ new <= SizeMax /\ new <= hi /\ lo <= new
  BY <1>4, <1>5, KmemConstants
<1>7. EndIn(c, a) = new /\ EndIn(c, new) = EndIn(b, a) /\ \A x \in DOMAIN b \ {a} : EndIn(c, x) = EndIn(b, x)
  <2>1. EndIn(c, a) = new /\ \A x \in DOMAIN b \ {a} : EndIn(c, x) = EndIn(b, x)
    BY <1>2, <1>3, <1>4 DEF EndIn
  <2>2. EndIn(c, new) = new + Header + (b[a].size - w - Header)
    BY <1>2 DEF EndIn
  <2>3. new + Header + (b[a].size - w - Header) = EndIn(b, a)
    BY <1>4, <1>5, KmemConstants
  <2> QED BY <2>1, <2>2, <2>3, Zenon
<1>8. Al(new) /\ Al(b[a].size - w - Header)
  <2>1. /\ a \in Int /\ Header \in Int /\ w \in Int /\ b[a].size \in Int /\ a + Header \in Int
        /\ b[a].size - w \in Int /\ Al(Header)
    BY <1>4, <1>5, KmemConstants
  <2>2. Al(a + Header) /\ Al(b[a].size - w)
    BY <1>4, <1>5, <2>1, AlSum, Zenon
  <2>3. Al((a + Header) + w) /\ Al((b[a].size - w) - Header)
    BY <1>4, <2>1, <2>2, AlSum, Zenon
  <2> QED BY <1>4, <2>3, Zenon
<1>9. Node(c, a, lo, hi)
  <2>1. c[a].size = w /\ c[a].next = new /\ c[a] \in Block
    BY <1>2, <1>4, <1>5, <1>6, KmemConstants DEF Block
  <2>2. c[new].prev = a /\ new # hi /\ new # Null
    BY <1>2, <1>5, <1>6 DEF Null
  <2>3. a \in 0..SizeMax
    BY <1>5, KmemConstants
  <2> QED BY <1>2, <1>4, <1>5, <1>6, <1>7, <2>1, <2>2, <2>3, Zenon DEF Node
<1>10. Node(c, new, lo, hi)
  <2>1. c[new].size = b[a].size - w - Header /\ c[new].next = b[a].next
    BY <1>2
  <2>2. c[new].size \in 0..SizeMax /\ c[new].size > 0
    BY <1>4, <1>5, <2>1, KmemConstants
  <2>3. c[new] \in Block
    <3>1. a \in 0..SizeMax /\ b[a].size - w - Header \in 0..SizeMax
      BY <1>5, <2>1, <2>2, KmemConstants
    <3> QED BY <1>2, <1>5, <3>1 DEF Block
  <2>4. c[new].next = IF EndIn(c, new) = hi THEN Null ELSE EndIn(c, new)
    BY <1>7, <2>1, Zenon DEF Tile, Node
  <2>5. c[new].next # Null => c[new].next \in DOMAIN c /\ c[c[new].next].prev = new
    <3> SUFFICES ASSUME c[new].next # Null PROVE c[new].next \in DOMAIN c /\ c[c[new].next].prev = new
      BY Zenon
    <3>1. b[a].next \in DOMAIN b \ {a}
      BY <1>5, <2>1
    <3> QED BY <1>2, <1>3, <2>1, <3>1, Zenon
  <2>6. new \in 0..SizeMax
    BY <1>6, KmemConstants
  <2>7. Al(c[new].size)
    BY <1>8, <2>1, Zenon
  <2> QED BY <1>5, <1>6, <1>7, <1>8, <2>2, <2>3, <2>4, <2>5, <2>6, <2>7, Zenon DEF Node
<1>11. ASSUME NEW x \in DOMAIN b \ {a} PROVE Node(c, x, lo, hi)
  <2>1. Node(b, x, lo, hi)
    BY Zenon DEF Tile
  <2>2. c[x].size = b[x].size /\ c[x].next = b[x].next /\ EndIn(c, x) = EndIn(b, x)
    BY <1>3, <1>7, Zenon
  <2>3. c[x] \in Block
    <3>1. PICK q : q = (IF x = b[a].next THEN new ELSE b[x].prev)
      BY Zenon
    <3>2. b[x].prev \in 0..SizeMax /\ new \in 0..SizeMax /\ b[x].size \in 0..SizeMax /\ b[x].next \in 0..SizeMax
          /\ b[x].free \in BOOLEAN
      BY <1>6, <2>1, KmemConstants DEF Node, Block
    <3>3. q \in 0..SizeMax
      BY <3>1, <3>2, Zenon
    <3>4. c[x] = [size |-> b[x].size, free |-> b[x].free, next |-> b[x].next, prev |-> q]
      BY <1>1, <3>1, Zenon DEF IsSplit
    <3> QED BY <3>2, <3>3, <3>4 DEF Block
  <2>4. c[x].next # Null => c[x].next \in DOMAIN c /\ c[c[x].next].prev = x
    <3> SUFFICES ASSUME c[x].next # Null PROVE c[x].next \in DOMAIN c /\ c[c[x].next].prev = x
      BY Zenon
    <3>1. PICK y : y = b[x].next
      BY Zenon
    <3>2. y \in DOMAIN b /\ b[y].prev = x
      BY <2>1, <2>2, <3>1, Zenon DEF Node
    <3>3. y = a => c[y].prev = x
      BY <1>2, <3>2
    <3>4. y # a => y # b[a].next
      BY <1>5, <3>2, NodeFacts DEF Null
    <3>5. y # a => c[y].prev = x
      BY <1>3, <3>2, <3>4, Zenon
    <3> QED BY <1>2, <2>2, <3>1, <3>2, <3>3, <3>5, Zenon
  <2> QED BY <2>1, <2>2, <2>3, <2>4, Zenon DEF Node
<1>12. lo \in DOMAIN c /\ c[lo].prev = Null
  <2>1. lo \in DOMAIN b /\ b[lo].prev = Null
    BY Zenon DEF Tile
  <2>2. lo = a => c[lo].prev = Null
    BY <1>2, <2>1
  <2>3. lo # b[a].next
    BY <1>5, <2>1, NodeFacts DEF Null
  <2>4. lo # a => c[lo].prev = Null
    BY <1>3, <2>1, <2>3, Zenon
  <2> QED BY <1>2, <2>1, <2>2, <2>4, Zenon
<1>13. Apart(c)
  <2> SUFFICES ASSUME NEW y \in DOMAIN c, NEW x \in DOMAIN c, ~(x <= y) PROVE EndIn(c, y) <= x
    BY Zenon DEF Apart
  <2>1. \A z \in DOMAIN b : z \in Nat /\ EndIn(b, z) \in Nat
    BY NodeFacts, Zenon
  <2>2. x \in Nat /\ y \in Nat /\ y < x
    BY <1>2, <1>6, <2>1
  <2>3. CASE y = a
    <3>1. x = new => new <= x
      BY <1>6
    <3>2. x # new => EndIn(b, a) <= x
      BY <1>2, <2>2, <2>3, ApartFacts, Zenon
    <3>3. new <= x
      BY <1>5, <1>6, <2>2, <3>1, <3>2
    <3> QED BY <1>7, <2>3, <3>3, Zenon
  <2>4. CASE y = new
    <3>1. x \in DOMAIN b /\ a < x
      BY <1>2, <1>5, <1>6, <2>2, <2>4
    <3>2. EndIn(b, a) <= x
      BY <3>1, ApartFacts, Zenon
    <3> QED BY <1>7, <2>4, <3>2, Zenon
  <2>5. CASE y \in DOMAIN b \ {a}
    <3>1. CASE x \in DOMAIN b
      <4>1. EndIn(b, y) <= x
        BY <2>2, <2>5, <3>1, ApartFacts, Zenon
      <4> QED BY <1>7, <2>5, <4>1, Zenon
    <3>2. CASE x = new
      <4>1. y < a
        <5>1. ~(a < y)
          <6> SUFFICES ASSUME a < y PROVE FALSE
            BY Zenon
          <6>1. EndIn(b, a) <= y
            BY <2>5, ApartFacts, Zenon
          <6> QED BY <1>5, <1>6, <2>2, <3>2, <6>1
        <5> QED BY <1>5, <2>2, <2>5, <5>1
      <4>2. EndIn(b, y) <= a
        BY <2>5, <4>1, ApartFacts, Zenon
      <4>3. EndIn(b, y) <= new
        BY <1>5, <1>6, <2>1, <2>5, <4>2
      <4> QED BY <1>7, <2>5, <3>2, <4>3, Zenon
    <3> QED BY <1>2, <3>1, <3>2, Zenon
  <2> QED BY <1>2, <2>3, <2>4, <2>5, Zenon
<1>14. \A x \in DOMAIN c : Node(c, x, lo, hi)
  BY <1>2, <1>9, <1>10, <1>11, Zenon
<1> QED BY <1>0, <1>12, <1>13, <1>14, Zenon DEF Tile

(* kmem_alloc: what it leaves of a tiling b in which a was free.           *)
IsAlloc(b, a, w, c, lo, hi) ==
    /\ Tile(c, lo, hi) /\ NoTwoFree(c) /\ a \in DOMAIN c
    /\ UsedIn(c) = UsedIn(b) \cup {a} /\ c[a].size >= w
    /\ \A x \in UsedIn(b) : c[x].size = b[x].size

LEMMA AllocWhole ==
  ASSUME NEW b, NEW lo, NEW hi, Tile(b, lo, hi), NoTwoFree(b), NEW a \in DOMAIN b, b[a].free,
         NEW w, b[a].size >= w
  PROVE  IsAlloc(b, a, w, [b EXCEPT ![a].free = FALSE], lo, hi)
<1>0. PICK c : c = [b EXCEPT ![a].free = FALSE]
  BY Zenon
<1>1. Tile(c, lo, hi) /\ IsSetFree(b, a, FALSE, c)
  BY <1>0, SetFree, Zenon
<1>2. DOMAIN c = DOMAIN b /\ \A x \in DOMAIN b : /\ c[x].size = b[x].size /\ c[x].next = b[x].next
                                                 /\ c[x].free <=> b[x].free /\ x # a
  BY <1>1, Zenon DEF IsSetFree
<1>3. UsedIn(c) = UsedIn(b) \cup {a} /\ \A x \in UsedIn(b) : c[x].size = b[x].size
  BY <1>2, Zenon DEF UsedIn
<1>4. \A x \in DOMAIN c : c[x].next # Null => c[x].next \in DOMAIN c
  BY <1>1, NodeFacts, Zenon
<1>5. NoTwoFree(c)
  BY <1>2, <1>4 DEF NoTwoFree, BothFree
<1>6. c[a].size = b[a].size
  BY <1>2, Zenon
<1> QED BY <1>0, <1>1, <1>2, <1>3, <1>5, <1>6, Zenon DEF IsAlloc

LEMMA AllocSplit ==
  ASSUME NEW b, NEW lo, NEW hi, Tile(b, lo, hi), NoTwoFree(b), NEW a \in DOMAIN b, b[a].free,
         NEW w, NEW new, CanSplit(b, a, w, new)
  PROVE  IsAlloc(b, a, w, [SplitOf(b, a, w, new) EXCEPT ![a].free = FALSE], lo, hi)
<1>0. PICK d : d = SplitOf(b, a, w, new)
  BY Zenon
<1>1. Tile(d, lo, hi) /\ IsSplit(b, a, w, new, d)
  BY <1>0, SplitTile, SplitFields, Zenon
<1>2. /\ DOMAIN d = DOMAIN b \cup {new} /\ new \notin DOMAIN b
      /\ d[new].free /\ d[new].next = b[a].next /\ d[a].size = w
  BY <1>1 DEF IsSplit
<1>3. \A x \in DOMAIN b \ {a} : d[x].size = b[x].size /\ d[x].next = b[x].next /\ d[x].free = b[x].free
  BY <1>1 DEF IsSplit
<1>4. PICK c : c = [d EXCEPT ![a].free = FALSE]
  BY Zenon
<1>5. Tile(c, lo, hi) /\ IsSetFree(d, a, FALSE, c)
  BY <1>1, <1>2, <1>4, SetFree, Zenon
<1>6. DOMAIN c = DOMAIN d /\ \A x \in DOMAIN d : /\ c[x].size = d[x].size /\ c[x].next = d[x].next
                                                 /\ c[x].free <=> d[x].free /\ x # a
  BY <1>5, Zenon DEF IsSetFree
<1>7. /\ DOMAIN c = DOMAIN b \cup {new} /\ ~c[a].free /\ c[a].size = w
      /\ c[new].free /\ c[new].next = b[a].next
  BY <1>2, <1>6, Zenon
<1>8. \A x \in DOMAIN b \ {a} : c[x].size = b[x].size /\ c[x].next = b[x].next /\ (c[x].free <=> b[x].free)
  BY <1>2, <1>3, <1>6
<1>9. UsedIn(c) = UsedIn(b) \cup {a} /\ \A x \in UsedIn(b) : c[x].size = b[x].size
  <2>1. \A x \in UsedIn(b) : x \in DOMAIN b \ {a}
    BY Zenon DEF UsedIn
  <2>2. ASSUME NEW x PROVE x \in UsedIn(c) <=> x \in UsedIn(b) \cup {a}
    <3>1. CASE x = a
      BY <1>7, <3>1, Zenon DEF UsedIn
    <3>2. CASE x = new
      BY <1>2, <1>7, <3>2, Zenon DEF UsedIn
    <3>3. CASE x # a /\ x # new
      BY <1>7, <1>8, <3>3, Zenon DEF UsedIn
    <3> QED BY <3>1, <3>2, <3>3, Zenon
  <2>3. \A x \in UsedIn(b) : c[x].size = b[x].size
    BY <1>8, <2>1, Zenon
  <2> QED BY <2>2, <2>3, Zenon
<1>10. ASSUME NEW x \in DOMAIN c, BothFree(c, x) PROVE FALSE
  <2>1. x # a /\ c[x].next # Null /\ c[x].free /\ c[c[x].next].free
    BY <1>7, <1>10, Zenon DEF BothFree
  <2>2. c[x].next # a
    BY <1>7, <2>1, Zenon
  <2>3. \A y \in DOMAIN b : b[y].next # Null => b[y].next \in DOMAIN b
    BY NodeFacts, Zenon
  <2>4. CASE x = new
    <3>1. b[a].next \in DOMAIN b \ {a}
      BY <1>7, <2>1, <2>2, <2>3, <2>4, Zenon
    <3>2. b[b[a].next].free
      BY <1>7, <1>8, <2>1, <2>4, <3>1, Zenon
    <3>3. BothFree(b, a)
      BY <1>7, <2>1, <2>4, <3>2, Zenon DEF BothFree
    <3> QED BY <3>3, Zenon DEF NoTwoFree
  <2>5. CASE x # new
    <3>1. x \in DOMAIN b \ {a}
      BY <1>7, <2>1, <2>5, Zenon
    <3>2. c[x].next = b[x].next /\ b[x].free /\ b[x].next \in DOMAIN b \ {a}
      BY <1>8, <2>1, <2>2, <2>3, <3>1, Zenon
    <3>3. b[b[x].next].free
      BY <1>8, <2>1, <3>2, Zenon
    <3>4. BothFree(b, x)
      BY <2>1, <3>2, <3>3, Zenon DEF BothFree
    <3> QED BY <3>1, <3>4, Zenon DEF NoTwoFree
  <2> QED BY <2>4, <2>5, Zenon
<1>11. c[a].size >= w /\ a \in DOMAIN c
  BY <1>7 DEF CanSplit
<1>12. IsAlloc(b, a, w, c, lo, hi)
  BY <1>5, <1>9, <1>10, <1>11, Zenon DEF IsAlloc, NoTwoFree
<1> QED BY <1>0, <1>4, <1>12, Zenon

-----------------------------------------------------------------------------
(* The state.                                                              *)
HeapInv ==
    /\ ready \in BOOLEAN /\ ret \in -9..SizeMax
    /\ ready => Tile(blk, base, end) /\ NoTwoFree(blk) /\ Al(base) /\ base < end
    /\ ~ready => DOMAIN blk = {} /\ base = Null /\ end = Null

LEMMA InvIs == HeapInv => KmemInv
<1> SUFFICES ASSUME HeapInv PROVE KmemInv
  BY Zenon
<1>1. CASE ~ready
  BY <1>1, KmemConstants DEF HeapInv, KmemInv, KTypeOK, Null
<1>2. CASE ready
  <2>0. Tile(blk, base, end) /\ NoTwoFree(blk) /\ Al(base) /\ base < end
    BY <1>2, Zenon DEF HeapInv
  <2>1. PICK b, lo, hi : b = blk /\ lo = base /\ hi = end
    BY Zenon
  <2>2. Tile(b, lo, hi) /\ NoTwoFree(b)
    BY <2>0, <2>1, Zenon
  <2>3. lo \in 1..SizeMax /\ hi \in 0..SizeMax /\ lo \in DOMAIN b /\ b[lo].prev = Null
    BY <2>2, Zenon DEF Tile
  <2>4. ASSUME NEW a \in DOMAIN b
        PROVE  /\ a \in 0..SizeMax /\ b[a] \in Block /\ lo <= a /\ a % Align = 0
               /\ b[a].size > 0 /\ b[a].size % Align = 0
               /\ EndIn(b, a) <= hi
               /\ \A x \in DOMAIN b : x <= a \/ EndIn(b, a) <= x
               /\ b[a].next = IF EndIn(b, a) = hi THEN Null ELSE EndIn(b, a)
               /\ b[a].next # Null => /\ b[a].next \in DOMAIN b /\ b[b[a].next].prev = a
                                      /\ ~(b[a].free /\ b[b[a].next].free)
    <3>1. Node(b, a, lo, hi) /\ Apart(b) /\ ~BothFree(b, a)
      BY <2>2, Zenon DEF Tile, NoTwoFree
    <3>2. \A x \in DOMAIN b : x <= a \/ EndIn(b, a) <= x
      BY <3>1, Zenon DEF Apart
    <3> QED BY <3>1, <3>2, Zenon DEF Node, Al, BothFree
  <2>5. \A a \in DOMAIN b : EndIn(b, a) = BlockEnd(a)
    BY <2>1, Zenon DEF EndIn, BlockEnd
  <2>6. Tiled
    BY <2>1, <2>3, <2>4, <2>5 DEF Tiled
  <2>7. KTypeOK
    BY <2>1, <2>3, <2>4, KmemConstants, Zenon DEF KTypeOK, HeapInv
  <2> QED BY <1>2, <2>0, <2>1, <2>3, <2>6, <2>7 DEF KmemInv, Al
<1> QED BY <1>1, <1>2, Zenon DEF HeapInv

(* kmem_init leaves one free block that fills the aligned part of its      *)
(* arena.                                                                  *)
LEMMA AlDown ==
  ASSUME NEW v \in Nat
  PROVE  v - (v % Align) \in Nat /\ v - (v % Align) <= v /\ Al(v - (v % Align))
<1>1. Align \in Nat \ {0} /\ v \in Int
  BY KmemConstants
<1>2. PICK q \in Int : v = Align * q + (v % Align) /\ v % Align \in 0..(Align - 1)
  BY <1>1, DivMod, Zenon
<1>3. PICK r \in 0..(Align - 1) : r = v % Align
  BY <1>2, Zenon
<1>4. PICK k \in Int : k = Align * q
  BY <1>1
<1>5. v = k + r
  BY <1>2, <1>3, <1>4, Zenon
<1>6. r <= v
  <2>1. v < Align => r = v
    BY <1>1, <1>3
  <2> QED BY <1>1, <2>1
<1>7. v - r \in Nat /\ v - r <= v /\ v - r = k
  BY <1>1, <1>5, <1>6
<1>8. Al(k)
  BY <1>4, AlMultiple, Zenon
<1> QED BY <1>3, <1>7, <1>8, Zenon

LEMMA UsableFacts ==
  ASSUME NEW r \in Arenas, InitError(r) = 0
  PROVE  /\ AlignUp(r.base) \in 1..SizeMax /\ Al(AlignUp(r.base))
         /\ Usable(r) \in Nat /\ Al(Usable(r)) /\ Usable(r) > Header + MinSplit
         /\ AlignUp(r.base) + Usable(r) <= SizeMax
<1>1. r.base \in 0..SizeMax /\ r.bytes \in 0..SizeMax /\ r.base + r.bytes < AddrSpace
  BY KmemAssumption, Zenon
<1>2. r.base \in Nat /\ r.bytes \in Nat
  BY <1>1, KmemConstants
<1>3. PICK s : s = AlignUp(r.base)
  BY Zenon
<1>4. /\ r.base # Null /\ ~(r.bytes < Header + MinSplit) /\ s # 0
      /\ ~(r.bytes <= (s - r.base) + Header + MinSplit) /\ ~(Usable(r) <= Header + MinSplit)
  <2>1. ~(r.base = Null \/ r.bytes < Header + MinSplit)
    BY DEF InitError
  <2>0. r.base # Null /\ r.bytes >= Header + MinSplit
    BY <1>2, <2>1, KmemConstants
  <2>2. s # 0
    BY <1>3, <2>0, <2>1 DEF InitError
  <2>3. InitError(r) = IF r.bytes <= (s - r.base) + Header + MinSplit THEN -3
                       ELSE IF Usable(r) <= Header + MinSplit THEN -4
                       ELSE 0
    BY <1>3, <2>1, <2>2, Zenon DEF InitError
  <2> QED BY <2>1, <2>2, <2>3
<1>5. s \in 0..SizeMax /\ Al(s) /\ r.base <= s
  BY <1>2, <1>3, <1>4, AlignUpFacts, Zenon
<1>6. s \in Nat /\ s > 0 /\ r.bytes - (s - r.base) \in Nat
  BY <1>2, <1>4, <1>5, KmemConstants
<1>7. PICK u \in Nat : u = r.bytes - (s - r.base)
  BY <1>6, Zenon
<1>8. Usable(r) = u - (u % Align)
  BY <1>3, <1>7, Zenon DEF Usable
<1>9. Usable(r) \in Nat /\ Usable(r) <= u /\ Al(Usable(r))
  BY <1>8, AlDown, Zenon
<1>10. s + Usable(r) <= SizeMax
  BY <1>1, <1>2, <1>6, <1>7, <1>9, KmemConstants
<1>11. Usable(r) > Header + MinSplit
  BY <1>4, <1>9, KmemConstants
<1>12. s \in 1..SizeMax
  BY <1>5, <1>6
<1> QED BY <1>3, <1>5, <1>9, <1>10, <1>11, <1>12, Zenon

OneBlock(lo, size) == [a \in {lo} |-> [size |-> size, free |-> TRUE, prev |-> Null, next |-> Null]]

LEMMA OneBlockTile ==
  ASSUME NEW lo \in 1..SizeMax, NEW hi \in 0..SizeMax, Al(lo), NEW n \in Nat, n > Header, Al(n), hi = lo + n
  PROVE  /\ Tile(OneBlock(lo, n - Header), lo, hi) /\ NoTwoFree(OneBlock(lo, n - Header))
         /\ UsedIn(OneBlock(lo, n - Header)) = {}
<1>1. PICK b, k : b = OneBlock(lo, k) /\ k = n - Header
  BY Zenon
<1>2. DOMAIN b = {lo} /\ b[lo] = [size |-> k, free |-> TRUE, prev |-> Null, next |-> Null]
  BY <1>1, Zenon DEF OneBlock
<1>3. k \in 0..SizeMax /\ k > 0 /\ k \in Nat
  BY <1>1, KmemConstants
<1>4. Al(k)
  <2>1. Al(n - Header)
    <3>1. n \in Int /\ Header \in Int
      BY KmemConstants
    <3> QED BY <3>1, AlSum, KmemConstants, Zenon
  <2> QED BY <1>1, <2>1, Zenon
<1>5. EndIn(b, lo) = hi
  BY <1>1, <1>2, KmemConstants DEF EndIn
<1>6. b[lo] \in Block
  <2>1. Null \in 0..SizeMax
    BY KmemConstants DEF Null
  <2> QED BY <1>2, <1>3, <2>1 DEF Block
<1>7. b[lo].size = k /\ b[lo].prev = Null /\ b[lo].next = Null /\ b[lo].free
  BY <1>2
<1>8. lo \in 0..SizeMax /\ lo <= lo /\ hi <= hi /\ lo \in Int
  BY KmemConstants
<1>9. Node(b, lo, lo, hi)
  BY <1>3, <1>4, <1>5, <1>6, <1>7, <1>8, Zenon DEF Node
<1>10. Apart(b)
  BY <1>2, <1>8, Zenon DEF Apart
<1>11. Tile(b, lo, hi)
  BY <1>2, <1>7, <1>9, <1>10, Zenon DEF Tile
<1>12. NoTwoFree(b) /\ UsedIn(b) = {}
  BY <1>2, <1>7, Zenon DEF NoTwoFree, BothFree, UsedIn
<1> QED BY <1>1, <1>11, <1>12, Zenon

LEMMA InitErrorRange ==
  ASSUME NEW r \in Arenas
  PROVE  InitError(r) \in {-1, -2, -3, -4, 0}
<1>0. r.bytes \in Nat /\ Header + MinSplit \in Nat
  <2>1. r.bytes \in 0..SizeMax
    BY KmemAssumption, Zenon
  <2> QED BY <2>1, KmemConstants
<1>1. CASE r.base = Null \/ r.bytes < Header + MinSplit
  <2>0. ~(r.base # Null /\ r.bytes >= Header + MinSplit)
    BY <1>0, <1>1
  <2>1. InitError(r) = -1
    BY <1>1, <2>0, Zenon DEF InitError
  <2> QED BY <2>1, Zenon
<1>2. CASE ~(r.base = Null \/ r.bytes < Header + MinSplit) /\ AlignUp(r.base) = 0
  BY <1>0, <1>2, Zenon DEF InitError
<1>3. CASE ~(r.base = Null \/ r.bytes < Header + MinSplit) /\ AlignUp(r.base) # 0
  BY <1>0, <1>3, Zenon DEF InitError
<1> QED BY <1>1, <1>2, <1>3, Zenon

LEMMA KmemInitKeeps ==
  ASSUME HeapInv, NEW r \in Arenas, KmemInit(r)
  PROVE  HeapInv' /\ (InitError(r) = 0 => UsedIn(blk') = {} /\ Tile(blk', base', end') /\ ready')
<1>1. ~ready /\ DOMAIN blk = {} /\ base = Null /\ end = Null
  BY Zenon DEF KmemInit, HeapInv
<1>2. CASE InitError(r) # 0
  <2>1. ret' \in -9..SizeMax /\ UNCHANGED <<ready, base, end, blk>>
    BY <1>2, InitErrorRange, KmemConstants DEF KmemInit
  <2> QED BY <1>1, <1>2, <2>1, Zenon DEF HeapInv
<1>3. CASE InitError(r) = 0
  <2>1. PICK lo, n : lo = AlignUp(r.base) /\ n = Usable(r)
    BY Zenon
  <2>2. /\ lo \in 1..SizeMax /\ Al(lo) /\ n \in Nat /\ Al(n) /\ n > Header + MinSplit /\ lo + n <= SizeMax
    BY <1>3, <2>1, UsableFacts, Zenon
  <2>3. /\ ready' = TRUE /\ base' = lo /\ end' = lo + n /\ blk' = OneBlock(lo, n - Header)
        /\ ret' = (IF Valid(blk', base', end') THEN 0 ELSE -1)
    BY <1>3, <2>1, Zenon DEF KmemInit, OneBlock
  <2>4. n > Header /\ lo + n \in 0..SizeMax /\ lo < lo + n
    BY <2>2, KmemConstants
  <2>5. Tile(blk', base', end') /\ NoTwoFree(blk') /\ UsedIn(blk') = {}
    BY <2>2, <2>3, <2>4, OneBlockTile, Zenon
  <2>6. ret' \in -9..SizeMax
    BY <2>3, KmemConstants
  <2> QED BY <2>2, <2>3, <2>4, <2>5, <2>6, Zenon DEF HeapInv
<1> QED BY <1>2, <1>3, Zenon

(* kmem_split_if_useful, with its alignments worked out.                   *)
SplitAt(b, a, w, new, consumed) ==
    IF \/ b[a].size < w + AlignUp(Header) + MinSplit
       \/ new = 0
       \/ new + Header >= end
       \/ b[a].size <= consumed + Header + MinSplit
      THEN b
      ELSE [x \in DOMAIN b \cup {new} |->
              CASE x = new -> [size |-> b[a].size - consumed - Header, free |-> TRUE,
                               prev |-> a, next |-> b[a].next]
                [] x = a -> [b[a] EXCEPT !.size = w, !.next = new]
                [] x \notin {new, a} -> IF x = b[a].next THEN [b[x] EXCEPT !.prev = new] ELSE b[x]]

LEMMA SplitIs ==
  ASSUME NEW b, NEW lo, NEW hi, Tile(b, lo, hi), hi = end, NEW a \in DOMAIN b,
         NEW w \in Nat, w > 0, Al(w), w <= b[a].size
  PROVE  \/ Split(b, a, w) = b
         \/ \E new : CanSplit(b, a, w, new) /\ Split(b, a, w) = SplitOf(b, a, w, new)
<1>1. /\ a \in Nat /\ Al(a) /\ hi \in Nat /\ hi <= SizeMax /\ b[a].size \in Nat
      /\ EndIn(b, a) = a + Header + b[a].size /\ EndIn(b, a) <= hi
  BY NodeFacts, Zenon
<1>2. PICK new : new = a + Header + w
  BY Zenon
<1>3. new \in 0..SizeMax
  BY <1>1, <1>2, KmemConstants
<1>4. Al(new)
  <2>1. a \in Int /\ Header \in Int /\ w \in Int /\ a + Header \in Int /\ Al(Header)
    BY <1>1, KmemConstants
  <2>2. Al(a + Header)
    BY <1>1, <2>1, AlSum, Zenon
  <2>3. Al((a + Header) + w)
    BY <2>1, <2>2, AlSum, Zenon
  <2> QED BY <1>2, <2>3, Zenon
<1>5. AlignUp(Payload(a) + w) = new
  BY <1>2, <1>3, <1>4, AlignUpSame, Zenon DEF Payload
<1>6. new - Payload(a) = w
  BY <1>1, <1>2, KmemConstants DEF Payload
<1>7. Split(b, a, w) = b \/ (Split(b, a, w) = SplitOf(b, a, w, new) /\ ~(b[a].size <= w + Header + MinSplit))
  <2>1. Split(b, a, w) = SplitAt(b, a, w, AlignUp(Payload(a) + w), AlignUp(Payload(a) + w) - Payload(a))
    BY Zenon DEF Split, SplitAt
  <2>2. Split(b, a, w) = SplitAt(b, a, w, new, w)
    BY <1>5, <1>6, <2>1, Zenon
  <2> QED BY <2>2, Zenon DEF SplitAt, SplitOf
<1>8. ~(b[a].size <= w + Header + MinSplit) => CanSplit(b, a, w, new)
  BY <1>1, <1>2, KmemConstants DEF CanSplit
<1> QED BY <1>7, <1>8, Zenon

(* kmem_alloc.                                                             *)
AllocDone(bytes) ==
    /\ ready /\ bytes > 0
    /\ \E a \in DOMAIN blk : /\ blk[a].free /\ ret' = Payload(a)
                             /\ IsAlloc(blk, a, bytes, blk', base, end)

AllocRefused(bytes) ==
    /\ ret' = Null /\ UNCHANGED blk
    /\ ~ready \/ bytes = 0 \/ AlignUp(bytes) = 0 \/ Fitting(AlignUp(bytes)) = {}

LEMMA AllocCases ==
  ASSUME HeapInv, NEW bytes \in Nat, Alloc(bytes)
  PROVE  AllocDone(bytes) \/ AllocRefused(bytes)
<1>1. PICK w : w = AlignUp(bytes)
  BY Zenon
<1>2. CASE /\ ready /\ bytes # 0 /\ w # 0
           /\ \E a \in Fitting(w) :
                /\ blk' = [Split(blk, a, w) EXCEPT ![a].free = FALSE]
                /\ ret' = Payload(a)
  <2>1. PICK a \in Fitting(w) : blk' = [Split(blk, a, w) EXCEPT ![a].free = FALSE] /\ ret' = Payload(a)
    BY <1>2, Zenon
  <2>2. a \in DOMAIN blk /\ blk[a].free /\ blk[a].size >= w
    BY <2>1, Zenon DEF Fitting
  <2>3. PICK b, lo, hi : b = blk /\ lo = base /\ hi = end
    BY Zenon
  <2>4. Tile(b, lo, hi) /\ NoTwoFree(b)
    BY <1>2, <2>3, Zenon DEF HeapInv
  <2>5. w \in Nat /\ w > 0 /\ Al(w) /\ bytes <= w
    BY <1>1, <1>2, AlignUpFacts, KmemConstants
  <2>6. a \in DOMAIN b /\ b[a].free /\ b[a].size >= w /\ b[a].size \in Nat
    BY <2>2, <2>3, <2>4, NodeFacts, Zenon
  <2>7. w <= b[a].size
    BY <2>5, <2>6, Zenon
  <2>8. PICK c : c = [Split(b, a, w) EXCEPT ![a].free = FALSE]
    BY Zenon
  <2>9. IsAlloc(b, a, w, c, lo, hi)
    <3>1. CASE Split(b, a, w) = b
      BY <2>4, <2>6, <2>8, <3>1, AllocWhole
    <3>2. ASSUME NEW new, CanSplit(b, a, w, new), Split(b, a, w) = SplitOf(b, a, w, new)
          PROVE  IsAlloc(b, a, w, c, lo, hi)
      BY <2>4, <2>6, <2>8, <3>2, AllocSplit
    <3> QED BY <2>3, <2>4, <2>5, <2>6, <2>7, <3>1, <3>2, SplitIs, Zenon
  <2>10. c[a].size \in Nat
    BY <2>9, NodeFacts, Zenon DEF IsAlloc
  <2>11. IsAlloc(b, a, bytes, c, lo, hi)
    BY <2>5, <2>9, <2>10 DEF IsAlloc
  <2>12. c = blk'
    BY <2>1, <2>3, <2>8, Zenon
  <2>13. IsAlloc(blk, a, bytes, blk', base, end)
    BY <2>3, <2>11, <2>12, Zenon
  <2> QED BY <1>2, <2>1, <2>2, <2>13 DEF AllocDone
<1>3. CASE /\ ~ready \/ bytes = 0 \/ w = 0 \/ Fitting(w) = {}
           /\ ret' = Null /\ UNCHANGED blk
  BY <1>1, <1>3, Zenon DEF AllocRefused
<1> QED BY <1>1, <1>2, <1>3, Zenon DEF Alloc

LEMMA AllocKeeps ==
  ASSUME HeapInv, NEW bytes \in Nat, Alloc(bytes), UNCHANGED <<ready, base, end>>
  PROVE  HeapInv'
<1>1. CASE AllocRefused(bytes)
  BY <1>1, KmemConstants DEF AllocRefused, HeapInv, Null
<1>2. CASE AllocDone(bytes)
  <2>1. PICK a \in DOMAIN blk : ret' = Payload(a) /\ IsAlloc(blk, a, bytes, blk', base, end)
    BY <1>2, Zenon DEF AllocDone
  <2>2. Tile(blk', base, end) /\ NoTwoFree(blk')
    BY <2>1, Zenon DEF IsAlloc
  <2>3. ret' \in -9..SizeMax
    <3>1. PICK b, lo, hi : b = blk /\ lo = base /\ hi = end
      BY Zenon
    <3>2. Tile(b, lo, hi)
      BY <1>2, <3>1, Zenon DEF HeapInv, AllocDone
    <3>3. /\ a \in Nat /\ hi \in Nat /\ hi <= SizeMax /\ b[a].size \in Nat
          /\ EndIn(b, a) = a + Header + b[a].size /\ EndIn(b, a) <= hi
      BY <3>1, <3>2, NodeFacts
    <3> QED BY <2>1, <3>3, KmemConstants DEF Payload
  <2> QED BY <1>2, <2>2, <2>3, Zenon DEF HeapInv, AllocDone
<1> QED BY <1>1, <1>2, AllocCases, Zenon

LEMMA CallocBytes ==
  ASSUME NEW n \in Nat, NEW m \in Nat
  PROVE  (n * m) % AddrSpace \in Nat
<1>1. AddrSpace \in Nat \ {0} /\ n * m \in Nat
  BY KmemConstants
<1>2. PICK k \in Nat : k = n * m
  BY <1>1, Zenon
<1>3. k % AddrSpace \in Nat
  BY <1>1
<1> QED BY <1>2, <1>3, Zenon

(* kmem_free_checked.                                                      *)
LEMMA FreeKeeps ==
  ASSUME HeapInv, NEW p, FreeError(p) = 0, NEW a, a = p - Header, blk' = Freed(a), ret' \in {0, -1},
         UNCHANGED <<ready, base, end>>
  PROVE  HeapInv' /\ a \in UsedIn(blk) /\ ready /\ IsFreed(blk, a, blk', base, end)
<1>1. InHeap(p) /\ a \in DOMAIN blk /\ ~blk[a].free
  <2>1. InHeap(p)
    BY DEF FreeError
  <2>2. ~(p % Align # 0)
    BY <2>1 DEF FreeError
  <2>3. FreeError(p) = IF ~InHeap(p - Header) \/ p - Header \notin DOMAIN blk THEN -3
                       ELSE IF blk[p - Header].free THEN -4
                       ELSE 0
    BY <2>1, <2>2, Zenon DEF FreeError
  <2> QED BY <2>1, <2>3
<1>2. ready
  BY <1>1, Zenon DEF InHeap
<1>3. PICK b, lo, hi : b = blk /\ lo = base /\ hi = end
  BY Zenon
<1>4. Tile(b, lo, hi) /\ NoTwoFree(b) /\ a \in DOMAIN b /\ ~b[a].free
  BY <1>1, <1>2, <1>3 DEF HeapInv
<1>5. IsFreed(b, a, FreedIn(b, a), lo, hi)
  BY <1>4, FreedTile, Zenon
<1>6. FreedIn(b, a) = blk'
  BY <1>3, Zenon DEF Freed, FreedIn
<1>7. IsFreed(blk, a, blk', base, end)
  BY <1>3, <1>5, <1>6, Zenon
<1>8. HeapInv'
  BY <1>2, <1>7, KmemConstants DEF HeapInv, IsFreed
<1> QED BY <1>1, <1>2, <1>7, <1>8, Zenon DEF UsedIn

LEMMA FreeErrorRange ==
  ASSUME NEW p
  PROVE  FreeError(p) \in {-1, -2, -3, -4, 0}
<1>1. CASE ~InHeap(p)
  BY <1>1, Zenon DEF FreeError
<1>2. CASE InHeap(p) /\ p % Align # 0
  BY <1>2, Zenon DEF FreeError
<1>3. CASE InHeap(p) /\ ~(p % Align # 0)
  BY <1>3, Zenon DEF FreeError
<1> QED BY <1>1, <1>2, <1>3, Zenon

LEMMA NextHeap == HeapInv /\ [KNext]_kvars => HeapInv'
<1> SUFFICES ASSUME HeapInv, [KNext]_kvars PROVE HeapInv'
  BY Zenon
<1>0. SizeMax \in Nat
  BY KmemConstants, Zenon
<1>1. ASSUME NEW r \in Arenas, KmemInit(r) PROVE HeapInv'
  BY <1>1, KmemInitKeeps, Zenon
<1>2. ASSUME NEW bytes \in Size, KmemAlloc(bytes) PROVE HeapInv'
  <2>1. bytes \in Nat
    BY <1>0, KmemAssumption
  <2> QED BY <1>2, <2>1, AllocKeeps, Zenon DEF KmemAlloc
<1>3. ASSUME NEW count \in Count, NEW bytes \in Size, KmemCalloc(count, bytes) PROVE HeapInv'
  <2>1. bytes \in Nat /\ count \in Nat
    BY <1>0, KmemAssumption
  <2>2. CASE ret' = Null /\ UNCHANGED <<ready, base, end, blk>>
    BY <2>2, <1>0 DEF HeapInv, Null
  <2>3. CASE Alloc((count * bytes) % AddrSpace) /\ UNCHANGED <<ready, base, end>>
    BY <2>1, <2>3, CallocBytes, AllocKeeps, Zenon
  <2> QED BY <1>3, <2>2, <2>3, Zenon DEF KmemCalloc
<1>4. ASSUME NEW p \in Ptr, KmemFree(p) PROVE HeapInv'
  <2>1. CASE p = Null \/ FreeError(p) # 0
    BY <1>0, <1>4, <2>1, FreeErrorRange DEF KmemFree, HeapInv
  <2>2. CASE p # Null /\ FreeError(p) = 0
    <3>1. blk' = Freed(p - Header) /\ ret' \in {0, -1} /\ UNCHANGED <<ready, base, end>>
      BY <1>4, <2>2, Zenon DEF KmemFree
    <3> QED BY <2>2, <3>1, FreeKeeps, Zenon
  <2> QED BY <2>1, <2>2, Zenon
<1>5. CASE UNCHANGED kvars
  BY <1>5, Zenon DEF kvars, HeapInv
<1> QED BY <1>1, <1>2, <1>3, <1>4, <1>5, Zenon DEF KNext

LEMMA InitHeap == KInit => HeapInv
<1> SUFFICES ASSUME KInit PROVE HeapInv
  BY Zenon
<1>1. ready = FALSE /\ base = Null /\ end = Null /\ ret = 0 /\ DOMAIN blk = {}
  BY Zenon DEF KInit
<1>2. ret \in -9..SizeMax
  BY <1>1, KmemConstants
<1> QED BY <1>1, <1>2, Zenon DEF HeapInv

(* Whatever is allocated and freed, in whatever order, the blocks tile the *)
(* heap, linked in both directions, and no two neighbours are free.        *)
THEOREM HeapTiled == KSpec => []KmemInv
BY InitHeap, NextHeap, InvIs, PTL DEF KSpec

-----------------------------------------------------------------------------
(* kmem_validate finds nothing wrong with a tiling.                        *)
OkBody(f, b, lo, hi) ==
    [n \in (DOMAIN b \cup {Null}) \X (DOMAIN b \cup {Null}) |->
       LET cur == n[1]
           prev == n[2]
       IN \/ cur = Null
          \/ /\ cur = IF prev = Null THEN lo ELSE Expected(b, prev)
             /\ cur >= lo /\ cur + Header <= hi
             /\ b[cur].prev = prev
             /\ b[cur].size <= hi - Payload(cur)
             /\ Expected(b, cur) # 0 /\ Expected(b, cur) <= hi
             /\ b[cur].next \in DOMAIN b \cup {Null}
             /\ f[<<b[cur].next, cur>>]]

LEMMA ValidIs ==
  ASSUME NEW b, NEW lo, NEW hi
  PROVE  Valid(b, lo, hi) = (lo \in DOMAIN b /\ lo < hi /\ (CHOOSE f : f = OkBody(f, b, lo, hi))[<<lo, Null>>])
BY SMT DEF Valid, OkBody

Follows(b, lo, cur, prev) == cur = IF prev = Null THEN lo ELSE Expected(b, prev)

(* What kmem_validate asks of each node alone.                             *)
LEMMA NodeOk ==
  ASSUME NEW b, NEW lo, NEW hi, Tile(b, lo, hi), NEW a \in DOMAIN b
  PROVE  /\ a # Null /\ a >= lo /\ a + Header <= hi /\ b[a].size <= hi - Payload(a)
         /\ Expected(b, a) # 0 /\ Expected(b, a) <= hi
         /\ b[a].next \in DOMAIN b \cup {Null}
         /\ b[a].next # Null => Follows(b, lo, b[a].next, a) /\ b[b[a].next].prev = a
<1>1. /\ a \in Nat /\ a > 0 /\ lo <= a /\ lo \in Nat /\ hi \in Nat /\ b[a].size \in Nat
      /\ EndIn(b, a) = a + Header + b[a].size /\ EndIn(b, a) <= hi /\ Expected(b, a) = EndIn(b, a)
  BY NodeFacts, Zenon
<1>2. b[a].next # Null => /\ b[a].next \in DOMAIN b /\ b[a].next = EndIn(b, a) /\ b[b[a].next].prev = a
  BY NodeFacts, Zenon
<1>3. a # Null /\ a >= lo /\ a + Header <= hi /\ b[a].size <= hi - Payload(a)
  BY <1>1, KmemConstants DEF Payload, Null
<1>4. Expected(b, a) # 0 /\ Expected(b, a) <= hi
  BY <1>1, KmemConstants
<1>5. b[a].next \in DOMAIN b \cup {Null}
  BY <1>2, Zenon
<1>6. b[a].next # Null => Follows(b, lo, b[a].next, a)
  BY <1>1, <1>2, <1>3, Zenon DEF Follows
<1> QED BY <1>2, <1>3, <1>4, <1>5, <1>6

(* At a node, kmem_validate looks at the links and goes on.                *)
LooksOn(f, b, lo, hi, cur, prev) ==
    OkBody(f, b, lo, hi)[<<cur, prev>>] =
      (Follows(b, lo, cur, prev) /\ b[cur].prev = prev /\ f[<<b[cur].next, cur>>])

LEMMA OkBodyNode ==
  ASSUME NEW b, NEW lo, NEW hi, Tile(b, lo, hi), NEW f, NEW cur \in DOMAIN b, NEW prev \in DOMAIN b \cup {Null}
  PROVE  LooksOn(f, b, lo, hi, cur, prev)
<1>1. OkBody(f, b, lo, hi)[<<cur, prev>>] =
        \/ cur = Null
        \/ /\ Follows(b, lo, cur, prev)
           /\ cur >= lo /\ cur + Header <= hi
           /\ b[cur].prev = prev
           /\ b[cur].size <= hi - Payload(cur)
           /\ Expected(b, cur) # 0 /\ Expected(b, cur) <= hi
           /\ b[cur].next \in DOMAIN b \cup {Null}
           /\ f[<<b[cur].next, cur>>]
  BY Zenon DEF OkBody, Follows
<1>2. /\ cur # Null /\ cur >= lo /\ cur + Header <= hi /\ b[cur].size <= hi - Payload(cur)
      /\ Expected(b, cur) # 0 /\ Expected(b, cur) <= hi
      /\ b[cur].next \in DOMAIN b \cup {Null}
  BY NodeOk, Zenon
<1> QED BY <1>1, <1>2, Zenon DEF LooksOn

LEMMA OkBodyNull ==
  ASSUME NEW b, NEW lo, NEW hi, NEW f, NEW prev \in DOMAIN b \cup {Null}
  PROVE  OkBody(f, b, lo, hi)[<<Null, prev>>] = TRUE
BY Zenon DEF OkBody

LEMMA OkExists ==
  ASSUME NEW b, NEW lo, NEW hi, Tile(b, lo, hi)
  PROVE  \E f : f = OkBody(f, b, lo, hi)
<1> DEFINE P == DOMAIN b \cup {Null}
           g == [n \in P \X P |-> n[1] = Null \/ (Follows(b, lo, n[1], n[2]) /\ b[n[1]].prev = n[2])]
<1>1. \A cur, prev \in P : g[<<cur, prev>>] = (cur = Null \/ (Follows(b, lo, cur, prev) /\ b[cur].prev = prev))
  BY Zenon
<1>2. g = [n \in P \X P |-> g[n]]
  BY Zenon
<1>3. PICK h : h = OkBody(g, b, lo, hi)
  BY Zenon
<1>4. h = [n \in P \X P |-> h[n]]
  BY <1>3, Zenon DEF OkBody
<1> HIDE DEF g
<1>5. ASSUME NEW cur \in P, NEW prev \in P PROVE g[<<cur, prev>>] = h[<<cur, prev>>]
  <2>1. CASE cur = Null
    <3>1. h[<<cur, prev>>] = TRUE
      BY <1>3, <2>1, OkBodyNull, Zenon
    <3>2. g[<<cur, prev>>] = TRUE
      BY <1>1, <2>1, Zenon
    <3> QED BY <3>1, <3>2, Zenon
  <2>2. CASE cur # Null
    <3>1. h[<<cur, prev>>] = (Follows(b, lo, cur, prev) /\ b[cur].prev = prev /\ g[<<b[cur].next, cur>>])
      <4>1. OkBody(g, b, lo, hi)[<<cur, prev>>] =
              (Follows(b, lo, cur, prev) /\ b[cur].prev = prev /\ g[<<b[cur].next, cur>>])
        <5>1. cur \in DOMAIN b
          BY <2>2, Zenon
        <5>2. LooksOn(g, b, lo, hi, cur, prev)
          BY <5>1, OkBodyNode, Zenon
        <5> QED BY <5>2, Zenon DEF LooksOn
      <4> QED BY <1>3, <4>1, Zenon
    <3>2. g[<<cur, prev>>] = (Follows(b, lo, cur, prev) /\ b[cur].prev = prev)
      BY <1>1, <2>2, Zenon
    <3>3. PICK m : m = b[cur].next
      BY Zenon
    <3>4. m \in P /\ (m # Null => Follows(b, lo, m, cur) /\ b[m].prev = cur)
      BY <2>2, <3>3, NodeOk, Zenon
    <3>5. g[<<m, cur>>] = (m = Null \/ (Follows(b, lo, m, cur) /\ b[m].prev = cur))
      BY <1>1, <3>4
    <3>6. g[<<m, cur>>] = TRUE
      BY <3>4, <3>5, Zenon
    <3> QED BY <3>1, <3>2, <3>3, <3>6, Zenon
  <2> QED BY <2>1, <2>2, Zenon
<1>6. \A n \in P \X P : g[n] = h[n]
  <2> SUFFICES ASSUME NEW n \in P \X P PROVE g[n] = h[n]
    BY Zenon
  <2>1. n = <<n[1], n[2]>> /\ n[1] \in P /\ n[2] \in P
    OBVIOUS
  <2> QED BY <1>5, <2>1, Zenon
<1>7. g = h
  BY <1>2, <1>4, <1>6, Zenon
<1> QED BY <1>3, <1>7, Zenon

LEMMA ValidTile ==
  ASSUME NEW b, NEW lo, NEW hi, Tile(b, lo, hi)
  PROVE  Valid(b, lo, hi)
<1>1. PICK f : f = CHOOSE g : g = OkBody(g, b, lo, hi)
  BY Zenon
<1>2. f = OkBody(f, b, lo, hi)
  BY <1>1, OkExists, Zenon
<1>3. lo \in DOMAIN b /\ b[lo].prev = Null
  BY Zenon DEF Tile
<1>4. lo < hi
  BY <1>3, NodeFacts, KmemConstants
<1>5. \A a \in DOMAIN b : b[a].prev \in DOMAIN b \cup {Null} /\ Follows(b, lo, a, b[a].prev)
  <2> SUFFICES ASSUME NEW a \in DOMAIN b
               PROVE  b[a].prev \in DOMAIN b \cup {Null} /\ Follows(b, lo, a, b[a].prev)
    BY Zenon
  <2>1. CASE a = lo
    BY <1>3, <2>1, Zenon DEF Follows
  <2>2. CASE a # lo
    <3>1. b[a].prev \in DOMAIN b /\ b[a].prev # Null /\ EndIn(b, b[a].prev) = a
      BY <2>2, PrevLink
    <3>2. Expected(b, b[a].prev) = EndIn(b, b[a].prev)
      BY <3>1, NodeFacts, Zenon
    <3> QED BY <3>1, <3>2, Zenon DEF Follows
  <2> QED BY <2>1, <2>2, Zenon
<1> DEFINE Bad == { a \in DOMAIN b : ~f[<<a, b[a].prev>>] }
           T == { hi - a : a \in Bad }
<1>6. Bad = {}
  <2> SUFFICES ASSUME Bad # {} PROVE FALSE
    BY Zenon
  <2>1. \A a \in DOMAIN b : a \in Nat /\ hi \in Nat /\ hi - a \in Nat
    <3> SUFFICES ASSUME NEW a \in DOMAIN b PROVE a \in Nat /\ hi \in Nat /\ hi - a \in Nat
      BY Zenon
    <3>1. a \in Nat /\ hi \in Nat /\ a + Header <= hi
      BY NodeFacts, NodeOk, Zenon
    <3> QED BY <3>1, KmemConstants
  <2>2. T \subseteq Nat /\ T # {}
    BY <2>1, Zenon
  <2>3. PICK d \in T : \A e \in T : d <= e
    <3> HIDE DEF T
    <3> QED BY <2>2, LeastNatural, Zenon
  <2>4. PICK a \in Bad : d = hi - a
    BY Zenon
  <2>5. \A x \in Bad : x <= a
    <3> SUFFICES ASSUME NEW x \in Bad PROVE x <= a
      BY Zenon
    <3>1. hi - x \in T
      BY Zenon
    <3>2. d <= hi - x
      BY <2>3, <3>1, Zenon
    <3> QED BY <2>1, <2>4, <3>2
  <2> HIDE DEF T
  <2>6. a \in DOMAIN b /\ ~f[<<a, b[a].prev>>]
    BY <2>4, Zenon
  <2>7. PICK m : m = b[a].next
    BY Zenon
  <2>8. m \in DOMAIN b \cup {Null} /\ a # Null /\ (m # Null => b[m].prev = a)
    BY <2>6, <2>7, NodeOk, Zenon
  <2>9. m # Null => m > a
    BY <2>6, <2>7, NodeFacts, Zenon
  <2>10. f[<<m, a>>]
    <3>1. CASE m = Null
      <4>1. OkBody(f, b, lo, hi)[<<m, a>>] = TRUE
        BY <2>6, <2>8, <3>1, OkBodyNull
      <4> QED BY <1>2, <4>1, Zenon
    <3>2. CASE m # Null
      <4>1. m \in DOMAIN b /\ m \notin Bad
        BY <2>1, <2>5, <2>6, <2>8, <2>9, <3>2
      <4> QED BY <2>8, <3>2, <4>1, Zenon
    <3> QED BY <3>1, <3>2, Zenon
  <2>11. OkBody(f, b, lo, hi)[<<a, b[a].prev>>] =
           (Follows(b, lo, a, b[a].prev) /\ b[a].prev = b[a].prev /\ f[<<b[a].next, a>>])
    <3>1. b[a].prev \in DOMAIN b \cup {Null}
      BY <1>5, <2>6, Zenon
    <3> HIDE DEF Bad
    <3>2. LooksOn(f, b, lo, hi, a, b[a].prev)
      BY <2>6, <3>1, OkBodyNode, Zenon
    <3> QED BY <3>2, Zenon DEF LooksOn
  <2>12. f[<<a, b[a].prev>>]
    <3>1. f[<<a, b[a].prev>>] = (Follows(b, lo, a, b[a].prev) /\ b[a].prev = b[a].prev /\ f[<<b[a].next, a>>])
      BY <1>2, <2>11, Zenon
    <3>2. Follows(b, lo, a, b[a].prev) /\ f[<<b[a].next, a>>]
      BY <1>5, <2>6, <2>7, <2>10, Zenon
    <3> QED BY <3>1, <3>2, Zenon
  <2> QED BY <2>6, <2>12, Zenon
<1>7. f[<<lo, b[lo].prev>>]
  BY <1>3, <1>6, Zenon
<1> QED BY <1>1, <1>3, <1>4, <1>7, ValidIs

-----------------------------------------------------------------------------
(* Refinement of Heap: the allocations are the blocks in use.              *)
Handed(b, x) == [ptr |-> Payload(x), len |-> b[x].size]
Live(b) == { Handed(b, x) : x \in UsedIn(b) }

LEMMA LiveIs == Live(blk) = { [ptr |-> Payload(a), len |-> blk[a].size] : a \in { x \in DOMAIN blk : ~blk[x].free } }
BY Zenon DEF Live, UsedIn, Handed

LEMMA LiveWhere ==
  ASSUME NEW b, NEW lo, NEW hi, Tile(b, lo, hi), NEW x \in UsedIn(b)
  PROVE  /\ Payload(x) \in Nat /\ Payload(x) > Header /\ Al(Payload(x)) /\ lo < Payload(x)
         /\ Payload(x) + b[x].size <= hi /\ b[x].size > 0
<1>1. x \in DOMAIN b
  BY Zenon DEF UsedIn
<1>2. /\ x \in Nat /\ x > 0 /\ lo <= x /\ lo \in Nat /\ b[x].size \in Nat /\ b[x].size > 0 /\ Al(x)
      /\ EndIn(b, x) = x + Header + b[x].size /\ EndIn(b, x) <= hi
  BY <1>1, NodeFacts
<1>3. Al(x + Header)
  <2>1. x \in Int /\ Header \in Int /\ Al(Header)
    BY <1>2, KmemConstants
  <2> QED BY <1>2, <2>1, AlSum, Zenon
<1> QED BY <1>2, <1>3, KmemConstants DEF Payload

IsNew(b, a, w, c, lo, hi) ==
    /\ Handed(c, a) \in Live(c) /\ Live(c) = Live(b) \cup {Handed(c, a)}
    /\ c[a].size >= w /\ Al(Payload(a)) /\ lo < Payload(a) /\ Payload(a) + c[a].size <= hi
    /\ \A s \in Live(b) : Payload(a) + c[a].size <= s.ptr \/ s.ptr + s.len <= Payload(a)

LEMMA LiveAlloc ==
  ASSUME NEW b, NEW lo, NEW hi, NEW a \in DOMAIN b, b[a].free, NEW w, NEW c, IsAlloc(b, a, w, c, lo, hi)
  PROVE  IsNew(b, a, w, c, lo, hi)
<1>1. /\ Tile(c, lo, hi) /\ a \in DOMAIN c /\ UsedIn(c) = UsedIn(b) \cup {a} /\ c[a].size >= w
      /\ \A x \in UsedIn(b) : c[x].size = b[x].size
  BY Zenon DEF IsAlloc
<1>2. a \notin UsedIn(b) /\ a \in UsedIn(c)
  BY <1>1, Zenon DEF UsedIn
<1>3. \A x \in UsedIn(b) : Handed(c, x) = Handed(b, x)
  BY <1>1, Zenon DEF Handed
<1>4. Live(c) = Live(b) \cup {Handed(c, a)}
  BY <1>1, <1>3 DEF Live
<1>5. /\ Al(Payload(a)) /\ lo < Payload(a) /\ Payload(a) + c[a].size <= hi
  BY <1>1, <1>2, LiveWhere, Zenon
<1>6. ASSUME NEW s \in Live(b) PROVE Payload(a) + c[a].size <= s.ptr \/ s.ptr + s.len <= Payload(a)
  <2>1. PICK x \in UsedIn(b) : s = Handed(b, x)
    BY Zenon DEF Live
  <2>2. x \in DOMAIN c /\ x # a /\ s.ptr = x + Header /\ s.len = c[x].size
    BY <1>1, <1>2, <2>1, Zenon DEF Handed, Payload, UsedIn
  <2>3. /\ a \in Nat /\ c[a].size \in Nat /\ EndIn(c, a) = a + Header + c[a].size
        /\ x \in Nat /\ c[x].size \in Nat /\ EndIn(c, x) = x + Header + c[x].size
    BY <1>1, <2>2, NodeFacts
  <2>4. CASE a < x
    <3>1. EndIn(c, a) <= x
      BY <1>1, <2>2, <2>4, ApartFacts, Zenon
    <3> QED BY <2>2, <2>3, <3>1, KmemConstants DEF Payload
  <2>5. CASE x < a
    <3>1. EndIn(c, x) <= a
      BY <1>1, <2>2, <2>5, ApartFacts
    <3> QED BY <2>2, <2>3, <3>1, KmemConstants DEF Payload
  <2> QED BY <2>2, <2>3, <2>4, <2>5
<1>7. Handed(c, a) \in Live(c)
  BY <1>4, Zenon
<1> QED BY <1>1, <1>4, <1>5, <1>6, <1>7 DEF IsNew

(* With nothing in use, one free block fills the heap.                     *)
LEMMA AllFree ==
  ASSUME NEW b, NEW lo, NEW hi, Tile(b, lo, hi), NoTwoFree(b), UsedIn(b) = {}
  PROVE  lo \in DOMAIN b /\ b[lo].free /\ b[lo].size = hi - lo - Header /\ Al(b[lo].size) /\ b[lo].size \in Nat
<1>1. lo \in DOMAIN b
  BY Zenon DEF Tile
<1>2. \A x \in DOMAIN b : b[x].free
  BY Zenon DEF UsedIn
<1>3. b[lo].next = Null
  <2> SUFFICES ASSUME b[lo].next # Null PROVE FALSE
    BY Zenon
  <2>1. b[lo].next \in DOMAIN b
    BY <1>1, NodeFacts, Zenon
  <2>2. BothFree(b, lo)
    BY <1>1, <1>2, <2>1, Zenon DEF BothFree
  <2> QED BY <1>1, <2>2, Zenon DEF NoTwoFree
<1>4. /\ lo \in Nat /\ hi \in Nat /\ b[lo].size \in Nat /\ Al(b[lo].size)
      /\ EndIn(b, lo) = lo + Header + b[lo].size
  BY <1>1, NodeFacts
<1>5. b[lo].next = IF EndIn(b, lo) = hi THEN Null ELSE EndIn(b, lo)
  BY <1>1, Zenon DEF Tile, Node
<1>6. EndIn(b, lo) = hi
  BY <1>3, <1>4, <1>5, KmemConstants DEF Null
<1> QED BY <1>1, <1>2, <1>4, <1>6, KmemConstants

LEMMA LiveEmpty ==
  ASSUME NEW b, Live(b) = {}
  PROVE  UsedIn(b) = {}
BY Zenon DEF Live

(* kmem_alloc fails for want of room only.                                 *)
LEMMA RefusedFull ==
  ASSUME HeapInv, NEW n \in Nat, AllocRefused(n)
  PROVE  n = 0 \/ Live(blk) # {} \/ n > end - base - Header
<1> SUFFICES ASSUME n # 0, Live(blk) = {} PROVE n > end - base - Header
  BY Zenon
<1>1. CASE ~ready
  BY <1>1, KmemConstants DEF HeapInv, Null
<1>2. CASE ready
  <2>1. Tile(blk, base, end) /\ NoTwoFree(blk) /\ UsedIn(blk) = {}
    BY <1>2, LiveEmpty, Zenon DEF HeapInv
  <2>2. /\ base \in DOMAIN blk /\ blk[base].free /\ blk[base].size = end - base - Header
        /\ Al(blk[base].size) /\ blk[base].size \in Nat
    <3> PICK b, lo, hi : b = blk /\ lo = base /\ hi = end
      BY Zenon
    <3> QED BY <2>1, AllFree, Zenon
  <2>3. base \in Nat /\ base > 0 /\ end \in Nat /\ end <= SizeMax
    BY <2>1, KmemConstants DEF Tile
  <2>4. AlignUp(n) = 0 \/ Fitting(AlignUp(n)) = {}
    BY <1>2, Zenon DEF AllocRefused
  <2>5. CASE AlignUp(n) = 0
    <3>1. n > SizeMax - (Align - 1)
      BY <2>5, AlignUpFacts, Zenon
    <3>2. Align <= Header
      <4>1. Al(0) /\ Al(Header) /\ 0 < Header /\ 0 \in Int /\ Header \in Int
        BY KmemConstants
      <4>2. 0 + Align <= Header
        BY <4>1, AlGap, Zenon
      <4> QED BY <4>2, KmemConstants
    <3> QED BY <2>3, <3>1, <3>2, KmemConstants
  <2>6. CASE AlignUp(n) # 0 /\ Fitting(AlignUp(n)) = {}
    <3>1. blk[base].size < AlignUp(n) /\ AlignUp(n) \in Nat /\ AlignUp(n) < n + Align /\ Al(AlignUp(n))
      BY <2>2, <2>6, AlignUpFacts, KmemConstants DEF Fitting
    <3>2. blk[base].size + Align <= AlignUp(n)
      <4> PICK x : x = blk[base].size
        BY Zenon
      <4>1. x \in Int /\ AlignUp(n) \in Int /\ Al(x) /\ x < AlignUp(n)
        BY <2>2, <3>1
      <4>2. x + Align <= AlignUp(n)
        BY <3>1, <4>1, AlGap, Zenon
      <4> QED BY <4>2, Zenon
    <3> QED BY <2>2, <2>3, <3>1, <3>2, KmemConstants
  <2> QED BY <2>4, <2>5, <2>6, Zenon
<1> QED BY <1>1, <1>2, Zenon DEF HeapInv

LEMMA SetupStep ==
  ASSUME HeapInv, NEW r \in Arenas, KmemInit(r)
  PROVE  H!Setup
<1>1. call' = <<"init", 0>> /\ ~ready
  BY Zenon DEF KmemInit
<1>2. Live(blk) = {} /\ base = 0 /\ end = 0
  BY <1>1, Zenon DEF HeapInv, Live, UsedIn, Null
<1>3. CASE InitError(r) # 0
  <2>1. ret' = InitError(r) /\ UNCHANGED <<base, end, blk>>
    BY <1>3, Zenon DEF KmemInit
  <2>2. ret' < 0
    BY <1>3, <2>1, InitErrorRange
  <2> QED BY <1>1, <2>1, <2>2, Zenon DEF H!Setup
<1>4. CASE InitError(r) = 0
  <2>1. UsedIn(blk') = {} /\ Tile(blk', base', end') /\ ready' /\ HeapInv'
    BY <1>4, KmemInitKeeps, Zenon
  <2>2. Live(blk') = {}
    BY <2>1, Zenon DEF Live
  <2>3. Valid(blk', base', end')
    <3> PICK b, lo, hi : b = blk' /\ lo = base' /\ hi = end'
      BY Zenon
    <3> QED BY <2>1, ValidTile, Zenon
  <2>4. ret' = 0
    BY <1>4, <2>3, Zenon DEF KmemInit
  <2>5. base' < end'
    BY <2>1, Zenon DEF HeapInv
  <2> QED BY <1>1, <1>2, <2>2, <2>4, <2>5 DEF H!Setup, H!NoArena, Live, UsedIn, Handed
<1> QED BY <1>3, <1>4, Zenon

LEMMA AllocateStep ==
  ASSUME HeapInv, NEW n \in Nat, AllocDone(n), call' = <<"alloc", n>>, UNCHANGED <<base, end>>
  PROVE  H!Allocate(n)
<1>1. PICK a \in DOMAIN blk : blk[a].free /\ ret' = Payload(a) /\ IsAlloc(blk, a, n, blk', base, end)
  BY Zenon DEF AllocDone
<1>2. IsNew(blk, a, n, blk', base, end)
  <2> PICK b, lo, hi, c : b = blk /\ lo = base /\ hi = end /\ c = blk'
    BY Zenon
  <2> QED BY <1>1, LiveAlloc, Zenon
<1>3. n > 0
  BY Zenon DEF AllocDone
<1>4. ret' \in Nat /\ ret' >= 0 /\ ret' = Payload(a)
  <2>1. base \in Nat /\ Payload(a) \in Nat
    BY <1>1, KmemConstants DEF AllocDone, HeapInv, Tile, Node, Payload
  <2> QED BY <1>1, <2>1
<1> DEFINE r == [ptr |-> Payload(a), len |-> blk'[a].size]
<1>5. /\ r \in Live(blk') /\ Live(blk') = Live(blk) \cup {r} /\ r.len >= n /\ r.ptr = Payload(a)
      /\ r.ptr % Align = 0 /\ base < r.ptr /\ r.ptr + r.len <= end
      /\ \A s \in Live(blk) : r.ptr + r.len <= s.ptr \/ s.ptr + s.len <= r.ptr
  BY <1>2, Zenon DEF IsNew, Handed, Al
<1>6. Live(blk') = { [ptr |-> Payload(x), len |-> blk'[x].size] : x \in { y \in DOMAIN blk' : ~blk'[y].free } }
  BY Zenon DEF Live, UsedIn, Handed
<1> HIDE DEF r
<1>7. \E s \in Live(blk') :
         /\ Live(blk') = Live(blk) \cup {s}
         /\ (IF ret' < 0 THEN -1 ELSE ret') = s.ptr
         /\ s.len >= n
         /\ s.ptr % Align = 0
         /\ base < s.ptr /\ s.ptr + s.len <= end
         /\ \A t \in Live(blk) : s.ptr + s.len <= t.ptr \/ t.ptr + t.len <= s.ptr
  <2>1. (IF ret' < 0 THEN -1 ELSE ret') = r.ptr
    BY <1>4, <1>5
  <2> QED BY <1>5, <2>1, Zenon
<1> QED BY <1>3, <1>6, <1>7, LiveIs DEF H!Allocate, H!Apart

LEMMA NoRoomStep ==
  ASSUME NEW n \in Nat, call' = <<"alloc", n>>, ret' = 0, UNCHANGED <<base, end, blk>>,
         n = 0 \/ Live(blk) # {} \/ n > end - base - Header
  PROVE  H!NoRoom(n)
BY LiveIs DEF H!NoRoom

(* kmem_free_checked refuses what is not a live allocation, and only that. *)
LEMMA LiveAccepted ==
  ASSUME HeapInv, NEW a \in UsedIn(blk)
  PROVE  FreeError(Payload(a)) = 0
<1>1. ready /\ Tile(blk, base, end) /\ a \in DOMAIN blk /\ ~blk[a].free
  BY Zenon DEF HeapInv, UsedIn
<1>2. /\ a \in Nat /\ base \in Nat /\ end \in Nat /\ base <= a /\ blk[a].size \in Nat /\ blk[a].size > 0
      /\ a + Header + blk[a].size <= end
  <2> PICK b, lo, hi : b = blk /\ lo = base /\ hi = end
    BY Zenon
  <2>1. Tile(b, lo, hi) /\ a \in DOMAIN b
    BY <1>1, Zenon
  <2>2. /\ a \in Nat /\ lo \in Nat /\ hi \in Nat /\ lo <= a /\ b[a].size \in Nat /\ b[a].size > 0
        /\ EndIn(b, a) = a + Header + b[a].size /\ EndIn(b, a) <= hi
    BY <2>1, NodeFacts, Zenon
  <2> QED BY <2>2, Zenon
<1>3. Al(Payload(a))
  <2> PICK b, lo, hi : b = blk /\ lo = base /\ hi = end
    BY Zenon
  <2>1. Tile(b, lo, hi) /\ a \in UsedIn(b)
    BY <1>1, Zenon
  <2> QED BY <2>1, LiveWhere
<1>4. InHeap(Payload(a)) /\ InHeap(Payload(a) - Header) /\ Payload(a) - Header = a
  BY <1>1, <1>2, KmemConstants DEF InHeap, Payload
<1>5. Payload(a) % Align = 0
  BY <1>3, Zenon DEF Al
<1> QED BY <1>1, <1>4, <1>5, Zenon DEF FreeError

LEMMA ReleaseStep ==
  ASSUME HeapInv, NEW p \in Ptr, KmemFree(p)
  PROVE  H!Release(p)
<1>1. call' = <<"free", p>> /\ UNCHANGED <<ready, base, end>> /\ p \in Nat
  BY KmemAssumption, KmemConstants DEF KmemFree
<1>2. \A s \in Live(blk) : \E x \in UsedIn(blk) : s = Handed(blk, x) /\ s.ptr = Payload(x) /\ s.ptr > 0 /\ ready
  <2> SUFFICES ASSUME NEW x \in UsedIn(blk) PROVE Payload(x) > 0 /\ ready
    BY DEF Live, Handed
  <2> PICK b, lo, hi : b = blk /\ lo = base /\ hi = end
    BY Zenon
  <2>1. ready /\ Tile(b, lo, hi) /\ x \in UsedIn(b)
    BY Zenon DEF HeapInv, UsedIn
  <2>2. Payload(x) \in Nat /\ Payload(x) > Header
    BY <2>1, LiveWhere, Zenon
  <2> QED BY <2>1, <2>2, KmemConstants
<1>3. Live(blk') = { [ptr |-> Payload(x), len |-> blk'[x].size] : x \in { y \in DOMAIN blk' : ~blk'[y].free } }
  BY Zenon DEF Live, UsedIn, Handed
<1>4. CASE p = Null
  <2>1. ret' = 0 /\ blk' = blk
    BY <1>4, KmemAssumption, Zenon DEF KmemFree
  <2>2. Live(blk) = { s \in Live(blk) : s.ptr # p }
    BY <1>2, <1>4 DEF Null
  <2>3. Live(blk') = { s \in Live(blk) : s.ptr # p } /\ p = 0
    BY <1>4, <2>1, <2>2, Zenon DEF Null
  <2>4. (IF ret' < 0 THEN -1 ELSE ret') = IF p = 0 \/ \E s \in Live(blk) : s.ptr = p THEN 0 ELSE -1
    BY <2>1, <2>3
  <2>5. Live(blk') = { s \in Live(blk) : s.ptr # p }
    BY <2>3, Zenon
  <2> QED BY <1>1, <1>3, <2>4, <2>5, LiveIs DEF H!Release
<1>5. CASE p # Null /\ FreeError(p) # 0
  <2>1. ret' = FreeError(p) /\ blk' = blk
    BY <1>5, Zenon DEF KmemFree
  <2>2. ret' < 0
    BY <1>5, <2>1, FreeErrorRange
  <2>3. ~\E s \in Live(blk) : s.ptr = p
    BY <1>2, <1>5, LiveAccepted, Zenon
  <2>4. Live(blk') = { s \in Live(blk) : s.ptr # p } /\ p # 0
    BY <1>5, <2>1, <2>3, Zenon DEF Null
  <2> QED BY <1>1, <1>3, <2>2, <2>3, <2>4, LiveIs DEF H!Release
<1>6. CASE p # Null /\ FreeError(p) = 0
  <2>1. blk' = Freed(p - Header) /\ ret' = IF Valid(blk', base, end) THEN 0 ELSE -1
    BY <1>6, Zenon DEF KmemFree
  <2>2. PICK a : a = p - Header
    BY Zenon
  <2>3. blk' = Freed(a) /\ ret' \in {0, -1}
    BY <2>1, <2>2, Zenon
  <2>4. a \in UsedIn(blk) /\ IsFreed(blk, a, blk', base, end)
    BY <1>1, <1>6, <2>2, <2>3, FreeKeeps
  <2>5. /\ Tile(blk', base, end) /\ UsedIn(blk') = UsedIn(blk) \ {a}
        /\ \A x \in UsedIn(blk') : blk'[x].size = blk[x].size
    BY <2>4, Zenon DEF IsFreed
  <2>6. ret' = 0
    <3>1. Valid(blk', base, end)
      <4> PICK b, lo, hi : b = blk' /\ lo = base /\ hi = end
        BY Zenon
      <4> QED BY <2>5, ValidTile, Zenon
    <3> QED BY <2>1, <3>1, Zenon
  <2>7. \A x \in UsedIn(blk) : x \in Nat
    BY DEF HeapInv, UsedIn, Tile, Node
  <2>8. \A x \in UsedIn(blk) : Payload(x) = p <=> x = a
    BY <1>1, <2>2, <2>4, <2>7, KmemConstants DEF Payload
  <2>9. \A x \in UsedIn(blk') : Handed(blk', x) = Handed(blk, x)
    BY <2>5, Zenon DEF Handed
  <2>10. Live(blk') = { s \in Live(blk) : s.ptr # p }
    <3>1. ASSUME NEW s \in Live(blk') PROVE s \in Live(blk) /\ s.ptr # p
      <4>1. PICK x \in UsedIn(blk') : s = Handed(blk', x)
        BY Zenon DEF Live
      <4>2. x \in UsedIn(blk) /\ x # a /\ s = Handed(blk, x)
        BY <2>5, <2>9, <4>1, Zenon
      <4> QED BY <2>8, <4>2, Zenon DEF Live, Handed
    <3>2. ASSUME NEW s \in Live(blk), s.ptr # p PROVE s \in Live(blk')
      <4>1. PICK x \in UsedIn(blk) : s = Handed(blk, x)
        BY Zenon DEF Live
      <4>2. x # a
        BY <2>8, <3>2, <4>1, Zenon DEF Handed
      <4>3. x \in UsedIn(blk') /\ s = Handed(blk', x)
        BY <2>5, <2>9, <4>1, <4>2
      <4> QED BY <4>3, Zenon DEF Live
    <3> QED BY <3>1, <3>2, Zenon
  <2>11. \E s \in Live(blk) : s.ptr = p
    <3>1. Handed(blk, a) \in Live(blk)
      BY <2>4, Zenon DEF Live
    <3>2. Handed(blk, a).ptr = p
      BY <2>4, <2>8, Zenon DEF Handed
    <3> QED BY <3>1, <3>2, Zenon
  <2> QED BY <1>1, <1>3, <2>6, <2>10, <2>11, LiveIs DEF H!Release
<1> QED BY <1>4, <1>5, <1>6, Zenon

(* kmem_calloc: a product that wraps is refused, one that does not is what *)
(* kmem_alloc is asked for.                                                *)
LEMMA CallocProduct ==
  ASSUME NEW c \in Nat, NEW n \in Nat
  PROVE  IF c # 0 /\ n > SizeMax \div c THEN c * n > SizeMax ELSE (c * n) % AddrSpace = c * n
<1>1. c * n \in Nat
  OBVIOUS
<1>2. CASE c = 0
  BY <1>2, KmemConstants
<1>3. CASE c # 0
  <2> PICK q : q = SizeMax \div c
    BY Zenon
  <2>1. /\ q \in Nat /\ c * q <= SizeMax /\ SizeMax < c * q + c
    BY <1>3, KmemConstants
  <2>2. CASE n > q
    <3>1. c * n >= c * (q + 1)
      BY <2>1, <2>2, SMT
    <3>2. c * (q + 1) = c * q + c
      BY <2>1
    <3> QED BY <1>1, <1>3, <2>1, <2>2, <3>1, <3>2, KmemConstants
  <2>3. CASE n <= q
    <3>1. c * n <= c * q
      BY <2>1, <2>3, SMT
    <3>2. c * n <= SizeMax
      BY <1>1, <2>1, <3>1, KmemConstants
    <3>3. (c * n) % AddrSpace = c * n
      <4> PICK m : m = c * n
        BY Zenon
      <4> QED BY <1>1, <3>2, KmemConstants
    <3> QED BY <2>1, <2>3, <3>3
  <2> QED BY <2>1, <2>2, <2>3
<1> QED BY <1>2, <1>3, Zenon

LEMMA AllocStep ==
  ASSUME HeapInv, NEW n \in Nat, Alloc(n), call' = <<"alloc", n>>, UNCHANGED <<ready, base, end>>
  PROVE  H!Allocate(n) \/ H!NoRoom(n)
<1>1. CASE AllocDone(n)
  BY <1>1, AllocateStep, Zenon
<1>2. CASE AllocRefused(n)
  <2>1. n = 0 \/ Live(blk) # {} \/ n > end - base - Header
    BY <1>2, RefusedFull, Zenon
  <2>2. ret' = 0 /\ UNCHANGED blk
    BY <1>2, Zenon DEF AllocRefused, Null
  <2> QED BY <2>1, <2>2, NoRoomStep, Zenon
<1> QED BY <1>1, <1>2, AllocCases, Zenon

LEMMA HeapStep == HeapInv /\ [KNext]_kvars => [H!HNext]_(H!hvars)
<1> SUFFICES ASSUME HeapInv, [KNext]_kvars PROVE [H!HNext]_(H!hvars)
  OBVIOUS
<1>1. ASSUME NEW r \in Arenas, KmemInit(r) PROVE H!HNext
  BY <1>1, SetupStep DEF H!HNext
<1>2. ASSUME NEW n \in Size, KmemAlloc(n) PROVE H!HNext
  <2>1. n \in Nat
    BY KmemAssumption, KmemConstants
  <2>2. H!Allocate(n) \/ H!NoRoom(n)
    BY <1>2, <2>1, AllocStep, Zenon DEF KmemAlloc
  <2>3. n \in Size \cup { c * m : c \in Count, m \in Size }
    OBVIOUS
  <2> QED BY <2>2, <2>3 DEF H!HNext
<1>3. ASSUME NEW c \in Count, NEW m \in Size, KmemCalloc(c, m) PROVE H!HNext
  <2>1. c \in Nat /\ m \in Nat /\ c * m \in Nat
    BY KmemAssumption, KmemConstants
  <2>2. PICK n : n = c * m
    BY Zenon
  <2>3. n \in Size \cup { x * y : x \in Count, y \in Size }
    BY <2>2
  <2>4. call' = <<"alloc", n>> /\ UNCHANGED <<ready, base, end>> /\ n \in Nat
    BY <1>3, <2>1, <2>2, Zenon DEF KmemCalloc
  <2>5. H!Allocate(n) \/ H!NoRoom(n)
    <3>1. CASE c # 0 /\ m > SizeMax \div c
      <4>1. ret' = 0 /\ UNCHANGED blk
        BY <1>3, <3>1, Zenon DEF KmemCalloc, Null
      <4>2. n > SizeMax
        BY <2>1, <2>2, <3>1, CallocProduct
      <4>3. base \in Nat /\ end \in Nat /\ end <= SizeMax
        BY KmemConstants DEF HeapInv, Tile, Null
      <4>4. n > end - base - Header
        BY <2>4, <4>2, <4>3, KmemConstants
      <4> QED BY <2>4, <4>1, <4>4, NoRoomStep
    <3>2. CASE ~(c # 0 /\ m > SizeMax \div c)
      <4>1. Alloc((c * m) % AddrSpace)
        BY <1>3, <3>2, Zenon DEF KmemCalloc
      <4>2. (c * m) % AddrSpace = n
        BY <2>1, <2>2, <3>2, CallocProduct
      <4>3. Alloc(n)
        BY <4>1, <4>2, Zenon
      <4> QED BY <2>4, <4>3, AllocStep
    <3> QED BY <3>1, <3>2, Zenon
  <2> QED BY <2>3, <2>5 DEF H!HNext
<1>4. ASSUME NEW p \in Ptr, KmemFree(p) PROVE H!HNext
  BY <1>4, ReleaseStep DEF H!HNext
<1>5. CASE UNCHANGED kvars
  BY <1>5, Zenon DEF kvars, H!hvars
<1> QED BY <1>1, <1>2, <1>3, <1>4, <1>5 DEF KNext

LEMMA HeapStart == KInit => H!HInit
BY DEF KInit, H!HInit, H!NoArena, Null

(* kmem.c is a heap: what kmem_alloc and kmem_calloc hand out is aligned,  *)
(* long enough and apart from all that is in use; kmem_free_checked takes  *)
(* back exactly that, once; kmem_validate never finds anything wrong; and  *)
(* with nothing in use the whole arena can be allocated again.             *)
THEOREM HeapRefined == KSpec => ImplementsHeap
BY InitHeap, NextHeap, HeapStart, HeapStep, PTL DEF KSpec, ImplementsHeap, H!HSpec
=============================================================================
