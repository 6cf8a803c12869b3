---------------------------- MODULE MemoryProofs ----------------------------
(***************************************************************************)
(* The bitmap, the counters, the hint and the owners of frames agree, for  *)
(* every size of memory, every memory map and every sequence of calls; the *)
(* page tables built in those frames are a tree that loses none of them,   *)
(* and mapping and unmapping pages through it is what AddressSpace         *)
(* promises.  The walk over page tables comes first: addresses as their    *)
(* four indices, the tables as a tree of four levels under the root, and   *)
(* how one entry written changes what the walk finds for each address.     *)
(***************************************************************************)
EXTENDS Vmm, FiniteSetTheorems, TLAPS

-----------------------------------------------------------------------------
(* Quotients.                                                              *)
LEMMA DivIs ==
  ASSUME NEW m \in Nat \ {0}, NEW x \in Nat, NEW q \in Nat, NEW r \in 0..(m - 1), x = m * q + r
  PROVE  x \div m = q
<1>1. x \div m \in Int /\ x = m * (x \div m) + (x % m) /\ x % m \in 0..(m - 1)
  OBVIOUS
<1>2. PICK p \in Int : p = x \div m
  BY <1>1, Zenon
<1>3. PICK s \in Int : s = x % m /\ s \in 0..(m - 1)
  BY <1>1
<1>4. m * q + r = m * p + s
  BY <1>1, <1>2, <1>3, Zenon
<1>5. ~(q > p)
  <2> SUFFICES ASSUME q >= p + 1 PROVE FALSE
    BY <1>2
  <2>1. m * q >= m * (p + 1) /\ m * (p + 1) = m * p + m
    BY <1>2
  <2>2. m * q \in Int /\ m * p \in Int
    BY <1>2
  <2> QED BY <1>3, <1>4, <2>1, <2>2
<1>6. ~(p > q)
  <2> SUFFICES ASSUME p >= q + 1 PROVE FALSE
    BY <1>2
  <2>1. m * p >= m * (q + 1) /\ m * (q + 1) = m * q + m
    BY <1>2
  <2>2. m * q \in Int /\ m * p \in Int
    BY <1>2
  <2> QED BY <1>3, <1>4, <2>1, <2>2
<1> QED BY <1>2, <1>5, <1>6

LEMMA DivDiv ==
  ASSUME NEW a \in Nat \ {0}, NEW b \in Nat \ {0}, NEW x \in Nat
  PROVE  x \div (a * b) = (x \div a) \div b
<1>1. \A m \in Nat \ {0}, y \in Nat : /\ y \div m \in Nat /\ y % m \in 0..(m - 1)
                                      /\ y = m * (y \div m) + (y % m)
  OBVIOUS
<1>2. PICK q \in Nat, r \in 0..(a - 1) : x \div a = q /\ x = a * q + r
  BY <1>1, Zenon
<1>3. PICK s \in Nat, t \in 0..(b - 1) : q \div b = s /\ q = b * s + t
  BY <1>1
<1>4. PICK c \in Nat \ {0} : c = a * b
  <2>1. a * b \in Nat /\ a * b # 0
    OBVIOUS
  <2> QED BY <2>1, Zenon
<1>5. PICK w : w = a * t + r
  BY Zenon
<1>6. x = c * s + w
  <2>1. a * (b * s + t) = (a * b) * s + a * t
    OBVIOUS
  <2>2. (a * b) * s \in Int /\ a * t \in Int
    OBVIOUS
  <2> QED BY <1>2, <1>3, <1>4, <1>5, <2>1, <2>2
<1>7. w \in 0..(c - 1)
  <2>1. a * t \in Nat
    OBVIOUS
  <2>2. a * t <= a * (b - 1) /\ a * (b - 1) = a * b - a
    OBVIOUS
  <2>3. a * b \in Int
    OBVIOUS
  <2> QED BY <1>4, <1>5, <2>1, <2>2, <2>3
<1>8. x \div c = s
  BY <1>6, <1>7, DivIs, Zenon
<1> QED BY <1>2, <1>3, <1>4, <1>8, Zenon

-----------------------------------------------------------------------------
(* An address is its offset, its four indices and the bits above them.     *)
LEMMA Sizes ==
  /\ PageSize \in Nat \ {0} /\ Fan \in Nat \ {0}
  /\ PageSize * Fan \in Nat \ {0}
  /\ PageSize * Fan * Fan \in Nat \ {0}
  /\ PageSize * Fan * Fan * Fan \in Nat \ {0}
<1>1. \A x, y \in Nat \ {0} : x * y \in Nat \ {0}
  OBVIOUS
<1>2. PageSize \in Nat \ {0} /\ Fan \in Nat \ {0}
  BY PmmAssumption, VmmAssumption, Zenon
<1>3. PICK a : a = PageSize * Fan
  BY Zenon
<1>4. a \in Nat \ {0}
  BY <1>1, <1>2, <1>3, Zenon
<1>5. PICK b : b = a * Fan
  BY Zenon
<1>6. b \in Nat \ {0}
  BY <1>1, <1>2, <1>4, <1>5, Zenon
<1>7. b * Fan \in Nat \ {0}
  BY <1>1, <1>2, <1>6, Zenon
<1> QED BY <1>2, <1>3, <1>4, <1>5, <1>6, <1>7, Zenon

(* Page numbers, divided by the size of a table once per level.            *)
PageNo(v) == v \div PageSize
Up(q) == q \div Fan

LEMMA Digits ==
  ASSUME NEW v \in Nat
  PROVE  /\ PageNo(v) \in Nat /\ Up(PageNo(v)) \in Nat /\ Up(Up(PageNo(v))) \in Nat
         /\ Up(Up(Up(PageNo(v)))) \in Nat
         /\ Index(v, 1) = PageNo(v) % Fan
         /\ Index(v, 2) = Up(PageNo(v)) % Fan
         /\ Index(v, 3) = Up(Up(PageNo(v))) % Fan
         /\ Index(v, 4) = Up(Up(Up(PageNo(v)))) % Fan
<1>1. \A m \in Nat \ {0}, y \in Nat : y \div m \in Nat
  OBVIOUS
<1>2. PICK p \in Nat \ {0}, f \in Nat \ {0} : p = PageSize /\ f = Fan
  BY Sizes, Zenon
<1>3. /\ PageNo(v) \in Nat /\ Up(PageNo(v)) \in Nat /\ Up(Up(PageNo(v))) \in Nat
      /\ Up(Up(Up(PageNo(v)))) \in Nat
  BY <1>1, <1>2, Zenon DEF PageNo, Up
<1>4. PICK a \in Nat \ {0} : a = p * f
  BY <1>2, Sizes, Zenon
<1>5. PICK b \in Nat \ {0} : b = a * f
  BY <1>2, <1>4, Sizes, Zenon
<1>6. PICK c \in Nat \ {0} : c = b * f
  BY <1>2, <1>4, <1>5, Sizes, Zenon
<1>7. v \div a = Up(PageNo(v))
  BY <1>2, <1>4, DivDiv DEF Up, PageNo
<1>8. v \div b = Up(Up(PageNo(v)))
  BY <1>2, <1>5, <1>7, DivDiv DEF Up
<1>9. v \div c = Up(Up(Up(PageNo(v))))
  BY <1>2, <1>6, <1>8, DivDiv DEF Up
<1>10. PageSize * (Fan * Fan) = b /\ PageSize * (Fan * Fan * Fan) = c /\ PageSize * 1 = PageSize
  <2>1. p * (f * f) = (p * f) * f /\ p * (f * f * f) = ((p * f) * f) * f /\ p * 1 = p
    OBVIOUS
  <2> QED BY <1>2, <1>4, <1>5, <1>6, <2>1, Zenon
<1>11. /\ Index(v, 1) = (v \div (PageSize * 1)) % Fan
       /\ Index(v, 2) = (v \div (PageSize * Fan)) % Fan
       /\ Index(v, 3) = (v \div (PageSize * (Fan * Fan))) % Fan
       /\ Index(v, 4) = (v \div (PageSize * (Fan * Fan * Fan))) % Fan
  BY DEF Index
<1>12. Index(v, 1) = PageNo(v) % Fan /\ Index(v, 2) = (v \div a) % Fan
       /\ Index(v, 3) = (v \div b) % Fan /\ Index(v, 4) = (v \div c) % Fan
  <2>1. PageSize * Fan = a
    BY <1>2, <1>4, Zenon
  <2> QED BY <1>10, <1>11, <2>1, Zenon DEF PageNo
<1> QED BY <1>3, <1>7, <1>8, <1>9, <1>12, Zenon

LEMMA IndexIn ==
  ASSUME NEW v \in Nat, NEW level \in 1..4
  PROVE  Index(v, level) \in Idx
<1>1. \A q \in Nat : q % Fan \in 0..(Fan - 1)
  BY Sizes
<1>2. Index(v, 1) \in Idx /\ Index(v, 2) \in Idx /\ Index(v, 3) \in Idx /\ Index(v, 4) \in Idx
  BY <1>1, Digits, Zenon DEF Idx
<1>3. level \in {1, 2, 3, 4}
  OBVIOUS
<1> QED BY <1>2, <1>3, Zenon

(* The bits above the indices repeat the top bit of the highest index.     *)
LEMMA UpperIs ==
  ASSUME NEW v \in Nat, Canonical(v)
  PROVE  Up(Up(Up(Up(PageNo(v))))) =
           IF (Index(v, 4) \div (Fan \div 2)) % 2 = 1 THEN Upper - 1 ELSE 0
<1>1. PICK p \in Nat \ {0}, f \in Nat \ {0} : p = PageSize /\ f = Fan
  BY Sizes, Zenon
<1>2. PICK c \in Nat \ {0} : c = PageSize * Fan * Fan * Fan
  BY Sizes, Zenon
<1>3. PICK h \in Nat \ {0} : h = Fan \div 2 /\ Fan = 2 * h
  BY VmmAssumption
<1>4. PICK q \in Nat : q = Up(Up(Up(PageNo(v))))
  BY Digits, Zenon
<1>5. v \div c = q
  <2>1. PICK a \in Nat \ {0} : a = p * f
    BY <1>1, Sizes, Zenon
  <2>2. PICK b \in Nat \ {0} : b = a * f
    BY <1>1, <2>1, Sizes, Zenon
  <2>3. c = b * f
    BY <1>1, <1>2, <2>1, <2>2, Zenon
  <2>4. v \div a = Up(PageNo(v))
    BY <1>1, <2>1, DivDiv DEF Up, PageNo
  <2>5. v \div b = Up(Up(PageNo(v)))
    BY <1>1, <2>2, <2>4, DivDiv DEF Up
  <2>6. v \div c = Up(Up(Up(PageNo(v))))
    BY <1>1, <2>3, <2>5, DivDiv DEF Up
  <2> QED BY <1>4, <2>6, Zenon
<1>6. v \div (c * f) = q \div f /\ v \div (c * h) = q \div h
  BY <1>5, DivDiv, Zenon
<1>7. Up(q) = IF (q \div h) % 2 = 1 THEN Upper - 1 ELSE 0
  BY <1>1, <1>2, <1>3, <1>6, Zenon DEF Canonical, Up
<1>8. PICK i \in Nat : i = Index(v, 4) /\ i = q % f
  <2>1. Index(v, 4) = q % f
    BY <1>1, <1>4, Digits, Zenon
  <2>2. q % f \in Nat
    BY <1>1
  <2> QED BY <2>1, <2>2, Zenon
<1>9. \A m \in Nat \ {0}, y \in Nat : /\ y \div m \in Nat /\ y % m \in 0..(m - 1)
                                      /\ y = m * (y \div m) + (y % m)
  OBVIOUS
<1>10. PICK u \in Nat : q = f * u + i
  BY <1>8, <1>9, Zenon
<1>11. PICK s \in Nat, t \in 0..(h - 1) : i \div h = s /\ i = h * s + t
  <2>1. i \div h \in Nat /\ i % h \in 0..(h - 1) /\ i = h * (i \div h) + (i % h)
    BY <1>9, Zenon
  <2> QED BY <2>1, Zenon
<1>12. q = h * (2 * u + s) + t
  <2>1. h * (2 * u + s) = (2 * h) * u + h * s
    OBVIOUS
  <2>2. f * u = (2 * h) * u /\ (2 * h) * u \in Int /\ h * s \in Int
    BY <1>1, <1>3
  <2> QED BY <1>10, <1>11, <2>1, <2>2
<1>13. PICK w \in Nat : w = 2 * u + s
  OBVIOUS
<1>14. q \div h = w
  BY <1>12, <1>13, DivIs, Zenon
<1>15. w % 2 = s % 2
  <2>1. w - s = 2 * u + 0 /\ w - s \in Int
    BY <1>13
  <2> QED BY <2>1
<1> QED BY <1>3, <1>4, <1>7, <1>8, <1>11, <1>14, <1>15, Zenon

LEMMA SamePage ==
  ASSUME NEW u \in Nat, NEW v \in Nat, Canonical(u), Canonical(v), Aligned(u), Aligned(v),
         \A level \in 1..4 : Index(u, level) = Index(v, level)
  PROVE  u = v
<1>1. PICK p \in Nat \ {0}, f \in Nat \ {0} : p = PageSize /\ f = Fan
  BY Sizes, Zenon
<1>2. \A m \in Nat \ {0}, y \in Nat : y \div m \in Nat /\ y = m * (y \div m) + (y % m)
  OBVIOUS
<1>3. /\ Index(u, 1) = Index(v, 1) /\ Index(u, 2) = Index(v, 2)
      /\ Index(u, 3) = Index(v, 3) /\ Index(u, 4) = Index(v, 4)
  <2>1. 1 \in 1..4 /\ 2 \in 1..4 /\ 3 \in 1..4 /\ 4 \in 1..4
    OBVIOUS
  <2> QED BY <2>1, Zenon
<1>4. ASSUME NEW x \in Nat, NEW y \in Nat, Up(x) = Up(y), x % Fan = y % Fan PROVE x = y
  BY <1>1, <1>2, <1>4 DEF Up
<1>5. /\ PageNo(u) \in Nat /\ Up(PageNo(u)) \in Nat /\ Up(Up(PageNo(u))) \in Nat
      /\ Up(Up(Up(PageNo(u)))) \in Nat
      /\ PageNo(v) \in Nat /\ Up(PageNo(v)) \in Nat /\ Up(Up(PageNo(v))) \in Nat
      /\ Up(Up(Up(PageNo(v)))) \in Nat
  BY Digits, Zenon
<1>6. Up(Up(Up(Up(PageNo(u))))) = Up(Up(Up(Up(PageNo(v)))))
  BY <1>3, UpperIs, Zenon
<1>7. Up(Up(Up(PageNo(u)))) = Up(Up(Up(PageNo(v))))
  BY <1>3, <1>4, <1>5, <1>6, Digits, Zenon
<1>8. Up(Up(PageNo(u))) = Up(Up(PageNo(v)))
  BY <1>3, <1>4, <1>5, <1>7, Digits, Zenon
<1>9. Up(PageNo(u)) = Up(PageNo(v))
  BY <1>3, <1>4, <1>5, <1>8, Digits, Zenon
<1>10. PageNo(u) = PageNo(v)
  BY <1>3, <1>4, <1>5, <1>9, Digits, Zenon
<1>11. u % p = 0 /\ v % p = 0
  BY <1>1, Zenon DEF Aligned
<1>12. u = p * PageNo(u) + 0 /\ v = p * PageNo(v) + 0
  BY <1>1, <1>2, <1>11 DEF PageNo
<1> QED BY <1>10, <1>12, Zenon

-----------------------------------------------------------------------------
(* What an entry of a table may be.                                        *)
EntrySet ==
    {None} \cup { Entry(to, flags) : to \in Frame \cup {1}, flags \in {{}, {"WRITABLE"}} }
           \cup { LeafEntry(to, flags) : to \in Targets, flags \in FlagSets }
PageSet == [Idx -> EntrySet]
Memory == [Frame -> PageSet]

LEMMA EntryFacts ==
  /\ None \in EntrySet /\ ~None.present
  /\ \A to, flags : /\ Entry(to, flags).present = TRUE /\ Entry(to, flags).to = to
                    /\ Entry(to, flags).flags = flags /\ Entry(to, flags) # None
  /\ \A e \in EntrySet : e.present \in BOOLEAN /\ (e.present <=> e # None)
<1>1. None \in EntrySet /\ ~None.present
  BY DEF EntrySet, None
<1>2. \A to, flags : /\ Entry(to, flags).present = TRUE /\ Entry(to, flags).to = to
                    /\ Entry(to, flags).flags = flags
  BY Zenon DEF Entry
<1>3. \A to, flags : Entry(to, flags) # None
  BY <1>1, <1>2, Zenon
<1>4. ASSUME NEW e \in EntrySet PROVE e.present \in BOOLEAN /\ (e.present <=> e # None)
  <2>1. CASE e = None
    <3>1. None.present = FALSE
      BY Zenon DEF None
    <3> QED BY <2>1, <3>1, Zenon
  <2>2. CASE e # None
    <3>1. PICK to, flags : e = Entry(to, flags)
      <4>1. CASE \E to \in Targets, flags \in FlagSets : e = LeafEntry(to, flags)
        BY <4>1, Zenon DEF LeafEntry
      <4>2. CASE \E to \in Frame \cup {1}, flags \in {{}, {"WRITABLE"}} : e = Entry(to, flags)
        BY <4>2, Zenon
      <4> QED BY <2>2, <4>1, <4>2 DEF EntrySet
    <3>2. e.present = TRUE
      BY <1>2, <3>1, Zenon
    <3> QED BY <2>2, <3>2, Zenon
  <2> QED BY <2>1, <2>2, Zenon
<1> QED BY <1>1, <1>2, <1>3, <1>4, Zenon

LEMMA MemoryHas ==
  ASSUME NEW m \in Memory, NEW t \in Frame, NEW i \in Idx
  PROVE  m[t][i] \in EntrySet
BY Zenon DEF Memory, PageSet

(* The tables of each level under root r, and what makes them a tree: each *)
(* is entered once, at one level, and entries that lead to a table carry   *)
(* the flags get_or_alloc_next_table gives them.                           *)
Tree(m, r, L) ==
    /\ L \in [1..4 -> SUBSET Frame]
    /\ L[4] = {r}
    /\ \A k \in 1..3 : \A y :
         y \in L[k] <=> \E t \in L[k + 1], i \in Idx : m[t][i].present /\ m[t][i].to = y
    /\ \A k \in 1..4 : 0 \notin L[k]
    /\ \A j, k \in 1..4 : \A t : t \in L[j] /\ t \in L[k] => j = k
    /\ \A k \in 2..4 : \A t \in L[k], i \in Idx : m[t][i].present => m[t][i].flags = {"WRITABLE"}
    /\ \A k \in 2..4 : \A t, u \in L[k] : \A i, j \in Idx :
         m[t][i].present /\ m[u][j].present /\ m[t][i].to = m[u][j].to => t = u /\ i = j

(* Writing to the pages of level 1, or outside the tables, keeps the tree. *)
SameInner(m, n, L) == \A k \in 2..4 : \A t \in L[k], i \in Idx : n[t][i] = m[t][i]

LEMMA TreeKept ==
  ASSUME NEW m, NEW n, NEW r, NEW L, Tree(m, r, L), SameInner(m, n, L)
  PROVE  Tree(n, r, L)
<1>0. \A k \in 2..4 : \A t \in L[k], i \in Idx : n[t][i] = m[t][i]
  BY Zenon DEF SameInner
<1>1. \A k \in 1..3 : k + 1 \in 2..4
  OBVIOUS
<1>2. \A k \in 1..3 : \A t \in L[k + 1], i \in Idx : n[t][i] = m[t][i]
  BY <1>0, <1>1, Zenon
<1>3. \A k \in 1..3 : \A y :
         y \in L[k] <=> \E t \in L[k + 1], i \in Idx : n[t][i].present /\ n[t][i].to = y
  <2> SUFFICES ASSUME NEW k \in 1..3, NEW y
               PROVE  y \in L[k] <=> \E t \in L[k + 1], i \in Idx : n[t][i].present /\ n[t][i].to = y
    BY Zenon
  <2>1. y \in L[k] <=> \E t \in L[k + 1], i \in Idx : m[t][i].present /\ m[t][i].to = y
    BY Zenon DEF Tree
  <2>2. ASSUME y \in L[k]
        PROVE  \E t \in L[k + 1], i \in Idx : n[t][i].present /\ n[t][i].to = y
    <3>1. PICK t \in L[k + 1], i \in Idx : m[t][i].present /\ m[t][i].to = y
      BY <2>1, <2>2, Zenon
    <3>2. n[t][i] = m[t][i]
      BY <1>2, Zenon
    <3> QED BY <3>1, <3>2, Zenon
  <2>3. ASSUME NEW t \in L[k + 1], NEW i \in Idx, n[t][i].present /\ n[t][i].to = y
        PROVE  y \in L[k]
    <3>1. n[t][i] = m[t][i]
      BY <1>2, Zenon
    <3> QED BY <2>1, <2>3, <3>1, Zenon
  <2> QED BY <2>2, <2>3, Zenon
<1>4. \A k \in 2..4 : \A t \in L[k], i \in Idx : n[t][i].present => n[t][i].flags = {"WRITABLE"}
  BY <1>0 DEF Tree
<1>5. \A k \in 2..4 : \A t, u \in L[k] : \A i, j \in Idx :
         n[t][i].present /\ n[u][j].present /\ n[t][i].to = n[u][j].to => t = u /\ i = j
  <2> SUFFICES ASSUME NEW k \in 2..4, NEW t \in L[k], NEW u \in L[k], NEW i \in Idx, NEW j \in Idx,
                      n[t][i].present /\ n[u][j].present /\ n[t][i].to = n[u][j].to
               PROVE  t = u /\ i = j
    BY Zenon
  <2>1. n[t][i] = m[t][i] /\ n[u][j] = m[u][j]
    BY <1>0, Zenon
  <2> QED BY <2>1 DEF Tree
<1> QED BY <1>3, <1>4, <1>5, Zenon DEF Tree

(* A new table f, empty, entered at index i of table t of level k.         *)
Entered(m, n, L, k, t, i, f) ==
    /\ k \in 2..4 /\ t \in L[k] /\ i \in Idx /\ ~m[t][i].present
    /\ f \in Frame /\ f # 0 /\ \A j \in 1..4 : f \notin L[j]
    /\ \A j \in Idx : n[f][j] = None
    /\ n[t][i] = Entry(f, {"WRITABLE"})
    /\ \A j \in 1..4 : \A u \in L[j], x \in Idx : ~(u = t /\ x = i) => n[u][x] = m[u][x]

LEMMA TreeGrows ==
  ASSUME NEW m, NEW n, NEW r, NEW L, Tree(m, r, L),
         NEW k, NEW t, NEW i, NEW f, Entered(m, n, L, k, t, i, f)
  PROVE  Tree(n, r, [L EXCEPT ![k - 1] = @ \cup {f}])
<1> DEFINE K == [L EXCEPT ![k - 1] = @ \cup {f}]
<1>0. /\ k \in 2..4 /\ t \in L[k] /\ i \in Idx /\ ~m[t][i].present
      /\ f \in Frame /\ f # 0 /\ \A j \in 1..4 : f \notin L[j]
  BY Zenon DEF Entered
<1>1. /\ n[t][i].present /\ n[t][i].to = f /\ n[t][i].flags = {"WRITABLE"}
      /\ \A j \in Idx : ~n[f][j].present
  BY EntryFacts DEF Entered
<1>2. \A j \in 1..4 : \A u \in L[j], x \in Idx : ~(u = t /\ x = i) => n[u][x] = m[u][x]
  BY Zenon DEF Entered
<1>3. L \in [1..4 -> SUBSET Frame] /\ L[4] = {r}
  BY Zenon DEF Tree
<1>4. /\ K \in [1..4 -> SUBSET Frame] /\ K[k - 1] = L[k - 1] \cup {f}
      /\ \A j \in 1..4 : j # k - 1 => K[j] = L[j]
      /\ k - 1 \in 1..3
  BY <1>0, <1>3
<1>5. K[4] = {r}
  BY <1>3, <1>4
<1> HIDE DEF K
<1>6. \A j \in 1..4 : \A u : u \in K[j] <=> u \in L[j] \/ (j = k - 1 /\ u = f)
  BY <1>4, Zenon
<1>7. \A j \in 1..4 : 0 \notin K[j]
  BY <1>0, <1>6, Zenon DEF Tree
<1>8. \A j, l \in 1..4 : \A u : u \in K[j] /\ u \in K[l] => j = l
  BY <1>0, <1>6 DEF Tree
<1>9. \A j \in 2..4 : j \in 1..4
  OBVIOUS
<1>10. \A j \in 2..4 : \A u \in K[j], x \in Idx : n[u][x].present => n[u][x].flags = {"WRITABLE"}
  BY <1>1, <1>2, <1>6, <1>9 DEF Tree
<1>11. \A j \in 2..4 : \A u \in L[j], x \in Idx : m[u][x].present => m[u][x].to # f
  <2> SUFFICES ASSUME NEW j \in 2..4, NEW u \in L[j], NEW x \in Idx, m[u][x].present, m[u][x].to = f
               PROVE  FALSE
    BY Zenon
  <2>1. PICK l \in 1..3 : j = l + 1
    <3>1. j - 1 \in 1..3 /\ j = (j - 1) + 1
      OBVIOUS
    <3> QED BY <3>1, Zenon
  <2>2. f \in L[l]
    BY <2>1 DEF Tree
  <2>3. l \in 1..4
    OBVIOUS
  <2> QED BY <1>0, <2>2, <2>3, Zenon
<1>12. \A j \in 2..4 : \A u, w \in K[j] : \A x, y \in Idx :
         n[u][x].present /\ n[w][y].present /\ n[u][x].to = n[w][y].to => u = w /\ x = y
  <2> SUFFICES ASSUME NEW j \in 2..4, NEW u \in K[j], NEW w \in K[j], NEW x \in Idx, NEW y \in Idx,
                      n[u][x].present, n[w][y].present, n[u][x].to = n[w][y].to
               PROVE  u = w /\ x = y
    OBVIOUS
  <2>1. u \in L[j] /\ w \in L[j]
    BY <1>1, <1>6, <1>9, Zenon
  <2>2. CASE u = t /\ x = i
    <3>1. CASE w = t /\ y = i
      BY <2>2, <3>1, Zenon
    <3>2. CASE ~(w = t /\ y = i)
      BY <1>1, <1>2, <1>9, <1>11, <2>1, <2>2, <3>2
    <3> QED BY <3>1, <3>2, Zenon
  <2>3. CASE w = t /\ y = i
    <3>1. CASE u = t /\ x = i
      BY <2>3, <3>1, Zenon
    <3>2. CASE ~(u = t /\ x = i)
      BY <1>1, <1>2, <1>9, <1>11, <2>1, <2>3, <3>2
    <3> QED BY <3>1, <3>2, Zenon
  <2>4. CASE ~(u = t /\ x = i) /\ ~(w = t /\ y = i)
    <3>1. n[u][x] = m[u][x] /\ n[w][y] = m[w][y]
      BY <1>2, <1>9, <2>1, <2>4, Zenon
    <3> QED BY <2>1, <3>1 DEF Tree
  <2> QED BY <2>2, <2>3, <2>4, Zenon
<1>13. \A j \in 1..3 : \A y :
         y \in K[j] <=> \E u \in K[j + 1], x \in Idx : n[u][x].present /\ n[u][x].to = y
  <2> SUFFICES ASSUME NEW j \in 1..3, NEW y
               PROVE  y \in K[j] <=> \E u \in K[j + 1], x \in Idx : n[u][x].present /\ n[u][x].to = y
    BY Zenon
  <2>0. j \in 1..4 /\ j + 1 \in 1..4 /\ j + 1 \in 2..4
    OBVIOUS
  <2>1. y \in L[j] <=> \E u \in L[j + 1], x \in Idx : m[u][x].present /\ m[u][x].to = y
    BY Zenon DEF Tree
  <2>2. ASSUME y \in K[j]
        PROVE  \E u \in K[j + 1], x \in Idx : n[u][x].present /\ n[u][x].to = y
    <3>1. CASE y \in L[j]
      <4>1. PICK u \in L[j + 1], x \in Idx : m[u][x].present /\ m[u][x].to = y
        BY <2>1, <3>1, Zenon
      <4>2. ~(u = t /\ x = i)
        BY <1>0, <4>1, Zenon
      <4>3. n[u][x] = m[u][x] /\ u \in K[j + 1]
        BY <1>2, <1>6, <2>0, <4>2, Zenon
      <4> QED BY <4>1, <4>3, Zenon
    <3>2. CASE j = k - 1 /\ y = f
      <4>1. j + 1 = k
        BY <1>0, <3>2
      <4>2. t \in K[j + 1]
        BY <1>0, <1>6, <2>0, <4>1, Zenon
      <4> QED BY <1>0, <1>1, <3>2, <4>2, Zenon
    <3> QED BY <1>6, <2>0, <2>2, <3>1, <3>2, Zenon
  <2>3. ASSUME NEW u \in K[j + 1], NEW x \in Idx, n[u][x].present /\ n[u][x].to = y
        PROVE  y \in K[j]
    <3>1. u \in L[j + 1]
      BY <1>1, <1>6, <2>0, <2>3, Zenon
    <3>2. CASE u = t /\ x = i
      <4>1. j + 1 = k
        BY <1>0, <2>0, <3>1, <3>2 DEF Tree
      <4>2. j = k - 1 /\ y = f
        BY <1>0, <1>1, <2>3, <3>2, <4>1
      <4> QED BY <1>6, <2>0, <4>2, Zenon
    <3>3. CASE ~(u = t /\ x = i)
      <4>1. n[u][x] = m[u][x]
        BY <1>2, <2>0, <3>1, <3>3, Zenon
      <4>2. y \in L[j]
        BY <2>1, <2>3, <3>1, <4>1, Zenon
      <4> QED BY <1>6, <2>0, <4>2, Zenon
    <3> QED BY <3>2, <3>3, Zenon
  <2> QED BY <2>2, <2>3, Zenon
<1>14. Tree(n, r, K)
  BY <1>4, <1>5, <1>7, <1>8, <1>10, <1>12, <1>13, Zenon DEF Tree
<1> QED BY <1>14, Zenon DEF K

-----------------------------------------------------------------------------
(* The walk of vmm_query_page through memory m: the table of each level on *)
(* the way to page v, or NoFrame.                                          *)
DownIn(m, t, v, level) ==
    IF t = NoFrame THEN NoFrame
    ELSE LET e == m[t][Index(v, level)]
         IN IF e.present /\ "HUGE" \notin e.flags /\ e.to # 0 THEN e.to ELSE NoFrame

WalkIn(m, r, v) ==
    LET t3 == DownIn(m, r, v, 4)
        t2 == DownIn(m, t3, v, 3)
    IN [k \in 1..4 |-> IF k = 4 THEN r ELSE IF k = 3 THEN t3 ELSE IF k = 2 THEN t2 ELSE DownIn(m, t2, v, 2)]

TransIn(m, r, v) ==
    LET pt == WalkIn(m, r, v)[1]
    IN IF pt = NoFrame THEN None ELSE m[pt][Index(v, 1)]

LEMMA WalkSteps ==
  ASSUME NEW m, NEW r, NEW v
  PROVE  /\ WalkIn(m, r, v)[4] = r
         /\ \A k \in 1..3 : WalkIn(m, r, v)[k] = DownIn(m, WalkIn(m, r, v)[k + 1], v, k + 1)
<1>1. /\ WalkIn(m, r, v)[4] = r
      /\ WalkIn(m, r, v)[3] = DownIn(m, r, v, 4)
      /\ WalkIn(m, r, v)[2] = DownIn(m, DownIn(m, r, v, 4), v, 3)
      /\ WalkIn(m, r, v)[1] = DownIn(m, DownIn(m, DownIn(m, r, v, 4), v, 3), v, 2)
  BY DEF WalkIn
<1> SUFFICES ASSUME NEW k \in 1..3
             PROVE  WalkIn(m, r, v)[k] = DownIn(m, WalkIn(m, r, v)[k + 1], v, k + 1)
  BY <1>1, Zenon
<1>2. k = 1 \/ k = 2 \/ k = 3
  OBVIOUS
<1>3. 1 + 1 = 2 /\ 2 + 1 = 3 /\ 3 + 1 = 4
  OBVIOUS
<1> QED BY <1>1, <1>2, <1>3, Zenon

LEMMA WalkEnd ==
  ASSUME NEW m, NEW r, NEW v
  PROVE  WalkIn(m, r, v)[1] = DownIn(m, DownIn(m, DownIn(m, r, v, 4), v, 3), v, 2)
BY DEF WalkIn

LEMMA WalkIs ==
  ASSUME NEW m, NEW r, NEW v, NEW X, X[4] = r,
         \A k \in 1..3 : X[k] = DownIn(m, X[k + 1], v, k + 1)
  PROVE  \A k \in 1..4 : WalkIn(m, r, v)[k] = X[k]
<1>1. 3 + 1 = 4 /\ 2 + 1 = 3 /\ 1 + 1 = 2 /\ 1 \in 1..3 /\ 2 \in 1..3 /\ 3 \in 1..3
  OBVIOUS
<1>2. WalkIn(m, r, v)[4] = X[4]
  BY WalkSteps
<1>3. WalkIn(m, r, v)[3] = X[3]
  BY <1>1, <1>2, WalkSteps
<1>4. WalkIn(m, r, v)[2] = X[2]
  BY <1>1, <1>3, WalkSteps
<1>5. WalkIn(m, r, v)[1] = X[1]
  BY <1>1, <1>4, WalkSteps
<1>6. \A k \in 1..4 : k = 1 \/ k = 2 \/ k = 3 \/ k = 4
  OBVIOUS
<1> QED BY <1>2, <1>3, <1>4, <1>5, <1>6, Zenon

(* In a tree the walk goes on if and only if there is an entry, and it     *)
(* stays on the tables of each level.                                      *)
LEMMA DownStep ==
  ASSUME NEW m, NEW r, NEW L, Tree(m, r, L), NEW v \in Nat, NEW k \in 1..3, NEW t \in L[k + 1]
  PROVE  LET e == m[t][Index(v, k + 1)]
         IN /\ t # NoFrame
            /\ e.present => DownIn(m, t, v, k + 1) = e.to /\ e.to \in L[k]
            /\ ~e.present => DownIn(m, t, v, k + 1) = NoFrame
<1> DEFINE e == m[t][Index(v, k + 1)]
<1>1. k + 1 \in 2..4 /\ k + 1 \in 1..4 /\ k \in 1..4
  OBVIOUS
<1>2. Index(v, k + 1) \in Idx
  BY <1>1, IndexIn, Zenon
<1>3. t # NoFrame
  BY <1>1, PmmAssumption DEF Tree, Frame
<1>4. ASSUME e.present PROVE e.to \in L[k] /\ e.to # 0 /\ "HUGE" \notin e.flags
  <2>1. e.to \in L[k]
    BY <1>2, <1>4 DEF Tree
  <2>2. e.to # 0
    BY <1>1, <2>1 DEF Tree
  <2>3. e.flags = {"WRITABLE"}
    BY <1>1, <1>2, <1>4 DEF Tree
  <2> QED BY <2>1, <2>2, <2>3, Zenon
<1> QED BY <1>3, <1>4, Zenon DEF DownIn

LEMMA WalkInTree ==
  ASSUME NEW m, NEW r, NEW L, Tree(m, r, L), NEW v \in Nat
  PROVE  \A k \in 1..4 : WalkIn(m, r, v)[k] \in L[k] \/ WalkIn(m, r, v)[k] = NoFrame
<1> DEFINE W == WalkIn(m, r, v)
           P(k) == W[k] \in L[k] \/ W[k] = NoFrame
<1>1. P(4)
  BY WalkSteps DEF Tree
<1>2. ASSUME NEW k \in 1..3, P(k + 1) PROVE P(k)
  <2>1. W[k] = DownIn(m, W[k + 1], v, k + 1)
    BY WalkSteps
  <2>2. CASE W[k + 1] = NoFrame
    BY <2>1, <2>2, Zenon DEF DownIn
  <2>3. CASE W[k + 1] \in L[k + 1]
    BY <2>1, <2>3, DownStep
  <2> QED BY <1>2, <2>2, <2>3, Zenon
<1> HIDE DEF P
<1>3. 3 + 1 = 4 /\ 2 + 1 = 3 /\ 1 + 1 = 2 /\ 1 \in 1..3 /\ 2 \in 1..3 /\ 3 \in 1..3
  OBVIOUS
<1>4. P(3)
  BY <1>1, <1>2, <1>3, Zenon
<1>5. P(2)
  BY <1>2, <1>3, <1>4, Zenon
<1>6. P(1)
  BY <1>2, <1>3, <1>5, Zenon
<1>7. \A k \in 1..4 : k = 1 \/ k = 2 \/ k = 3 \/ k = 4
  OBVIOUS
<1>8. \A k \in 1..4 : P(k)
  BY <1>1, <1>4, <1>5, <1>6, <1>7, Zenon
<1> QED BY <1>8, Zenon DEF P

(* The walk does not depend on what the pages of level 1 hold.             *)
LEMMA WalkSame ==
  ASSUME NEW m, NEW n, NEW r, NEW L, Tree(m, r, L), NEW v \in Nat, SameInner(m, n, L)
  PROVE  \A k \in 1..4 : WalkIn(n, r, v)[k] = WalkIn(m, r, v)[k]
<1> DEFINE W == WalkIn(m, r, v)
<1>1. ASSUME NEW k \in 1..3 PROVE W[k] = DownIn(n, W[k + 1], v, k + 1)
  <2>1. W[k] = DownIn(m, W[k + 1], v, k + 1)
    BY WalkSteps
  <2>2. k + 1 \in 2..4 /\ k + 1 \in 1..4
    OBVIOUS
  <2>3. CASE W[k + 1] = NoFrame
    BY <2>1, <2>3, Zenon DEF DownIn
  <2>4. CASE W[k + 1] \in L[k + 1]
    <3>1. Index(v, k + 1) \in Idx
      BY <2>2, IndexIn, Zenon
    <3>2. n[W[k + 1]][Index(v, k + 1)] = m[W[k + 1]][Index(v, k + 1)]
      BY <2>2, <2>4, <3>1, Zenon DEF SameInner
    <3> QED BY <2>1, <3>2, Zenon DEF DownIn
  <2> QED BY <2>2, <2>3, <2>4, WalkInTree, Zenon
<1>2. W[4] = r
  BY WalkSteps, Zenon
<1> HIDE DEF W
<1>3. \A k \in 1..4 : WalkIn(n, r, v)[k] = W[k]
  BY <1>1, <1>2, WalkIs
<1> QED BY <1>3, Zenon DEF W

(* Two walks that end in the same table took the same indices.             *)
LEMMA WalkApart ==
  ASSUME NEW m, NEW r, NEW L, Tree(m, r, L), NEW u \in Nat, NEW v \in Nat,
         WalkIn(m, r, u)[1] = WalkIn(m, r, v)[1], WalkIn(m, r, u)[1] # NoFrame
  PROVE  \A k \in 2..4 : Index(u, k) = Index(v, k)
<1> DEFINE U == WalkIn(m, r, u)
           V == WalkIn(m, r, v)
           Same(k) == U[k] = V[k] /\ U[k] # NoFrame
<1>1. ASSUME NEW k \in 1..3, Same(k) PROVE Same(k + 1) /\ Index(u, k + 1) = Index(v, k + 1)
  <2>1. U[k] = DownIn(m, U[k + 1], u, k + 1) /\ V[k] = DownIn(m, V[k + 1], v, k + 1)
    BY WalkSteps
  <2>2. k + 1 \in 2..4 /\ k + 1 \in 1..4
    OBVIOUS
  <2>3. U[k + 1] # NoFrame /\ V[k + 1] # NoFrame
    BY <1>1, <2>1, Zenon DEF DownIn
  <2>4. U[k + 1] \in L[k + 1] /\ V[k + 1] \in L[k + 1]
    BY <2>2, <2>3, WalkInTree
  <2>5. Index(u, k + 1) \in Idx /\ Index(v, k + 1) \in Idx
    BY <2>2, IndexIn, Zenon
  <2>6. /\ m[U[k + 1]][Index(u, k + 1)].present /\ U[k] = m[U[k + 1]][Index(u, k + 1)].to
        /\ m[V[k + 1]][Index(v, k + 1)].present /\ V[k] = m[V[k + 1]][Index(v, k + 1)].to
    <3>1. ASSUME NEW x \in Nat, NEW a \in L[k + 1], DownIn(m, a, x, k + 1) # NoFrame
          PROVE  /\ m[a][Index(x, k + 1)].present
                 /\ DownIn(m, a, x, k + 1) = m[a][Index(x, k + 1)].to
      BY <3>1, DownStep
    <3> QED BY <1>1, <2>1, <2>4, <3>1, Zenon
  <2>7. PICK a, b, i, j : a = U[k + 1] /\ b = V[k + 1] /\ i = Index(u, k + 1) /\ j = Index(v, k + 1)
    BY Zenon
  <2>8. /\ a \in L[k + 1] /\ b \in L[k + 1] /\ i \in Idx /\ j \in Idx
        /\ m[a][i].present /\ m[b][j].present /\ m[a][i].to = m[b][j].to
    BY <1>1, <2>4, <2>5, <2>6, <2>7, Zenon
  <2>9. a = b /\ i = j
    BY <2>2, <2>8 DEF Tree
  <2> QED BY <2>3, <2>7, <2>9, Zenon
<1>2. 3 + 1 = 4 /\ 2 + 1 = 3 /\ 1 + 1 = 2 /\ 1 \in 1..3 /\ 2 \in 1..3 /\ 3 \in 1..3
  OBVIOUS
<1>3. Same(1)
  BY Zenon
<1> HIDE DEF Same
<1>4. Same(2) /\ Index(u, 2) = Index(v, 2)
  BY <1>1, <1>2, <1>3, Zenon
<1>5. Same(3) /\ Index(u, 3) = Index(v, 3)
  BY <1>1, <1>2, <1>4, Zenon
<1>6. Same(4) /\ Index(u, 4) = Index(v, 4)
  BY <1>1, <1>2, <1>5, Zenon
<1>7. \A k \in 2..4 : k = 2 \/ k = 3 \/ k = 4
  OBVIOUS
<1> QED BY <1>4, <1>5, <1>6, <1>7, Zenon

(* Entering an empty table takes the walk of the pages under that entry one*)
(* level further, and changes what no page is mapped to.                   *)
LEMMA WalkGrows ==
  ASSUME NEW m, NEW n, NEW r, NEW L, Tree(m, r, L), NEW v \in Nat,
         NEW k, NEW t, NEW i, NEW f, Entered(m, n, L, k, t, i, f)
  PROVE  /\ WalkIn(m, r, v)[k] = t /\ Index(v, k) = i => WalkIn(n, r, v)[k - 1] = f
         /\ TransIn(n, r, v) = TransIn(m, r, v)
<1> DEFINE W == WalkIn(m, r, v)
<1>0. /\ k \in 2..4 /\ t \in L[k] /\ i \in Idx /\ ~m[t][i].present
      /\ f \in Frame /\ f # 0 /\ \A j \in 1..4 : f \notin L[j]
      /\ n[t][i] = Entry(f, {"WRITABLE"})
      /\ \A j \in Idx : n[f][j] = None
      /\ \A j \in 1..4 : \A u \in L[j], x \in Idx : ~(u = t /\ x = i) => n[u][x] = m[u][x]
  BY Zenon DEF Entered
<1>1. \A j \in 1..3 : W[j] = DownIn(m, W[j + 1], v, j + 1)
  BY WalkSteps
<1>2. W[4] = r
  BY WalkSteps, Zenon
<1>3. \A j \in 1..4 : W[j] \in L[j] \/ W[j] = NoFrame
  BY WalkInTree, Zenon
<1>4. \A j \in 1..4 : Index(v, j) \in Idx
  BY IndexIn, Zenon
<1>5. f # NoFrame /\ t # NoFrame
  BY <1>0, PmmAssumption DEF Tree, Frame
<1>6. \A j \in 1..3 : j + 1 \in 1..4
  OBVIOUS
<1>7. ASSUME NEW j \in 1..3, ~(W[j + 1] = t /\ Index(v, j + 1) = i)
      PROVE  W[j] = DownIn(n, W[j + 1], v, j + 1)
  <2>1. CASE W[j + 1] = NoFrame
    BY <1>1, <2>1, Zenon DEF DownIn
  <2>2. CASE W[j + 1] \in L[j + 1]
    <3>1. n[W[j + 1]][Index(v, j + 1)] = m[W[j + 1]][Index(v, j + 1)]
      BY <1>0, <1>4, <1>6, <1>7, <2>2, Zenon
    <3>2. DownIn(n, W[j + 1], v, j + 1) = DownIn(m, W[j + 1], v, j + 1)
      BY <3>1, Zenon DEF DownIn
    <3> QED BY <1>1, <3>2, Zenon
  <2> QED BY <1>3, <1>6, <2>1, <2>2, Zenon
<1>8. \A j \in 1..4 : W[j] = t => j = k
  BY <1>0, <1>3, <1>5 DEF Tree
<1>9. \A j \in 1..4 : W[j] # f
  BY <1>0, <1>3, <1>5, Zenon
<1> HIDE DEF W
<1>10. CASE ~(W[k] = t /\ Index(v, k) = i)
  <2>1. \A j \in 1..3 : W[j] = DownIn(n, W[j + 1], v, j + 1)
    BY <1>6, <1>7, <1>8, <1>10, Zenon
  <2>2. \A j \in 1..4 : WalkIn(n, r, v)[j] = W[j]
    BY <1>2, <2>1, WalkIs
  <2>3. WalkIn(n, r, v)[1] = WalkIn(m, r, v)[1]
    BY <2>2 DEF W
  <2>4. CASE W[1] = NoFrame
    BY <1>10, <2>3, <2>4, Zenon DEF TransIn, W
  <2>5. CASE W[1] # NoFrame
    <3>1. W[1] \in L[1] /\ Index(v, 1) \in Idx
      BY <1>3, <1>4, <2>5
    <3>2. W[1] # t
      BY <1>0, <1>8
    <3>3. n[W[1]][Index(v, 1)] = m[W[1]][Index(v, 1)]
      BY <1>0, <3>1, <3>2
    <3> QED BY <1>10, <2>3, <3>3, Zenon DEF TransIn, W
  <2> QED BY <1>10, <2>4, <2>5, Zenon DEF W
<1>11. CASE W[k] = t /\ Index(v, k) = i
  <2> DEFINE X == [j \in 1..4 |-> IF j >= k THEN W[j] ELSE IF j = k - 1 THEN f ELSE NoFrame]
  <2>1. k - 1 \in 1..3 /\ (k - 1) + 1 = k
    BY <1>0
  <2>2. W[k - 1] = NoFrame
    BY <1>0, <1>1, <1>11, <2>1, Zenon DEF DownIn
  <2>3. \A j \in 1..4 : j < k => W[j] = NoFrame
    <3>1. ASSUME NEW j \in 1..3, W[j + 1] = NoFrame PROVE W[j] = NoFrame
      BY <1>1, <3>1, Zenon DEF DownIn
    <3>2. CASE k = 2
      BY <2>2, <3>2
    <3>3. CASE k = 3
      <4>1. W[2] = NoFrame /\ 1 \in 1..3 /\ 1 + 1 = 2
        BY <2>2, <3>3
      <4>2. W[1] = NoFrame
        BY <3>1, <4>1, Zenon
      <4>3. \A j \in 1..4 : j < 3 => j = 1 \/ j = 2
        OBVIOUS
      <4> QED BY <3>3, <4>1, <4>2, <4>3, Zenon
    <3>4. CASE k = 4
      <4>1. W[3] = NoFrame /\ 1 \in 1..3 /\ 1 + 1 = 2 /\ 2 \in 1..3 /\ 2 + 1 = 3
        BY <2>2, <3>4
      <4>2. W[2] = NoFrame
        BY <3>1, <4>1, Zenon
      <4>3. W[1] = NoFrame
        BY <3>1, <4>1, <4>2, Zenon
      <4>4. \A j \in 1..4 : j < 4 => j = 1 \/ j = 2 \/ j = 3
        OBVIOUS
      <4> QED BY <3>4, <4>1, <4>2, <4>3, <4>4, Zenon
    <3>5. k = 2 \/ k = 3 \/ k = 4
      BY <1>0
    <3> QED BY <3>2, <3>3, <3>4, <3>5, Zenon
  <2>4. /\ \A j \in 1..4 : j >= k => X[j] = W[j]
        /\ X[k - 1] = f
        /\ \A j \in 1..4 : j < k - 1 => X[j] = NoFrame
    BY <1>0, <2>1
  <2>5. X[4] = r
    BY <1>0, <1>2, <2>4
  <2> HIDE DEF X
  <2>6. ASSUME NEW j \in 1..3 PROVE X[j] = DownIn(n, X[j + 1], v, j + 1)
    <3>0. k \in Int /\ j \in Int /\ j \in 1..4
      BY <1>0
    <3>1. CASE j + 1 > k
      <4>1. X[j] = W[j] /\ X[j + 1] = W[j + 1]
        BY <1>6, <2>4, <3>0, <3>1
      <4>2. W[j + 1] # t
        BY <1>6, <1>8, <3>0, <3>1
      <4> QED BY <1>7, <4>1, <4>2, Zenon
    <3>2. CASE j + 1 = k
      <4>1. X[j + 1] = t /\ X[j] = f
        <5>1. j = k - 1
          BY <3>0, <3>2
        <5>2. X[j] = f
          BY <2>4, <5>1, Zenon
        <5>3. X[k] = W[k]
          BY <1>0, <2>4
        <5> QED BY <1>11, <3>2, <5>2, <5>3, Zenon
      <4>2. n[t][Index(v, j + 1)] = Entry(f, {"WRITABLE"})
        BY <1>0, <1>11, <3>2, Zenon
      <4>3. DownIn(n, t, v, j + 1) = f
        <5>1. "HUGE" \notin {"WRITABLE"}
          BY Zenon
        <5> QED BY <1>0, <1>5, <4>2, <5>1, EntryFacts DEF DownIn
      <4> QED BY <4>1, <4>3, Zenon
    <3>3. CASE j + 1 = k - 1
      <4>1. X[j + 1] = f
        BY <2>4, <3>3, Zenon
      <4>2. X[j] = NoFrame
        BY <2>4, <3>0, <3>3
      <4>3. ~n[f][Index(v, j + 1)].present
        BY <1>0, <1>4, <1>6, EntryFacts, Zenon
      <4> QED BY <4>1, <4>2, <4>3, Zenon DEF DownIn
    <3>4. CASE j + 1 < k - 1
      <4>1. X[j + 1] = NoFrame /\ X[j] = NoFrame
        BY <1>6, <2>4, <3>0, <3>4
      <4> QED BY <4>1, Zenon DEF DownIn
    <3>5. j + 1 > k \/ j + 1 = k \/ j + 1 = k - 1 \/ j + 1 < k - 1
      BY <3>0
    <3> QED BY <3>1, <3>2, <3>3, <3>4, <3>5, Zenon
  <2>7. \A j \in 1..4 : WalkIn(n, r, v)[j] = X[j]
    BY <2>5, <2>6, WalkIs
  <2>8. WalkIn(n, r, v)[k - 1] = f
    <3>1. k - 1 \in 1..4
      BY <1>0
    <3> QED BY <2>4, <2>7, <3>1, Zenon
  <2>9. TransIn(m, r, v) = None
    <3>1. W[1] = NoFrame
      BY <1>0, <2>3
    <3> QED BY <3>1, Zenon DEF TransIn, W
  <2>10. TransIn(n, r, v) = None
    <3>1. CASE k = 2
      <4>1. WalkIn(n, r, v)[1] = f
        BY <2>8, <3>1
      <4>2. n[f][Index(v, 1)] = None
        BY <1>0, <1>4
      <4> QED BY <4>1, <4>2, Zenon DEF TransIn
    <3>2. CASE k # 2
      <4>1. WalkIn(n, r, v)[1] = NoFrame
        BY <1>0, <2>4, <2>7, <3>2
      <4> QED BY <4>1, Zenon DEF TransIn
    <3> QED BY <3>1, <3>2, Zenon
  <2> QED BY <2>8, <2>9, <2>10, Zenon
<1> QED BY <1>10, <1>11, Zenon

-----------------------------------------------------------------------------
(* The inductive invariant: as long as nobody handed out a root full of    *)
(* garbage, the frames allocated for tables are the tables of a tree, and a*)
(* vmm_map_page in progress is on the walk to its page.                    *)
CallRec == [level : 1..4, table : Frame, v : VPage, to : Targets, flags : FlagSets]

CallAt(m, r, c) == c = NoCall \/ (c \in CallRec /\ WalkIn(m, r, c.v)[c.level] = c.table)

Holds(m, r, c, T) ==
    \E L : Tree(m, r, L) /\ T = L[1] \cup L[2] \cup L[3] \cup L[4] /\ CallAt(m, r, c)

VmmTypes ==
    /\ mem \in Memory
    /\ root \in Frame \cup {NoFrame}
    /\ dirty \in BOOLEAN
    /\ root = NoFrame => call = NoCall /\ rc = "OK" /\ ~dirty
    /\ dirty => call = NoCall

TreeInv ==
    /\ VmmTypes
    /\ root # NoFrame /\ ~dirty => Holds(mem, root, call, tables) /\ tables \subseteq owned

(* What the pages are mapped to, and what AddressSpace sees of rc and call.*)
Space == [v \in VPage |-> IF dirty THEN None ELSE Translate(v)]
Answer == IF dirty THEN "OK" ELSE rc
Asked ==
    IF call = NoCall THEN NoCall
    ELSE [page |-> call.v, target |-> LeafEntry(call.to, call.flags)]

LEMMA PagesAreNumbers == VPage \subseteq Nat /\ VPage \subseteq VAddrs
BY VmmAssumption, Zenon DEF VPage

LEMMA TranslateIs == \A v : Translate(v) = TransIn(mem, root, v) /\ PageTable(v) = WalkIn(mem, root, v)[1]
<1> SUFFICES ASSUME NEW v PROVE Translate(v) = TransIn(mem, root, v) /\ PageTable(v) = WalkIn(mem, root, v)[1]
  BY Zenon
<1>0. \A t, level : Down(t, v, level) = DownIn(mem, t, v, level)
  BY Zenon DEF Down, DownIn
<1>1. PageTable(v) = WalkIn(mem, root, v)[1]
  BY <1>0, WalkEnd DEF PageTable
<1> QED BY <1>1, Zenon DEF Translate, TransIn

LEMMA TranslateIsNext ==
  \A v : Translate(v)' = TransIn(mem', root', v) /\ PageTable(v)' = WalkIn(mem', root', v)[1]
<1> SUFFICES ASSUME NEW v
             PROVE  Translate(v)' = TransIn(mem', root', v) /\ PageTable(v)' = WalkIn(mem', root', v)[1]
  BY Zenon
<1>1. PageTable(v)' = DownIn(mem', DownIn(mem', DownIn(mem', root', v, 4), v, 3), v, 2)
  BY Zenon DEF PageTable, Down, DownIn
<1>2. PageTable(v)' = WalkIn(mem', root', v)[1]
  BY <1>1, WalkEnd, Zenon
<1> QED BY <1>2, Zenon DEF Translate, TransIn

LEMMA SpaceSame ==
  ASSUME \A v \in VPage : (IF dirty' THEN None ELSE TransIn(mem', root', v))
                        = (IF dirty THEN None ELSE TransIn(mem, root, v))
  PROVE  Space' = Space
<1>1. Space = [v \in VPage |-> IF dirty THEN None ELSE TransIn(mem, root, v)]
  BY TranslateIs, Zenon DEF Space
<1>2. Space' = [v \in VPage |-> IF dirty' THEN None ELSE TransIn(mem', root', v)]
  BY TranslateIsNext, Zenon DEF Space
<1> QED BY <1>1, <1>2, Zenon

LEMMA SpaceKept == UNCHANGED <<mem, root, dirty>> => Space' = Space
BY SpaceSame

(* pmm_alloc_frame returns a frame nobody has, and not frame 0.            *)
LEMMA AllocGives ==
  ASSUME PmmInv, AllocFrame
  PROVE  /\ ret' \in Frame /\ ret' # 0 /\ ret' # NoFrame /\ ret' \notin owned
         /\ owned' = owned \cup {ret'}
<1>1. PICK f \in Frame \ used : ret' = f /\ owned' = owned \cup {f}
  BY Zenon DEF AllocFrame
<1>2. ready
  BY Zenon DEF AllocFrame
<1>3. 0 \in used /\ owned \subseteq used
  BY <1>2, Zenon DEF PmmInv, OwnedAreUsed
<1>4. \A x \in Frame : x # NoFrame
  BY PmmAssumption DEF Frame
<1> QED BY <1>1, <1>3, <1>4, Zenon

LEMMA NoWalk ==
  ASSUME NEW m, NEW v
  PROVE  TransIn(m, NoFrame, v) = None
<1>1. \A level : DownIn(m, NoFrame, v, level) = NoFrame
  BY Zenon DEF DownIn
<1> QED BY <1>1, WalkEnd DEF TransIn

LEMMA InitTree == Init => TreeInv
<1>1. [f \in Frame |-> UsedPage] \in Memory
  <2>1. Entry(1, {}) \in EntrySet
    BY DEF EntrySet
  <2> QED BY <2>1, Zenon DEF Memory, PageSet, UsedPage
<1> QED BY <1>1, Zenon DEF Init, TreeInv, VmmTypes

(* kernel_vmm_init.                                                        *)
LEMMA VmmInitTree ==
  ASSUME TreeInv, PmmInv, VmmInit
  PROVE  TreeInv' /\ Space' = Space /\ Answer' = Answer /\ call' = call
<1>1. root = NoFrame /\ call = NoCall /\ rc = "OK" /\ ~dirty /\ mem \in Memory /\ UNCHANGED <<call, rc>>
  BY Zenon DEF VmmInit, TreeInv, VmmTypes
<1>2. CASE AllocFails /\ UNCHANGED <<root, mem, tables, dirty>>
  <2>1. TreeInv'
    BY <1>1, <1>2, Zenon DEF TreeInv, VmmTypes
  <2> QED BY <1>1, <1>2, <2>1, SpaceKept, Zenon DEF Answer
<1>3. ASSUME AllocFrame, root' = ret', tables' = {ret'}, NEW page \in {ZeroPage, UsedPage},
             mem' = [mem EXCEPT ![ret'] = page] /\ dirty' = (page # ZeroPage)
      PROVE  TreeInv' /\ Space' = Space /\ Answer' = Answer
  <2>1. PICK f : f = ret'
    BY Zenon
  <2>2. f \in Frame /\ f # 0 /\ f # NoFrame /\ owned' = owned \cup {f}
    BY <1>3, <2>1, AllocGives, Zenon
  <2>3. page \in PageSet
    <3>1. Entry(1, {}) \in EntrySet
      BY DEF EntrySet
    <3> QED BY <3>1, EntryFacts DEF PageSet, UsedPage, ZeroPage
  <2>4. mem' \in Memory /\ mem'[f] = page
    BY <1>1, <1>3, <2>1, <2>2, <2>3, Zenon DEF Memory
  <2>5. Answer' = Answer
    BY <1>1, Zenon DEF Answer
  <2>6. CASE page # ZeroPage
    <3>1. dirty' /\ dirty' \in BOOLEAN
      BY <1>3, <2>6, Zenon
    <3>2. TreeInv'
      BY <1>1, <1>3, <2>1, <2>2, <2>4, <3>1, Zenon DEF TreeInv, VmmTypes
    <3>3. Space' = Space
      BY <1>1, <3>1, NoWalk, SpaceSame, Zenon
    <3> QED BY <2>5, <3>2, <3>3, Zenon
  <2>7. CASE page = ZeroPage
    <3>1. ~dirty' /\ dirty' \in BOOLEAN
      BY <1>3, <2>7, Zenon
    <3>2. \A i \in Idx : mem'[f][i] = None
      BY <2>4, <2>7, Zenon DEF ZeroPage
    <3> DEFINE L == [j \in 1..4 |-> IF j = 4 THEN {f} ELSE {}]
    <3>3. L \in [1..4 -> SUBSET Frame] /\ L[4] = {f} /\ L[1] = {} /\ L[2] = {} /\ L[3] = {}
      BY <2>2
    <3>4. /\ \A j \in 1..3 : L[j] = {}
          /\ \A j \in 1..4 : \A x : x \in L[j] <=> j = 4 /\ x = f
      OBVIOUS
    <3> HIDE DEF L
    <3>5. \A i \in Idx : ~mem'[f][i].present
      BY <3>2, EntryFacts, Zenon
    <3>6. \A k \in 1..3 : k + 1 \in 1..4
      OBVIOUS
    <3>7. \A k \in 2..4 : k \in 1..4
      OBVIOUS
    <3>8. Tree(mem', f, L)
      <4>1. \A k \in 1..3 : \A y :
              y \in L[k] <=> \E t \in L[k + 1], i \in Idx : mem'[t][i].present /\ mem'[t][i].to = y
        BY <3>4, <3>5, <3>6, Zenon
      <4>2. (\A k \in 1..4 : 0 \notin L[k]) /\ \A j, k \in 1..4 : \A t : t \in L[j] /\ t \in L[k] => j = k
        BY <2>2, <3>4, Zenon
      <4>3. \A k \in 2..4 : \A t \in L[k], i \in Idx : ~mem'[t][i].present
        BY <3>4, <3>5, <3>7, Zenon
      <4> QED BY <3>3, <4>1, <4>2, <4>3, Zenon DEF Tree
    <3>9. tables' = L[1] \cup L[2] \cup L[3] \cup L[4] /\ root' = f /\ call' = NoCall
      BY <1>1, <1>3, <2>1, <3>3, Zenon
    <3>10. Holds(mem', root', call', tables')
      BY <3>8, <3>9, Zenon DEF Holds, CallAt
    <3>11. tables' \subseteq owned'
      BY <2>1, <2>2, <1>3, Zenon
    <3>12. TreeInv'
      BY <2>2, <2>4, <1>1, <3>1, <3>9, <3>10, <3>11, Zenon DEF TreeInv, VmmTypes
    <3>13. \A v \in VPage : TransIn(mem', f, v) = None
      <4> SUFFICES ASSUME NEW v \in VPage PROVE TransIn(mem', f, v) = None
        BY Zenon
      <4>1. v \in Nat
        BY PagesAreNumbers, Zenon
      <4>2. Index(v, 4) \in Idx
        BY <4>1, IndexIn
      <4>3. DownIn(mem', f, v, 4) = NoFrame
        BY <3>5, <4>2, Zenon DEF DownIn
      <4>4. \A level : DownIn(mem', NoFrame, v, level) = NoFrame
        BY Zenon DEF DownIn
      <4> QED BY <4>3, <4>4, WalkEnd DEF TransIn
    <3>14. Space' = Space
      BY <1>1, <3>1, <3>9, <3>13, NoWalk, SpaceSame, Zenon
    <3> QED BY <2>5, <3>12, <3>14, Zenon
  <2> QED BY <2>6, <2>7, Zenon
<1> QED BY <1>1, <1>2, <1>3, Zenon DEF VmmInit

(* The first step of vmm_map_page.                                         *)
LEMMA MapPageTree ==
  ASSUME TreeInv, NEW v \in VAddrs, NEW to \in Targets, NEW flags \in FlagSets, MapPage(v, to, flags)
  PROVE  /\ TreeInv' /\ Space' = Space
         /\ \/ Answer' = "INVAL" /\ call' = NoCall
            \/ Answer' = Answer /\ call = NoCall /\ call' \in CallRec
<1>1. root # NoFrame /\ ~dirty /\ call = NoCall /\ UNCHANGED <<pvars, root, mem, tables, dirty>>
  BY Zenon DEF MapPage
<1>2. root \in Frame /\ dirty' \in BOOLEAN /\ ~dirty' /\ mem \in Memory
  BY <1>1, Zenon DEF TreeInv, VmmTypes
<1>3. Space' = Space
  BY <1>1, SpaceKept, Zenon
<1>4. PICK L : Tree(mem, root, L) /\ tables = L[1] \cup L[2] \cup L[3] \cup L[4]
  BY <1>1, Zenon DEF TreeInv, Holds
<1>5. UNCHANGED owned /\ tables \subseteq owned
  BY <1>1, Zenon DEF TreeInv, pvars
<1>6. ASSUME CallAt(mem, root, call') PROVE TreeInv'
  <2>1. Holds(mem', root', call', tables')
    BY <1>1, <1>4, <1>6, Zenon DEF Holds
  <2> QED BY <1>1, <1>2, <1>5, <2>1, Zenon DEF TreeInv, VmmTypes
<1>7. CASE Done("INVAL")
  <2>1. CallAt(mem, root, call')
    BY <1>7, Zenon DEF Done, CallAt
  <2>2. Answer' = "INVAL" /\ call' = NoCall
    BY <1>2, <1>7, Zenon DEF Done, Answer
  <2> QED BY <1>3, <1>6, <2>1, <2>2, Zenon
<1>8. CASE /\ Canonical(v) /\ Aligned(v) /\ UNCHANGED rc
           /\ call' = [level |-> 4, table |-> root, v |-> v, to |-> to, flags |-> flags]
  <2>1. v \in VPage
    BY <1>8, Zenon DEF VPage
  <2>2. call' \in CallRec /\ call'.v = v /\ call'.level = 4 /\ call'.table = root
    BY <1>2, <1>8, <2>1 DEF CallRec
  <2>3. WalkIn(mem, root, v)[4] = root
    BY WalkSteps, Zenon
  <2>4. CallAt(mem, root, call')
    BY <2>2, <2>3, Zenon DEF CallAt
  <2>5. Answer' = Answer
    BY <1>1, <1>8, Zenon DEF Answer
  <2> QED BY <1>1, <1>3, <1>6, <2>2, <2>4, <2>5, Zenon
<1> QED BY <1>7, <1>8, Zenon DEF MapPage

(* What the invariant says while vmm_map_page is in progress.              *)
LEMMA InCall ==
  ASSUME TreeInv, call # NoCall
  PROVE  /\ root \in Frame /\ root # NoFrame /\ ~dirty /\ mem \in Memory /\ tables \subseteq owned
         /\ call \in CallRec /\ call.v \in VPage /\ call.v \in Nat
         /\ \E L : /\ Tree(mem, root, L) /\ tables = L[1] \cup L[2] \cup L[3] \cup L[4]
                   /\ WalkIn(mem, root, call.v)[call.level] = call.table
                   /\ call.table \in L[call.level]
<1>1. root \in Frame /\ root # NoFrame /\ ~dirty /\ mem \in Memory /\ tables \subseteq owned
  BY Zenon DEF TreeInv, VmmTypes
<1>2. PICK L : /\ Tree(mem, root, L) /\ tables = L[1] \cup L[2] \cup L[3] \cup L[4]
               /\ CallAt(mem, root, call)
  BY <1>1, Zenon DEF TreeInv, Holds
<1>3. call \in CallRec /\ WalkIn(mem, root, call.v)[call.level] = call.table
  BY <1>2, Zenon DEF CallAt
<1>4. call.v \in VPage /\ call.level \in 1..4 /\ call.table \in Frame
  BY <1>3, Zenon DEF CallRec
<1>5. call.v \in Nat
  BY <1>4, PagesAreNumbers, Zenon
<1>6. call.table # NoFrame
  BY <1>4, PmmAssumption DEF Frame
<1>7. call.table \in L[call.level]
  BY <1>2, <1>3, <1>4, <1>5, <1>6, WalkInTree, Zenon
<1> QED BY <1>1, <1>2, <1>3, <1>4, <1>5, <1>7, Zenon

LEMMA NoCallLevel == NoCall.level = 0
BY Zenon DEF NoCall

(* What AddressSpace is asked for is told by the page, target and flags of *)
(* the call, which stay as they are on the way down.                       *)
LEMMA AskedDiffers == \A p, q : [page |-> p, target |-> q] # NoCall
BY DEF NoCall

LEMMA CallDiffers == \A c \in CallRec : c # NoCall
BY NoCallLevel DEF CallRec

LEMMA AskedKept ==
  ASSUME call \in CallRec, call' \in CallRec,
         call'.v = call.v, call'.to = call.to, call'.flags = call.flags
  PROVE  Asked' = Asked
<1>1. call # NoCall /\ call' # NoCall
  BY CallDiffers, Zenon
<1>2. Asked = [page |-> call.v, target |-> LeafEntry(call.to, call.flags)]
  BY <1>1, Zenon DEF Asked
<1>3. Asked' = [page |-> call'.v, target |-> LeafEntry(call'.to, call'.flags)]
  BY <1>1, Zenon DEF Asked
<1> QED BY <1>2, <1>3, Zenon

-----------------------------------------------------------------------------
(* get_or_alloc_next_table, where there is a table.                        *)
LEMMA NextTableTree ==
  ASSUME TreeInv, NextTable
  PROVE  TreeInv' /\ Space' = Space /\ Answer' = Answer /\ Asked' = Asked
<1>1. call.level > 1 /\ UNCHANGED <<pvars, root, mem, tables, dirty>>
  BY Zenon DEF NextTable
<1>2. call # NoCall
  BY <1>1, NoCallLevel
<1>3. /\ root \in Frame /\ root # NoFrame /\ ~dirty /\ mem \in Memory /\ tables \subseteq owned
      /\ call \in CallRec /\ call.v \in VPage /\ call.v \in Nat
  BY <1>2, InCall, Zenon
<1>4. PICK L : /\ Tree(mem, root, L) /\ tables = L[1] \cup L[2] \cup L[3] \cup L[4]
               /\ WalkIn(mem, root, call.v)[call.level] = call.table
               /\ call.table \in L[call.level]
  BY <1>2, InCall, Zenon
<1>5. PICK k \in 1..3 : call.level = k + 1 /\ call.level - 1 = k
  <2>1. call.level \in 1..4
    BY <1>3, Zenon DEF CallRec
  <2>2. call.level - 1 \in 1..3 /\ call.level = (call.level - 1) + 1
    BY <1>1, <2>1
  <2> QED BY <2>2, Zenon
<1>6. PICK v, t, e : v \in Nat /\ v = call.v /\ t = call.table /\ e = mem[t][Index(v, k + 1)]
  BY <1>3, Zenon
<1>7. e.present
  BY <1>5, <1>6, Zenon DEF NextTable
<1>8. DownIn(mem, t, v, k + 1) = e.to /\ e.to \in L[k]
  BY <1>4, <1>5, <1>6, <1>7, DownStep
<1>9. WalkIn(mem, root, v)[k] = e.to
  BY <1>4, <1>5, <1>6, <1>8, WalkSteps
<1>10. "HUGE" \notin e.flags /\ e.to # 0
  <2>1. k + 1 \in 2..4 /\ k + 1 \in 1..4 /\ k \in 1..4
    OBVIOUS
  <2>2. Index(v, k + 1) \in Idx
    BY <1>6, <2>1, IndexIn, Zenon
  <2>3. e.flags = {"WRITABLE"}
    BY <1>4, <1>5, <1>6, <1>7, <2>1, <2>2 DEF Tree
  <2>4. e.to # 0
    BY <1>4, <1>8, <2>1 DEF Tree
  <2>5. "HUGE" \notin {"WRITABLE"}
    BY Zenon
  <2> QED BY <2>3, <2>4, <2>5, Zenon
<1>11. call' = [call EXCEPT !.level = @ - 1, !.table = e.to] /\ UNCHANGED rc
  BY <1>5, <1>6, <1>10, Zenon DEF NextTable
<1>12. e.to \in Frame
  BY <1>4, <1>8 DEF Tree
<1>13. call' \in CallRec /\ call'.v = v /\ call'.level = k /\ call'.table = e.to
  <2>1. call.level - 1 = k /\ k \in 1..4
    BY <1>5
  <2> QED BY <1>3, <1>6, <1>11, <1>12, <2>1, Zenon DEF CallRec
<1>14. CallAt(mem, root, call')
  BY <1>9, <1>13, Zenon DEF CallAt
<1>15. Holds(mem', root', call', tables')
  BY <1>1, <1>4, <1>14, Zenon DEF Holds
<1>16. UNCHANGED owned /\ dirty' \in BOOLEAN /\ ~dirty'
  BY <1>1, <1>3, Zenon DEF TreeInv, VmmTypes, pvars
<1>17. TreeInv'
  BY <1>1, <1>3, <1>15, <1>16, Zenon DEF TreeInv, VmmTypes
<1>18. Asked' = Asked
  <2>1. call'.v = call.v /\ call'.to = call.to /\ call'.flags = call.flags
    BY <1>3, <1>11, Zenon DEF CallRec
  <2> QED BY <1>3, <1>13, <2>1, AskedKept, Zenon
<1> QED BY <1>1, <1>11, <1>17, <1>18, SpaceKept, Zenon DEF Answer

(* get_or_alloc_next_table, where there is none.                           *)
LEMMA NewTableTree ==
  ASSUME TreeInv, PmmInv, NewTable
  PROVE  /\ TreeInv' /\ Space' = Space
         /\ \/ Answer' = Answer /\ Asked' = Asked
            \/ Answer' = "NOMEM" /\ call' = NoCall
<1>1. /\ call.level > 1 /\ UNCHANGED <<root, dirty>>
      /\ ~mem[call.table][Index(call.v, call.level)].present
  BY Zenon DEF NewTable
<1>2. call # NoCall
  BY <1>1, NoCallLevel
<1>3. /\ root \in Frame /\ root # NoFrame /\ ~dirty /\ mem \in Memory /\ tables \subseteq owned
      /\ call \in CallRec /\ call.v \in VPage /\ call.v \in Nat
  BY <1>2, InCall, Zenon
<1>4. PICK L : /\ Tree(mem, root, L) /\ tables = L[1] \cup L[2] \cup L[3] \cup L[4]
               /\ WalkIn(mem, root, call.v)[call.level] = call.table
               /\ call.table \in L[call.level]
  BY <1>2, InCall, Zenon
<1>5. dirty' \in BOOLEAN /\ ~dirty'
  BY <1>1, <1>3, Zenon DEF TreeInv, VmmTypes
<1>6. CASE AllocFails /\ Done("NOMEM") /\ UNCHANGED <<mem, tables>>
  <2>1. call' = NoCall /\ rc' = "NOMEM" /\ UNCHANGED owned
    BY <1>6, Zenon DEF Done, AllocFails
  <2>2. Holds(mem', root', call', tables')
    BY <1>1, <1>4, <1>6, <2>1, Zenon DEF Holds, CallAt
  <2>3. TreeInv'
    BY <1>1, <1>3, <1>5, <1>6, <2>1, <2>2, Zenon DEF TreeInv, VmmTypes
  <2>4. Answer' = "NOMEM"
    BY <1>5, <2>1, Zenon DEF Answer
  <2> QED BY <1>1, <1>6, <2>1, <2>3, <2>4, SpaceKept, Zenon
<1>7. CASE /\ AllocFrame /\ AllocTable(ret') /\ UNCHANGED rc
           /\ call' = [call EXCEPT !.level = @ - 1, !.table = ret']
           /\ tables' = tables \cup {ret'}
  <2>1. PICK f : f = ret'
    BY Zenon
  <2>2. f \in Frame /\ f # 0 /\ f # NoFrame /\ f \notin owned /\ owned' = owned \cup {f}
    BY <1>7, <2>1, AllocGives, Zenon
  <2>3. PICK k, t, i, v : v \in Nat /\ k = call.level /\ t = call.table /\ v = call.v /\ i = Index(v, k)
    BY <1>3, Zenon
  <2>4. k \in 2..4 /\ t \in L[k] /\ t \in Frame /\ i \in Idx /\ ~mem[t][i].present
    <3>1. call.level \in 1..4 /\ call.table \in Frame
      BY <1>3, Zenon DEF CallRec
    <3>2. k \in 2..4 /\ k \in 1..4
      BY <1>1, <2>3, <3>1
    <3> QED BY <1>1, <1>4, <2>3, <3>1, <3>2, IndexIn, Zenon
  <2>5. \A j \in 1..4 : f \notin L[j]
    <3>1. \A j \in 1..4 : j = 1 \/ j = 2 \/ j = 3 \/ j = 4
      OBVIOUS
    <3> QED BY <1>3, <1>4, <2>2, <3>1, Zenon
  <2>6. mem' = [mem EXCEPT ![f] = ZeroPage, ![t][i] = Entry(f, {"WRITABLE"})]
    BY <1>7, <2>1, <2>3, Zenon DEF AllocTable
  <2>7. t # f
    <3>1. k \in 1..4
      BY <2>4
    <3> QED BY <2>4, <2>5, <3>1, Zenon
  <2>8. ZeroPage \in PageSet /\ Entry(f, {"WRITABLE"}) \in EntrySet
    <3>1. ZeroPage \in PageSet
      BY EntryFacts, Zenon DEF ZeroPage, PageSet
    <3> QED BY <2>2, <3>1 DEF EntrySet
  <2>9. mem[t] \in PageSet /\ [mem[t] EXCEPT ![i] = Entry(f, {"WRITABLE"})] \in PageSet
    BY <1>3, <2>4, <2>8, Zenon DEF Memory, PageSet
  <2>10. /\ mem' \in Memory /\ mem'[f] = ZeroPage
         /\ mem'[t] = [mem[t] EXCEPT ![i] = Entry(f, {"WRITABLE"})]
         /\ \A u \in Frame : u # f /\ u # t => mem'[u] = mem[u]
    BY <1>3, <2>2, <2>4, <2>6, <2>7, <2>8, <2>9, Zenon DEF Memory
  <2>11. /\ mem'[t][i] = Entry(f, {"WRITABLE"})
         /\ \A x \in Idx : x # i => mem'[t][x] = mem[t][x]
    BY <2>4, <2>9, <2>10, Zenon DEF PageSet
  <2>12. \A j \in 1..4 : \A u \in L[j], x \in Idx : ~(u = t /\ x = i) => mem'[u][x] = mem[u][x]
    <3>1. \A j \in 1..4 : L[j] \subseteq Frame
      BY <1>4, Zenon DEF Tree
    <3> QED BY <2>5, <2>10, <2>11, <3>1, Zenon
  <2>13. Entered(mem, mem', L, k, t, i, f)
    BY <2>2, <2>4, <2>5, <2>10, <2>11, <2>12, Zenon DEF Entered, ZeroPage
  <2> DEFINE K == [L EXCEPT ![k - 1] = @ \cup {f}]
  <2>14. Tree(mem', root, K)
    BY <1>4, <2>13, TreeGrows, Zenon
  <2>15. tables' = K[1] \cup K[2] \cup K[3] \cup K[4]
    <3>1. L \in [1..4 -> SUBSET Frame]
      BY <1>4, Zenon DEF Tree
    <3>2. k = 2 \/ k = 3 \/ k = 4
      BY <2>4
    <3>3. tables' = (L[1] \cup L[2] \cup L[3] \cup L[4]) \cup {f}
      BY <1>4, <1>7, <2>1, Zenon
    <3>4. CASE k = 2
      BY <3>1, <3>3, <3>4
    <3>5. CASE k = 3
      BY <3>1, <3>3, <3>5
    <3>6. CASE k = 4
      BY <3>1, <3>3, <3>6
    <3> QED BY <3>2, <3>4, <3>5, <3>6, Zenon
  <2> HIDE DEF K
  <2>16. WalkIn(mem', root, v)[k - 1] = f
    BY <1>4, <2>3, <2>13, WalkGrows
  <2>17. call' \in CallRec /\ call'.v = v /\ call'.level = k - 1 /\ call'.table = f
    <3>1. k - 1 \in 1..4
      BY <2>4
    <3> QED BY <1>3, <1>7, <2>1, <2>2, <2>3, <3>1, Zenon DEF CallRec
  <2>18. CallAt(mem', root, call')
    BY <2>16, <2>17, Zenon DEF CallAt
  <2>19. Holds(mem', root', call', tables')
    BY <1>1, <2>14, <2>15, <2>18, Zenon DEF Holds
  <2>20. tables' \subseteq owned'
    BY <1>3, <1>7, <2>1, <2>2, Zenon
  <2>21. TreeInv'
    BY <1>1, <1>3, <1>5, <2>10, <2>19, <2>20, Zenon DEF TreeInv, VmmTypes
  <2>22. \A w \in VPage : TransIn(mem', root', w) = TransIn(mem, root, w)
    BY <1>1, <1>4, <2>13, WalkGrows, PagesAreNumbers
  <2>23. Space' = Space
    BY <1>1, <2>22, SpaceSame, Zenon
  <2>24. Asked' = Asked
    <3>1. call'.v = call.v /\ call'.to = call.to /\ call'.flags = call.flags
      BY <1>3, <1>7, Zenon DEF CallRec
    <3> QED BY <1>3, <2>17, <3>1, AskedKept, Zenon
  <2> QED BY <1>1, <1>7, <2>21, <2>23, <2>24, Zenon DEF Answer
<1> QED BY <1>6, <1>7, Zenon DEF NewTable

-----------------------------------------------------------------------------
(* One entry of a page of level 1 is written.  The tree stays, and only the*)
(* page whose entry it is changes its mapping.                             *)
LeafSet(m, n, t, v, e) == n = [m EXCEPT ![t][Index(v, 1)] = e]

LEMMA LeafWritten ==
  ASSUME NEW m \in Memory, NEW n, NEW r, NEW L, Tree(m, r, L), NEW v \in VPage,
         NEW t, t = WalkIn(m, r, v)[1], t # NoFrame, NEW e \in EntrySet,
         LeafSet(m, n, t, v, e)
  PROVE  /\ n \in Memory /\ Tree(n, r, L)
         /\ TransIn(m, r, v) = m[t][Index(v, 1)] /\ TransIn(n, r, v) = e
         /\ \A u \in VPage : u # v => TransIn(n, r, u) = TransIn(m, r, u)
<1>1. v \in Nat
  BY PagesAreNumbers, Zenon
<1>2. t \in L[1] /\ Index(v, 1) \in Idx
  <2>1. 1 \in 1..4
    OBVIOUS
  <2>2. WalkIn(m, r, v)[1] \in L[1] \/ WalkIn(m, r, v)[1] = NoFrame
    BY <1>1, <2>1, WalkInTree
  <2> QED BY <1>1, <2>1, <2>2, IndexIn, Zenon
<1>3. t \in Frame
  <2>1. L[1] \in SUBSET Frame
    BY DEF Tree
  <2> QED BY <1>2, <2>1, Zenon
<1>4. m[t] \in PageSet /\ [m[t] EXCEPT ![Index(v, 1)] = e] \in PageSet
  BY <1>2, <1>3, Zenon DEF Memory, PageSet
<1>5. /\ n \in Memory /\ n[t] = [m[t] EXCEPT ![Index(v, 1)] = e]
      /\ \A u \in Frame : u # t => n[u] = m[u]
  BY <1>3, <1>4, Zenon DEF Memory, LeafSet
<1>6. /\ n[t][Index(v, 1)] = e
      /\ \A x \in Idx : x # Index(v, 1) => n[t][x] = m[t][x]
  BY <1>2, <1>4, <1>5, Zenon DEF PageSet
<1>7. SameInner(m, n, L)
  <2>1. \A k \in 2..4 : k \in 1..4 /\ k # 1
    OBVIOUS
  <2>2. \A k \in 2..4 : \A u \in L[k] : u # t /\ u \in Frame
    BY <1>2, <2>1 DEF Tree
  <2> QED BY <1>5, <2>2, Zenon DEF SameInner
<1>8. Tree(n, r, L)
  BY <1>7, TreeKept, Zenon
<1>9. ASSUME NEW u \in VPage PROVE WalkIn(n, r, u)[1] = WalkIn(m, r, u)[1]
  BY <1>7, WalkSame, PagesAreNumbers
<1>10. TransIn(m, r, v) = m[t][Index(v, 1)] /\ TransIn(n, r, v) = e
  BY <1>6, <1>9, Zenon DEF TransIn
<1>11. ASSUME NEW u \in VPage, u # v PROVE TransIn(n, r, u) = TransIn(m, r, u)
  <2>0. u \in Nat
    BY PagesAreNumbers, Zenon
  <2>1. CASE WalkIn(m, r, u)[1] = NoFrame
    BY <1>9, <2>1, Zenon DEF TransIn
  <2>2. CASE WalkIn(m, r, u)[1] # NoFrame
    <3>1. PICK w : w = WalkIn(m, r, u)[1]
      BY Zenon
    <3>2. w \in L[1] /\ w \in Frame /\ Index(u, 1) \in Idx
      <4>1. w \in L[1]
        BY <2>0, <2>2, <3>1, WalkInTree
      <4> QED BY <2>0, <4>1, IndexIn DEF Tree
    <3>3. n[w][Index(u, 1)] = m[w][Index(u, 1)]
      <4>1. CASE w # t
        BY <1>5, <3>2, <4>1, Zenon
      <4>2. CASE w = t
        <5>0. WalkIn(m, r, u)[1] = WalkIn(m, r, v)[1]
          BY <3>1, <4>2, Zenon
        <5>1. \A k \in 2..4 : Index(u, k) = Index(v, k)
          BY <1>1, <2>0, <2>2, <5>0, WalkApart
        <5>2. Index(u, 1) # Index(v, 1)
          <6> SUFFICES ASSUME Index(u, 1) = Index(v, 1) PROVE FALSE
            BY Zenon
          <6>1. \A k \in 1..4 : k = 1 \/ k \in 2..4
            OBVIOUS
          <6>2. \A k \in 1..4 : Index(u, k) = Index(v, k)
            BY <5>1, <6>1, Zenon
          <6>3. Canonical(u) /\ Aligned(u) /\ Canonical(v) /\ Aligned(v)
            BY Zenon DEF VPage
          <6>4. u = v
            BY <1>1, <2>0, <6>2, <6>3, SamePage, Zenon
          <6> QED BY <1>11, <6>4, Zenon
        <5> QED BY <1>6, <3>2, <4>2, <5>2, Zenon
      <4> QED BY <4>1, <4>2, Zenon
    <3> QED BY <1>9, <2>2, <3>1, <3>3, Zenon DEF TransIn
  <2> QED BY <2>1, <2>2, Zenon
<1> QED BY <1>5, <1>8, <1>10, <1>11, Zenon

(* The pages but one keep their mapping.                                   *)
LEMMA SpaceOne ==
  ASSUME ~dirty, UNCHANGED <<root, dirty>>, NEW v \in VPage,
         \A u \in VPage : u # v => TransIn(mem', root, u) = TransIn(mem, root, u)
  PROVE  /\ Space[v] = TransIn(mem, root, v) /\ Space'[v] = TransIn(mem', root, v)
         /\ \A u \in VPage \ {v} : Space'[u] = Space[u]
<1>1. \A u \in VPage : Space[u] = TransIn(mem, root, u)
  BY TranslateIs, Zenon DEF Space
<1>2. \A u \in VPage : Space'[u] = TransIn(mem', root, u)
  <2>1. ~dirty' /\ root' = root
    BY Zenon
  <2> QED BY <2>1, TranslateIsNext, Zenon DEF Space
<1> QED BY <1>1, <1>2, Zenon

LEMMA SpaceIs ==
  ASSUME ~dirty, NEW v \in VPage
  PROVE  Space[v] = TransIn(mem, root, v)
BY TranslateIs, Zenon DEF Space

(* The end of vmm_map_page.                                                *)
LEMMA MapLeafTree ==
  ASSUME TreeInv, MapLeaf
  PROVE  /\ TreeInv'
         /\ \E v \in VPage : A!AMap(v)
<1>1. call.level = 1 /\ SetEntry /\ UNCHANGED <<pvars, root, tables, dirty>>
  BY Zenon DEF MapLeaf
<1>2. call # NoCall
  BY <1>1, NoCallLevel
<1>3. /\ root \in Frame /\ root # NoFrame /\ ~dirty /\ mem \in Memory /\ tables \subseteq owned
      /\ call \in CallRec /\ call.v \in VPage /\ call.v \in Nat
  BY <1>2, InCall, Zenon
<1>4. PICK L : /\ Tree(mem, root, L) /\ tables = L[1] \cup L[2] \cup L[3] \cup L[4]
               /\ WalkIn(mem, root, call.v)[call.level] = call.table
               /\ call.table \in L[call.level]
  BY <1>2, InCall, Zenon
<1>5. dirty' \in BOOLEAN /\ ~dirty' /\ UNCHANGED owned
  BY <1>1, <1>3, Zenon DEF TreeInv, VmmTypes, pvars
<1>6. PICK v \in VPage : v = call.v
  BY <1>3, Zenon
<1>7. PICK t : t = call.table /\ t = WalkIn(mem, root, v)[1] /\ t \in Frame /\ t # NoFrame
  <2>1. call.table \in Frame
    BY <1>3, Zenon DEF CallRec
  <2> QED BY <1>1, <1>4, <1>6, <2>1, PmmAssumption DEF Frame
<1>8. TransIn(mem, root, v) = mem[t][Index(v, 1)] /\ mem[t][Index(v, 1)] \in EntrySet
  <2>1. Index(v, 1) \in Idx
    BY <1>3, <1>6, IndexIn
  <2> QED BY <1>3, <1>7, <2>1, MemoryHas, Zenon DEF TransIn
<1>9. ASSUME mem' \in Memory, Tree(mem', root, L), call' = NoCall PROVE TreeInv'
  <2>1. Holds(mem', root', call', tables')
    BY <1>1, <1>4, <1>9, Zenon DEF Holds, CallAt
  <2> QED BY <1>1, <1>3, <1>5, <1>9, <2>1, Zenon DEF TreeInv, VmmTypes
<1>12. /\ Asked # NoCall /\ v = Asked.page
       /\ Asked.target = LeafEntry(call.to, call.flags)
       /\ call' = NoCall => Asked' = NoCall
  <2>1. Asked = [page |-> v, target |-> LeafEntry(call.to, call.flags)]
    BY <1>2, <1>6, Zenon DEF Asked
  <2>2. call' = NoCall => Asked' = NoCall
    BY Zenon DEF Asked
  <2> QED BY <2>1, <2>2, AskedDiffers, Zenon
<1>10. CASE mem[t][Index(v, 1)].present
  <2>1. rc' = "EXISTS" /\ call' = NoCall /\ mem' = mem
    BY <1>1, <1>6, <1>7, <1>10, Zenon DEF SetEntry, Done
  <2>2. TreeInv'
    BY <1>3, <1>4, <1>9, <2>1, Zenon
  <2>3. Space[v] # None /\ Space' = Space
    BY <1>1, <1>3, <1>8, <1>10, <2>1, EntryFacts, SpaceIs, SpaceKept, Zenon
  <2>4. Answer' = "EXISTS"
    BY <1>5, <2>1, Zenon DEF Answer
  <2>5. A!AMap(v)
    BY <1>12, <2>1, <2>3, <2>4, Zenon DEF A!AMap, Space, Answer, Asked
  <2> QED BY <2>2, <2>5, Zenon
<1>11. CASE ~mem[t][Index(v, 1)].present
  <2>1. PICK e : e = LeafEntry(call.to, call.flags)
    BY Zenon
  <2>2. mem' = [mem EXCEPT ![t][Index(v, 1)] = e] /\ rc' = "OK" /\ call' = NoCall
    BY <1>1, <1>6, <1>7, <1>11, <2>1, Zenon DEF SetEntry, Done
  <2>3. call.to \in Targets /\ call.flags \in FlagSets
    BY <1>3, Zenon DEF CallRec
  <2>4. e \in { LeafEntry(to, flags) : to \in Targets, flags \in FlagSets }
    BY <2>1, <2>3
  <2>5. /\ mem' \in Memory /\ Tree(mem', root, L)
        /\ TransIn(mem', root, v) = e
        /\ \A u \in VPage : u # v => TransIn(mem', root, u) = TransIn(mem, root, u)
    <3>1. LeafSet(mem, mem', t, v, e)
      BY <2>2, Zenon DEF LeafSet
    <3>2. e \in EntrySet
      BY <2>4 DEF EntrySet
    <3>3. mem \in Memory /\ Tree(mem, root, L) /\ t = WalkIn(mem, root, v)[1] /\ t # NoFrame
      BY <1>3, <1>4, <1>7, Zenon
    <3>4. PICK n : n = mem'
      BY Zenon
    <3>5. /\ n \in Memory /\ Tree(n, root, L) /\ TransIn(n, root, v) = e
          /\ \A u \in VPage : u # v => TransIn(n, root, u) = TransIn(mem, root, u)
      BY <3>1, <3>2, <3>3, <3>4, LeafWritten
    <3> QED BY <3>4, <3>5, Zenon
  <2>6. TreeInv'
    BY <1>9, <2>2, <2>5, Zenon
  <2>7. Space[v] = None /\ Space'[v] = e /\ \A u \in VPage \ {v} : Space'[u] = Space[u]
    BY <1>1, <1>3, <1>8, <1>11, <2>5, EntryFacts, SpaceOne, Zenon
  <2>8. Answer' = "OK"
    BY <1>5, <2>2, Zenon DEF Answer
  <2>9. A!AMap(v)
    BY <1>12, <2>1, <2>2, <2>7, <2>8, Zenon DEF A!AMap, A!OnlyPage, Space, Answer, Asked
  <2> QED BY <2>6, <2>9, Zenon
<1> QED BY <1>10, <1>11, Zenon

(* vmm_unmap_page.                                                         *)
LEMMA UnmapTree ==
  ASSUME TreeInv, NEW v \in VAddrs, UnmapPage(v)
  PROVE  /\ TreeInv'
         /\ \/ Space' = Space /\ Answer' = "INVAL" /\ call' = NoCall
            \/ \E w \in VPage : A!AUnmap(w)
<1>1. root # NoFrame /\ ~dirty /\ call = NoCall /\ UNCHANGED <<pvars, root, tables, dirty>>
  BY Zenon DEF UnmapPage
<1>2. root \in Frame /\ dirty' \in BOOLEAN /\ ~dirty' /\ mem \in Memory
      /\ UNCHANGED owned /\ tables \subseteq owned
  BY <1>1, Zenon DEF TreeInv, VmmTypes, pvars
<1>3. PICK L : Tree(mem, root, L) /\ tables = L[1] \cup L[2] \cup L[3] \cup L[4]
  BY <1>1, Zenon DEF TreeInv, Holds
<1>4. ASSUME mem' \in Memory, Tree(mem', root, L), call' = NoCall PROVE TreeInv'
  <2>1. Holds(mem', root', call', tables')
    BY <1>1, <1>3, <1>4, Zenon DEF Holds, CallAt
  <2> QED BY <1>1, <1>2, <1>4, <2>1, Zenon DEF TreeInv, VmmTypes
<1>5. CASE Done("INVAL") /\ UNCHANGED mem
  <2>1. TreeInv'
    BY <1>2, <1>3, <1>4, <1>5, Zenon DEF Done
  <2>2. Answer' = "INVAL" /\ call' = NoCall
    BY <1>2, <1>5, Zenon DEF Done, Answer
  <2> QED BY <1>1, <1>5, <2>1, <2>2, SpaceKept, Zenon
<1>9. ASSUME call' = NoCall PROVE Asked = NoCall /\ Asked' = NoCall
  BY <1>1, <1>9, Zenon DEF Asked
<1>6. ASSUME Canonical(v), Aligned(v) PROVE v \in VPage
  BY <1>6, Zenon DEF VPage
<1>7. CASE /\ Canonical(v) /\ Aligned(v) /\ ~Translate(v).present
           /\ Done("NOT_FOUND") /\ UNCHANGED mem
  <2>1. TreeInv'
    BY <1>2, <1>3, <1>4, <1>7, Zenon DEF Done
  <2>2. v \in VPage /\ v \in Nat
    BY <1>6, <1>7, PagesAreNumbers, Zenon
  <2>3. TransIn(mem, root, v) \in EntrySet
    <3>1. CASE WalkIn(mem, root, v)[1] = NoFrame
      BY <3>1, EntryFacts, Zenon DEF TransIn
    <3>2. CASE WalkIn(mem, root, v)[1] # NoFrame
      <4>1. WalkIn(mem, root, v)[1] \in L[1]
        BY <1>3, <2>2, <3>2, WalkInTree
      <4>2. WalkIn(mem, root, v)[1] \in Frame /\ Index(v, 1) \in Idx
        BY <1>3, <2>2, <4>1, IndexIn DEF Tree
      <4> QED BY <1>2, <3>2, <4>2, MemoryHas, Zenon DEF TransIn
    <3> QED BY <3>1, <3>2, Zenon
  <2>4. Space[v] = None /\ Space' = Space
    BY <1>1, <1>7, <2>2, <2>3, TranslateIs, EntryFacts, SpaceIs, SpaceKept, Zenon
  <2>5. Answer' = "NOT_FOUND"
    BY <1>2, <1>7, Zenon DEF Done, Answer
  <2>6. A!AUnmap(v)
    BY <1>9, <1>7, <2>4, <2>5, Zenon DEF A!AUnmap, Space, Answer, Asked, Done
  <2> QED BY <2>1, <2>2, <2>6, Zenon
<1>8. CASE /\ Canonical(v) /\ Aligned(v) /\ Translate(v).present
           /\ mem' = [mem EXCEPT ![PageTable(v)][Index(v, 1)] = None] /\ Done("OK")
  <2>2. v \in VPage
    BY <1>6, <1>8, Zenon
  <2>3. PICK t : t = WalkIn(mem, root, v)[1]
    BY Zenon
  <2>4. t # NoFrame
    BY <1>8, <2>3, TranslateIs, EntryFacts, Zenon DEF TransIn
  <2>5. mem' = [mem EXCEPT ![t][Index(v, 1)] = None]
    BY <1>8, <2>3, TranslateIs, Zenon
  <2>6. /\ mem' \in Memory /\ Tree(mem', root, L)
        /\ TransIn(mem', root, v) = None
        /\ \A u \in VPage : u # v => TransIn(mem', root, u) = TransIn(mem, root, u)
    <3>1. PICK n : n = mem'
      BY Zenon
    <3>2. LeafSet(mem, n, t, v, None) /\ None \in EntrySet
      BY <2>5, <3>1, EntryFacts, Zenon DEF LeafSet
    <3>3. /\ n \in Memory /\ Tree(n, root, L) /\ TransIn(n, root, v) = None
          /\ \A u \in VPage : u # v => TransIn(n, root, u) = TransIn(mem, root, u)
      BY <1>2, <1>3, <2>2, <2>3, <2>4, <3>2, LeafWritten
    <3> QED BY <3>1, <3>3, Zenon
  <2>7. TreeInv'
    BY <1>4, <1>8, <2>6, Zenon DEF Done
  <2>8. Space[v] # None /\ Space'[v] = None /\ \A u \in VPage \ {v} : Space'[u] = Space[u]
    BY <1>1, <1>8, <2>2, <2>6, TranslateIs, EntryFacts, SpaceOne, Zenon
  <2>9. Answer' = "OK"
    BY <1>2, <1>8, Zenon DEF Done, Answer
  <2>10. A!AUnmap(v)
    BY <1>8, <1>9, <2>8, <2>9, Zenon DEF A!AUnmap, A!OnlyPage, Space, Answer, Asked, Done
  <2> QED BY <2>2, <2>7, <2>10, Zenon
<1> QED BY <1>5, <1>7, <1>8, Zenon DEF UnmapPage

(* The other callers of the memory manager keep their hands off the tables.*)
LEMMA OthersTree ==
  ASSUME TreeInv, OtherCalls
  PROVE  TreeInv' /\ Space' = Space /\ Answer' = Answer /\ call' = call
<1>1. UNCHANGED <<root, mem, call, rc, tables, dirty>> /\ tables \cap owned \subseteq owned'
  BY Zenon DEF OtherCalls, vmvars
<1>2. root # NoFrame /\ ~dirty => Holds(mem', root', call', tables') /\ tables' \subseteq owned'
  BY <1>1, Zenon DEF TreeInv
<1>3. VmmTypes'
  BY <1>1, Zenon DEF TreeInv, VmmTypes
<1>4. TreeInv'
  BY <1>1, <1>2, <1>3, Zenon DEF TreeInv
<1> QED BY <1>1, <1>4, SpaceKept, Zenon DEF Answer

(* A vmm_map_page that begins asks for one of the mappings.                *)
LEMMA MapIsAsked ==
  ASSUME Space' = Space, Answer' = Answer, call = NoCall, call' \in CallRec
  PROVE  A!AAsk
<1>1. Asked = NoCall
  BY Zenon DEF Asked
<1>2. call' # NoCall /\ call'.v \in VPage /\ call'.to \in Targets /\ call'.flags \in FlagSets
  BY CallDiffers, Zenon DEF CallRec
<1>3. LeafEntry(call'.to, call'.flags) \in Leaves
  BY <1>2 DEF Leaves
<1>4. Asked' = [page |-> call'.v, target |-> LeafEntry(call'.to, call'.flags)]
  BY <1>2, Zenon DEF Asked
<1>5. Asked' \in [page : VPage, target : Leaves]
  BY <1>2, <1>3, <1>4
<1> QED BY <1>1, <1>5, Zenon DEF A!AAsk, Space, Answer, Asked

LEMMA StepTree ==
  ASSUME TreeInv, PmmInv, [Next]_vars
  PROVE  TreeInv' /\ [A!ANext]_(A!avars)
<1>1. ASSUME Space' = Space, Answer' = Answer, Asked' = Asked PROVE [A!ANext]_(A!avars)
  BY <1>1, Zenon DEF A!avars, Space, Answer, Asked
<1>2. ASSUME Space' = Space, Answer' \in {"INVAL", "NOMEM"}, call' = NoCall PROVE [A!ANext]_(A!avars)
  <2>1. Asked' = NoCall
    BY <1>2, Zenon DEF Asked
  <2>2. A!AError
    BY <1>2, <2>1, Zenon DEF A!AError, Space, Answer, Asked
  <2> QED BY <2>2, Zenon DEF A!ANext
<1>3. ASSUME NEW v \in VPage, A!AMap(v) \/ A!AUnmap(v) PROVE [A!ANext]_(A!avars)
  <2>1. A!ANext
    BY <1>3, Zenon DEF A!ANext
  <2> QED BY <2>1, Zenon
<1>12. call' = call => Asked' = Asked
  BY Zenon DEF Asked
<1>4. CASE VmmInit
  BY <1>1, <1>4, <1>12, VmmInitTree, Zenon
<1>5. ASSUME NEW v \in VAddrs, NEW to \in Targets, NEW flags \in FlagSets, MapPage(v, to, flags)
      PROVE  TreeInv' /\ [A!ANext]_(A!avars)
  <2>1. /\ TreeInv' /\ Space' = Space
        /\ \/ Answer' = "INVAL" /\ call' = NoCall
           \/ Answer' = Answer /\ call = NoCall /\ call' \in CallRec
    BY <1>5, MapPageTree, Zenon
  <2>2. CASE Answer' = "INVAL" /\ call' = NoCall
    BY <1>2, <2>1, <2>2, Zenon
  <2>3. CASE Answer' = Answer /\ call = NoCall /\ call' \in CallRec
    <3>1. A!AAsk
      BY <2>1, <2>3, MapIsAsked, Zenon
    <3> QED BY <2>1, <3>1, Zenon DEF A!ANext
  <2> QED BY <2>1, <2>2, <2>3, Zenon
<1>6. CASE NextTable
  BY <1>1, <1>6, NextTableTree, Zenon
<1>7. CASE NewTable
  <2>1. /\ TreeInv' /\ Space' = Space
        /\ \/ Answer' = Answer /\ Asked' = Asked
           \/ Answer' = "NOMEM" /\ call' = NoCall
    BY <1>7, NewTableTree, Zenon
  <2> QED BY <1>1, <1>2, <2>1, Zenon
<1>8. CASE MapLeaf
  BY <1>3, <1>8, MapLeafTree, Zenon
<1>9. ASSUME NEW v \in VAddrs, UnmapPage(v) PROVE TreeInv' /\ [A!ANext]_(A!avars)
  <2>1. /\ TreeInv'
        /\ \/ Space' = Space /\ Answer' = "INVAL" /\ call' = NoCall
           \/ \E w \in VPage : A!AUnmap(w)
    BY <1>9, UnmapTree, Zenon
  <2> QED BY <1>2, <1>3, <2>1, Zenon
<1>10. CASE OtherCalls
  BY <1>1, <1>10, <1>12, OthersTree, Zenon
<1>11. CASE UNCHANGED vars
  <2>1. UNCHANGED <<root, mem, call, rc, tables, dirty, owned>>
    BY <1>11, Zenon DEF vars, pvars, vmvars
  <2>2. TreeInv'
    BY <2>1, Zenon DEF TreeInv, VmmTypes
  <2>3. Space' = Space /\ Answer' = Answer
    BY <2>1, SpaceKept, Zenon DEF Answer
  <2> QED BY <1>1, <1>12, <2>1, <2>2, <2>3, Zenon
<1> QED BY <1>4, <1>5, <1>6, <1>7, <1>8, <1>9, <1>10, <1>11, Zenon DEF Next

-----------------------------------------------------------------------------
(* Division by the page size.                                              *)
LEMMA PageArithmetic ==
  ASSUME NEW a \in Nat
  PROVE  /\ a % PageSize \in 0..(PageSize - 1)
         /\ a \div PageSize \in Nat
         /\ a = PageSize * (a \div PageSize) + (a % PageSize)
BY PmmAssumption

LEMMA PagesOrdered ==
  ASSUME NEW f \in Nat, NEW k \in Nat
  PROVE  /\ f * PageSize < k * PageSize => (f + 1) * PageSize <= k * PageSize
         /\ k * PageSize < (f + 1) * PageSize => k * PageSize <= f * PageSize
BY PmmAssumption

-----------------------------------------------------------------------------
(* Every set of frames is finite, and has as many as it and its complement *)
(* do not share.                                                           *)
LEMMA FramesFinite ==
  /\ IsFiniteSet(Frame) /\ Cardinality(Frame) = FrameCount
  /\ \A S \in SUBSET Frame :
       IsFiniteSet(S) /\ Cardinality(S) \in Nat /\ Cardinality(S) <= FrameCount
<1>1. IsFiniteSet(Frame) /\ Cardinality(Frame) = FrameCount
  BY PmmAssumption, FS_Interval DEF Frame
<1> QED BY <1>1, FS_Subset, FS_CardinalityType, Zenon

(* mark_frame_used counts each frame that was free once.                   *)
LEMMA CountUsed ==
  ASSUME NEW U \in SUBSET Frame, NEW S \in SUBSET Frame
  PROVE  /\ Cardinality(Frame \ (U \cup S)) = Cardinality(Frame \ U) - Cardinality(S \ U)
         /\ Cardinality(U \cup S) = Cardinality(U) + Cardinality(S \ U)
         /\ Cardinality(Frame \ U) >= Cardinality(S \ U)
         /\ Cardinality(S \ U) \in Nat
<1>1. /\ Frame \ (U \cup S) = (Frame \ U) \ (S \ U)
      /\ (Frame \ U) \cap (S \ U) = S \ U
      /\ U \cup S = U \cup (S \ U)
      /\ U \cap (S \ U) = {}
  BY Zenon
<1>2. IsFiniteSet(Frame \ U) /\ IsFiniteSet(U) /\ IsFiniteSet(S \ U)
      /\ Cardinality(U) \in Nat /\ Cardinality(S \ U) \in Nat /\ Cardinality(Frame \ U) \in Nat
  <2>1. Frame \ U \in SUBSET Frame /\ S \ U \in SUBSET Frame
    BY Zenon
  <2> QED BY <2>1, FramesFinite, Zenon
<1>3. Cardinality((Frame \ U) \ (S \ U)) = Cardinality(Frame \ U) - Cardinality((Frame \ U) \cap (S \ U))
  BY <1>2, FS_Difference, Zenon
<1>4. Cardinality(U \cup (S \ U)) = Cardinality(U) + Cardinality(S \ U) - Cardinality(U \cap (S \ U))
  BY <1>2, FS_Union, Zenon
<1>5. Cardinality(Frame \ U) >= Cardinality(S \ U)
  <2>1. S \ U \in SUBSET (Frame \ U)
    BY Zenon
  <2> QED BY <1>2, <2>1, FS_Subset, Zenon
<1>6. Cardinality(Frame \ (U \cup S)) = Cardinality(Frame \ U) - Cardinality(S \ U)
  BY <1>1, <1>3, Zenon
<1>7. Cardinality(U \cup S) = Cardinality(U) + Cardinality(S \ U)
  <2>1. Cardinality(U \cup S) = Cardinality(U) + Cardinality(S \ U) - Cardinality({})
    BY <1>1, <1>4, Zenon
  <2> QED BY <1>2, <2>1, FS_EmptySet
<1> QED BY <1>2, <1>5, <1>6, <1>7, Zenon

(* mark_frame_free counts one frame that was used.                         *)
LEMMA CountFreed ==
  ASSUME NEW U \in SUBSET Frame, NEW f \in U
  PROVE  /\ Cardinality(Frame \ (U \ {f})) = Cardinality(Frame \ U) + 1
         /\ Cardinality(U \ {f}) = Cardinality(U) - 1
         /\ Cardinality(U) >= 1
         /\ Cardinality(U) \in Nat /\ Cardinality(Frame \ U) \in Nat
<1>1. Frame \ (U \ {f}) = (Frame \ U) \cup {f} /\ f \notin Frame \ U
  BY Zenon
<1>2. IsFiniteSet(Frame \ U) /\ IsFiniteSet(U)
      /\ Cardinality(U) \in Nat /\ Cardinality(Frame \ U) \in Nat /\ Cardinality(U \ {f}) \in Nat
  <2>1. Frame \ U \in SUBSET Frame /\ U \ {f} \in SUBSET Frame
    BY Zenon
  <2> QED BY <2>1, FramesFinite, Zenon
<1>3. Cardinality((Frame \ U) \cup {f}) = Cardinality(Frame \ U) + 1
  BY <1>1, <1>2, FS_AddElement, Zenon
<1>4. Cardinality(U \ {f}) = Cardinality(U) - 1
  BY <1>2, FS_RemoveElement, Zenon
<1> QED BY <1>1, <1>2, <1>3, <1>4

-----------------------------------------------------------------------------
(* The loops over ranges of addresses only meet frames.                    *)
LEMMA RangesAreFrames ==
  \A base, length : FreeRange(base, length) \subseteq Frame /\ UsedRange(base, length) \subseteq Frame
BY Zenon DEF FreeRange, UsedRange, FramesFrom

(* Before pmm_init_from_map nothing is used, owned or counted.             *)
LEMMA InitPmm == PInit => PmmInv
BY PmmAssumption DEF PInit, PmmInv, PTypeOK, CountsExact, HintBelowFree, OwnedAreUsed, Frame

(* pmm_init_from_map leaves exactly the usable frames free.                *)
LEMMA InitFromMapKeeps ==
  ASSUME PmmInv, NEW m \in Maps, InitFromMap(m)
  PROVE  PmmInv'
<1> DEFINE freed == UNION { FreeRange(r.base, r.length) : r \in { x \in m : x.usable } }
           kept == {0} \cup UNION { UsedRange(r.base, r.length) : r \in { x \in m : ~x.usable } }
<1>1. freed \subseteq Frame /\ kept \subseteq Frame /\ 0 \in kept
  BY RangesAreFrames, PmmAssumption DEF Frame
<1>2. /\ used' = (Frame \ freed) \cup kept
      /\ freeFrames' = Cardinality(freed \ kept)
      /\ usedFrames' = FrameCount - Cardinality(freed \ kept)
      /\ hint' = 0 /\ map' = m /\ ready' = TRUE /\ ~ready
      /\ UNCHANGED <<owned, strays>>
  BY Zenon DEF InitFromMap
<1> HIDE DEF freed, kept
<1>3. used' \subseteq Frame /\ Frame \ used' = freed \ kept /\ used' = Frame \ (freed \ kept)
      /\ Frame \cap (freed \ kept) = freed \ kept /\ freed \ kept \in SUBSET Frame
  BY <1>1, <1>2, Zenon
<1>4. Cardinality(used') = FrameCount - Cardinality(freed \ kept)
  <2>1. Cardinality(Frame \ (freed \ kept)) = Cardinality(Frame) - Cardinality(Frame \cap (freed \ kept))
    BY FramesFinite, FS_Difference, Zenon
  <2> QED BY <1>3, <2>1, FramesFinite, Zenon
<1>5. Cardinality(freed \ kept) \in Nat /\ Cardinality(freed \ kept) <= FrameCount
  BY <1>3, FramesFinite, Zenon
<1>6. PTypeOK'
  BY <1>2, <1>3, <1>5, PmmAssumption DEF PmmInv, PTypeOK
<1>7. CountsExact'
  BY <1>2, <1>3, <1>4, Zenon DEF CountsExact
<1>8. HintBelowFree'
  BY <1>2, PmmAssumption DEF HintBelowFree, Frame
<1>9. OwnedAreUsed'
  BY <1>1, <1>2, Zenon DEF PmmInv, OwnedAreUsed
<1> QED BY <1>6, <1>7, <1>8, <1>9, Zenon DEF PmmInv

(* mark_frame_used keeps the counters exact.                               *)
LEMMA MarkUsedCounts ==
  ASSUME PmmInv, ready, NEW S \in SUBSET Frame, MarkUsed(S)
  PROVE  /\ used' = used \cup S /\ used' \subseteq Frame
         /\ freeFrames' \in Nat /\ usedFrames' \in Nat
         /\ freeFrames' = Cardinality(Frame \ used')
         /\ usedFrames' = Cardinality(used')
<1>1. used \in SUBSET Frame /\ freeFrames = Cardinality(Frame \ used) /\ usedFrames = Cardinality(used)
      /\ freeFrames \in Nat /\ usedFrames \in Nat
  BY Zenon DEF PmmInv, PTypeOK, CountsExact
<1>2. /\ used' = used \cup S
      /\ freeFrames' = Less(freeFrames, Cardinality(S \ used))
      /\ usedFrames' = usedFrames + Cardinality(S \ used)
  BY Zenon DEF MarkUsed
<1>3. /\ Cardinality(Frame \ (used \cup S)) = Cardinality(Frame \ used) - Cardinality(S \ used)
      /\ Cardinality(used \cup S) = Cardinality(used) + Cardinality(S \ used)
      /\ Cardinality(Frame \ used) >= Cardinality(S \ used)
      /\ Cardinality(S \ used) \in Nat
  BY <1>1, CountUsed, Zenon
<1>4. used' \subseteq Frame
  BY <1>1, <1>2, Zenon
<1> QED BY <1>1, <1>2, <1>3, <1>4 DEF Less

(* pmm_alloc_frame takes the lowest free frame.                            *)
LEMMA AllocKeeps ==
  ASSUME PmmInv, AllocFrame
  PROVE  PmmInv'
<1> DEFINE above == { f \in Frame \ used : f >= hint }
           below == { f \in Frame \ used : f < hint }
           found == IF above # {} THEN above ELSE below
<1>1. PICK f \in found : /\ Lowest(found, f) /\ MarkUsed({f}) /\ hint' = f + 1
                         /\ owned' = owned \cup {f}
  BY Zenon DEF AllocFrame
<1>2. ready /\ UNCHANGED <<ready, map, strays>>
  BY Zenon DEF AllocFrame
<1>3. used \subseteq Frame /\ hint \in 0..FrameCount /\ \A g \in Frame \ used : hint <= g
  BY <1>2, Zenon DEF PmmInv, PTypeOK, HintBelowFree
<1>4. f \in Frame \ used /\ \A g \in Frame \ used : f <= g
  BY <1>1, <1>3, PmmAssumption, Zenon DEF Lowest, Frame
<1>5. /\ used' = used \cup {f} /\ used' \subseteq Frame
      /\ freeFrames' \in Nat /\ usedFrames' \in Nat
      /\ freeFrames' = Cardinality(Frame \ used')
      /\ usedFrames' = Cardinality(used')
  BY <1>1, <1>2, <1>4, MarkUsedCounts, Zenon
<1> HIDE DEF found
<1>6. PTypeOK'
  BY <1>1, <1>2, <1>4, <1>5, PmmAssumption DEF PmmInv, PTypeOK, Frame
<1>7. CountsExact'
  BY <1>5, Zenon DEF CountsExact
<1>8. HintBelowFree'
  BY <1>1, <1>4, <1>5, PmmAssumption DEF HintBelowFree, Frame
<1>9. OwnedAreUsed'
  BY <1>1, <1>2, <1>4, <1>5, Zenon DEF PmmInv, OwnedAreUsed
<1> QED BY <1>6, <1>7, <1>8, <1>9, Zenon DEF PmmInv

(* pmm_free_frame moves the hint back if it has to, and never frees frame  *)
(* 0.                                                                      *)
LEMMA FreeKeeps ==
  ASSUME PmmInv, NEW a \in Addrs, FreeFrame(a)
  PROVE  PmmInv'
<1> DEFINE f == a \div PageSize
<1>1. ready /\ f \in used /\ a # 0 /\ a % PageSize = 0 /\ UNCHANGED <<ready, map>>
  BY Zenon DEF FreeFrame, Freeable
<1>2. f # 0
  BY <1>1, PageArithmetic, PmmAssumption DEF Addr
<1>3. /\ used' = used \ {f}
      /\ freeFrames' = freeFrames + 1
      /\ usedFrames' = Less(usedFrames, 1)
      /\ hint' = IF f < hint THEN f ELSE hint
      /\ owned' = owned \ {f}
      /\ strays' = strays \cup ({f} \ owned)
  BY Zenon DEF FreeFrame, MarkFree
<1> HIDE DEF f
<1>4. used \in SUBSET Frame /\ freeFrames = Cardinality(Frame \ used) /\ usedFrames = Cardinality(used)
      /\ freeFrames \in Nat /\ usedFrames \in Nat /\ hint \in 0..FrameCount
      /\ \A g \in Frame \ used : hint <= g
  BY <1>1, Zenon DEF PmmInv, PTypeOK, CountsExact, HintBelowFree
<1>5. /\ Cardinality(Frame \ (used \ {f})) = Cardinality(Frame \ used) + 1
      /\ Cardinality(used \ {f}) = Cardinality(used) - 1
      /\ Cardinality(used) >= 1
  BY <1>1, <1>4, CountFreed, Zenon
<1>6. f \in Frame /\ f \in Nat
  BY <1>1, <1>4, PmmAssumption DEF Frame
<1>7. PTypeOK'
  <2>1. freeFrames' \in Nat /\ usedFrames' \in Nat /\ hint' \in 0..FrameCount
    BY <1>3, <1>4, <1>6, PmmAssumption DEF Less, Frame
  <2> QED BY <1>1, <1>3, <1>4, <1>6, <2>1, Zenon DEF PmmInv, PTypeOK
<1>8. CountsExact'
  BY <1>3, <1>4, <1>5, Zenon DEF CountsExact, Less
<1>9. HintBelowFree'
  BY <1>3, <1>4, <1>6, PmmAssumption DEF HintBelowFree, Frame
<1>10. OwnedAreUsed'
  BY <1>1, <1>2, <1>3, Zenon DEF PmmInv, OwnedAreUsed
<1> QED BY <1>7, <1>8, <1>9, <1>10, Zenon DEF PmmInv

(* pmm_reserve_range, also of frames that are used already.                *)
LEMMA ReserveKeeps ==
  ASSUME PmmInv, NEW r \in Ranges, ReserveRange(r.base, r.length)
  PROVE  PmmInv'
<1>1. UNCHANGED <<ready, hint, map, owned, strays>>
  BY Zenon DEF ReserveRange
<1>2. CASE ready /\ r.length # 0
  <2> DEFINE S == UsedRange(r.base, r.length)
  <2>1. S \in SUBSET Frame /\ MarkUsed(S)
    BY <1>2, RangesAreFrames, Zenon DEF ReserveRange
  <2> HIDE DEF S
  <2>2. /\ used' = used \cup S /\ used' \subseteq Frame
        /\ freeFrames' \in Nat /\ usedFrames' \in Nat
        /\ freeFrames' = Cardinality(Frame \ used')
        /\ usedFrames' = Cardinality(used')
    BY <1>2, <2>1, MarkUsedCounts, Zenon
  <2> QED BY <1>1, <2>2, Zenon DEF PmmInv, PTypeOK, CountsExact, HintBelowFree, OwnedAreUsed
<1>3. CASE ~(ready /\ r.length # 0)
  BY <1>1, <1>3 DEF ReserveRange, PmmInv, PTypeOK, CountsExact, HintBelowFree, OwnedAreUsed
<1> QED BY <1>2, <1>3, Zenon

(* The other steps change nothing but the result.                          *)
LEMMA OthersKeep ==
  ASSUME PmmInv, UNCHANGED <<ready, used, freeFrames, usedFrames, hint, map, owned, strays>>
  PROVE  PmmInv'
BY Zenon DEF PmmInv, PTypeOK, CountsExact, HintBelowFree, OwnedAreUsed

LEMMA NextPmm == PmmInv /\ [PNext]_pvars => PmmInv'
<1> SUFFICES ASSUME PmmInv, [PNext]_pvars PROVE PmmInv'
  BY Zenon
<1>1. CASE AllocFails
  BY <1>1, OthersKeep, Zenon DEF AllocFails
<1>2. ASSUME NEW a \in Addrs, FreeRefused(a) PROVE PmmInv'
  BY <1>2, OthersKeep, Zenon DEF FreeRefused
<1>3. CASE UNCHANGED pvars
  BY <1>3, OthersKeep, Zenon DEF pvars
<1> QED BY <1>1, <1>2, <1>3, InitFromMapKeeps, AllocKeeps, FreeKeeps, ReserveKeeps, Zenon DEF PNext

(* The counters count the bitmap, every frame below the hint is used, and  *)
(* no frame is handed out twice, whatever pmm.c is called with.            *)
THEOREM PmmHolds == PSpec => []PmmInv
BY InitPmm, NextPmm, PTL DEF PSpec

(* pmm_alloc_frame fails only when there is no free frame.                 *)
THEOREM AllocFindsFrames == PSpec => AllocFailsOnlyWhenFull
<1>1. PmmInv /\ AllocFails /\ ready => Frame \subseteq used
  <2> SUFFICES ASSUME PmmInv, ready, freeFrames = 0 PROVE Frame \ used = {}
    BY Zenon DEF AllocFails
  <2>1. Cardinality(Frame \ used) = 0 /\ Frame \ used \in SUBSET Frame
    BY Zenon DEF PmmInv, CountsExact
  <2> QED BY <2>1, FramesFinite, FS_EmptySet, Zenon
<1> QED BY <1>1, PmmHolds, PTL DEF AllocFailsOnlyWhenFull

-----------------------------------------------------------------------------
(* What is free or handed out is usable: the inductive form of             *)
(* OwnedAreUsable.                                                         *)
FreeAreUsable == ready => \A f \in ((Frame \ used) \cup owned) \ strays : Usable(f)

(* align_down and align_up go to the nearest page, if that is an address.  *)
LEMMA AlignBounds ==
  ASSUME NEW a \in Addr
  PROVE  /\ \E k \in Nat : AlignDown(a) = k * PageSize
         /\ AlignDown(a) <= a
         /\ a <= AddrSpace - PageSize => a <= AlignUp(a)
         /\ AlignDown(a) \in Nat /\ AlignUp(a) \in Nat
<1>1. AddrSpace \in Nat /\ PageSize \in Nat \ {0} /\ a \in Nat /\ a < AddrSpace
  BY PmmAssumption DEF Addr
<1>2. ASSUME NEW b \in Nat
      PROVE  /\ AlignDown(b) = (b \div PageSize) * PageSize /\ b \div PageSize \in Nat
             /\ AlignDown(b) <= b /\ b - PageSize + 1 <= AlignDown(b)
             /\ AlignDown(b) \in Nat
  BY <1>1, PageArithmetic DEF AlignDown
<1>3. (a + PageSize - 1) % AddrSpace \in Nat
  BY <1>1
<1>4. ASSUME a <= AddrSpace - PageSize PROVE a <= AlignUp(a)
  <2>1. (a + PageSize - 1) % AddrSpace = a + PageSize - 1
    BY <1>1, <1>4
  <2>2. a + PageSize - 1 \in Nat
    BY <1>1
  <2> QED BY <1>1, <1>2, <2>1, <2>2 DEF AlignUp
<1>5. AlignUp(a) \in Nat
  BY <1>2, <1>3, Zenon DEF AlignUp
<1> QED BY <1>1, <1>2, <1>4, <1>5, Zenon

(* mark_range_free frees only frames that lie in the region entirely.      *)
LEMMA FreeInside ==
  ASSUME NEW r \in [base : Addr, length : Addr, usable : BOOLEAN], r.usable, ~Wraps(r),
         NEW f \in FreeRange(r.base, r.length)
  PROVE  Inside(f, r)
<1>1. /\ ~Overflows(r.base, r.length) /\ f \in Nat
      /\ AlignUp(r.base) <= f * PageSize /\ f * PageSize < AlignDown(r.base + r.length)
  BY PmmAssumption DEF FreeRange, FramesFrom, Frame
<1>2. r.base \in Addr /\ r.base + r.length \in Addr /\ r.base \in Nat /\ r.length \in Nat
  BY <1>1, PmmAssumption DEF Overflows, Addr
<1>3. r.base <= AddrSpace - PageSize
  BY <1>1, <1>2, PmmAssumption DEF Wraps
<1>4. r.base <= AlignUp(r.base) /\ AlignUp(r.base) \in Nat
  BY <1>2, <1>3, AlignBounds, Zenon
<1>5. PICK k \in Nat : AlignDown(r.base + r.length) = k * PageSize
  BY <1>2, AlignBounds, Zenon
<1>6. (f + 1) * PageSize <= AlignDown(r.base + r.length) /\ AlignDown(r.base + r.length) <= r.base + r.length
      /\ AlignDown(r.base + r.length) \in Nat
  BY <1>1, <1>2, <1>5, AlignBounds, PagesOrdered
<1>7. f * PageSize \in Nat /\ (f + 1) * PageSize \in Nat
  BY <1>1, PmmAssumption
<1> QED BY <1>1, <1>2, <1>4, <1>6, <1>7 DEF Inside

(* mark_range_used marks every frame that the region touches.              *)
LEMMA TouchedMarked ==
  ASSUME NEW r \in [base : Addr, length : Addr, usable : BOOLEAN], ~r.usable, ~Wraps(r),
         NEW f \in Frame, Touches(f, r)
  PROVE  f \in UsedRange(r.base, r.length)
<1>1. /\ ~Overflows(r.base, r.length) /\ f \in Nat /\ r.length # 0
      /\ r.base < (f + 1) * PageSize /\ f * PageSize < r.base + r.length
  BY PmmAssumption DEF Touches, Frame
<1>2. r.base \in Addr /\ r.base + r.length \in Addr /\ r.base \in Nat /\ r.base + r.length \in Nat
  BY <1>1, PmmAssumption DEF Overflows, Addr
<1>3. r.base + r.length <= AddrSpace - PageSize
  BY <1>1, <1>2, PmmAssumption DEF Wraps
<1>4. r.base + r.length <= AlignUp(r.base + r.length) /\ AlignUp(r.base + r.length) \in Nat
  BY <1>2, <1>3, AlignBounds, Zenon
<1>5. PICK k \in Nat : AlignDown(r.base) = k * PageSize
  BY <1>2, AlignBounds, Zenon
<1>6. f * PageSize \in Nat /\ (f + 1) * PageSize \in Nat /\ k * PageSize \in Nat
  BY <1>1, PmmAssumption
<1>7. AlignDown(r.base) <= f * PageSize
  <2>1. k * PageSize < (f + 1) * PageSize
    BY <1>1, <1>2, <1>5, <1>6, AlignBounds
  <2> QED BY <1>1, <1>5, <2>1, PagesOrdered, Zenon
<1>8. f * PageSize < AlignUp(r.base + r.length)
  BY <1>1, <1>2, <1>4, <1>6
<1> QED BY <1>1, <1>7, <1>8, Zenon DEF UsedRange, FramesFrom

(* What pmm_init_from_map leaves free is usable.                           *)
LEMMA InitFromMapUsable ==
  ASSUME PmmInv, NEW m \in Maps, InitFromMap(m)
  PROVE  FreeAreUsable'
<1> DEFINE freed == UNION { FreeRange(r.base, r.length) : r \in { x \in m : x.usable } }
           kept == {0} \cup UNION { UsedRange(r.base, r.length) : r \in { x \in m : ~x.usable } }
<1>1. used' = (Frame \ freed) \cup kept /\ map' = m /\ owned' = {}
  BY Zenon DEF InitFromMap, PmmInv, OwnedAreUsed
<1>2. m \subseteq [base : Addr, length : Addr, usable : BOOLEAN]
  BY PmmAssumption, Zenon
<1> SUFFICES ASSUME NEW f \in Frame, f \in freed, f \notin kept, \A r \in m : ~Wraps(r)
             PROVE  /\ \E r \in m : r.usable /\ Inside(f, r)
                    /\ \A r \in m : ~r.usable => ~Touches(f, r)
  BY <1>1, Zenon DEF FreeAreUsable, Usable, Wraps, Inside, Touches, Overflows
<1>3. \E r \in m : r.usable /\ Inside(f, r)
  <2>1. PICK r \in m : r.usable /\ f \in FreeRange(r.base, r.length)
    BY Zenon
  <2> QED BY <1>2, <2>1, FreeInside, Zenon
<1>4. ASSUME NEW r \in m, ~r.usable, Touches(f, r) PROVE FALSE
  <2>1. f \in UsedRange(r.base, r.length)
    BY <1>2, <1>4, TouchedMarked, Zenon
  <2> QED BY <1>4, <2>1, Zenon
<1> QED BY <1>3, <1>4, Zenon

(* A frame that its owner gives back is as usable as before.               *)
LEMMA NextUsable == PmmInv /\ FreeAreUsable /\ [PNext]_pvars => FreeAreUsable'
<1> SUFFICES ASSUME PmmInv, FreeAreUsable, [PNext]_pvars PROVE FreeAreUsable'
  BY Zenon
<1> DEFINE Candidates == ((Frame \ used) \cup owned) \ strays
<1>1. ASSUME UNCHANGED <<ready, map>>, Candidates' \subseteq Candidates PROVE FreeAreUsable'
  BY <1>1, Zenon DEF FreeAreUsable, Usable, Wraps, Inside, Touches, Overflows
<1>2. CASE AllocFrame
  <2>1. UNCHANGED <<ready, map, strays>>
    BY <1>2, Zenon DEF AllocFrame
  <2>2. PICK f \in Frame \ used : used' = used \cup {f} /\ owned' = owned \cup {f}
    BY <1>2, Zenon DEF AllocFrame, MarkUsed
  <2> QED BY <1>1, <2>1, <2>2, Zenon
<1>3. ASSUME NEW a \in Addrs, FreeFrame(a) PROVE FreeAreUsable'
  <2> DEFINE f == a \div PageSize
  <2>1. /\ UNCHANGED <<ready, map>> /\ used' = used \ {f} /\ owned' = owned \ {f}
        /\ strays' = strays \cup ({f} \ owned)
    BY <1>3, Zenon DEF FreeFrame, MarkFree
  <2> HIDE DEF f
  <2>2. Candidates' \subseteq Candidates
    BY <2>1, Zenon
  <2> QED BY <1>1, <2>1, <2>2, Zenon
<1>4. ASSUME NEW r \in Ranges, ReserveRange(r.base, r.length) PROVE FreeAreUsable'
  <2>1. UNCHANGED <<ready, map, owned, strays>> /\ used \subseteq used'
    BY <1>4, Zenon DEF ReserveRange, MarkUsed
  <2> QED BY <1>1, <2>1, Zenon
<1>5. ASSUME UNCHANGED <<ready, map, used, owned, strays>> PROVE FreeAreUsable'
  BY <1>1, <1>5, Zenon
<1> QED BY <1>2, <1>3, <1>4, <1>5, InitFromMapUsable, Zenon DEF PNext, AllocFails, FreeRefused, pvars

(* pmm_alloc_frame hands out only frames of usable regions, for every      *)
(* memory map, unless somebody frees what was not allocated.               *)
THEOREM OnlyUsableOwned == PSpec => []OwnedAreUsable
<1>1. PInit => FreeAreUsable
  BY Zenon DEF PInit, FreeAreUsable
<1>2. PmmInv /\ FreeAreUsable => OwnedAreUsable
  BY Zenon DEF PmmInv, OwnedAreUsed, FreeAreUsable, OwnedAreUsable
<1> QED BY <1>1, <1>2, NextUsable, PmmHolds, PTL DEF PSpec

-----------------------------------------------------------------------------
(* An entry for each table but the root: the entries of a level are as     *)
(* many as the tables of the next.                                         *)
EntriesIn(m, T) == { x \in T \X Idx : m[x[1]][x[2]].present }

LEMMA EntriesCounted ==
  ASSUME NEW m, NEW r, NEW L, Tree(m, r, L), NEW k \in 1..3
  PROVE  /\ L[k] = { m[x[1]][x[2]].to : x \in EntriesIn(m, L[k + 1]) }
         /\ Cardinality(EntriesIn(m, L[k + 1])) = Cardinality(L[k])
<1>1. PICK E : E = EntriesIn(m, L[k + 1])
  BY Zenon
<1>2. \A y : y \in L[k] <=> \E t \in L[k + 1], i \in Idx : m[t][i].present /\ m[t][i].to = y
  BY Zenon DEF Tree
<1>3. \A x \in E : x[1] \in L[k + 1] /\ x[2] \in Idx /\ m[x[1]][x[2]].present /\ x = <<x[1], x[2]>>
  BY <1>1 DEF EntriesIn
<1>4. \A t \in L[k + 1], i \in Idx : m[t][i].present => <<t, i>> \in E /\ <<t, i>>[1] = t /\ <<t, i>>[2] = i
  BY <1>1, Zenon DEF EntriesIn
<1> DEFINE g == [x \in E |-> m[x[1]][x[2]].to]
<1>5. \A x \in E : g[x] = m[x[1]][x[2]].to
  BY Zenon
<1>6. DOMAIN g = E /\ g = [x \in E |-> g[x]]
  BY Zenon
<1> HIDE DEF g
<1>7. ASSUME NEW x \in E PROVE g[x] \in L[k]
  <2>1. PICK t, i : t = x[1] /\ i = x[2]
    BY Zenon
  <2>2. t \in L[k + 1] /\ i \in Idx /\ m[t][i].present /\ m[t][i].to = g[x]
    BY <1>3, <1>5, <2>1, Zenon
  <2> QED BY <1>2, <2>2, Zenon
<1>8. ASSUME NEW y \in L[k] PROVE \E x \in E : g[x] = y
  <2>1. PICK t \in L[k + 1], i \in Idx : m[t][i].present /\ m[t][i].to = y
    BY <1>2, Zenon
  <2>2. PICK x : x = <<t, i>>
    BY Zenon
  <2>3. x \in E /\ x[1] = t /\ x[2] = i
    BY <1>4, <2>1, <2>2, Zenon
  <2> QED BY <1>5, <2>1, <2>3, Zenon
<1>9. ASSUME NEW x \in E, NEW y \in E, g[x] = g[y] PROVE x = y
  <2>1. PICK t, i : t = x[1] /\ i = x[2] /\ x = <<t, i>>
    BY <1>3, Zenon
  <2>2. PICK u, j : u = y[1] /\ j = y[2] /\ y = <<u, j>>
    BY <1>3, Zenon
  <2>3. /\ t \in L[k + 1] /\ i \in Idx /\ m[t][i].present
        /\ u \in L[k + 1] /\ j \in Idx /\ m[u][j].present
    BY <1>3, <2>1, <2>2, Zenon
  <2>4. m[t][i].to = m[u][j].to
    BY <1>5, <1>9, <2>1, <2>2, Zenon
  <2>5. k + 1 \in 2..4
    OBVIOUS
  <2>6. t = u /\ i = j
    BY <2>3, <2>4, <2>5 DEF Tree
  <2> QED BY <2>1, <2>2, <2>6, Zenon
<1>10. g \in [E -> L[k]]
  BY <1>6, <1>7, Zenon
<1>11. L[k] = { m[x[1]][x[2]].to : x \in E }
  <2>1. { m[x[1]][x[2]].to : x \in E } = { g[x] : x \in E }
    BY <1>5, Zenon
  <2>2. L[k] = { g[x] : x \in E }
    BY <1>7, <1>8, Zenon
  <2> QED BY <2>1, <2>2, Zenon
<1>12. g \in Injection(E, L[k]) /\ g \in Surjection(E, L[k])
  BY <1>8, <1>9, <1>10, Zenon DEF Injection, Surjection, IsInjective
<1>13. IsFiniteSet(L[k])
  <2>1. L[k] \in SUBSET Frame
    BY DEF Tree
  <2> QED BY <2>1, FramesFinite, Zenon
<1>14. Cardinality(E) = Cardinality(L[k])
  BY <1>12, <1>13, FS_Injection, Zenon
<1> QED BY <1>1, <1>11, <1>14, Zenon

LEMMA DisjointUnion ==
  ASSUME NEW S \in SUBSET Frame, NEW T \in SUBSET Frame, S \cap T = {}
  PROVE  /\ Cardinality(S \cup T) = Cardinality(S) + Cardinality(T)
         /\ Cardinality(S) \in Nat /\ Cardinality(T) \in Nat
<1>1. IsFiniteSet(S) /\ IsFiniteSet(T) /\ Cardinality(S) \in Nat /\ Cardinality(T) \in Nat
  BY FramesFinite, Zenon
<1>2. Cardinality(S \cup T) = Cardinality(S) + Cardinality(T) - Cardinality(S \cap T)
  BY <1>1, FS_Union, Zenon
<1>3. Cardinality(S \cap T) = 0
  BY FS_EmptySet, Zenon
<1> QED BY <1>1, <1>2, <1>3

(* The inductive invariant gives the tree that TableTree describes.        *)
LEMMA TreeTable == TreeInv => TableTree
<1> SUFFICES ASSUME TreeInv, root # NoFrame, ~dirty
             PROVE  LET L3 == Below({root})
                        L2 == Below(L3)
                        L1 == Below(L2)
                        reached == {root} \cup L3 \cup L2 \cup L1
                    IN /\ reached \subseteq owned
                       /\ tables \cap owned \subseteq reached
                       /\ Cardinality(reached) = 1 + Cardinality(L3) + Cardinality(L2) + Cardinality(L1)
                       /\ Cardinality(reached) = 1 + Cardinality(Entries({root})) + Cardinality(Entries(L3))
                                                   + Cardinality(Entries(L2))
  BY Zenon DEF TableTree
<1>1. tables \subseteq owned
  BY Zenon DEF TreeInv
<1>2. PICK L : Tree(mem, root, L) /\ tables = L[1] \cup L[2] \cup L[3] \cup L[4]
  BY Zenon DEF TreeInv, Holds
<1>3. L[4] = {root} /\ L \in [1..4 -> SUBSET Frame]
  BY <1>2, Zenon DEF Tree
<1>4. ASSUME NEW k \in 1..3
      PROVE  L[k] = Below(L[k + 1]) /\ Cardinality(Entries(L[k + 1])) = Cardinality(L[k])
  <2>1. PICK m, r : m = mem /\ r = root
    BY Zenon
  <2>2. Tree(m, r, L)
    BY <1>2, <2>1, Zenon
  <2>3. /\ L[k] = { m[x[1]][x[2]].to : x \in EntriesIn(m, L[k + 1]) }
        /\ Cardinality(EntriesIn(m, L[k + 1])) = Cardinality(L[k])
    BY <2>2, EntriesCounted
  <2>4. Entries(L[k + 1]) = EntriesIn(m, L[k + 1])
    BY <2>1, Zenon DEF Entries, EntriesIn
  <2>5. Below(L[k + 1]) = { m[x[1]][x[2]].to : x \in EntriesIn(m, L[k + 1]) }
    BY <2>1, <2>4, Zenon DEF Below
  <2> QED BY <2>3, <2>4, <2>5, Zenon
<1>5. 3 + 1 = 4 /\ 2 + 1 = 3 /\ 1 + 1 = 2 /\ 1 \in 1..3 /\ 2 \in 1..3 /\ 3 \in 1..3
  OBVIOUS
<1>6. /\ L[3] = Below(L[4]) /\ Cardinality(Entries(L[4])) = Cardinality(L[3])
      /\ L[2] = Below(L[3]) /\ Cardinality(Entries(L[3])) = Cardinality(L[2])
      /\ L[1] = Below(L[2]) /\ Cardinality(Entries(L[2])) = Cardinality(L[1])
  BY <1>4, <1>5, Zenon
<1>7. PICK A1, A2, A3, A4 : A1 = L[1] /\ A2 = L[2] /\ A3 = L[3] /\ A4 = L[4]
  BY Zenon
<1>8. A1 \in SUBSET Frame /\ A2 \in SUBSET Frame /\ A3 \in SUBSET Frame /\ A4 \in SUBSET Frame
  BY <1>3, <1>7
<1>9. /\ A1 \cap A2 = {} /\ (A1 \cup A2) \cap A3 = {} /\ (A1 \cup A2 \cup A3) \cap A4 = {}
  <2>1. 1 \in 1..4 /\ 2 \in 1..4 /\ 3 \in 1..4 /\ 4 \in 1..4
    OBVIOUS
  <2>2. \A x : /\ ~(x \in L[1] /\ x \in L[2]) /\ ~(x \in L[1] /\ x \in L[3]) /\ ~(x \in L[2] /\ x \in L[3])
               /\ ~(x \in L[1] /\ x \in L[4]) /\ ~(x \in L[2] /\ x \in L[4]) /\ ~(x \in L[3] /\ x \in L[4])
    BY <1>2, <2>1 DEF Tree
  <2> QED BY <1>7, <2>2, Zenon
<1>10. /\ Cardinality(A1 \cup A2) = Cardinality(A1) + Cardinality(A2)
       /\ Cardinality((A1 \cup A2) \cup A3) = Cardinality(A1 \cup A2) + Cardinality(A3)
       /\ Cardinality((A1 \cup A2 \cup A3) \cup A4) = Cardinality(A1 \cup A2 \cup A3) + Cardinality(A4)
       /\ Cardinality(A1) \in Nat /\ Cardinality(A2) \in Nat /\ Cardinality(A3) \in Nat
  <2>1. A1 \cup A2 \in SUBSET Frame /\ A1 \cup A2 \cup A3 \in SUBSET Frame
    BY <1>8, Zenon
  <2> QED BY <1>8, <1>9, <2>1, DisjointUnion, Zenon
<1>11. Cardinality(A4) = 1
  BY <1>3, <1>7, FS_Singleton, Zenon
<1>12. Cardinality(tables) = 1 + Cardinality(A3) + Cardinality(A2) + Cardinality(A1)
  <2>1. tables = (A1 \cup A2 \cup A3) \cup A4
    BY <1>2, <1>7, Zenon
  <2> QED BY <1>10, <1>11, <2>1
<1>13. /\ Below({root}) = A3 /\ Below(A3) = A2 /\ Below(A2) = A1
       /\ Cardinality(Entries({root})) = Cardinality(A3) /\ Cardinality(Entries(A3)) = Cardinality(A2)
       /\ Cardinality(Entries(A2)) = Cardinality(A1)
  BY <1>3, <1>6, <1>7, Zenon
<1>14. tables = {root} \cup A3 \cup A2 \cup A1
  BY <1>2, <1>3, <1>7, Zenon
<1> QED BY <1>1, <1>12, <1>13, <1>14, Zenon

-----------------------------------------------------------------------------
(* The tables use the memory manager as any other caller does.             *)
LEMMA UsesPmm == Spec => PSpec
<1>1. Init => PInit
  BY Zenon DEF Init
<1>2. [Next]_vars => [PNext]_pvars
  <2> SUFFICES ASSUME [Next]_vars PROVE [PNext]_pvars
    BY Zenon
  <2>1. AllocFrame \/ AllocFails \/ PNext => PNext
    BY Zenon DEF PNext
  <2>2. CASE VmmInit
    BY <2>1, <2>2, Zenon DEF VmmInit
  <2>3. CASE NewTable
    BY <2>1, <2>3, Zenon DEF NewTable
  <2>4. CASE OtherCalls
    BY <2>4, Zenon DEF OtherCalls
  <2>5. ASSUME NEW v \in VAddrs, NEW to \in Targets, NEW flags \in FlagSets, MapPage(v, to, flags)
        PROVE  UNCHANGED pvars
    BY <2>5, Zenon DEF MapPage
  <2>6. ASSUME NEW v \in VAddrs, UnmapPage(v) PROVE UNCHANGED pvars
    BY <2>6, Zenon DEF UnmapPage
  <2>7. CASE NextTable \/ MapLeaf \/ UNCHANGED vars
    BY <2>7, Zenon DEF NextTable, MapLeaf, vars
  <2> QED BY <2>2, <2>3, <2>4, <2>5, <2>6, <2>7, Zenon DEF Next
<1> QED BY <1>1, <1>2, PTL DEF Spec, PSpec

(* With page tables built in its frames, the memory manager's bitmap,      *)
(* counters, hint and owners still agree.                                  *)
THEOREM PmmHoldsUnderVmm == Spec => []PmmInv
BY UsesPmm, PmmHolds, PTL

LEMMA TreeHolds == Spec => []TreeInv
<1>1. TreeInv /\ PmmInv /\ [Next]_vars => TreeInv'
  BY StepTree, Zenon
<1> QED BY <1>1, InitTree, PmmHoldsUnderVmm, PTL DEF Spec

(* The tables reached from the root form a tree of four levels, each       *)
(* entered once and none of them free, and no frame vmm_map_page allocated *)
(* for a table is lost, also when it runs out of memory half way, for every*)
(* memory, every size of table and every sequence of calls.                *)
THEOREM TablesFormATree == Spec => []TableTree
BY TreeHolds, TreeTable, PTL

(* vmm_map_page, vmm_unmap_page and the walk over tables of four levels    *)
(* implement a map from pages to targets: the page given is mapped to the  *)
(* target given, no call changes another page's mapping, and one that fails*)
(* changes none.                                                           *)
THEOREM VmmRefines == Spec => ImplementsAddressSpace
<1>1. Init => A!AInit
  <2> SUFFICES ASSUME Init PROVE A!AInit
    BY Zenon
  <2>1. root = NoFrame /\ dirty = FALSE /\ rc = "OK"
    BY Zenon DEF Init
  <2>2. Space = [v \in VPage |-> None] /\ Answer = "OK"
    BY <2>1, TranslateIs, NoWalk, Zenon DEF Space, Answer
  <2>3. Asked = NoCall
    BY Zenon DEF Init, Asked
  <2> QED BY <2>2, <2>3, Zenon DEF A!AInit, Space, Answer, Asked
<1>2. TreeInv /\ PmmInv /\ [Next]_vars => [A!ANext]_(A!avars)
  BY StepTree, Zenon
<1>3. Spec => A!ASpec
  BY <1>1, <1>2, TreeHolds, PmmHoldsUnderVmm, PTL DEF Spec, A!ASpec
<1> QED BY <1>3, Zenon DEF ImplementsAddressSpace
=============================================================================
