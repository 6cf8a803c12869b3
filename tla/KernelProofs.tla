---------------------------- MODULE KernelProofs -----------------------------
(***************************************************************************)
(* The linked ready queue of the scheduler is a queue, and the scheduler   *)
(* is first-in first-out round robin, for every number of threads, as long *)
(* as no thread is enqueued that is in the queue: by itself, and in the    *)
(* kernel with its interrupts and system calls.  No interrupt of the       *)
(* kernel is a panic, and each of them is ended.  The ELF loader accepts   *)
(* exactly the good images.                                                *)
(***************************************************************************)
EXTENDS Kernel, NatFacts, SequenceTheorems

-----------------------------------------------------------------------------
(* Powers of two.                                                          *)
LEMMA Powers ==
  /\ Power \in [0..WordBits -> Nat \ {0}]
  /\ Power[0] = 1
  /\ \A k \in 1..WordBits : Power[k] = 2 * Power[k - 1]
<1> DEFINE PowerEq(f) == f = [k \in 0..WordBits |-> IF k = 0 THEN 1 ELSE 2 * f[k - 1]]
<1>1. PICK S : S = Nat \ {0}
  BY Zenon
<1>2. PICK D : D = [x \in S \X (1..WordBits) |-> 2 * x[1]]
  BY Zenon
<1>3. LoopBody(D, S, WordBits)
  <2>1. ASSUME NEW x \in S \X (1..WordBits) PROVE D[x] \in S
    BY <1>1, <1>2
  <2> QED BY <1>2, <2>1, Zenon DEF LoopBody
<1>4. PICK n \in Nat : n = WordBits
  BY ElfAssumption, Zenon
<1>5. PICK c \in S : c = 1
  BY <1>1
<1>6. PICK f : LoopRun(f, c, D, S, n)
  BY <1>3, <1>4, LoopRuns, Zenon
<1>7. ASSUME NEW i \in 1..n PROVE f[i] = 2 * f[i - 1]
  <2>1. i - 1 \in 0..n
    BY <1>4
  <2>2. <<f[i - 1], i>> \in S \X (1..n)
    BY <1>6, <2>1, Zenon DEF LoopRun
  <2>3. f[i] = D[<<f[i - 1], i>>]
    BY <1>6, Zenon DEF LoopRun
  <2> QED BY <1>2, <1>4, <2>2, <2>3, Zenon
<1>8. f \in [0..n -> S] /\ f[0] = 1
  BY <1>5, <1>6, Zenon DEF LoopRun
<1>9. PowerEq(f)
  BY <1>4, <1>7, <1>8
<1>10. Power = CHOOSE g : PowerEq(g)
  BY Zenon DEF Power
<1> HIDE DEF PowerEq
<1>11. PowerEq(Power)
  BY <1>9, <1>10, Zenon
<1>12. Power = [k \in 0..WordBits |-> IF k = 0 THEN 1 ELSE 2 * Power[k - 1]]
  BY <1>11, Zenon DEF PowerEq
<1>13. Power[0] = 1 /\ \A k \in 1..WordBits : Power[k] = 2 * Power[k - 1]
  <2>1. ASSUME NEW k \in 0..WordBits PROVE Power[k] = IF k = 0 THEN 1 ELSE 2 * Power[k - 1]
    BY <1>12, Zenon
  <2>2. 0 \in 0..WordBits /\ \A k \in 1..WordBits : k \in 0..WordBits /\ k # 0
    BY <1>4
  <2> QED BY <2>1, <2>2, Zenon
<1>14. 0..n \subseteq { k \in Nat : Power[k] \in S }
  <2> DEFINE T == { k \in Nat : Power[k] \in S }
  <2>1. 0 \in T
    BY <1>1, <1>13
  <2>2. ASSUME NEW i \in 0..(n - 1), i \in T PROVE i + 1 \in T
    <3>1. i + 1 \in 1..n /\ (i + 1) - 1 = i
      BY <1>4
    <3> QED BY <1>1, <1>4, <1>13, <2>2, <3>1
  <2> HIDE DEF T
  <2>3. 0..n \subseteq T
    BY <2>1, <2>2, UpTo, Zenon
  <2> QED BY <2>3, Zenon DEF T
<1> QED BY <1>1, <1>4, <1>12, <1>13, <1>14, Zenon

LEMMA PowersGrow ==
  ASSUME NEW k \in 0..WordBits, NEW j \in 0..(k - 1)
  PROVE  Power[j] < Power[k]
<1> DEFINE T == { i \in Nat : i <= WordBits => \A h \in 0..(i - 1) : Power[h] < Power[i] }
<1>1. WordBits \in Nat
  BY ElfAssumption, Zenon
<1>2. \A i \in 0..WordBits : Power[i] \in Nat \ {0}
  BY Powers, Zenon
<1>3. 0 \in T
  OBVIOUS
<1>4. ASSUME NEW i \in 0..(k - 1), i \in T PROVE i + 1 \in T
  <2>1. i + 1 \in 1..WordBits /\ (i + 1) - 1 = i /\ i \in 0..WordBits /\ i <= WordBits
    BY <1>1
  <2>2. Power[i + 1] = 2 * Power[i] /\ Power[i] \in Nat \ {0}
    BY <1>2, <2>1, Powers, Zenon
  <2>3. ASSUME NEW h \in 0..i PROVE Power[h] < Power[i + 1]
    <3>1. CASE h = i
      BY <2>2, <3>1
    <3>2. CASE h # i
      <4>1. h \in 0..(i - 1) /\ h \in 0..WordBits
        BY <1>1, <2>1, <3>2
      <4>2. Power[h] < Power[i] /\ Power[h] \in Nat
        BY <1>2, <1>4, <2>1, <4>1, Zenon
      <4> QED BY <2>2, <4>2
    <3> QED BY <3>1, <3>2, Zenon
  <2> QED BY <2>1, <2>3
<1> HIDE DEF T
<1>5. 0..k \subseteq T
  BY <1>1, <1>3, <1>4, UpTo
<1>6. k \in T /\ k <= WordBits
  BY <1>1, <1>5
<1> QED BY <1>6, Zenon DEF T

(* No odd number but 1 divides a power of two.                             *)
LEMMA PowerDivisors ==
  ASSUME NEW k \in 0..WordBits, NEW d \in Nat, d >= 2, Power[k] % d = 0
  PROVE  d % 2 = 0
<1> DEFINE T == { i \in Nat : i <= WordBits => Power[i] % d # 0 }
<1>1. WordBits \in Nat /\ d \in Nat \ {0}
  BY ElfAssumption
<1> SUFFICES ASSUME d % 2 # 0 PROVE FALSE
  BY Zenon
<1>2. 0 \in T
  <2>1. 1 \in 0..(d - 1) /\ 1 = d * 0 + 1
    OBVIOUS
  <2>2. 1 % d = 1
    BY <1>1, <2>1, ModIs
  <2> QED BY <2>2, Powers
<1>3. ASSUME NEW i \in 0..(k - 1), i \in T PROVE i + 1 \in T
  <2> SUFFICES ASSUME Power[i + 1] % d = 0 PROVE FALSE
    OBVIOUS
  <2>1. i + 1 \in 1..WordBits /\ (i + 1) - 1 = i /\ i \in 0..WordBits /\ i <= WordBits
    BY <1>1
  <2>2. PICK m \in Nat : m = Power[i]
    BY <2>1, Powers, Zenon
  <2>3. Power[i + 1] = 2 * m
    BY <2>1, <2>2, Powers, Zenon
  <2>4. m % d # 0
    BY <1>3, <2>1, <2>2, Zenon
  <2>5. PICK q \in Int : 2 * m = d * q
    <3>1. PICK x \in Int : x = 2 * m
      OBVIOUS
    <3>2. x % d = 0
      BY <2>3, <3>1, Zenon
    <3>3. PICK q \in Int : x = d * q + (x % d)
      BY <1>1, DivMod, Zenon
    <3>4. x = d * q
      BY <1>1, <3>2, <3>3
    <3> QED BY <3>1, <3>4, Zenon
  <2>6. PICK e \in Int : d = 2 * e + 1
    <3>1. PICK e \in Int : d = 2 * e + (d % 2) /\ d % 2 \in 0..1
      <4>1. 2 \in Nat \ {0} /\ d \in Int /\ 2 - 1 = 1
        OBVIOUS
      <4> QED BY <4>1, DivMod, Zenon
    <3>2. d % 2 = 1
      BY <3>1
    <3> QED BY <3>1, <3>2, Zenon
  <2>7. PICK t \in Int : t = m - e * q
    BY <2>2, <2>5, <2>6
  <2>8. q = 2 * t
    <3>1. d * q = 2 * (e * q) + q /\ e * q \in Int
      BY <2>5, <2>6
    <3> QED BY <2>5, <2>7, <3>1
  <2>9. m = d * t
    <3>1. d * q = 2 * (d * t) /\ d * t \in Int
      BY <2>7, <2>8
    <3> QED BY <2>5, <3>1
  <2>10. m % d = 0
    <3>1. m = d * t + 0 /\ 0 \in 0..(d - 1)
      BY <2>9, <2>7
    <3> QED BY <1>1, <2>7, <3>1, ModIs
  <2> QED BY <2>4, <2>10, Zenon
<1> HIDE DEF T
<1>4. 0..k \subseteq T
  BY <1>1, <1>2, <1>3, UpTo
<1>5. k \in T /\ k <= WordBits
  BY <1>1, <1>4
<1> QED BY <1>5, Zenon DEF T

EvenDivisors(n) == \A d \in 2..n : n % d = 0 => d % 2 = 0

(* A word whose divisors but 1 are even is a power of two.                 *)
LEMMA DivisorsPower ==
  ASSUME NEW n \in 2..(U64 - 1), EvenDivisors(n)
  PROVE  PowerOfTwo(n)
<1> DEFINE C == { i \in 2..(U64 - 1) : EvenDivisors(i) /\ ~PowerOfTwo(i) }
<1>1. WordBits \in Nat /\ U64 \in Nat
  BY ElfAssumption, Powers DEF U64
<1> SUFFICES ASSUME C # {} PROVE FALSE
  BY Zenon
<1>2. PICK c \in C : \A i \in C : c <= i
  <2>1. C \subseteq Nat
    BY <1>1
  <2> HIDE DEF C
  <2> QED BY <2>1, LeastNatural, Zenon
<1>3. c \in 2..(U64 - 1) /\ EvenDivisors(c) /\ ~PowerOfTwo(c) /\ c \in Nat
  BY <1>1, <1>2
<1>4. PICK m \in Nat : c = 2 * m /\ m >= 1
  <2>1. c % c = 0
    <3>1. c = c * 1 + 0 /\ 0 \in 0..(c - 1) /\ c \in Nat \ {0}
      BY <1>1, <1>3
    <3> QED BY <3>1, ModIs
  <2>2. c % 2 = 0
    <3>1. c \in 2..c
      BY <1>1, <1>3
    <3> QED BY <1>3, <2>1, <3>1, Zenon DEF EvenDivisors
  <2>3. PICK q \in Int : c = 2 * q + (c % 2)
    <3>1. 2 \in Nat \ {0} /\ c \in Int
      BY <1>3
    <3> QED BY <3>1, DivMod, Zenon
  <2>4. c = 2 * q /\ c >= 2
    BY <1>1, <1>3, <2>2, <2>3
  <2> QED BY <2>3, <2>4
<1>5. ASSUME NEW k \in 0..(WordBits - 1), c = Power[k + 1] PROVE FALSE
  <2>1. k + 1 \in 0..WordBits
    BY <1>1
  <2>2. k + 1 # WordBits
    BY <1>1, <1>3, <1>5 DEF U64
  <2>3. k + 1 \in 0..(WordBits - 1)
    BY <1>1, <2>1, <2>2
  <2> QED BY <1>3, <1>5, <2>3, Zenon DEF PowerOfTwo
<1>6. CASE m = 1
  <2>1. WordBits # 0
    BY <1>1, <1>3, Powers DEF U64
  <2>2. 1 \in 1..WordBits /\ 1 - 1 = 0
    BY <1>1, <2>1
  <2>3. Power[1] = 2 * Power[0]
    BY <2>2, Powers, Zenon
  <2>4. Power[0 + 1] = c /\ 0 \in 0..(WordBits - 1)
    BY <1>1, <1>4, <1>6, <2>1, <2>3, Powers
  <2> QED BY <1>5, <2>4, Zenon
<1>7. CASE m # 1
  <2>1. m \in 2..(U64 - 1) /\ m < c
    BY <1>1, <1>3, <1>4, <1>7
  <2>2. EvenDivisors(m)
    <3> SUFFICES ASSUME NEW d \in 2..m, m % d = 0 PROVE d % 2 = 0
      BY Zenon DEF EvenDivisors
    <3>1. d \in Nat \ {0} /\ d \in 2..c
      BY <1>3, <2>1
    <3>2. PICK q \in Int : m = d * q + (m % d)
      <4>1. m \in Int
        BY <1>4
      <4> QED BY <3>1, <4>1, DivMod, Zenon
    <3>3. m = d * q
      BY <3>1, <3>2
    <3>4. PICK p \in Int : p = 2 * q
      BY <3>2
    <3>5. c = d * p + 0
      <4>1. d * p = 2 * (d * q)
        BY <3>1, <3>2, <3>4
      <4> QED BY <1>4, <3>1, <3>3, <3>4, <4>1
    <3>6. c % d = 0
      <4>1. 0 \in 0..(d - 1)
        BY <3>1
      <4> QED BY <1>3, <3>1, <3>5, <4>1, ModIs
    <3> QED BY <1>3, <3>1, <3>6, Zenon DEF EvenDivisors
  <2>3. ~(m \in C)
    BY <1>1, <1>2, <1>3, <2>1
  <2>4. PICK k \in 0..(WordBits - 1) : m = Power[k]
    BY <2>1, <2>2, <2>3, Zenon DEF PowerOfTwo
  <2>5. k + 1 \in 1..WordBits /\ (k + 1) - 1 = k
    BY <1>1
  <2>6. c = Power[k + 1]
    BY <1>4, <2>4, <2>5, Powers, Zenon
  <2> QED BY <1>5, <2>6, Zenon
<1> QED BY <1>6, <1>7, Zenon

-----------------------------------------------------------------------------
(* The sums of the loader, which wrap, against sums that do not.           *)
LEMMA Words == U64 \in Nat \ {0}
BY ElfAssumption, Powers DEF U64

LEMMA AddExact ==
  ASSUME NEW a \in U64s, NEW b \in U64s
  PROVE  /\ AddOverflows(a, b) <=> a + b >= U64
         /\ a + b < U64 => Sum(a, b) = a + b
<1>1. PICK m \in Nat \ {0} : m = U64
  BY Words, Zenon
<1>2. a \in Nat /\ b \in Nat /\ a < m /\ b < m
  BY <1>1 DEF U64s
<1>3. PICK x \in Nat : x = a + b
  BY <1>2
<1>4. x < 2 * m
  BY <1>1, <1>2, <1>3
<1>5. x % m = IF x < m THEN x ELSE x - m
  BY <1>4, WrapsOnce, Zenon
<1> QED BY <1>1, <1>2, <1>3, <1>5 DEF AddOverflows, Sum

LEMMA RangeExact ==
  ASSUME NEW first \in U64s, NEW size \in 0..U64
  PROVE  RangeValid(first, size) <=> InUserRegion(first, size)
<1>1. PICK m \in Nat \ {0} : m = U64
  BY Words, Zenon
<1>2. first \in Nat /\ size \in Nat /\ first < m /\ size <= m
  BY <1>1 DEF U64s
<1>3. PICK x \in Nat : x = first + size
  BY <1>2
<1>4. x < 2 * m
  BY <1>1, <1>2, <1>3
<1>5. x % m = IF x < m THEN x ELSE x - m
  BY <1>4, WrapsOnce, Zenon
<1>6. PICK y : y = x % m
  BY Zenon
<1>7. (AddOverflows(first, size) <=> y < first) /\ Sum(first, size) = y
  BY <1>1, <1>3, <1>6, Zenon DEF AddOverflows, Sum
<1>8. UserBase \in 0..(m - 1) /\ UserLimit \in 0..(m - 1)
  BY <1>1, ElfAssumption, Zenon
<1>9. y = IF x < m THEN x ELSE x - m
  BY <1>5, <1>6, Zenon
<1>10. RangeValid(first, size) <=> /\ UserBase < UserLimit /\ size # 0 /\ ~(y < first)
                                   /\ first >= UserBase /\ y <= UserLimit /\ y > first
  BY <1>7, Zenon DEF RangeValid
<1>11. InUserRegion(first, size) <=> UserBase <= first /\ x <= UserLimit /\ size > 0
  BY <1>3, Zenon DEF InUserRegion
<1>12. CASE x < m
  BY <1>2, <1>3, <1>8, <1>9, <1>10, <1>11, <1>12
<1>13. CASE x >= m
  BY <1>2, <1>3, <1>8, <1>9, <1>10, <1>11, <1>13
<1> QED BY <1>12, <1>13

LEMMA PowerExact ==
  ASSUME NEW n \in U64s, n > 1
  PROVE  PowerOfTwo(n) <=> EvenDivisors(n)
<1>1. WordBits \in Nat /\ U64 \in Nat /\ n \in 2..(U64 - 1)
  BY ElfAssumption, Words DEF U64s
<1>2. ASSUME PowerOfTwo(n) PROVE EvenDivisors(n)
  <2>1. PICK k \in 0..(WordBits - 1) : n = Power[k]
    BY <1>2, Zenon DEF PowerOfTwo
  <2>2. ASSUME NEW d \in 2..n, n % d = 0 PROVE d % 2 = 0
    <3>1. d \in Nat /\ d >= 2 /\ k \in 0..WordBits /\ Power[k] % d = 0
      BY <1>1, <2>1, <2>2
    <3> QED BY <3>1, PowerDivisors, Zenon
  <2> QED BY <2>2, Zenon DEF EvenDivisors
<1> QED BY <1>1, <1>2, DivisorsPower, Zenon

(* A segment is accepted exactly if it is good.                            *)
LEMMA SegmentExact ==
  ASSUME NEW ph \in PhdrRec, NEW size \in U64s
  PROVE  (SegmentError(ph, size) = "OK") <=> GoodSegment(ph, size)
<1> DEFINE Flags == ph.flags \subseteq {"R", "W", "X"} /\ ~({"W", "X"} \subseteq ph.flags)
           Sizes == ph.filesz <= ph.memsz
           Aligned == ph.align > 1 => /\ EvenDivisors(ph.align)
                                      /\ (ph.vaddr - ph.offset) % ph.align = 0
           Inside == ph.offset + ph.filesz <= size
           Region == InUserRegion(ph.vaddr, ph.memsz)
           BadFlags == ph.flags \notin SUBSET {"R", "W", "X"} \/ {"W", "X"} \subseteq ph.flags
           BadSizes == ph.memsz < ph.filesz
           BadAlign == ph.align \notin {0, 1}
             /\ (~PowerOfTwo(ph.align) \/ ph.vaddr % ph.align # ph.offset % ph.align)
           BadInside == \/ AddOverflows(ph.offset, ph.filesz)
                        \/ Sum(ph.offset, ph.filesz) > size \/ ph.offset > size
           BadRegion == ~RangeValid(ph.vaddr, ph.memsz)
<1>1. /\ ph.offset \in U64s /\ ph.filesz \in U64s /\ ph.vaddr \in U64s
      /\ ph.memsz \in U64s /\ ph.align \in U64s
  BY Zenon DEF PhdrRec
<1>2. PICK m \in Nat \ {0} : m = U64 /\ U64s = 0..(m - 1)
  BY Words, Zenon DEF U64s
<1>3. BadFlags <=> ~Flags
  BY Zenon
<1>4. BadSizes <=> ~Sizes
  BY <1>1, <1>2
<1>5. BadAlign <=> ~Aligned
  <2>1. ph.align \notin {0, 1} <=> ph.align > 1
    BY <1>1, <1>2
  <2>2. CASE ph.align > 1
    <3>1. PowerOfTwo(ph.align) <=> EvenDivisors(ph.align)
      BY <1>1, <2>2, PowerExact, Zenon
    <3>2. ph.align \in Nat \ {0} /\ ph.vaddr \in Int /\ ph.offset \in Int
      BY <1>1, <1>2, <2>2
    <3>3. ph.vaddr % ph.align = ph.offset % ph.align <=> (ph.vaddr - ph.offset) % ph.align = 0
      BY <3>2, SameMod, Zenon
    <3> QED BY <2>1, <2>2, <3>1, <3>3, Zenon
  <2> QED BY <2>1, <2>2, Zenon
<1>6. BadInside <=> ~Inside
  <2>1. PICK a \in U64s, b \in U64s : a = ph.offset /\ b = ph.filesz
    BY <1>1, Zenon
  <2>2. AddOverflows(a, b) <=> a + b >= U64
    BY AddExact, Zenon
  <2>3. a + b < U64 => Sum(a, b) = a + b
    BY AddExact, Zenon
  <2>4. (AddOverflows(a, b) \/ Sum(a, b) > size \/ a > size) <=> ~(a + b <= size)
    BY <1>2, <2>2, <2>3
  <2> QED BY <2>1, <2>4, Zenon
<1>7. BadRegion <=> ~Region
  <2>1. ph.memsz \in 0..U64
    BY <1>1, <1>2
  <2> QED BY <1>1, <2>1, RangeExact, Zenon
<1>8. SegmentError(ph, size) = IF BadFlags THEN "FLAGS" ELSE IF BadSizes THEN "SEGBOUNDS"
        ELSE IF BadAlign THEN "ALIGN" ELSE IF BadInside THEN "SEGBOUNDS"
        ELSE IF BadRegion THEN "SEGRANGE" ELSE "OK"
  BY Zenon DEF SegmentError
<1>9. GoodSegment(ph, size) <=> Flags /\ Sizes /\ Inside /\ Region /\ Aligned
  BY Zenon DEF GoodSegment, EvenDivisors
<1> HIDE DEF Flags, Sizes, Aligned, Inside, Region, BadFlags, BadSizes, BadAlign, BadInside, BadRegion
<1> QED BY <1>3, <1>4, <1>5, <1>6, <1>7, <1>8, <1>9, Zenon

GoodHeader(img) ==
  /\ img.size >= EhSize /\ img.header = "OK"
  /\ img.phentsize = PhSize
  /\ img.phoff + Len(img.phdrs) * PhSize <= img.size
  /\ InUserRegion(img.entry, 1)

LEMMA HeaderExact ==
  ASSUME NEW img \in ImageRec
  PROVE  (HeaderError(img) = "OK") <=> GoodHeader(img) /\ img.phdrs # <<>>
<1>1. /\ img.size \in U64s /\ img.entry \in U64s /\ img.phoff \in U64s
      /\ img.phentsize \in U64s /\ Len(img.phdrs) \in Nat
      /\ PhSize * Len(img.phdrs) < U64
  BY DEF ImageRec
<1>2. PICK m \in Nat \ {0} : m = U64 /\ U64s = 0..(m - 1)
  BY Words, Zenon DEF U64s
<1>3. PICK b \in U64s : b = PhSize * Len(img.phdrs)
  <2>1. \A x, y \in Nat : x * y \in Nat
    OBVIOUS
  <2>2. PhSize * Len(img.phdrs) \in Nat
    BY <1>1, <2>1, ElfAssumption, Zenon
  <2> QED BY <1>1, <1>2, <2>2
<1>4. Len(img.phdrs) * PhSize = b
  <2>1. \A x, y \in Nat : x * y = y * x
    OBVIOUS
  <2> QED BY <1>1, <1>3, <2>1, ElfAssumption, Zenon
<1>5. PICK a \in U64s : a = img.phoff
  BY <1>1, Zenon
<1> DEFINE Outside == AddOverflows(a, b) \/ Sum(a, b) > img.size \/ a > img.size
<1>6. Outside <=> ~(a + b <= img.size)
  <2>2. AddOverflows(a, b) <=> a + b >= U64
    BY AddExact, Zenon
  <2>3. a + b < U64 => Sum(a, b) = a + b
    BY AddExact, Zenon
  <2> QED BY <1>1, <1>2, <2>2, <2>3
<1>7. RangeValid(img.entry, 1) <=> InUserRegion(img.entry, 1)
  <2>1. 1 \in 0..U64
    BY Words
  <2> QED BY <1>1, <2>1, RangeExact, Zenon
<1>8. PhdrError(img) = IF img.phdrs = <<>> THEN "PHBOUNDS"
         ELSE IF img.phentsize # PhSize THEN "PHENTSIZE"
         ELSE IF Outside THEN "PHBOUNDS" ELSE "OK"
  BY <1>3, <1>5, Zenon DEF PhdrError
<1>9. GoodHeader(img) <=> /\ img.size >= EhSize /\ img.header = "OK"
                            /\ img.phentsize = PhSize /\ a + b <= img.size
                            /\ InUserRegion(img.entry, 1)
  BY <1>4, <1>5, Zenon DEF GoodHeader
<1>10. img.size < EhSize <=> ~(img.size >= EhSize)
  BY <1>1, <1>2, ElfAssumption
<1> HIDE DEF Outside
<1> QED BY <1>6, <1>7, <1>8, <1>9, <1>10, Zenon DEF HeaderError

-----------------------------------------------------------------------------
(* The loop over the program headers, against the loadable ones of them.   *)
Codes == {"OK", "FLAGS", "SEGBOUNDS", "ALIGN", "SEGRANGE", "SEGCOUNT"}
PlanRec == [rc : Codes, entry : Nat, segments : Seq(PhdrRec)]

LEMMA AddTyped ==
  ASSUME NEW ph \in PhdrRec, NEW size \in U64s, NEW p \in PlanRec
  PROVE  AddSegment(ph, size, p) \in PlanRec
<1>1. PICK err : err = SegmentError(ph, size)
  BY Zenon
<1>2. err \in Codes
  BY <1>1, Zenon DEF SegmentError, Codes
<1>3. ASSUME NEW rc \in Codes PROVE Refuse(p, rc) \in PlanRec
  BY EmptySeq, Zenon DEF Refuse, PlanRec
<1>5. "SEGCOUNT" \in Codes
  BY Zenon DEF Codes
<1>4. [p EXCEPT !.segments = Append(@, ph)] \in PlanRec
  BY AppendProperties, Zenon DEF PlanRec
<1> QED BY <1>1, <1>2, <1>3, <1>4, <1>5, Zenon DEF AddSegment

LEMMA LoadsRuns ==
  ASSUME NEW img \in ImageRec
  PROVE  \E f \in [0..Len(img.phdrs) -> Seq(PhdrRec)] :
           /\ Loads(img) = f[Len(img.phdrs)]
           /\ f[0] = <<>>
           /\ \A n \in 1..Len(img.phdrs) :
                f[n] = IF img.phdrs[n].type # "LOAD" THEN f[n - 1]
                       ELSE Append(f[n - 1], img.phdrs[n])
<1> DEFINE LoadsEq(f) == f = [n \in 0..Len(img.phdrs) |->
                                IF n = 0 THEN <<>>
                                ELSE IF img.phdrs[n].type # "LOAD" THEN f[n - 1]
                                ELSE Append(f[n - 1], img.phdrs[n])]
           LoadStep(x) == IF img.phdrs[x[2]].type # "LOAD" THEN x[1]
                          ELSE Append(x[1], img.phdrs[x[2]])
<1>1. PICK N \in Nat : N = Len(img.phdrs) /\ img.phdrs \in [1..N -> PhdrRec]
  BY DEF ImageRec
<1>2. PICK S : S = Seq(PhdrRec)
  BY Zenon
<1>3. PICK D : D = [x \in S \X (1..N) |-> LoadStep(x)]
  BY Zenon
<1>4. LoopBody(D, S, N)
  <2>1. ASSUME NEW x \in S \X (1..N) PROVE D[x] \in S
    <3>1. x[1] \in Seq(PhdrRec) /\ img.phdrs[x[2]] \in PhdrRec
      BY <1>1, <1>2, Zenon
    <3> QED BY <1>2, <1>3, <3>1, AppendProperties, Zenon
  <2> QED BY <1>3, <2>1, Zenon DEF LoopBody
<1>5. PICK c \in S : c = <<>>
  BY <1>2, EmptySeq, Zenon
<1>6. PICK f : LoopRun(f, c, D, S, N)
  BY <1>4, LoopRuns, Zenon
<1>7. ASSUME NEW n \in 1..N
      PROVE  f[n] = IF img.phdrs[n].type # "LOAD" THEN f[n - 1]
                    ELSE Append(f[n - 1], img.phdrs[n])
  <2>1. n - 1 \in 0..N
    OBVIOUS
  <2>2. <<f[n - 1], n>> \in S \X (1..N)
    BY <1>6, <2>1, Zenon DEF LoopRun
  <2>3. f[n] = D[<<f[n - 1], n>>]
    BY <1>6, Zenon DEF LoopRun
  <2> QED BY <1>3, <2>2, <2>3, Zenon
<1>8. f \in [0..N -> S] /\ f[0] = <<>>
  BY <1>5, <1>6, Zenon DEF LoopRun
<1>9. LoadsEq(f)
  <2>1. ASSUME NEW n \in 0..N
        PROVE  f[n] = IF n = 0 THEN <<>>
                      ELSE IF img.phdrs[n].type # "LOAD" THEN f[n - 1]
                      ELSE Append(f[n - 1], img.phdrs[n])
    <3>1. n = 0 \/ n \in 1..N
      OBVIOUS
    <3> QED BY <1>7, <1>8, <3>1, Zenon
  <2>2. f = [n \in 0..N |-> f[n]]
    BY <1>8, Zenon
  <2> QED BY <1>1, <2>1, <2>2, Zenon
<1>11. PICK g : g = CHOOSE h : LoadsEq(h)
  BY Zenon
<1>10. Loads(img) = g[N]
  BY <1>1, <1>11, Zenon DEF Loads
<1> HIDE DEF LoadsEq
<1>12. LoadsEq(g)
  BY <1>9, <1>11, Zenon
<1>13. g = [n \in 0..N |-> IF n = 0 THEN <<>>
                           ELSE IF img.phdrs[n].type # "LOAD" THEN g[n - 1]
                           ELSE Append(g[n - 1], img.phdrs[n])]
  BY <1>1, <1>12, Zenon DEF LoadsEq
<1>14. ASSUME NEW n \in 1..N
       PROVE  g[n] = IF img.phdrs[n].type # "LOAD" THEN g[n - 1]
                     ELSE Append(g[n - 1], img.phdrs[n])
  <2>1. n \in 0..N /\ n # 0
    OBVIOUS
  <2> QED BY <1>13, <2>1, Zenon
<1>15. g[0] = <<>>
  <2>1. 0 \in 0..N
    OBVIOUS
  <2> QED BY <1>13, <2>1, Zenon
<1>16. 0..N \subseteq { n \in Nat : g[n] \in S }
  <2> DEFINE T == { n \in Nat : g[n] \in S }
  <2>1. 0 \in T
    BY <1>2, <1>15, EmptySeq, Zenon
  <2>2. ASSUME NEW i \in 0..(N - 1), i \in T PROVE i + 1 \in T
    <3>1. i + 1 \in 1..N /\ (i + 1) - 1 = i
      OBVIOUS
    <3>2. g[i] \in Seq(PhdrRec) /\ img.phdrs[i + 1] \in PhdrRec
      BY <1>1, <1>2, <2>2, <3>1, Zenon
    <3>3. g[i + 1] = IF img.phdrs[i + 1].type # "LOAD" THEN g[i]
                     ELSE Append(g[i], img.phdrs[i + 1])
      BY <1>14, <3>1, Zenon
    <3>4. Append(g[i], img.phdrs[i + 1]) \in Seq(PhdrRec)
      BY <3>2, AppendProperties, Zenon
    <3>5. g[i + 1] \in S
      BY <1>2, <3>2, <3>3, <3>4, Zenon
    <3> QED BY <3>5
  <2> HIDE DEF T
  <2>3. 0..N \subseteq T
    BY <2>1, <2>2, UpTo, Zenon
  <2> QED BY <2>3, Zenon DEF T
<1>17. g \in [0..N -> Seq(PhdrRec)]
  BY <1>2, <1>13, <1>16, Zenon
<1> QED BY <1>1, <1>10, <1>14, <1>15, <1>17, Zenon

LEMMA PlanRuns ==
  ASSUME NEW img \in ImageRec
  PROVE  \E f \in [0..Len(img.phdrs) -> PlanRec] :
           /\ f[0] = Plan("OK", img.entry, <<>>)
           /\ \A n \in 1..Len(img.phdrs) :
                f[n] = AddSegment(img.phdrs[n], img.size, f[n - 1])
           /\ PlanLoad(img) =
                IF HeaderError(img) # "OK" THEN Plan(HeaderError(img), 0, <<>>)
                ELSE IF f[Len(img.phdrs)].rc = "OK" /\ f[Len(img.phdrs)].segments = <<>>
                  THEN [f[Len(img.phdrs)] EXCEPT !.rc = "SEGCOUNT"]
                ELSE f[Len(img.phdrs)]
<1> DEFINE PlanEq(f) == f = [n \in 0..Len(img.phdrs) |->
                               IF n = 0 THEN Plan("OK", img.entry, <<>>)
                               ELSE AddSegment(img.phdrs[n], img.size, f[n - 1])]
           TurnOf(x) == AddSegment(img.phdrs[x[2]], img.size, x[1])
<1>1. PICK N \in Nat : N = Len(img.phdrs) /\ img.phdrs \in [1..N -> PhdrRec]
  BY DEF ImageRec
<1>2. img.size \in U64s /\ Plan("OK", img.entry, <<>>) \in PlanRec
  <2>1. img.size \in U64s /\ img.entry \in U64s /\ U64s \subseteq Nat
    BY Words DEF ImageRec, U64s
  <2> QED BY <2>1, EmptySeq, Zenon DEF Plan, PlanRec, Codes
<1>3. PICK D : D = [x \in PlanRec \X (1..N) |-> TurnOf(x)]
  BY Zenon
<1>4. LoopBody(D, PlanRec, N)
  <2>1. ASSUME NEW x \in PlanRec \X (1..N) PROVE D[x] \in PlanRec
    <3>1. x[1] \in PlanRec /\ img.phdrs[x[2]] \in PhdrRec
      BY <1>1, Zenon
    <3> QED BY <1>2, <1>3, <3>1, AddTyped, Zenon
  <2> QED BY <1>3, <2>1, Zenon DEF LoopBody
<1>5. PICK c \in PlanRec : c = Plan("OK", img.entry, <<>>)
  BY <1>2, Zenon
<1>6. PICK f : LoopRun(f, c, D, PlanRec, N)
  BY <1>4, LoopRuns, Zenon
<1>7. ASSUME NEW n \in 1..N
      PROVE  f[n] = AddSegment(img.phdrs[n], img.size, f[n - 1])
  <2>1. n - 1 \in 0..N
    OBVIOUS
  <2>2. <<f[n - 1], n>> \in PlanRec \X (1..N)
    BY <1>6, <2>1, Zenon DEF LoopRun
  <2>3. f[n] = D[<<f[n - 1], n>>]
    BY <1>6, Zenon DEF LoopRun
  <2> QED BY <1>3, <2>2, <2>3, Zenon
<1>8. f \in [0..N -> PlanRec] /\ f[0] = Plan("OK", img.entry, <<>>)
  BY <1>5, <1>6, Zenon DEF LoopRun
<1>9. PlanEq(f)
  <2>1. ASSUME NEW n \in 0..N
        PROVE  f[n] = IF n = 0 THEN Plan("OK", img.entry, <<>>)
                      ELSE AddSegment(img.phdrs[n], img.size, f[n - 1])
    <3>1. n = 0 \/ n \in 1..N
      OBVIOUS
    <3> QED BY <1>7, <1>8, <3>1, Zenon
  <2>2. f = [n \in 0..N |-> f[n]]
    BY <1>8, Zenon
  <2> QED BY <1>1, <2>1, <2>2, Zenon
<1>10. PICK g : g = CHOOSE h : PlanEq(h)
  BY Zenon
<1>11. PlanLoad(img) =
         IF HeaderError(img) # "OK" THEN Plan(HeaderError(img), 0, <<>>)
         ELSE IF g[N].rc = "OK" /\ g[N].segments = <<>> THEN [g[N] EXCEPT !.rc = "SEGCOUNT"]
         ELSE g[N]
  BY <1>1, <1>10 DEF PlanLoad
<1> HIDE DEF PlanEq
<1>12. PlanEq(g)
  BY <1>9, <1>10, Zenon
<1>13. g = [n \in 0..N |-> IF n = 0 THEN Plan("OK", img.entry, <<>>)
                           ELSE AddSegment(img.phdrs[n], img.size, g[n - 1])]
  BY <1>1, <1>12, Zenon DEF PlanEq
<1>14. ASSUME NEW n \in 1..N
       PROVE  g[n] = AddSegment(img.phdrs[n], img.size, g[n - 1])
  <2>1. n \in 0..N /\ n # 0
    OBVIOUS
  <2> QED BY <1>13, <2>1, Zenon
<1>15. g[0] = Plan("OK", img.entry, <<>>)
  <2>1. 0 \in 0..N
    OBVIOUS
  <2> QED BY <1>13, <2>1, Zenon
<1>16. 0..N \subseteq { n \in Nat : g[n] \in PlanRec }
  <2> DEFINE T == { n \in Nat : g[n] \in PlanRec }
  <2>1. 0 \in T
    BY <1>2, <1>15, Zenon
  <2>2. ASSUME NEW i \in 0..(N - 1), i \in T PROVE i + 1 \in T
    <3>1. i + 1 \in 1..N /\ (i + 1) - 1 = i
      OBVIOUS
    <3>2. g[i] \in PlanRec /\ img.phdrs[i + 1] \in PhdrRec
      BY <1>1, <2>2, <3>1, Zenon
    <3>3. g[i + 1] = AddSegment(img.phdrs[i + 1], img.size, g[i])
      BY <1>14, <3>1, Zenon
    <3>4. g[i + 1] \in PlanRec
      BY <1>2, <3>2, <3>3, AddTyped, Zenon
    <3> QED BY <3>4
  <2> HIDE DEF T
  <2>3. 0..N \subseteq T
    BY <2>1, <2>2, UpTo, Zenon
  <2> QED BY <2>3, Zenon DEF T
<1>17. g \in [0..N -> PlanRec]
  BY <1>13, <1>16, Zenon
<1> QED BY <1>1, <1>11, <1>14, <1>15, <1>17, Zenon

(* At most MaxSegs segments, all of them good.                             *)
Fits(segs, size) == Len(segs) <= MaxSegs /\ \A i \in 1..Len(segs) : GoodSegment(segs[i], size)

LEMMA FitsAppend ==
  ASSUME NEW segs \in Seq(PhdrRec), NEW ph \in PhdrRec, NEW size
  PROVE  /\ Append(segs, ph) # <<>>
         /\ Fits(Append(segs, ph), size) <=> /\ Fits(segs, size) /\ Len(segs) < MaxSegs
                                             /\ GoodSegment(ph, size)
<1>1. PICK t : t = Append(segs, ph)
  BY Zenon
<1>2. PICK n \in Nat : n = Len(segs)
  OBVIOUS
<1>3. t # <<>> /\ Len(t) = n + 1 /\ t[n + 1] = ph /\ \A i \in 1..n : t[i] = segs[i]
  BY <1>1, <1>2, AppendProperties
<1>4. ASSUME Fits(t, size) PROVE Fits(segs, size) /\ n < MaxSegs /\ GoodSegment(ph, size)
  <2>1. n + 1 <= MaxSegs /\ \A i \in 1..(n + 1) : GoodSegment(t[i], size)
    BY <1>3, <1>4, Zenon DEF Fits
  <2>2. n + 1 \in 1..(n + 1) /\ n < MaxSegs /\ n <= MaxSegs /\ \A i \in 1..n : i \in 1..(n + 1)
    BY <2>1, ElfAssumption
  <2> QED BY <1>2, <1>3, <2>1, <2>2, Zenon DEF Fits
<1>5. ASSUME Fits(segs, size), n < MaxSegs, GoodSegment(ph, size) PROVE Fits(t, size)
  <2>1. n + 1 <= MaxSegs
    BY <1>5, ElfAssumption
  <2>2. ASSUME NEW i \in 1..(n + 1) PROVE GoodSegment(t[i], size)
    <3>1. i = n + 1 \/ i \in 1..n
      OBVIOUS
    <3> QED BY <1>2, <1>3, <1>5, <3>1, Zenon DEF Fits
  <2> QED BY <1>3, <2>1, <2>2, Zenon DEF Fits
<1> QED BY <1>1, <1>2, <1>3, <1>4, <1>5, Zenon

(* The plan so far is the list of the loadable segments so far, or refused *)
(* and empty because they do not fit.                                      *)
Agrees(p, segs, img) ==
  IF p.rc = "OK"
    THEN p.entry = img.entry /\ p.segments = segs /\ Fits(segs, img.size)
    ELSE p.entry = 0 /\ p.segments = <<>> /\ segs # <<>> /\ ~Fits(segs, img.size)

LEMMA TurnAgrees ==
  ASSUME NEW img, NEW p \in PlanRec, NEW segs \in Seq(PhdrRec), NEW ph \in PhdrRec,
         img.size \in U64s, Agrees(p, segs, img)
  PROVE  Agrees(AddSegment(ph, img.size, p),
                IF ph.type # "LOAD" THEN segs ELSE Append(segs, ph), img)
<1>1. PICK q : q = AddSegment(ph, img.size, p)
  BY Zenon
<1>2. PICK err : err = SegmentError(ph, img.size)
  BY Zenon
<1>3. (err = "OK") <=> GoodSegment(ph, img.size)
  BY <1>2, SegmentExact, Zenon
<1>4. CASE ph.type # "LOAD"
  BY <1>4, Zenon DEF AddSegment
<1>5. CASE ph.type = "LOAD"
  <2>1. PICK t : t = Append(segs, ph)
    BY Zenon
  <2>2. /\ t # <<>>
        /\ Fits(t, img.size) <=> /\ Fits(segs, img.size) /\ Len(segs) < MaxSegs
                                   /\ GoodSegment(ph, img.size)
    BY <2>1, FitsAppend, Zenon
  <2>3. CASE p.rc # "OK"
    <3>1. q = p
      BY <1>1, <2>3, Zenon DEF AddSegment
    <3> QED BY <1>1, <1>5, <2>1, <2>2, <2>3, <3>1, Zenon DEF Agrees
  <2>4. CASE p.rc = "OK"
    <3>1. p.entry = img.entry /\ p.segments = segs /\ Fits(segs, img.size)
      BY <2>4, Zenon DEF Agrees
    <3>2. q = IF Len(segs) >= MaxSegs THEN Refuse(p, "SEGCOUNT")
              ELSE IF err # "OK" THEN Refuse(p, err)
              ELSE [p EXCEPT !.segments = Append(@, ph)]
      BY <1>1, <1>2, <1>5, <2>4, <3>1, Zenon DEF AddSegment
    <3>3. Len(segs) >= MaxSegs <=> ~(Len(segs) < MaxSegs)
      BY ElfAssumption
    <3>4. ASSUME NEW rc, rc # "OK" PROVE LET r == Refuse(p, rc) IN r.rc # "OK" /\ r.entry = 0 /\ r.segments = <<>>
      BY <3>4, Zenon DEF Refuse, PlanRec
    <3>5. LET r == [p EXCEPT !.segments = Append(@, ph)]
          IN r.rc = "OK" /\ r.entry = img.entry /\ r.segments = t
      BY <2>1, <2>4, <3>1, Zenon DEF PlanRec
    <3>6. CASE Len(segs) < MaxSegs /\ err = "OK"
      <4>1. q = [p EXCEPT !.segments = Append(@, ph)]
        BY <3>2, <3>3, <3>6, Zenon
      <4>2. q.rc = "OK" /\ q.entry = img.entry /\ q.segments = t
        BY <3>5, <4>1, Zenon
      <4>3. Fits(t, img.size)
        BY <1>3, <2>2, <3>1, <3>6, Zenon
      <4> QED BY <1>1, <1>5, <2>1, <4>2, <4>3, Zenon DEF Agrees
    <3>7. CASE ~(Len(segs) < MaxSegs /\ err = "OK")
      <4>1. q = Refuse(p, "SEGCOUNT") \/ (err # "OK" /\ q = Refuse(p, err))
        BY <3>2, <3>3, <3>7, Zenon
      <4>2. q.rc # "OK" /\ q.entry = 0 /\ q.segments = <<>>
        <5>1. PICK rc : rc # "OK" /\ q = Refuse(p, rc)
          BY <4>1, Zenon
        <5> QED BY <3>4, <5>1, Zenon
      <4>3. ~Fits(t, img.size)
        BY <1>3, <2>2, <3>7, Zenon
      <4> QED BY <1>1, <1>5, <2>1, <2>2, <4>2, <4>3, Zenon DEF Agrees
    <3> QED BY <3>6, <3>7, Zenon
  <2> QED BY <2>3, <2>4, Zenon
<1> QED BY <1>4, <1>5, Zenon

Exact(p, img) ==
  /\ p.rc = "OK" <=> GoodImage(img)
  /\ IF p.rc = "OK"
       THEN p.entry = img.entry /\ p.segments = Loads(img)
       ELSE /\ p.segments = <<>>
            /\ p.entry = 0 \/ Loads(img) = <<>>

LEMMA PlanExact ==
  ASSUME NEW img \in ImageRec
  PROVE  Exact(PlanLoad(img), img)
<1>1. PICK N \in Nat : N = Len(img.phdrs) /\ img.phdrs \in [1..N -> PhdrRec]
  BY DEF ImageRec
<1>2. img.size \in U64s
  BY Zenon DEF ImageRec
<1>3. PICK l \in [0..N -> Seq(PhdrRec)] :
           /\ Loads(img) = l[N]
           /\ l[0] = <<>>
           /\ \A n \in 1..N : l[n] = IF img.phdrs[n].type # "LOAD" THEN l[n - 1]
                                     ELSE Append(l[n - 1], img.phdrs[n])
  BY <1>1, LoadsRuns, Zenon
<1>4. PICK f \in [0..N -> PlanRec] :
           /\ f[0] = Plan("OK", img.entry, <<>>)
           /\ \A n \in 1..N : f[n] = AddSegment(img.phdrs[n], img.size, f[n - 1])
           /\ PlanLoad(img) =
                IF HeaderError(img) # "OK" THEN Plan(HeaderError(img), 0, <<>>)
                ELSE IF f[N].rc = "OK" /\ f[N].segments = <<>> THEN [f[N] EXCEPT !.rc = "SEGCOUNT"]
                ELSE f[N]
  BY <1>1, PlanRuns, Zenon
<1>5. Agrees(f[N], l[N], img)
  <2> DEFINE T == { n \in Nat : Agrees(f[n], l[n], img) }
  <2>1. 0 \in T
    <3>1. f[0].rc = "OK" /\ f[0].entry = img.entry /\ f[0].segments = <<>>
      BY <1>4 DEF Plan
    <3>2. Fits(<<>>, img.size)
      <4>1. Len(<<>>) = 0
        BY Zenon
      <4> QED BY <4>1, ElfAssumption DEF Fits
    <3>3. Agrees(f[0], l[0], img)
      BY <1>3, <3>1, <3>2, Zenon DEF Agrees
    <3> QED BY <3>3, Zenon
  <2>2. ASSUME NEW n \in 0..(N - 1), n \in T PROVE n + 1 \in T
    <3>1. n + 1 \in 1..N /\ (n + 1) - 1 = n /\ n \in 0..N
      OBVIOUS
    <3>2. f[n] \in PlanRec /\ l[n] \in Seq(PhdrRec) /\ img.phdrs[n + 1] \in PhdrRec
      BY <1>1, <3>1, Zenon
    <3>3. Agrees(f[n], l[n], img)
      BY <2>2, Zenon
    <3>4. Agrees(AddSegment(img.phdrs[n + 1], img.size, f[n]),
                 IF img.phdrs[n + 1].type # "LOAD" THEN l[n] ELSE Append(l[n], img.phdrs[n + 1]),
                 img)
      BY <1>2, <3>2, <3>3, TurnAgrees, Zenon
    <3>5. /\ f[n + 1] = AddSegment(img.phdrs[n + 1], img.size, f[n])
          /\ l[n + 1] = IF img.phdrs[n + 1].type # "LOAD" THEN l[n]
                        ELSE Append(l[n], img.phdrs[n + 1])
      BY <1>3, <1>4, <3>1, Zenon
    <3>6. Agrees(f[n + 1], l[n + 1], img)
      BY <3>4, <3>5, Zenon
    <3> QED BY <3>6
  <2> HIDE DEF T
  <2>3. 0..N \subseteq T
    BY <2>1, <2>2, UpTo, Zenon
  <2>4. N \in T
    BY <2>3
  <2> QED BY <2>4, Zenon DEF T
<1>6. PICK p \in PlanRec, segs \in Seq(PhdrRec) : p = f[N] /\ segs = l[N]
  OBVIOUS
<1>7. segs = Loads(img) /\ Agrees(p, segs, img)
  BY <1>3, <1>5, <1>6, Zenon
<1>8. GoodImage(img) <=> GoodHeader(img) /\ segs # <<>> /\ Fits(segs, img.size)
  <2>1. Len(segs) \in Nat /\ (segs = <<>> <=> Len(segs) = 0)
    BY EmptySeq
  <2>2. Len(segs) \in 1..MaxSegs <=> segs # <<>> /\ Len(segs) <= MaxSegs
    BY <2>1, ElfAssumption
  <2> QED BY <1>7, <2>2, Zenon DEF GoodImage, GoodHeader, Fits
<1>9. img.phdrs = <<>> => segs = <<>>
  <2>1. img.phdrs = <<>> => N = 0
    BY <1>1, Zenon
  <2> QED BY <1>3, <1>6, <2>1, Zenon
<1>10. CASE HeaderError(img) # "OK"
  <2>1. PICK q : q = Plan(HeaderError(img), 0, <<>>)
    BY Zenon
  <2>2. q.rc # "OK" /\ q.entry = 0 /\ q.segments = <<>>
    BY <1>10, <2>1, Zenon DEF Plan
  <2>3. ~GoodImage(img)
    BY <1>8, <1>9, <1>10, HeaderExact, Zenon
  <2> QED BY <1>4, <1>10, <2>1, <2>2, <2>3, Zenon DEF Exact
<1>11. CASE HeaderError(img) = "OK" /\ p.rc = "OK" /\ p.segments = <<>>
  <2>1. PICK q : q = [p EXCEPT !.rc = "SEGCOUNT"]
    BY Zenon
  <2>2. q.rc # "OK" /\ q.segments = <<>>
    BY <1>11, <2>1, Zenon DEF PlanRec
  <2>3. segs = <<>>
    BY <1>7, <1>11, Zenon DEF Agrees
  <2>4. PlanLoad(img) = q
    BY <1>4, <1>6, <1>11, <2>1, Zenon
  <2> QED BY <1>7, <1>8, <2>2, <2>3, <2>4, Zenon DEF Exact
<1>12. CASE HeaderError(img) = "OK" /\ ~(p.rc = "OK" /\ p.segments = <<>>)
  <2>1. PlanLoad(img) = p
    BY <1>4, <1>6, <1>12, Zenon
  <2>2. GoodHeader(img)
    BY <1>12, HeaderExact, Zenon
  <2> QED BY <1>7, <1>8, <1>12, <2>1, <2>2, Zenon DEF Exact, Agrees
<1> QED BY <1>10, <1>11, <1>12, Zenon

-----------------------------------------------------------------------------
(* mcsos_sched_enqueue adds a thread that is not in the list.              *)
LEMMA Appended ==
  ASSUME NEW l, Linked(l), NEW t \in Thread, ~InList(l, t)
  PROVE  /\ Linked(AppendTo(l, t))
         /\ AppendTo(l, t).queue = Append(l.queue, t)
         /\ \A u : InList(AppendTo(l, t), u) <=> InList(l, u) \/ u = t
<1> DEFINE q == l.queue
           r == Append(l.queue, t)
           m == AppendTo(l, t)
           n == Len(l.queue)
<1>1. /\ q \in Seq(Thread) /\ n \in Nat /\ DOMAIN q = 1..n
      /\ r \in Seq(Thread) /\ Len(r) = n + 1 /\ DOMAIN r = 1..(n + 1)
      /\ \A i \in 1..n : r[i] = q[i] /\ q[i] \in Thread
      /\ r[n + 1] = t
      /\ r # <<>>
  <2>1. q \in Seq(Thread)
    BY Zenon DEF Linked
  <2>2. /\ n \in Nat /\ DOMAIN q = 1..n
        /\ \A i \in 1..n : q[i] \in Thread
    BY <2>1, LenProperties, ElementOfSeq, Zenon
  <2>3. /\ r \in Seq(Thread) /\ Len(r) = n + 1
        /\ \A i \in 1..n : r[i] = q[i]
        /\ r[n + 1] = t
    BY <2>1, <2>2, AppendProperties
  <2> HIDE DEF q, r, n
  <2>4. DOMAIN r = 1..(n + 1) /\ r # <<>>
    BY <2>2, <2>3, LenProperties, EmptySeq
  <2> QED BY <2>1, <2>2, <2>3, <2>4, Zenon
<1>2. /\ m.queue = r /\ m.tail = t /\ m.count = l.count + 1
      /\ m.head = IF l.tail = Null THEN t ELSE l.head
      /\ m.next = IF l.tail = Null THEN [l.next EXCEPT ![t] = Null]
                  ELSE [[l.next EXCEPT ![t] = Null] EXCEPT ![l.tail] = t]
  BY Zenon DEF AppendTo
<1>3. /\ q = <<>> <=> n = 0
      /\ l.tail = Null <=> n = 0
      /\ n > 0 => l.head = q[1] /\ l.tail = q[n]
  BY <1>1, SchedAssumption DEF Linked
<1>4. /\ l.next \in [Thread -> Thread \cup {Null}] /\ l.count = n
      /\ \A i, j \in 1..n : q[i] = q[j] => i = j
      /\ \A i \in 1..n : l.next[q[i]] = IF i = n THEN Null ELSE q[i + 1]
      /\ \A u \in Thread : ~InList(l, u) => l.next[u] = Null
  BY <1>1, Zenon DEF Linked
<1>5. q = l.queue /\ \A i \in 1..n : q[i] # t
  BY <1>1, Zenon DEF InList
<1> HIDE DEF m, r, q, n
<1>6. \A u : InList(m, u) <=> InList(l, u) \/ u = t
  <2>1. \A u : InList(m, u) <=> \E i \in 1..(n + 1) : r[i] = u
    BY <1>1, <1>2, Zenon DEF InList
  <2>2. \A u : InList(l, u) <=> \E i \in 1..n : q[i] = u
    BY <1>1, <1>5, Zenon DEF InList
  <2>3. n + 1 \in 1..(n + 1) /\ \A i : i \in 1..(n + 1) <=> i \in 1..n \/ i = n + 1
    BY <1>1
  <2> QED BY <1>1, <2>1, <2>2, <2>3, Zenon
<1>7. \A i, j \in DOMAIN r : r[i] = r[j] => i = j
  BY <1>1, <1>4, <1>5
<1>8. m.next \in [Thread -> Thread \cup {Null}]
  BY <1>1, <1>2, <1>3, <1>4
<1>9. ASSUME NEW i \in DOMAIN r
      PROVE  m.next[r[i]] = IF i = Len(r) THEN Null ELSE r[i + 1]
  <2>1. CASE i = n + 1
    BY <1>1, <1>2, <1>3, <1>4, <1>5, <2>1
  <2>2. CASE i = n
    BY <1>1, <1>2, <1>3, <1>4, <1>5, <2>2
  <2>3. CASE i \in 1..(n - 1)
    <3>1. q[i] # q[n] /\ q[i] # t /\ i \in 1..n /\ n \in 1..n
      BY <1>1, <1>4, <1>5, <2>3
    <3> QED BY <1>1, <1>2, <1>3, <1>4, <2>3, <3>1
  <2> QED BY <1>1, <1>9, <2>1, <2>2, <2>3
<1>10. ASSUME NEW u \in Thread, ~InList(m, u) PROVE m.next[u] = Null
  <2>1. u # t /\ ~InList(l, u)
    BY <1>6, <1>10, Zenon
  <2>2. n > 0 => u # l.tail
    BY <1>1, <1>3, <1>5, <2>1 DEF InList
  <2> QED BY <1>1, <1>2, <1>3, <1>4, <2>1, <2>2
<1>11. /\ m.count = Len(r)
       /\ m.head = r[1] /\ m.tail = r[Len(r)]
  <2>1. m.count = Len(r)
    BY <1>1, <1>2, <1>4, Zenon
  <2>2. n = 0 => 1 = n + 1
    OBVIOUS
  <2>3. n # 0 => n > 0 /\ 1 \in 1..n
    BY <1>1
  <2>4. m.head = r[1]
    BY <1>1, <1>2, <1>3, <2>2, <2>3, Zenon
  <2> QED BY <1>1, <1>2, <2>1, <2>4, Zenon
<1>12. Linked(m)
  <2>1. /\ m.head = IF r = <<>> THEN Null ELSE r[1]
        /\ m.tail = IF r = <<>> THEN Null ELSE r[Len(r)]
    BY <1>1, <1>11, Zenon
  <2> QED BY <1>1, <1>2, <1>7, <1>8, <1>9, <1>10, <1>11, <2>1, Zenon DEF Linked
<1> QED BY <1>2, <1>6, <1>12, Zenon DEF m, r

(* mcsos_sched_pick_next takes the first thread, or the idle thread if     *)
(* there is none.                                                          *)
LEMMA Picked ==
  ASSUME NEW l, Linked(l), l.queue # <<>>
  PROVE  /\ Linked(RemoveHead(l))
         /\ RemoveHead(l).queue = Tail(l.queue)
         /\ PickNext(l) = Head(l.queue) /\ PickNext(l) \in Thread
         /\ InList(l, PickNext(l))
         /\ \A u : InList(RemoveHead(l), u) <=> InList(l, u) /\ u # PickNext(l)
<1> DEFINE q == l.queue
           r == Tail(l.queue)
           m == RemoveHead(l)
           n == Len(l.queue)
<1>1. /\ q \in Seq(Thread) /\ n \in Nat \ {0} /\ DOMAIN q = 1..n
      /\ r \in Seq(Thread) /\ Len(r) = n - 1 /\ DOMAIN r = 1..(n - 1)
      /\ \A i \in 1..(n - 1) : r[i] = q[i + 1]
      /\ \A i \in 1..n : q[i] \in Thread
      /\ Head(q) = q[1]
  <2>1. q \in Seq(Thread)
    BY Zenon DEF Linked
  <2>2. n \in Nat \ {0} /\ DOMAIN q = 1..n /\ \A i \in 1..n : q[i] \in Thread
    BY <2>1, EmptySeq, LenProperties, ElementOfSeq, Zenon
  <2>3. /\ r \in Seq(Thread) /\ Len(r) = n - 1 /\ Head(q) = q[1]
        /\ \A i \in 1..(n - 1) : r[i] = q[i + 1]
    BY <2>1, <2>2, HeadTailProperties
  <2> QED BY <2>1, <2>2, <2>3, LenProperties, Zenon
<1>2. l.head = q[1] /\ l.head # Null
  BY <1>1, SchedAssumption DEF Linked
<1>3. /\ l.next \in [Thread -> Thread \cup {Null}] /\ l.count = n /\ l.tail = q[n]
      /\ \A i, j \in 1..n : q[i] = q[j] => i = j
      /\ \A i \in 1..n : l.next[q[i]] = IF i = n THEN Null ELSE q[i + 1]
      /\ \A u \in Thread : ~InList(l, u) => l.next[u] = Null
  BY <1>1, Zenon DEF Linked
<1>4. /\ m.queue = r /\ m.count = n - 1
      /\ m.head = l.next[q[1]]
      /\ m.tail = IF l.next[q[1]] = Null THEN Null ELSE l.tail
      /\ m.next = [l.next EXCEPT ![q[1]] = Null]
  BY <1>1, <1>2, <1>3 DEF RemoveHead
<1>5. PickNext(l) = q[1]
  BY <1>2, Zenon DEF PickNext
<1>6. l.next[q[1]] = IF n = 1 THEN Null ELSE q[2]
  <2>1. 1 \in 1..n /\ 1 + 1 = 2
    BY <1>1
  <2> QED BY <1>3, <2>1, Zenon
<1>7. \A i, j \in DOMAIN r : r[i] = r[j] => i = j
  <2> SUFFICES ASSUME NEW i \in 1..(n - 1), NEW j \in 1..(n - 1), r[i] = r[j] PROVE i = j
    BY <1>1, Zenon
  <2>1. i + 1 \in 1..n /\ j + 1 \in 1..n /\ q[i + 1] = q[j + 1]
    BY <1>1
  <2>2. i + 1 = j + 1
    BY <1>3, <2>1, Zenon
  <2> QED BY <2>2
<1>8. \A i \in 1..(n - 1) : r[i] # q[1]
  BY <1>1, <1>3
<1>9. \A u : InList(m, u) <=> InList(l, u) /\ u # q[1]
  <2>1. ASSUME NEW u, InList(m, u) PROVE InList(l, u) /\ u # q[1]
    <3>1. PICK i \in 1..(n - 1) : r[i] = u
      BY <1>1, <1>4, <2>1, Zenon DEF InList
    <3>2. i + 1 \in DOMAIN l.queue /\ l.queue[i + 1] = u
      BY <1>1, <3>1
    <3>3. u # q[1]
      BY <1>8, <3>1, Zenon
    <3> QED BY <3>2, <3>3, Zenon DEF InList
  <2>2. ASSUME NEW u, InList(l, u), u # q[1] PROVE InList(m, u)
    <3>1. PICK i \in 1..n : q[i] = u
      BY <1>1, <2>2, Zenon DEF InList
    <3>2. i - 1 \in 1..(n - 1) /\ r[i - 1] = u
      BY <1>1, <2>2, <3>1
    <3> QED BY <1>1, <1>4, <3>2, Zenon DEF InList
  <2> QED BY <2>1, <2>2, Zenon
<1>10. ASSUME NEW i \in DOMAIN r
       PROVE  m.next[r[i]] = IF i = Len(r) THEN Null ELSE r[i + 1]
  <2> HIDE DEF m, r, q, n
  <2>1. i + 1 \in 1..n /\ r[i] = q[i + 1] /\ r[i] # q[1] /\ r[i] \in Thread
    BY <1>1, <1>8
  <2>2. m.next[r[i]] = IF i + 1 = n THEN Null ELSE q[i + 1 + 1]
    BY <1>3, <1>4, <2>1
  <2>3. i \in 1..(n - 1) /\ Len(r) = n - 1
    BY <1>1, Zenon
  <2>4. CASE i = n - 1
    BY <1>1, <2>2, <2>3, <2>4
  <2>5. CASE i # n - 1
    <3>1. i + 1 \in 1..(n - 1) /\ i + 1 # n
      BY <1>1, <2>3, <2>5
    <3> QED BY <1>1, <2>2, <2>3, <2>5, <3>1, Zenon
  <2> QED BY <2>4, <2>5, Zenon
<1>11. ASSUME NEW u \in Thread, ~InList(m, u) PROVE m.next[u] = Null
  BY <1>3, <1>4, <1>9, <1>11, Zenon
<1>12. m.next \in [Thread -> Thread \cup {Null}]
  BY <1>3, <1>4, Zenon
<1>13. /\ m.count = Len(r) /\ (r = <<>> <=> n = 1)
       /\ m.head = IF r = <<>> THEN Null ELSE r[1]
       /\ m.tail = IF r = <<>> THEN Null ELSE r[Len(r)]
  <2> HIDE DEF m, r, q, n
  <2>1. r = <<>> <=> n = 1
    BY <1>1, EmptySeq
  <2>2. ASSUME n # 1 PROVE q[2] # Null /\ r[1] = q[2] /\ r[n - 1] = q[n]
    <3>1. 2 \in 1..n /\ 1 \in 1..(n - 1) /\ n - 1 \in 1..(n - 1) /\ n - 1 + 1 = n /\ 1 + 1 = 2
      BY <1>1, <2>2
    <3> QED BY <1>1, <3>1, SchedAssumption, Zenon
  <2>3. m.count = Len(r)
    BY <1>1, <1>3, <1>4, <1>6
  <2>4. CASE n = 1
    BY <1>4, <1>6, <2>1, <2>3, <2>4, Zenon
  <2>5. CASE n # 1
    <3>1. m.head = q[2] /\ m.tail = q[n] /\ r # <<>> /\ Len(r) = n - 1
      BY <1>1, <1>3, <1>4, <1>6, <2>1, <2>2, <2>5, Zenon
    <3> QED BY <2>1, <2>2, <2>3, <2>5, <3>1, Zenon
  <2> QED BY <2>4, <2>5, Zenon
<1>14. InList(l, q[1]) /\ q[1] \in Thread
  BY <1>1 DEF InList
<1> HIDE DEF m, r, q, n
<1>15. Linked(m)
  BY <1>1, <1>4, <1>7, <1>10, <1>11, <1>12, <1>13 DEF Linked
<1> QED BY <1>1, <1>4, <1>5, <1>9, <1>14, <1>15, Zenon DEF m, r, q

(* With an empty queue mcsos_sched_pick_next changes nothing.              *)
LEMMA PickedIdle ==
  ASSUME NEW l, Linked(l), l.queue = <<>>
  PROVE  PickNext(l) = Idle /\ RemoveHead(l) = l
BY Zenon DEF Linked, PickNext, RemoveHead

(* The list that a step sets is the list after it.                         *)
LEMMA ListSet ==
  ASSUME NEW l, SetList(l)
  PROVE  /\ Linked(l) => Linked(List)'
         /\ queue' = l.queue
         /\ \A t : InList(List, t)' <=> InList(l, t)
BY Zenon DEF SetList, List, Linked, InList

-----------------------------------------------------------------------------
(* The inductive invariant: SchedInv, with what lets mcsos_sched_enqueue   *)
(* refuse the idle thread, whose state nothing ever changes.               *)
StatesAgree ==
  /\ {current, Idle} \subseteq valid
  /\ state[Idle] = "RUNNING"
  /\ Idle \notin Queued
  /\ \A t \in Thread \ {Idle} :
       /\ state[t] = "READY" <=> t \in Queued
       /\ state[t] = "RUNNING" <=> t = current
       /\ state[t] # "NEW" => t \in valid

SchedIInv == STypeOK /\ Linked(List) /\ StatesAgree /\ StackInside

LEMMA SchedImplied == SchedIInv => SchedInv
BY Zenon DEF SchedIInv, SchedInv, STypeOK, StatesAgree, StateAgrees

(* mcsos_scheduler_init.                                                   *)
LEMMA InitSched == SInit => SchedIInv
<1> SUFFICES ASSUME SInit PROVE SchedIInv
  BY Zenon
<1>1. STypeOK
  BY SchedAssumption DEF SInit, STypeOK, NoStack
<1>2. Linked(List)
  BY DEF SInit, Linked, List, InList
<1>3. StatesAgree
  BY SchedAssumption DEF SInit, StatesAgree, Queued, InList, List
<1>4. StackInside
  BY Zenon DEF SInit, StackInside
<1> QED BY <1>1, <1>2, <1>3, <1>4, Zenon DEF SchedIInv

(* The stack pointer of mcsos_thread_prepare is inside the stack.          *)
LEMMA TopInside ==
  ASSUME NEW low \in 0..(AddrSpace - 1), NEW size \in 0..(AddrSpace - 1),
         StackTop(low, size) # 0
  PROVE  /\ low <= StackTop(low, size)
         /\ StackTop(low, size) + Word <= low + size
         /\ low + size < AddrSpace
         /\ StackTop(low, size) \in Int /\ low \in Int /\ size \in Int
<1> DEFINE high == (low + size) % AddrSpace
           top == high - (high % StackAlign)
<1>1. /\ low \in Nat /\ size \in Nat /\ low < AddrSpace /\ size < AddrSpace
      /\ AddrSpace \in Nat /\ StackAlign \in Nat \ {0} /\ Word \in Nat /\ Reserve \in Nat
      /\ Word <= Reserve
  BY SchedAssumption
<1>2. high \in Nat /\ (low + size < AddrSpace => high = low + size)
      /\ (low + size >= AddrSpace => high = low + size - AddrSpace)
  BY <1>1
<1>3. high % StackAlign \in Nat
  BY <1>1, <1>2
<1>4. StackTop(low, size) = top - Word /\ ~(high <= low) /\ ~(top <= low + Reserve)
  BY Zenon DEF StackTop
<1> HIDE DEF high
<1>5. high = low + size /\ low + size < AddrSpace
  BY <1>1, <1>2, <1>4
<1> QED BY <1>1, <1>2, <1>3, <1>4, <1>5

(* mcsos_thread_prepare, of a thread that is not yet one.                  *)
LEMMA PrepareKeeps ==
  ASSUME SchedIInv, NEW t \in Thread,
         NEW low \in 0..(AddrSpace - 1), NEW size \in 0..(AddrSpace - 1),
         Prepare(t, low, size)
  PROVE  SchedIInv'
<1>1. t \notin valid /\ t # Idle /\ state[t] = "NEW" /\ t \notin Queued
  BY Zenon DEF Prepare, SchedIInv, StatesAgree, STypeOK
<1>2. next[t] = Null /\ next \in [Thread -> Thread \cup {Null}]
  BY <1>1, Zenon DEF SchedIInv, Linked, List, Queued
<1>3. UNCHANGED <<next, head, tail, count, queue, current>> /\ UNCHANGED state
  <2>1. /\ next' = [next EXCEPT ![t] = Null] /\ state' = [state EXCEPT ![t] = "NEW"]
        /\ UNCHANGED <<head, tail, count, queue, current>>
    BY Zenon DEF Prepare
  <2>2. state = [u \in Thread |-> state[u]] /\ next = [u \in Thread |-> next[u]]
    BY <1>2, Zenon DEF SchedIInv, STypeOK
  <2>3. next' = next /\ state' = state
    BY <1>1, <1>2, <2>1, <2>2
  <2> QED BY <2>1, <2>3, Zenon
<1>4. Linked(List)' /\ Queued' = Queued
  BY <1>3 DEF SchedIInv, List, Linked, InList, Queued
<1>5. valid' = valid \cup {t} /\ stack' = [stack EXCEPT ![t] = <<low, size, StackTop(low, size)>>]
      /\ StackTop(low, size) # 0
  BY Zenon DEF Prepare
<1>6. /\ low <= StackTop(low, size) /\ StackTop(low, size) + Word <= low + size
      /\ low + size < AddrSpace
      /\ StackTop(low, size) \in Int /\ low \in Int /\ size \in Int
  BY <1>5, TopInside, Zenon
<1>7. STypeOK'
  BY <1>3, <1>5, <1>6, Zenon DEF SchedIInv, STypeOK
<1>8. StatesAgree'
  BY <1>3, <1>4, <1>5, Zenon DEF SchedIInv, StatesAgree
<1>9. StackInside'
  BY <1>5, <1>6, Zenon DEF SchedIInv, STypeOK, StackInside
<1> QED BY <1>4, <1>7, <1>8, <1>9, Zenon DEF SchedIInv

(* mcsos_sched_enqueue, of a thread that waits outside the queue.          *)
LEMMA EnqueueKeeps ==
  ASSUME SchedIInv, Polite, NEW t \in Thread, Enqueue(t)
  PROVE  /\ SchedIInv'
         /\ t # Idle /\ t # current /\ ~InList(List, t)
         /\ queue' = Append(queue, t) /\ UNCHANGED current
<1>1. t # Idle /\ t # current /\ ~InList(List, t)
  BY Zenon DEF Enqueue, Waiting, SchedIInv, StatesAgree, Queued
<1>2. /\ Linked(AppendTo(List, t))
      /\ AppendTo(List, t).queue = Append(List.queue, t)
      /\ \A u : InList(AppendTo(List, t), u) <=> InList(List, u) \/ u = t
  BY <1>1, Appended, Zenon DEF SchedIInv
<1>3. /\ Linked(List)' /\ queue' = AppendTo(List, t).queue
      /\ \A u : InList(List, u)' <=> InList(AppendTo(List, t), u)
  BY <1>2, ListSet, Zenon DEF Enqueue
<1>4. Queued' = Queued \cup {t}
  BY <1>2, <1>3, Zenon DEF Queued
<1>5. /\ state' = [state EXCEPT ![t] = "READY"] /\ t \in valid
      /\ UNCHANGED <<valid, current, stack>>
  BY Zenon DEF Enqueue
<1>6. STypeOK' /\ StackInside'
  BY <1>5, Zenon DEF SchedIInv, STypeOK, StackInside
<1>7. StatesAgree'
  BY <1>1, <1>4, <1>5, Zenon DEF SchedIInv, STypeOK, StatesAgree
<1>8. queue' = Append(queue, t)
  BY <1>2, <1>3, Zenon DEF List
<1> QED BY <1>1, <1>3, <1>5, <1>6, <1>7, <1>8, Zenon DEF SchedIInv

(* mcsos_sched_yield, and mcsos_thread_block_current, which enters it with *)
(* the running thread blocked.                                             *)
LEMMA RescheduleKeeps ==
  ASSUME SchedIInv, UNCHANGED <<valid, stack>>, NEW st, Reschedule(st),
         \/ st = state
         \/ current # Idle /\ st = [state EXCEPT ![current] = "BLOCKED"]
  PROVE  /\ SchedIInv'
         /\ current' = IF queue = <<>> THEN Idle ELSE Head(queue)
         /\ LET others == IF queue = <<>> THEN <<>> ELSE Tail(queue)
            IN \/ queue' = others
               \/ current # Idle /\ queue' = Append(others, current)
<1> DEFINE new == PickNext(List)
           rest == RemoveHead(List)
           keeps == st[current] = "RUNNING" /\ current # Idle
           others == IF queue = <<>> THEN <<>> ELSE Tail(queue)
<1>1. /\ Linked(rest) /\ rest.queue = others
      /\ new = IF queue = <<>> THEN Idle ELSE Head(queue)
      /\ new \in Thread
      /\ queue # <<>> => InList(List, new)
      /\ \A u \in Thread : InList(rest, u) <=> InList(List, u) /\ u # new
  <2>1. List.queue = queue /\ Linked(List)
    BY Zenon DEF List, SchedIInv
  <2>2. CASE queue = <<>>
    <3>1. new = Idle /\ rest = List
      BY <2>1, <2>2, PickedIdle, Zenon
    <3>2. \A u : ~InList(List, u)
      BY <2>1, <2>2 DEF InList
    <3> QED BY <2>1, <2>2, <3>1, <3>2, SchedAssumption, Zenon
  <2>3. CASE queue # <<>>
    BY <2>1, <2>3, Picked, Zenon
  <2> QED BY <2>2, <2>3, Zenon
<1>2. /\ current \in Thread /\ ~InList(List, current) /\ ~InList(List, Idle)
      /\ {current, Idle} \subseteq valid /\ Idle \in Thread
      /\ \A t \in Thread \ {Idle} :
           /\ state[t] = "READY" <=> InList(List, t)
           /\ state[t] = "RUNNING" <=> t = current
           /\ state[t] # "NEW" => t \in valid
  <2>1. \A t \in Thread : t \in Queued <=> InList(List, t)
    BY Zenon DEF Queued
  <2>2. current \in Thread /\ {current, Idle} \subseteq valid /\ Idle \in Thread
    BY SchedAssumption, Zenon DEF SchedIInv, STypeOK, StatesAgree
  <2>3. \A t \in Thread \ {Idle} :
           /\ state[t] = "READY" <=> InList(List, t)
           /\ state[t] = "RUNNING" <=> t = current
           /\ state[t] # "NEW" => t \in valid
    BY <2>1, Zenon DEF SchedIInv, StatesAgree
  <2>4. ~InList(List, Idle)
    BY <2>1, <2>2, Zenon DEF SchedIInv, StatesAgree
  <2>5. ~InList(List, current)
    BY <2>2, <2>3, <2>4, Zenon
  <2> QED BY <2>2, <2>3, <2>4, <2>5, Zenon
<1>3. /\ st \in [Thread -> {"NEW", "READY", "RUNNING", "BLOCKED"}]
      /\ \A t \in Thread \ {current} : st[t] = state[t]
      /\ st[current] \in {"RUNNING", "BLOCKED"}
      /\ current = Idle => st = state
  BY <1>2, Zenon DEF SchedIInv, STypeOK, StatesAgree
<1>4. new \in valid /\ (new # Idle => new # current /\ state[new] = "READY")
  <2>1. CASE new = Idle
    BY <1>2, <2>1, Zenon
  <2>2. CASE new # Idle
    <3>1. InList(List, new) /\ new \in Thread \ {Idle}
      BY <1>1, <2>2, Zenon
    <3>2. state[new] = "READY"
      BY <1>2, <3>1, Zenon
    <3> QED BY <1>2, <3>1, <3>2, Zenon
  <2> QED BY <2>1, <2>2, Zenon
<1> HIDE DEF new, rest
<1>5. CASE new = current
  <2>1. current = Idle /\ queue = <<>>
    BY <1>1, <1>2, <1>4, <1>5, Zenon
  <2>2. SetList(rest) /\ state' = [st EXCEPT ![current] = "RUNNING"] /\ UNCHANGED current
    BY <1>5, Zenon DEF Reschedule, new, rest
  <2>3. Linked(List)' /\ queue' = others /\ \A u : InList(List, u)' <=> InList(rest, u)
    BY <1>1, <2>2, ListSet, Zenon
  <2>4. state' = state
    BY <1>3, <2>1, <2>2, Zenon DEF SchedIInv, STypeOK, StatesAgree
  <2>5. StatesAgree'
    BY <1>1, <1>2, <2>1, <2>2, <2>3, <2>4 DEF SchedIInv, StatesAgree, Queued
  <2>6. STypeOK' /\ StackInside'
    BY <2>2, <2>4, Zenon DEF SchedIInv, STypeOK, StackInside
  <2> QED BY <1>1, <1>5, <2>1, <2>2, <2>3, <2>5, <2>6 DEF SchedIInv
<1>6. CASE new # current
  <2> DEFINE l == IF keeps THEN AppendTo(rest, current) ELSE rest
  <2>1. /\ SetList(l) /\ current' = new
        /\ state' = [st EXCEPT ![current] = IF keeps THEN "READY" ELSE @, ![new] = "RUNNING"]
    BY <1>6, Zenon DEF Reschedule, new, rest
  <2>2. /\ Linked(l) /\ l.queue = IF keeps THEN Append(others, current) ELSE others
        /\ \A u \in Thread :
             InList(l, u) <=> (InList(List, u) /\ u # new) \/ (keeps /\ u = current)
    <3>1. CASE keeps
      <4>1. ~InList(rest, current)
        BY <1>1, <1>2, Zenon
      <4> QED BY <1>1, <1>2, <3>1, <4>1, Appended, Zenon
    <3>2. CASE ~keeps
      BY <1>1, <3>2, Zenon
    <3> QED BY <3>1, <3>2, Zenon
  <2> HIDE DEF l
  <2>3. Linked(List)' /\ queue' = l.queue /\ \A u : InList(List, u)' <=> InList(l, u)
    BY <2>1, <2>2, ListSet, Zenon
  <2>4. STypeOK' /\ StackInside'
    BY <1>1, <1>2, <1>3, <2>1, Zenon DEF SchedIInv, STypeOK, StackInside
  <2>5. /\ \A u \in Thread \ {current, new} : state'[u] = state[u]
        /\ state'[new] = "RUNNING"
        /\ state'[current] = IF keeps THEN "READY" ELSE st[current]
    BY <1>1, <1>2, <1>3, <1>6, <2>1, Zenon
  <2>6. StatesAgree'
    <3>1. state'[Idle] = "RUNNING"
      BY <1>2, <1>3, <2>5, Zenon DEF SchedIInv, StatesAgree
    <3>2. ~InList(l, Idle)
      BY <1>2, <2>2, Zenon
    <3>3. ASSUME NEW t \in Thread \ {Idle}
          PROVE  /\ state'[t] = "READY" <=> InList(l, t)
                 /\ state'[t] = "RUNNING" <=> t = new
                 /\ state'[t] # "NEW" => t \in valid
      <4>1. CASE t = current
        BY <1>2, <1>3, <1>6, <2>2, <2>5, <4>1, Zenon
      <4>2. CASE t = new
        BY <1>2, <1>4, <1>6, <2>2, <2>5, <4>2
      <4>3. CASE t # current /\ t # new
        <5>1. state'[t] = state[t] /\ (InList(l, t) <=> InList(List, t))
          BY <2>2, <2>5, <4>3, Zenon
        <5> QED BY <1>2, <4>3, <5>1, Zenon
      <4> QED BY <4>1, <4>2, <4>3, Zenon
    <3>4. valid' = valid
      BY Zenon
    <3> QED BY <1>2, <1>4, <2>1, <2>3, <3>1, <3>2, <3>3, <3>4 DEF StatesAgree, Queued
  <2> QED BY <1>1, <2>1, <2>2, <2>3, <2>4, <2>6 DEF SchedIInv
<1> QED BY <1>5, <1>6, Zenon

-----------------------------------------------------------------------------
(* A step of the scheduler, as its callers make it or as kmain makes it:   *)
(* it keeps the invariant and is a step of round robin.                    *)
SchedStep ==
  \/ SNext
  \/ \E t \in Thread, low, size \in 0..(AddrSpace - 1) : Prepare(t, low, size)
  \/ UNCHANGED svars

LEMMA NextSched == Polite /\ SchedIInv /\ SchedStep => SchedIInv'
<1> SUFFICES ASSUME Polite, SchedIInv, SchedStep PROVE SchedIInv'
  BY Zenon
<1>1. CASE Yield
  BY <1>1, RescheduleKeeps, Zenon DEF Yield
<1>2. CASE BlockCurrent
  BY <1>2, RescheduleKeeps, Zenon DEF BlockCurrent
<1>3. CASE UNCHANGED svars
  <2>1. STypeOK' /\ StackInside'
    BY <1>3, Zenon DEF svars, qvars, SchedIInv, STypeOK, StackInside
  <2>2. List' = List /\ Queued' = Queued
    BY <1>3, Zenon DEF svars, qvars, List, InList, Queued
  <2>3. Linked(List)'
    BY <1>3, <2>2, Zenon DEF svars, qvars, SchedIInv, Linked
  <2>4. StatesAgree'
    BY <1>3, <2>2, Zenon DEF svars, qvars, SchedIInv, StatesAgree
  <2> QED BY <2>1, <2>3, <2>4, Zenon DEF SchedIInv
<1>4. StackBase \subseteq 0..(AddrSpace - 1) /\ StackSize \subseteq 0..(AddrSpace - 1)
  BY SchedAssumption, Zenon
<1> QED BY <1>1, <1>2, <1>3, <1>4, PrepareKeeps, EnqueueKeeps, Zenon DEF SchedStep, SNext, MarkReady

LEMMA NextRoundRobin == Polite /\ SchedIInv /\ SchedStep => [RR!RRNext]_<<current, queue>>
<1> SUFFICES ASSUME Polite, SchedIInv, SchedStep PROVE [RR!RRNext]_<<current, queue>>
  BY Zenon
<1>1. ASSUME NEW t \in Thread, Enqueue(t) PROVE RR!RRNext
  <2>1. /\ t # Idle /\ t # current /\ ~InList(List, t)
        /\ queue' = Append(queue, t) /\ UNCHANGED current
    BY <1>1, EnqueueKeeps, Zenon
  <2>2. RR!Admit(t)
    BY <2>1, Zenon DEF RR!Admit, RR!InQueue, InList, List
  <2> QED BY <2>2, Zenon DEF RR!RRNext
<1>2. ASSUME Yield \/ BlockCurrent PROVE RR!RRNext
  <2>1. /\ current' = IF queue = <<>> THEN Idle ELSE Head(queue)
        /\ LET others == IF queue = <<>> THEN <<>> ELSE Tail(queue)
           IN \/ queue' = others
              \/ current # Idle /\ queue' = Append(others, current)
    BY <1>2, RescheduleKeeps, Zenon DEF Yield, BlockCurrent
  <2>2. RR!Switch(TRUE) \/ RR!Switch(FALSE)
    BY <2>1, Zenon DEF RR!Switch, RR!First, RR!Others
  <2> QED BY <2>2, Zenon DEF RR!RRNext
<1>3. ASSUME NEW t, NEW low, NEW size, Prepare(t, low, size)
      PROVE  UNCHANGED <<current, queue>>
  BY <1>3, Zenon DEF Prepare
<1>4. CASE UNCHANGED svars
  BY <1>4, Zenon DEF svars, qvars
<1> QED BY <1>1, <1>2, <1>3, <1>4, Zenon DEF SchedStep, SNext, MarkReady

LEMMA InitRoundRobin == SInit => RR!RRInit
BY Zenon DEF SInit, RR!RRInit

(* The linked list of the ready queue is sound, no thread is lost or runs  *)
(* twice, and every stack can be used: for any number of threads and any   *)
(* calls of mcsos_thread.c that enqueue no thread twice.                   *)
THEOREM SchedHolds ==
  ASSUME Polite
  PROVE  SSpec => []SchedInv
<1>1. SchedIInv /\ [SNext]_svars => SchedIInv'
  BY NextSched, Zenon DEF SchedStep
<1> QED BY InitSched, SchedImplied, <1>1, PTL DEF SSpec

(* The scheduler implements first-in first-out round robin.                *)
THEOREM SchedRefines ==
  ASSUME Polite
  PROVE  SSpec => ImplementsRoundRobin
<1>1. SchedIInv /\ [SNext]_svars => [RR!RRNext]_<<current, queue>>
  BY NextRoundRobin, Zenon DEF SchedStep
<1>2. SchedIInv /\ [SNext]_svars => SchedIInv'
  BY NextSched, Zenon DEF SchedStep
<1> QED BY InitSched, InitRoundRobin, <1>1, <1>2, PTL DEF SSpec, ImplementsRoundRobin, RR!RRSpec

-----------------------------------------------------------------------------
(* The kernel.  Where kmain is.                                            *)
LEMMA Positions ==
  ASSUME pc \in 1..Len(Order)
  PROVE  /\ Len(Order) = 15 /\ pc \in 1..15
         /\ At("idt") <=> pc = 1
         /\ At("remap") <=> pc = 2
         /\ At("mask") <=> pc = 3
         /\ At("unmask") <=> pc = 4
         /\ At("sti") <=> pc = 5
         /\ At("memory") <=> pc = 6
         /\ At("prepare a") <=> pc = 7
         /\ At("prepare b") <=> pc = 8
         /\ At("enqueue a") <=> pc = 9
         /\ At("enqueue b") <=> pc = 10
         /\ At("image") <=> pc = 11
         /\ At("load") <=> pc = 12
         /\ At("syscalls") <=> pc = 13
         /\ At("yield") <=> pc = 14
         /\ At("idle") <=> pc = 15
<1>1. Len(Order) = 15 /\ pc \in 1..15
  BY Zenon DEF Order
<1>2. pc \in {1, 2, 3, 4, 5, 6, 7, 8, 9, 10, 11, 12, 13, 14, 15}
  BY <1>1
<1>3. /\ Order[1] = "idt" /\ Order[2] = "remap" /\ Order[3] = "mask" /\ Order[4] = "unmask"
      /\ Order[5] = "sti" /\ Order[6] = "memory" /\ Order[7] = "prepare a"
      /\ Order[8] = "prepare b" /\ Order[9] = "enqueue a" /\ Order[10] = "enqueue b"
      /\ Order[11] = "image" /\ Order[12] = "load" /\ Order[13] = "syscalls"
      /\ Order[14] = "yield" /\ Order[15] = "idle"
  BY Zenon DEF Order
<1>4. /\ At("idt") <=> pc = 1
      /\ At("remap") <=> pc = 2
      /\ At("mask") <=> pc = 3
      /\ At("unmask") <=> pc = 4
      /\ At("sti") <=> pc = 5
  BY <1>2, <1>3, Zenon DEF At
<1>5. /\ At("memory") <=> pc = 6
      /\ At("prepare a") <=> pc = 7
      /\ At("prepare b") <=> pc = 8
      /\ At("enqueue a") <=> pc = 9
      /\ At("enqueue b") <=> pc = 10
  BY <1>2, <1>3, Zenon DEF At
<1>6. /\ At("image") <=> pc = 11
      /\ At("load") <=> pc = 12
      /\ At("syscalls") <=> pc = 13
      /\ At("yield") <=> pc = 14
      /\ At("idle") <=> pc = 15
  BY <1>2, <1>3, Zenon DEF At
<1> QED BY <1>1, <1>4, <1>5, <1>6, Zenon

LEMMA KernelSchedules == [Next]_vars => SchedStep
<1> SUFFICES ASSUME [Next]_vars PROVE SchedStep
  BY Zenon
<1>1. {DemoA, DemoB} \subseteq Thread /\ {DemoStack, DemoSize} \subseteq 0..(AddrSpace - 1)
  BY KernelAssumption, Zenon
<1>2. CASE BootThread
  BY <1>1, <1>2, Zenon DEF BootThread, SchedStep, SNext
<1>3. CASE BringUp \/ BootMemory \/ BootImage \/ BootLoad \/ BootSyscalls
  BY <1>3, Zenon DEF BringUp, BootMemory, BootImage, BootLoad, BootSyscalls, SchedStep
<1>4. CASE BootYield \/ ThreadCalls
  BY <1>4, Zenon DEF BootYield, ThreadCalls, Calls, SchedStep, SNext
<1>5. CASE HandleSyscall
  BY <1>5, Zenon DEF HandleSyscall, CallReturns, CallYields, CallExits, SchedStep, SNext
<1>6. CASE UNCHANGED kvars
  BY <1>6, Zenon DEF kvars, SchedStep
<1>7. CASE UNCHANGED vars
  BY <1>6, <1>7, Zenon DEF vars
<1>8. CASE SoftwareTrap(3) \/ SoftwareTrap(128) \/ Interrupt
  BY <1>6, <1>8, Zenon DEF SoftwareTrap, Interrupt
<1> QED BY <1>2, <1>3, <1>4, <1>5, <1>6, <1>7, <1>8, Zenon DEF Next, Boot

(* The invariant in parts.                                                 *)
FlagsOK == {intsOn, saved, dead, halted, switchedInCall} \subseteq BOOLEAN

LinesOK ==
  /\ irr \subseteq Lines /\ isr \subseteq Lines /\ imr \subseteq Lines
  /\ ticks \in 0..(TickMod - 1)

FramesOK == frames \in [Thread -> {"none", "on", "off"}] /\ frames[current] = "none"

TrapsOK ==
  /\ pc \in 1..Len(Order)
  /\ trap \in -1..255 /\ gates \subseteq 0..255
  /\ BroughtUp
  /\ ServiceEnds

LEMMA KernelParts == KernelInv <=> FlagsOK /\ LinesOK /\ FramesOK /\ TrapsOK /\ ~dead
BY Zenon DEF KernelInv, KTypeOK, NoPanic, FlagsOK, LinesOK, FramesOK, TrapsOK

LEMMA NextFlags == FlagsOK /\ [Next]_vars => FlagsOK'
<1> SUFFICES ASSUME FlagsOK, [Next]_vars PROVE FlagsOK'
  BY Zenon
<1> USE DEF FlagsOK
<1>1. CASE BringUp
  BY <1>1, Zenon DEF BringUp, BootIdt, BootRemap, BootMask, BootUnmask, BootSti, tvars
<1>2. CASE BootMemory \/ BootThread \/ BootImage \/ BootLoad
  BY <1>2, Zenon DEF BootMemory, BootThread, BootImage, BootLoad, ivars, tvars
<1>3. CASE BootSyscalls
  BY <1>3, Zenon DEF BootSyscalls, tvars
<1>4. ASSUME NEW t PROVE Flag(t) \in BOOLEAN
  BY Zenon DEF Flag
<1>5. CASE BootYield \/ ThreadCalls
  BY <1>4, <1>5, Zenon DEF BootYield, ThreadCalls, Calls
<1>6. ASSUME NEW v, Enter(v), UNCHANGED <<halted, switchedInCall>> PROVE FlagsOK'
  BY <1>6, Zenon DEF Enter
<1>7. CASE SoftwareTrap(3) \/ SoftwareTrap(128)
  BY <1>6, <1>7, Zenon DEF SoftwareTrap, kvars, tvars
<1>8. CASE HandleSyscall
  BY <1>4, <1>8, Zenon DEF HandleSyscall, CallReturns, CallYields, CallExits, Return, tvars
<1>9. CASE Interrupt
  BY <1>6, <1>9, Zenon DEF Interrupt, Accept, AcceptSpurious, HandleLine, HandleException, Return, kvars, tvars
<1>10. CASE UNCHANGED kvars /\ \E l \in Lines : Raise(l)
  BY <1>10, Zenon DEF Raise, kvars, tvars
<1>11. CASE UNCHANGED vars
  BY <1>11, Zenon DEF vars, ivars, kvars, tvars
<1> QED BY <1>1, <1>2, <1>3, <1>5, <1>7, <1>8, <1>9, <1>10, <1>11, Zenon DEF Next, Boot

LEMMA NextLines == LinesOK /\ [Next]_vars => LinesOK'
<1> SUFFICES ASSUME LinesOK, [Next]_vars PROVE LinesOK'
  BY Zenon
<1> USE DEF LinesOK
<1>1. CASE BringUp
  BY <1>1, Zenon DEF BringUp, BootIdt, BootRemap, BootMask, BootUnmask, BootSti, PicRemap, PicMaskAll, PicUnmask
<1>2. CASE BootMemory \/ BootThread \/ BootImage \/ BootLoad
  BY <1>2, Zenon DEF BootMemory, BootThread, BootImage, BootLoad, ivars
<1>3. CASE BootSyscalls
  BY <1>3, Zenon DEF BootSyscalls
<1>4. CASE BootYield \/ ThreadCalls
  BY <1>4, Zenon DEF BootYield, ThreadCalls, Calls
<1>5. CASE SoftwareTrap(3) \/ SoftwareTrap(128)
  BY <1>5, Zenon DEF SoftwareTrap
<1>6. CASE HandleSyscall
  BY <1>6, Zenon DEF HandleSyscall
<1>7. CASE Accept \/ AcceptSpurious
  BY <1>7, Zenon DEF Accept, AcceptSpurious
<1>8. CASE HandleLine
  <2>1. ticks' \in 0..(TickMod - 1)
    BY <1>8, InterruptsAssumption DEF HandleLine, TimerOnIrq0
  <2> QED BY <1>8, <2>1, Zenon DEF HandleLine, SendEoi
<1>9. CASE HandleException
  BY <1>9, Zenon DEF HandleException
<1>10. CASE \E l \in Lines : Raise(l)
  BY <1>10, Zenon DEF Raise
<1>11. CASE UNCHANGED vars
  BY <1>11, Zenon DEF vars, ivars
<1> QED BY <1>1, <1>2, <1>3, <1>4, <1>5, <1>6, <1>7, <1>8, <1>9, <1>10, <1>11 DEF Next, Boot, Interrupt

LEMMA NextFrames == SchedIInv' /\ FramesOK /\ [Next]_vars => FramesOK'
<1> SUFFICES ASSUME SchedIInv', FramesOK, [Next]_vars PROVE FramesOK'
  BY Zenon
<1> USE DEF FramesOK
<1>1. current' \in Thread
  BY Zenon DEF SchedIInv, STypeOK
<1>2. CASE UNCHANGED <<frames, current>>
  BY <1>2, Zenon
<1>3. CASE BringUp \/ BootMemory \/ BootImage \/ BootLoad \/ BootSyscalls
  BY <1>2, <1>3, Zenon DEF BringUp, BootMemory, BootImage, BootLoad, BootSyscalls, svars, tvars
<1>4. CASE BootThread
  BY <1>2, <1>4, Zenon DEF BootThread, Prepare, Enqueue, tvars
<1>5. CASE BootYield \/ ThreadCalls
  BY <1>1, <1>5, Zenon DEF BootYield, ThreadCalls, Calls
<1>6. CASE UNCHANGED kvars
  BY <1>2, <1>6, Zenon DEF kvars, svars, tvars
<1>7. CASE SoftwareTrap(3) \/ SoftwareTrap(128) \/ Interrupt \/ UNCHANGED vars
  BY <1>6, <1>7, Zenon DEF SoftwareTrap, Interrupt, vars
<1>8. CASE HandleSyscall
  <2>1. CASE CallReturns \/ CallExits
    BY <1>2, <2>1, Zenon DEF CallReturns, CallExits, svars, tvars
  <2>2. CASE CallYields /\ current' = current
    BY <1>2, <2>2, Zenon DEF CallYields
  <2>3. CASE CallYields /\ current' # current
    BY <1>1, <2>3, Zenon DEF CallYields
  <2> QED BY <1>8, <2>1, <2>2, <2>3, Zenon DEF HandleSyscall
<1> QED BY <1>3, <1>4, <1>5, <1>6, <1>7, <1>8 DEF Next, Boot

(* Traps.  Outside the handler of a line nothing is in service.            *)
LEMMA Served ==
  ASSUME LinesOK, TrapsOK, trap \in {None, 3, 128}
  PROVE  isr = {}
<1>1. base \in {8, 32} /\ trap \in {-1, 3, 128}
  BY Zenon DEF TrapsOK, BroughtUp, None
<1>2. ASSUME NEW l \in isr PROVE FALSE
  <2>1. l \in 0..7 /\ trap = base + l
    BY InterruptsAssumption DEF LinesOK, TrapsOK, ServiceEnds
  <2> QED BY <1>1, <2>1
<1> QED BY <1>2, Zenon

LEMMA Entered ==
  ASSUME TrapsOK, pc > 5, UNCHANGED <<pc, base, gates>>,
         NEW v \in {3, 128} \cup 32..39, v \in gates, Enter(v),
         \A l \in isr' : v = base + l
  PROVE  TrapsOK' /\ ~dead'
<1>1. trap' = v
  BY Zenon DEF Enter
<1>2. ~dead'
  BY Zenon DEF Enter
<1>3. trap' \in -1..255 /\ trap' \in {None, 3, 128} \cup 32..39
  BY <1>1
<1>4. ServiceEnds'
  BY <1>1, Zenon DEF ServiceEnds
<1>5. pc' > 5 /\ pc \in Nat
  BY DEF TrapsOK, Order
<1>6. BroughtUp'
  BY <1>3, <1>5 DEF TrapsOK, BroughtUp
<1> QED BY <1>2, <1>3, <1>4, <1>6, Zenon DEF TrapsOK

LEMMA Returned ==
  ASSUME TrapsOK, pc > 5, UNCHANGED <<pc, base, gates>>, trap' = None, isr' = {}
  PROVE  TrapsOK'
<1>1. trap' \in -1..255
  BY DEF None
<1>2. pc' > 5 /\ pc \in Nat
  BY DEF TrapsOK, Order
<1>3. BroughtUp'
  BY <1>2 DEF TrapsOK, BroughtUp
<1> QED BY <1>1, <1>3, Zenon DEF TrapsOK, ServiceEnds

(* kmain goes on: interrupts are still off if it is before its sti.        *)
LEMMA Advanced ==
  ASSUME LinesOK, TrapsOK, ~dead, trap = None, pc < 15, pc' = pc + 1, UNCHANGED <<trap, dead>>,
         gates \subseteq gates', gates' \subseteq 0..255,
         pc = 1 => 0..47 \subseteq gates',
         base' = IF pc = 2 THEN 32 ELSE base,
         isr' = isr \/ isr' = {},
         pc < 5 => ~intsOn',
         pc = 13 => 128 \in gates'
  PROVE  TrapsOK' /\ ~dead'
<1>1. pc \in 1..15 /\ Len(Order) = 15
  BY Zenon DEF TrapsOK, Order
<1>2. isr = {}
  BY Served, Zenon
<1>3. pc' \in 1..15 /\ (pc' <= 5 => pc < 5) /\ (pc' > 1 <=> pc > 1 \/ pc = 1)
      /\ (pc' > 2 <=> pc > 2 \/ pc = 2) /\ (pc' > 13 <=> pc > 13 \/ pc = 13)
  BY <1>1
<1>4. base' = IF pc' > 2 THEN 32 ELSE 8
  BY <1>1, <1>3 DEF TrapsOK, BroughtUp
<1>5. pc' > 1 => 0..47 \subseteq gates'
  BY <1>1, <1>3 DEF TrapsOK, BroughtUp
<1>6. (pc' <= 5 => ~intsOn' /\ trap' = None) /\ (pc' > 13 => 128 \in gates')
  BY <1>1, <1>3 DEF TrapsOK, BroughtUp
<1>7. trap' \in {None, 3, 128} \cup 32..39 /\ trap' \in -1..255
  BY Zenon DEF TrapsOK, BroughtUp
<1>8. BroughtUp'
  BY <1>4, <1>5, <1>6, <1>7, Zenon DEF BroughtUp
<1>9. ServiceEnds'
  BY <1>2, Zenon DEF ServiceEnds
<1> QED BY <1>1, <1>3, <1>7, <1>8, <1>9 DEF TrapsOK

LEMMA NextTraps == LinesOK /\ TrapsOK /\ ~dead /\ [Next]_vars => TrapsOK' /\ ~dead'
<1> SUFFICES ASSUME LinesOK, TrapsOK, ~dead, [Next]_vars PROVE TrapsOK' /\ ~dead'
  BY Zenon
<1>1. pc \in 1..Len(Order) /\ pc \in 1..15
  BY Zenon DEF TrapsOK, Order
<1>2. CASE BootIdt
  <2>1. pc = 1 /\ pc' = pc + 1 /\ trap = None
    BY <1>1, <1>2, Positions DEF BootIdt, Advance, Runs
  <2>2. UNCHANGED <<trap, dead, base, isr, intsOn>> /\ gates' = gates \cup 0..47
    BY <1>2, Zenon DEF BootIdt, IdtInit
  <2>3. ~intsOn'
    BY <2>1, <2>2 DEF TrapsOK, BroughtUp
  <2>4. gates \subseteq gates' /\ gates' \subseteq 0..255 /\ 0..47 \subseteq gates'
    BY <2>2 DEF TrapsOK
  <2> QED BY <2>1, <2>2, <2>3, <2>4, Advanced
<1>3. CASE BootRemap
  <2>1. pc = 2 /\ pc' = pc + 1 /\ trap = None
    BY <1>1, <1>3, Positions, Zenon DEF BootRemap, Advance, Runs
  <2>2. UNCHANGED <<trap, dead, gates, intsOn>> /\ base' = 32 /\ isr' = {}
    BY <1>3, Zenon DEF BootRemap, PicRemap
  <2>3. ~intsOn' /\ gates' \subseteq 0..255 /\ gates \subseteq gates'
    BY <2>1, <2>2 DEF TrapsOK, BroughtUp
  <2> QED BY <2>1, <2>2, <2>3, Advanced
<1>4. ASSUME trap = None, pc' = pc + 1, pc > 2, pc < 15, pc # 13,
             UNCHANGED <<trap, dead, base, gates, isr>>, pc < 5 => ~intsOn'
      PROVE  TrapsOK' /\ ~dead'
  <2>1. gates \subseteq gates' /\ gates' \subseteq 0..255
    BY <1>4, Zenon DEF TrapsOK
  <2> QED BY <1>1, <1>4, <2>1, Advanced
<1>5. CASE BootMask \/ BootUnmask
  <2>1. pc \in {3, 4} /\ pc' = pc + 1 /\ trap = None
    BY <1>1, <1>5, Positions, Zenon DEF BootMask, BootUnmask, Advance, Runs
  <2>2. UNCHANGED <<trap, dead, base, gates, isr, intsOn>>
    BY <1>5, Zenon DEF BootMask, BootUnmask
  <2>3. ~intsOn'
    BY <2>1, <2>2 DEF TrapsOK, BroughtUp
  <2> QED BY <1>4, <2>1, <2>2, <2>3
<1>6. CASE BootSti
  <2>1. pc = 5 /\ pc' = pc + 1 /\ trap = None
    BY <1>1, <1>6, Positions, Zenon DEF BootSti, Advance, Runs
  <2>2. UNCHANGED <<trap, dead, base, gates, isr>>
    BY <1>6, Zenon DEF BootSti
  <2> QED BY <1>4, <2>1, <2>2
<1>7. CASE BootMemory \/ BootThread \/ BootImage \/ BootLoad
  <2>1. pc \in 6..12 /\ pc' = pc + 1 /\ trap = None
    <3>1. pc' = pc + 1 /\ trap = None
      BY <1>7, Zenon DEF BootMemory, BootThread, BootImage, BootLoad, Advance, Runs
    <3>2. \/ At("memory") \/ At("prepare a") \/ At("prepare b") \/ At("enqueue a")
          \/ At("enqueue b") \/ At("image") \/ At("load")
      BY <1>7, Zenon DEF BootMemory, BootThread, BootImage, BootLoad
    <3>3. pc \in {6, 7, 8, 9, 10, 11, 12}
      BY <1>1, <3>2, Positions, Zenon
    <3>4. pc \in 6..12
      BY <3>3
    <3> QED BY <3>1, <3>4, Zenon
  <2>2. UNCHANGED <<trap, dead, base, gates, isr>>
    BY <1>7, Zenon DEF BootMemory, BootThread, BootImage, BootLoad, ivars
  <2> QED BY <1>4, <2>1, <2>2
<1>8. CASE BootSyscalls
  <2>1. pc = 13 /\ pc' = pc + 1 /\ trap = None
    BY <1>1, <1>8, Positions, Zenon DEF BootSyscalls, Advance, Runs
  <2>2. UNCHANGED <<trap, dead, base, isr>> /\ gates' = gates \cup {128}
    BY <1>8, Zenon DEF BootSyscalls
  <2>3. gates \subseteq gates' /\ gates' \subseteq 0..255
    BY <2>2 DEF TrapsOK
  <2> QED BY <2>1, <2>2, <2>3, Advanced
<1>9. CASE BootYield
  <2>1. pc = 14 /\ pc' = pc + 1 /\ trap = None
    BY <1>1, <1>9, Positions, Zenon DEF BootYield, Advance, Runs
  <2>2. UNCHANGED <<trap, dead, base, gates, isr>>
    BY <1>9, Zenon DEF BootYield, Calls
  <2> QED BY <1>4, <2>1, <2>2
<1>10. CASE ThreadCalls
  <2>1. pc = 15 /\ trap = None
    BY <1>1, <1>10, Positions, Zenon DEF ThreadCalls, Calls, Runs
  <2>2. UNCHANGED <<pc, trap, dead, base, gates, isr>>
    BY <1>10, Zenon DEF ThreadCalls, Calls
  <2>3. isr' = {}
    BY <2>1, <2>2, Served, Zenon
  <2> QED BY <2>1, <2>2, <2>3, Returned
<1>11. ASSUME NEW v \in {3, 128}, SoftwareTrap(v) PROVE TrapsOK' /\ ~dead'
  <2>1. pc = 15 /\ trap = None
    BY <1>1, <1>11, Positions, Zenon DEF SoftwareTrap, Runs
  <2>2. UNCHANGED <<pc, base, gates, isr>> /\ Enter(v)
    BY <1>11, Zenon DEF SoftwareTrap, kvars, bvars
  <2>3. v \in gates
    <3>1. 0..47 \subseteq gates /\ 128 \in gates
      BY <2>1 DEF TrapsOK, BroughtUp
    <3>2. 3 \in 0..47
      OBVIOUS
    <3> QED BY <3>1, <3>2
  <2>4. isr' = {}
    BY <2>1, <2>2, Served, Zenon
  <2> QED BY <2>1, <2>2, <2>3, <2>4, Entered
<1>12. trap # None => pc > 5
  BY <1>1 DEF TrapsOK, BroughtUp
<1>13. CASE HandleSyscall
  <2>1. trap = 128 /\ pc > 5 /\ UNCHANGED <<pc, base, gates, isr, dead>>
    BY <1>12, <1>13 DEF HandleSyscall, bvars, None
  <2>2. isr' = {}
    BY <2>1, Served, Zenon
  <2>3. CASE trap' = None
    BY <2>1, <2>2, <2>3, Returned, Zenon
  <2>4. CASE trap' = trap
    <3>1. trap' \in {None, 3, 128} \cup 32..39 /\ trap' \in -1..255
      BY <2>1, <2>4
    <3>2. BroughtUp'
      BY <1>1, <2>1, <3>1 DEF TrapsOK, BroughtUp
    <3> QED BY <2>1, <2>2, <3>1, <3>2, Zenon DEF TrapsOK, ServiceEnds
  <2> QED BY <1>13, <2>3, <2>4, Zenon DEF HandleSyscall, CallReturns, CallYields, CallExits, Return
<1>14. CASE Accept /\ UNCHANGED kvars
  <2>1. trap = None /\ pc > 5 /\ UNCHANGED <<pc, base, gates>>
    BY <1>1, <1>14 DEF Accept, kvars, bvars, TrapsOK, BroughtUp
  <2>2. PICK l \in irr : Enter(base + l) /\ isr' = isr \cup {l}
    BY <1>14, Zenon DEF Accept
  <2>3. isr' = {l}
    BY <2>1, <2>2, Served, Zenon
  <2>4. l \in 0..7 /\ base = 32 /\ 0..47 \subseteq gates
    BY <2>1, InterruptsAssumption DEF LinesOK, TrapsOK, BroughtUp
  <2>5. PICK v : v = base + l
    BY Zenon
  <2>6. v \in 32..39 /\ v \in gates
    BY <2>4, <2>5
  <2>7. v \in {3, 128} \cup 32..39 /\ Enter(v) /\ \A k \in isr' : v = base + k
    BY <2>2, <2>3, <2>5, <2>6, Zenon
  <2> QED BY <2>1, <2>6, <2>7, Entered, Zenon
<1>15. CASE AcceptSpurious /\ UNCHANGED kvars
  <2>1. trap = None /\ pc > 5 /\ UNCHANGED <<pc, base, gates, isr>> /\ Enter(base + 7)
    <3>1. trap = None /\ UNCHANGED <<pc, base, gates, isr>> /\ Enter(base + 7) /\ intsOn
      BY <1>15, Zenon DEF AcceptSpurious, Spurious, kvars, bvars
    <3> QED BY <1>1, <3>1 DEF TrapsOK, BroughtUp
  <2>2. isr' = {}
    BY <2>1, Served, Zenon
  <2>3. PICK v : v = base + 7
    BY Zenon
  <2>4. v \in 32..39 /\ v \in gates
    BY <2>1, <2>3 DEF TrapsOK, BroughtUp
  <2>5. v \in {3, 128} \cup 32..39 /\ Enter(v) /\ \A k \in isr' : v = base + k
    BY <2>1, <2>2, <2>3, <2>4, Zenon
  <2> QED BY <2>1, <2>4, <2>5, Entered, Zenon
<1>16. CASE HandleLine /\ UNCHANGED kvars
  <2>1. trap \in 32..47 /\ trap' = None /\ isr' = isr \ Highest(isr) /\ UNCHANGED <<pc, base, gates, dead>>
    BY <1>16, Zenon DEF HandleLine, Return, SendEoi, kvars, bvars
  <2>2. pc > 5
    BY <1>12, <2>1 DEF None
  <2>3. \A k, l \in isr : k = l /\ k \in Nat
    <3>1. \A l \in isr : l \in Nat /\ trap = base + l
      BY InterruptsAssumption DEF LinesOK, TrapsOK, ServiceEnds
    <3>2. base \in Nat
      BY Zenon DEF TrapsOK, BroughtUp
    <3> QED BY <3>1, <3>2
  <2>4. isr' = {}
    BY <2>1, <2>3 DEF Highest
  <2> QED BY <2>1, <2>2, <2>4, Returned, Zenon
<1>17. CASE HandleException /\ UNCHANGED kvars
  <2>1. trap \in 0..31 /\ UNCHANGED <<pc, base, gates, isr>>
    BY <1>17, Zenon DEF HandleException, kvars, bvars
  <2>2. trap = 3
    <3>1. trap \in {-1, 3, 128} \cup 32..39
      BY Zenon DEF TrapsOK, BroughtUp, None
    <3>2. \A n \in 0..31 : n \in {-1, 3, 128} \cup 32..39 => n = 3
      OBVIOUS
    <3> QED BY <2>1, <3>1, <3>2, Zenon
  <2>3. trap' = None /\ UNCHANGED dead /\ pc > 5
    BY <1>12, <1>17, <2>2 DEF HandleException, Return, None
  <2>4. isr' = {}
    BY <2>1, <2>2, Served, Zenon
  <2> QED BY <2>1, <2>3, <2>4, Returned, Zenon
<1>18. CASE UNCHANGED <<pc, trap, dead, base, gates, isr, intsOn>>
  BY <1>18 DEF TrapsOK, BroughtUp, ServiceEnds
<1>19. CASE UNCHANGED kvars /\ \E l \in Lines : Raise(l)
  BY <1>18, <1>19, Zenon DEF Raise, kvars, bvars
<1>20. CASE UNCHANGED vars
  BY <1>18, <1>20, Zenon DEF vars, ivars, kvars, bvars
<1> QED BY <1>2, <1>3, <1>5, <1>6, <1>7, <1>8, <1>9, <1>10, <1>11, <1>13, <1>14, <1>15, <1>16, <1>17,
           <1>19, <1>20 DEF Next, Boot, BringUp, Interrupt

LEMMA InitKernel == Init => KernelInv
<1> SUFFICES ASSUME Init PROVE KernelInv
  BY Zenon
<1>1. FlagsOK /\ ~dead
  BY Zenon DEF Init, IInit, FlagsOK
<1>2. LinesOK
  BY InterruptsAssumption DEF Init, IInit, LinesOK
<1>3. FramesOK
  BY SchedAssumption, Zenon DEF Init, SInit, FramesOK
<1>4. TrapsOK
  BY DEF Init, IInit, TrapsOK, BroughtUp, ServiceEnds, None, Order
<1> QED BY <1>1, <1>2, <1>3, <1>4, KernelParts, Zenon

LEMMA NextKernel ==
  Polite /\ SchedIInv /\ KernelInv /\ [Next]_vars => SchedIInv' /\ KernelInv'
<1> SUFFICES ASSUME Polite, SchedIInv, KernelInv, [Next]_vars PROVE SchedIInv' /\ KernelInv'
  BY Zenon
<1>1. SchedIInv'
  BY KernelSchedules, NextSched, Zenon
<1>2. FlagsOK' /\ LinesOK' /\ FramesOK' /\ TrapsOK' /\ ~dead'
  BY <1>1, KernelParts, NextFlags, NextLines, NextFrames, NextTraps
<1>3. KernelInv'
  BY <1>2, Zenon DEF KernelInv, KTypeOK, NoPanic, FlagsOK, LinesOK, FramesOK, TrapsOK
<1> QED BY <1>1, <1>3, Zenon

LEMMA KernelInductive ==
  ASSUME Polite
  PROVE  Spec => [](SchedIInv /\ KernelInv)
<1>1. Init => SchedIInv /\ KernelInv
  BY InitSched, InitKernel, Zenon DEF Init
<1>2. (SchedIInv /\ KernelInv) /\ [Next]_vars => (SchedIInv /\ KernelInv)'
  BY NextKernel, Zenon
<1> QED BY <1>1, <1>2, PTL DEF Spec

(* From the first instruction of kmain on, whatever lines are raised and   *)
(* whatever the threads do, no interrupt and no software trap is a panic,  *)
(* a line is in service only while its handler runs, and the scheduler's   *)
(* list and states stay sound under switches inside system calls.          *)
THEOREM KernelHolds ==
  ASSUME Polite
  PROVE  Spec => [](SchedInv /\ KernelInv)
<1>1. Spec => [](SchedIInv /\ KernelInv)
  BY KernelInductive, Zenon
<1> QED BY <1>1, SchedImplied, PTL

(* Also with interrupts and system calls in between, the threads of the    *)
(* kernel run first-in first-out.                                          *)
THEOREM KernelRoundRobin ==
  ASSUME Polite
  PROVE  Spec => ImplementsRoundRobin
<1>1. SchedIInv /\ [Next]_vars => [RR!RRNext]_<<current, queue>>
  BY KernelSchedules, NextRoundRobin, Zenon
<1>2. Spec => [](SchedIInv /\ KernelInv)
  BY KernelInductive, Zenon
<1>3. Init => RR!RRInit
  BY InitRoundRobin, Zenon DEF Init
<1> QED BY <1>1, <1>2, <1>3, PTL DEF Spec, ImplementsRoundRobin, RR!RRSpec

(* Between the step of kmain that picks an image and the one that drops it *)
(* the plan is the loader's.                                               *)
PlanInv ==
  /\ pc \in 1..Len(Order)
  /\ pc \in 12..13 => image \in Images
  /\ plan = IF pc = 13 THEN PlanLoad(image) ELSE NoPlan

LEMMA InitPlan == Init => PlanInv
BY DEF Init, PlanInv, Order

LEMMA NextPlan == PlanInv /\ [Next]_vars => PlanInv'
<1> SUFFICES ASSUME PlanInv, [Next]_vars PROVE PlanInv'
  BY Zenon
<1>1. pc \in 1..Len(Order)
  BY Zenon DEF PlanInv
<1>2. Len(Order) = 15 /\ pc \in 1..15
  BY <1>1, Positions, Zenon
<1>3. CASE UNCHANGED bvars
  BY <1>3, Zenon DEF bvars, PlanInv
<1>4. ASSUME pc < 11 \/ pc = 14, pc' = pc + 1, UNCHANGED <<image, plan>> PROVE PlanInv'
  BY <1>2, <1>4 DEF PlanInv
<1>5. CASE BringUp
  <2>1. pc < 11
    <3>1. At("idt") \/ At("remap") \/ At("mask") \/ At("unmask") \/ At("sti")
      BY <1>5, Zenon DEF BringUp, BootIdt, BootRemap, BootMask, BootUnmask, BootSti
    <3>2. pc \in {1, 2, 3, 4, 5}
      BY <1>1, <3>1, Positions, Zenon
    <3> QED BY <3>2
  <2> QED BY <1>4, <1>5, <2>1, Zenon
          DEF BringUp, BootIdt, BootRemap, BootMask, BootUnmask, BootSti, Advance
<1>6. CASE BootMemory
  <2>1. pc = 6
    BY <1>1, <1>6, Positions, Zenon DEF BootMemory
  <2> QED BY <1>4, <1>6, <2>1 DEF BootMemory, Advance
<1>7. CASE BootThread
  <2>1. pc < 11
    <3>1. At("prepare a") \/ At("prepare b") \/ At("enqueue a") \/ At("enqueue b")
      BY <1>7, Zenon DEF BootThread
    <3>2. pc \in {7, 8, 9, 10}
      BY <1>1, <3>1, Positions, Zenon
    <3> QED BY <3>2
  <2> QED BY <1>4, <1>7, <2>1, Zenon DEF BootThread, Advance
<1>8. CASE BootImage
  <2>1. pc = 11 /\ pc' = 12 /\ image' \in Images /\ plan' = plan
    <3>1. pc = 11
      BY <1>1, <1>8, Positions, Zenon DEF BootImage
    <3> QED BY <1>8, <3>1 DEF BootImage, Advance
  <2> QED BY <1>2, <2>1 DEF PlanInv
<1>9. CASE BootLoad
  <2>1. pc = 12 /\ pc' = 13 /\ image' = image /\ plan' = PlanLoad(image)
    <3>1. pc = 12
      BY <1>1, <1>9, Positions, Zenon DEF BootLoad
    <3> QED BY <1>9, <3>1 DEF BootLoad, Advance
  <2>2. plan' = PlanLoad(image')
    BY <2>1, Zenon
  <2> QED BY <1>2, <2>1, <2>2 DEF PlanInv
<1>10. CASE BootSyscalls
  <2>1. pc = 13 /\ pc' = 14 /\ plan' = NoPlan
    <3>1. pc = 13
      BY <1>1, <1>10, Positions, Zenon DEF BootSyscalls
    <3> QED BY <1>10, <3>1 DEF BootSyscalls, Advance
  <2> QED BY <1>2, <2>1 DEF PlanInv
<1>11. CASE BootYield
  BY <1>1, <1>4, <1>11, Positions DEF BootYield, Calls, Advance
<1>12. CASE ThreadCalls \/ SoftwareTrap(3) \/ SoftwareTrap(128) \/ HandleSyscall
  BY <1>3, <1>12, Zenon DEF ThreadCalls, Calls, SoftwareTrap, HandleSyscall, kvars, bvars
<1>13. CASE UNCHANGED kvars \/ UNCHANGED vars
  BY <1>3, <1>13, Zenon DEF kvars, vars
<1> QED BY <1>5, <1>6, <1>7, <1>8, <1>9, <1>10, <1>11, <1>12, <1>13 DEF Next, Boot, Interrupt

(* For every width of a word, region of user memory and image, the loader  *)
(* accepts exactly the good images, with sums that wrap and checks one     *)
(* after the other, and what it refuses leaves no part of a plan.          *)
THEOREM LoaderExact == Spec => []PlanRight
<1>1. PlanInv => PlanRight
  <2> SUFFICES ASSUME PlanInv, plan # NoPlan PROVE PlanRight
    BY Zenon DEF PlanRight
  <2>1. pc = 13 /\ image \in ImageRec /\ plan = PlanLoad(image)
    BY KernelAssumption DEF PlanInv
  <2>2. PICK i \in ImageRec : i = image
    BY <2>1, Zenon
  <2>3. Exact(PlanLoad(i), i)
    BY PlanExact, Zenon
  <2> QED BY <2>1, <2>2, <2>3, Zenon DEF Exact, PlanRight
<1>2. Init => PlanInv
  BY InitPlan, Zenon
<1>3. PlanInv /\ [Next]_vars => PlanInv'
  BY NextPlan, Zenon
<1> QED BY <1>1, <1>2, <1>3, PTL DEF Spec
=============================================================================
