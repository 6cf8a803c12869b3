------------------------------ MODULE NatFacts ------------------------------
(***************************************************************************)
(* Facts about natural numbers that the proofs share: a set of them has a  *)
(* least one, induction over them for a set (instead of a predicate), and  *)
(* that a function defined by recursion over an interval satisfies its     *)
(* equation.                                                               *)
(***************************************************************************)
EXTENDS WellFoundedInduction, TLAPS

(* The scan of an array from its start ends at the first entry that fits.  *)
LEMMA LeastNatural ==
  ASSUME NEW T, T \subseteq Nat, T # {}
  PROVE  \E x \in T : \A y \in T : x <= y
<1> DEFINE R == { ss \in Nat \X Nat : ss[1] < ss[2] }
<1>1. IsWellFoundedOn(R, Nat)
  BY NatLessThanWellFounded DEF OpToRel
<1> HIDE DEF R
<1>2. PICK x \in T : \A y \in T : ~ (<<y, x>> \in R)
  BY <1>1, WFMin, Zenon
<1>3. \A a, b \in Nat : a < b => <<a, b>> \in R
  BY DEF R
<1>4. ASSUME NEW y \in T PROVE x <= y
  <2>1. x \in Nat /\ y \in Nat
    OBVIOUS
  <2>2. ~ (y < x)
    BY <1>2, <1>3, <2>1, Zenon
  <2> QED BY <2>1, <2>2
<1> QED BY <1>4

(* Induction along a loop: what holds at its start and is kept by each     *)
(* round holds up to n.                                                    *)
LEMMA UpTo ==
  ASSUME NEW T, NEW n \in Nat, 0 \in T, \A i \in 0..(n - 1) : i \in T => i + 1 \in T
  PROVE  0..n \subseteq T
<1> DEFINE Out == { i \in 0..n : i \notin T }
<1> SUFFICES ASSUME Out # {} PROVE FALSE
  OBVIOUS
<1>1. PICK x \in Out : \A y \in Out : x <= y
  <2>1. Out \subseteq Nat
    OBVIOUS
  <2> HIDE DEF Out
  <2> QED BY <2>1, LeastNatural
<1>2. x \in 1..n /\ x \notin T
  OBVIOUS
<1>3. x - 1 \in 0..(n - 1) /\ x - 1 \in 0..n /\ ~(x <= x - 1) /\ (x - 1) + 1 = x
  BY <1>2
<1>4. x - 1 \in T
  BY <1>1, <1>3
<1> QED BY <1>2, <1>3, <1>4

(* A loop over i \in 1..n that keeps a value of S: D gives the value after  *)
(* a round, f the value after each.                                        *)
LoopBody(D, S, n) == D \in [S \X (1..n) -> S]

LoopRun(f, c, D, S, n) ==
  /\ f \in [0..n -> S]
  /\ f[0] = c
  /\ \A i \in 1..n : f[i] = D[<<f[i - 1], i>>]

(* A loop has a run from any value c: the function that is defined by such *)
(* a recursion exists.                                                     *)
LEMMA LoopRuns ==
  ASSUME NEW S, NEW c \in S, NEW n \in Nat, NEW D, LoopBody(D, S, n)
  PROVE  \E f : LoopRun(f, c, D, S, n)
<1> USE DEF LoopBody, LoopRun
<1> DEFINE Run(k, f) == LoopRun(f, c, D, S, k)
           T == { k \in 0..n : \E f : Run(k, f) }
<1>1. 0 \in T
  <2>1. Run(0, [i \in 0..0 |-> c])
    OBVIOUS
  <2> HIDE DEF Run
  <2> QED BY <2>1
<1>2. ASSUME NEW k \in 0..(n - 1), k \in T PROVE k + 1 \in T
  <2>1. PICK f : Run(k, f)
    BY <1>2
  <2> DEFINE g == [i \in 0..(k + 1) |-> IF i = k + 1 THEN D[<<f[k], k + 1>>] ELSE f[i]]
  <2>2. D[<<f[k], k + 1>>] \in S
    BY <2>1
  <2>3. Run(k + 1, g)
    <3>1. g \in [0..(k + 1) -> S] /\ g[0] = c
      BY <2>1, <2>2
    <3>2. ASSUME NEW i \in 1..(k + 1) PROVE g[i] = D[<<g[i - 1], i>>]
      <4>1. CASE i = k + 1
        <5>1. i - 1 = k /\ k \in 0..(k + 1) /\ k # k + 1 /\ i \in 0..(k + 1)
          BY <4>1
        <5>2. g[i] = D[<<f[k], i>>] /\ g[k] = f[k]
          BY <4>1, <5>1
        <5> QED BY <5>1, <5>2
      <4>2. CASE i # k + 1
        <5>1. i \in 1..k /\ i - 1 \in 0..(k + 1) /\ i - 1 # k + 1 /\ i \in 0..(k + 1)
          BY <4>2
        <5>2. g[i] = f[i] /\ g[i - 1] = f[i - 1]
          BY <4>2, <5>1
        <5> QED BY <2>1, <5>1, <5>2
      <4> QED BY <4>1, <4>2
    <3> QED BY <3>1, <3>2
  <2> HIDE DEF Run
  <2> QED BY <2>3
<1>3. n \in T
  <2> HIDE DEF T
  <2>1. 0..n \subseteq T
    BY <1>1, <1>2, UpTo
  <2> QED BY <2>1
<1>4. PICK f : Run(n, f)
  BY <1>3
<1> QED BY <1>4

-----------------------------------------------------------------------------
(* Remainders.                                                             *)
LEMMA DivMod ==
  ASSUME NEW m \in Nat \ {0}, NEW x \in Int
  PROVE  \E q \in Int : x = m * q + (x % m) /\ x % m \in 0..(m - 1)
<1> DEFINE q == x \div m
           r == x % m
<1>1. q \in Int /\ r \in 0..(m - 1) /\ x = m * q + r
  OBVIOUS
<1> QED BY <1>1

(* The quotient and the remainder are the only ones.                       *)
LEMMA ModIs ==
  ASSUME NEW m \in Nat \ {0}, NEW q \in Int, NEW r \in 0..(m - 1), NEW x \in Int, x = m * q + r
  PROVE  x % m = r
<1>1. PICK p \in Int, s \in 0..(m - 1) : x = m * p + s /\ s = x % m
  BY DivMod
<1>9. x = m * p + s /\ m * p \in Int /\ m * q \in Int
  BY <1>1
<1>2. m * p - m * q = r - s
  BY <1>9
<1>3. m * (p - q) = m * p - m * q
  BY <1>1
<1>4. PICK d \in Int : d = p - q
  BY <1>1
<1>5. m * d = r - s /\ r - s > -m /\ r - s < m
  BY <1>1, <1>2, <1>3, <1>4
<1>6. CASE d >= 1
  <2>1. m * d >= m
    BY <1>4, <1>6
  <2> QED BY <1>5, <2>1
<1>7. CASE d <= -1
  <2>1. m * d <= -m
    BY <1>4, <1>7
  <2> QED BY <1>5, <2>1
<1>8. CASE d = 0
  <2>1. r = s
    BY <1>5, <1>8
  <2> QED BY <1>1, <2>1
<1> QED BY <1>4, <1>6, <1>7, <1>8

LEMMA WrapsOnce ==
  ASSUME NEW m \in Nat \ {0}, NEW x \in Nat, x < 2 * m
  PROVE  x % m = IF x < m THEN x ELSE x - m
<1>1. CASE x < m
  <2>1. x \in 0..(m - 1) /\ x = m * 0 + x
    BY <1>1
  <2> QED BY <1>1, <2>1, ModIs
<1>2. CASE ~(x < m)
  <2>1. x - m \in 0..(m - 1) /\ x = m * 1 + (x - m)
    BY <1>2
  <2> QED BY <1>2, <2>1, ModIs
<1> QED BY <1>1, <1>2

(* Equal remainders.                                                       *)
LEMMA SameMod ==
  ASSUME NEW m \in Nat \ {0}, NEW x \in Int, NEW y \in Int
  PROVE  x % m = y % m <=> (x - y) % m = 0
<1>1. PICK p \in Int, r \in 0..(m - 1) : x = m * p + r /\ r = x % m
  BY DivMod
<1>2. PICK q \in Int, s \in 0..(m - 1) : y = m * q + s /\ s = y % m
  BY DivMod
<1>3. PICK d \in Int : d = p - q
  BY <1>1, <1>2
<1>4. m * d = m * p - m * q
  BY <1>1, <1>2, <1>3
<1>8. x = m * p + r /\ y = m * q + s /\ m * p \in Int /\ m * q \in Int /\ m * d \in Int
  BY <1>1, <1>2, <1>3
<1>5. x - y = m * d + (r - s)
  BY <1>4, <1>8
<1>6. ASSUME r = s PROVE (x - y) % m = 0
  <2>1. x - y = m * d + 0 /\ 0 \in 0..(m - 1) /\ x - y \in Int
    BY <1>5, <1>6
  <2> QED BY <1>3, <2>1, ModIs
<1>7. ASSUME (x - y) % m = 0 PROVE r = s
  <2>1. PICK e \in Int : x - y = m * e + 0
    <3>1. x - y \in Int
      OBVIOUS
    <3> QED BY <1>7, <3>1, DivMod
  <2>2. x = m * (q + e) + s
    <3>1. m * (q + e) = m * q + m * e
      BY <1>2, <2>1
    <3>2. m * q \in Int /\ m * e \in Int /\ y = m * q + s /\ x - y = m * e + 0
      BY <1>2, <2>1
    <3> QED BY <3>1, <3>2
  <2>3. x % m = s
    <3>1. q + e \in Int
      BY <1>2, <2>1
    <3>2. PICK f \in Int : f = q + e
      BY <3>1
    <3>3. x = m * f + s
      BY <2>2, <3>2
    <3> QED BY <3>3, ModIs
  <2> QED BY <1>1, <2>3
<1> QED BY <1>1, <1>2, <1>6, <1>7

=============================================================================
