---------------------------- MODULE SyscallProofs ----------------------------
(***************************************************************************)
(* The system calls, for every number of nodes, descriptors and bytes.  The*)
(* range checks are exact.  Files and descriptors stay well formed, and a  *)
(* call that fails changes nothing but what FailedHarmless names.          *)
(***************************************************************************)
EXTENDS Syscall, NatFacts, SequenceTheorems

(* Sums of two addresses wrap at most once.                                *)
LEMMA Wraps ==
  ASSUME NEW x \in Nat, x < 2 * AddrSpace
  PROVE  x % AddrSpace = IF x < AddrSpace THEN x ELSE x - AddrSpace
<1> DEFINE q == x \div AddrSpace
           m == x % AddrSpace
<1>1. AddrSpace \in Nat /\ AddrSpace > 0
  BY SyscallAssumption
<1>2. q \in Nat /\ m \in 0..(AddrSpace - 1) /\ x = AddrSpace * q + m
  BY <1>1
<1> HIDE DEF q, m
<1>3. CASE q = 0
  BY <1>1, <1>2, <1>3 DEF m
<1>4. CASE q = 1
  BY <1>1, <1>2, <1>4 DEF m
<1>5. CASE q >= 2
  <2>1. AddrSpace * q >= AddrSpace * 2
    BY <1>1, <1>2, <1>5
  <2> QED BY <1>1, <1>2, <2>1
<1> QED BY <1>2, <1>3, <1>4, <1>5

(* mcsos_user_check_range accepts nothing that wraps or ends beyond the    *)
(* region.                                                                 *)
LEMMA RangeSound ==
  ASSUME region \in [base : Addr, limit : Addr],
         NEW addr \in Addr, NEW len \in Addr, RangeOK(addr, len)
  PROVE  InUser(addr, len)
<1>1. AddrSpace \in Nat /\ AddrSpace > 0 /\ addr \in Nat /\ len \in Nat
      /\ addr < AddrSpace /\ len < AddrSpace /\ region.base \in Nat /\ region.limit \in Nat
      /\ region.limit < AddrSpace
  BY SyscallAssumption DEF Addr
<1> SUFFICES ASSUME NEW i \in 0..(len - 1)
             PROVE  /\ region.base <= (addr + i) % AddrSpace
                    /\ (addr + i) % AddrSpace < region.limit
  BY Zenon DEF InUser
<1>2. len > 0 /\ i \in Nat /\ i <= len - 1
  BY <1>1
<1>3. /\ addr >= region.base
      /\ (addr + len - 1) % AddrSpace >= addr
      /\ (addr + len - 1) % AddrSpace < region.limit
  BY <1>1, <1>2 DEF RangeOK
<1>4. addr + len - 1 \in Nat /\ addr + len - 1 < 2 * AddrSpace
  BY <1>1, <1>2
<1>5. addr + len - 1 < AddrSpace /\ addr + len - 1 < region.limit
  BY <1>1, <1>2, <1>3, <1>4, Wraps
<1>6. addr + i \in Nat /\ addr + i < AddrSpace /\ addr + i < 2 * AddrSpace
  BY <1>1, <1>2, <1>5
<1>7. (addr + i) % AddrSpace = addr + i
  BY <1>6, Wraps, Zenon
<1> QED BY <1>1, <1>2, <1>3, <1>5, <1>7

(* Nor does it refuse what is inside a region that starts above zero.      *)
LEMMA RangeComplete ==
  ASSUME region \in [base : Addr, limit : Addr], region.base # 0,
         NEW addr \in Addr, NEW len \in Addr, len > 0, InUser(addr, len)
  PROVE  RangeOK(addr, len)
<1>1. AddrSpace \in Nat /\ AddrSpace > 0 /\ addr \in Nat /\ len \in Nat
      /\ addr < AddrSpace /\ len < AddrSpace /\ region.base \in Nat /\ region.limit \in Nat
      /\ region.base > 0
  BY SyscallAssumption DEF Addr
<1>2. \A i \in 0..(len - 1) : /\ region.base <= (addr + i) % AddrSpace
                              /\ (addr + i) % AddrSpace < region.limit
  BY Zenon DEF InUser
<1>3. addr + len - 1 < AddrSpace
  <2> SUFFICES ASSUME addr + len - 1 >= AddrSpace PROVE FALSE
    BY <1>1
  <2>1. AddrSpace - addr \in 0..(len - 1)
    BY <1>1
  <2>2. region.base <= (addr + (AddrSpace - addr)) % AddrSpace
    BY <1>2, <2>1, Zenon
  <2>3. addr + (AddrSpace - addr) = AddrSpace /\ AddrSpace % AddrSpace = 0
    BY <1>1, Wraps
  <2> QED BY <1>1, <2>2, <2>3
<1>4. (addr + len - 1) % AddrSpace = addr + len - 1 /\ addr % AddrSpace = addr
  BY <1>1, <1>3, Wraps
<1>5. region.base <= addr /\ addr < region.limit
  <2>1. 0 \in 0..(len - 1) /\ addr + 0 = addr
    BY <1>1
  <2> QED BY <1>2, <1>4, <2>1, Zenon
<1>6. addr + len - 1 < region.limit
  <2>1. len - 1 \in 0..(len - 1) /\ addr + (len - 1) = addr + len - 1
    BY <1>1
  <2> QED BY <1>2, <1>4, <2>1, Zenon
<1> QED BY <1>1, <1>4, <1>5, <1>6 DEF RangeOK

-----------------------------------------------------------------------------
LEMMA RegionExact ==
  ASSUME region \in [base : Addr, limit : Addr]
  PROVE  Exact
<1> USE DEF OK, EINVAL, EFAULT
<1> SUFFICES ASSUME NEW addr \in Addr
             PROVE  /\ PathError(addr) = OK =>
                         \A o \in Opens : o.path # TooLong => InUser(addr, PathReads(o.path))
                    /\ \A len \in Addr :
                         /\ CopyError(addr, len) = OK => InUser(addr, len)
                         /\ SerialError(addr, len) = OK => InUser(addr, len) /\ len <= MaxSerial
                         /\ BufError(addr, len) = OK => InUser(addr, len)
                         /\ InUser(addr, len) /\ addr # 0 /\ region.base # 0 => BufError(addr, len) = OK
  BY Zenon DEF Exact
<1>1. ASSUME PathError(addr) = OK, NEW o \in Opens, o.path # TooLong
      PROVE  InUser(addr, PathReads(o.path))
  <2>1. RangeOK(addr, MaxPath) /\ MaxPath \in Addr
    BY <1>1, SyscallAssumption DEF PathError, Addr
  <2>2. InUser(addr, MaxPath)
    BY <2>1, RangeSound, Zenon
  <2>3. 0..(PathReads(o.path) - 1) \subseteq 0..(MaxPath - 1)
    BY <1>1, SyscallAssumption DEF PathReads
  <2> QED BY <2>2, <2>3, Zenon DEF InUser
<1>2. ASSUME NEW len \in Addr
      PROVE  /\ CopyError(addr, len) = OK => InUser(addr, len)
             /\ SerialError(addr, len) = OK => InUser(addr, len) /\ len <= MaxSerial
             /\ BufError(addr, len) = OK => InUser(addr, len)
             /\ InUser(addr, len) /\ addr # 0 /\ region.base # 0 => BufError(addr, len) = OK
  <2>1. len \in Nat /\ MaxSerial \in Nat
    BY SyscallAssumption DEF Addr
  <2>2. RangeOK(addr, len) => InUser(addr, len)
    BY RangeSound, Zenon
  <2>3. len = 0 => InUser(addr, len)
    BY DEF InUser
  <2>4. InUser(addr, len) /\ region.base # 0 /\ len > 0 => RangeOK(addr, len)
    BY RangeComplete, Zenon
  <2> HIDE DEF InUser, RangeOK
  <2>5. CopyError(addr, len) = OK => InUser(addr, len)
    BY <2>2, <2>3 DEF CopyError
  <2>6. SerialError(addr, len) = OK => InUser(addr, len) /\ len <= MaxSerial
    BY <2>1, <2>2 DEF SerialError
  <2>7. BufError(addr, len) = OK => InUser(addr, len)
    BY <2>1, <2>2, <2>3 DEF BufError
  <2>8. InUser(addr, len) /\ addr # 0 /\ region.base # 0 => BufError(addr, len) = OK
    BY <2>1, <2>4, Zenon DEF BufError
  <2> QED BY <2>5, <2>6, <2>7, <2>8, Zenon
<1> QED BY <1>1, <1>2, Zenon

(* Whatever region the kernel sets, and for every pointer and length, the  *)
(* checks of the system calls pass user memory and nothing else.           *)
THEOREM UserAccessHolds == Spec => UserAccess
<1> DEFINE RegionOK == region \in [base : Addr, limit : Addr]
<1>1. Init => RegionOK
  BY SyscallAssumption DEF Init, Addr
<1>2. RegionOK /\ [Next]_vars => RegionOK'
  <2> SUFFICES ASSUME RegionOK, [Next]_vars PROVE RegionOK'
    BY Zenon
  <2>1. region' = region \/ region' \in Regions
    BY Zenon DEF Next, SyscallInit, Dispatch, KernelCalls, vars, svars
  <2> QED BY <2>1, SyscallAssumption, Zenon DEF Addr
<1>3. RegionOK => Exact
  BY RegionExact, Zenon
<1>4. [](RegionOK) => UserAccess
  BY <1>3, PTL DEF UserAccess
<1> QED BY <1>1, <1>2, <1>4, PTL DEF Spec

-----------------------------------------------------------------------------
(* Files and descriptors.  The invariant in three parts: what ramfs.c      *)
(* keeps, what fd.c keeps, and types of the rest.                          *)
NodesOK ==
  /\ nodeCount \in 1..MaxNodes
  /\ nodes \in [0..(nodeCount - 1) -> NodeRec]
  /\ dataUsed \in 0..DataBytes
  /\ DataApart
  /\ OneTree

FdsOK == fds \in [Fd -> FileRec \cup {NoFile}] /\ FdsLive

DataOK == data \in [0..(DataBytes - 1) -> Byte]

LEMMA InvParts == VfsInv <=> NodesOK /\ FdsOK /\ DataOK /\ failed \in BOOLEAN
BY Zenon DEF VfsInv, VTypeOK, NodesOK, FdsOK, DataOK

(* mcs_find_child gives the first node of a name, or an error.             *)
LEMMA FindChildTyped ==
  ASSUME NodesOK, NEW d, NEW s
  PROVE  FindChild(d, s) \in {EINVAL, ENOENT} \cup 0..(nodeCount - 1)
<1>1. CASE s = BadName \/ Children(d, s) = {}
  BY <1>1, Zenon DEF FindChild
<1>2. CASE s # BadName /\ Children(d, s) # {}
  <2>1. PICK T : T = Children(d, s)
    BY Zenon
  <2>2. T \subseteq 0..(nodeCount - 1) /\ T # {} /\ T \subseteq Nat
    BY <1>2, <2>1 DEF Children, NodesOK
  <2>3. \E n \in T : \A m \in T : n <= m
    BY <2>2, LeastNatural, Zenon
  <2>4. (CHOOSE n \in T : \A m \in T : n <= m) \in T
    BY <2>3, Zenon
  <2>5. FindChild(d, s) = CHOOSE n \in T : \A m \in T : n <= m
    BY <1>2, <2>1, Zenon DEF FindChild
  <2> QED BY <2>2, <2>4, <2>5, Zenon
<1> QED BY <1>1, <1>2, Zenon

(* In the root directory it finds exactly the file of that name.           *)
LEMMA FindChildRoot ==
  ASSUME NodesOK, NEW s \in Name \cup {BadName}
  PROVE  \/ /\ FindChild(0, s) \in {EINVAL, ENOENT}
            /\ s # BadName => \A n \in 1..(nodeCount - 1) : nodes[n].name # s
         \/ /\ FindChild(0, s) \in 1..(nodeCount - 1)
            /\ nodes[FindChild(0, s)].name = s
<1>1. CASE s = BadName
  BY <1>1, Zenon DEF FindChild
<1>2. CASE s # BadName /\ Children(0, s) = {}
  <2>1. ASSUME NEW n \in 1..(nodeCount - 1) PROVE nodes[n].name # s
    <3>1. n \in 0..(nodeCount - 1) /\ nodes[n].parent = 0
      BY DEF NodesOK, OneTree
    <3> QED BY <1>2, <3>1, Zenon DEF Children
  <2> QED BY <1>2, <2>1, Zenon DEF FindChild
<1>3. CASE s # BadName /\ Children(0, s) # {}
  <2>1. PICK T : T = Children(0, s)
    BY Zenon
  <2>2. T # {} /\ T \subseteq Nat
    BY <1>3, <2>1 DEF Children, NodesOK
  <2>3. \E n \in T : \A m \in T : n <= m
    BY <2>2, LeastNatural, Zenon
  <2>4. (CHOOSE n \in T : \A m \in T : n <= m) \in T
    BY <2>3, Zenon
  <2>5. FindChild(0, s) \in Children(0, s)
    BY <1>3, <2>1, <2>4 DEF FindChild
  <2>6. FindChild(0, s) \in 0..(nodeCount - 1) /\ nodes[FindChild(0, s)].name = s
    BY <2>5, Zenon DEF Children
  <2>7. nodes[0].name = BadName
    BY DEF NodesOK, OneTree, Root
  <2> QED BY <1>3, <2>6, <2>7 DEF NodesOK
<1> QED BY <1>1, <1>2, <1>3, Zenon

-----------------------------------------------------------------------------
(* The function that the walk along a path is, and its equation.           *)
WalkEq(p, f) ==
  f = [i \in 0..Len(p) |->
         IF i = 0 THEN 0
         ELSE IF f[i - 1] < 0 THEN f[i - 1]
         ELSE IF ~nodes[f[i - 1]].dir THEN ENOTDIR
         ELSE FindChild(f[i - 1], p[i])]

LEMMA WalkRuns ==
  ASSUME NodesOK, NEW p, Len(p) \in Nat
  PROVE  \E f : Walk(p) = f[Len(p)] /\ WalkEq(p, f)
<1>1. PICK S : S = {EINVAL, ENOENT, ENOTDIR} \cup 0..(nodeCount - 1)
  BY Zenon
<1>2. PICK D : D = [x \in S \X (1..Len(p)) |->
                      IF x[1] < 0 THEN x[1]
                      ELSE IF ~nodes[x[1]].dir THEN ENOTDIR ELSE FindChild(x[1], p[x[2]])]
  BY Zenon
<1>3. LoopBody(D, S, Len(p))
  <2>1. ASSUME NEW x \in S \X (1..Len(p)) PROVE D[x] \in S
    <3>1. x[1] \in S
      BY Zenon
    <3>2. FindChild(x[1], p[x[2]]) \in S
      BY FindChildTyped, <1>1, Zenon
    <3> QED BY <1>1, <1>2, <3>1, <3>2, Zenon
  <2> QED BY <1>2, <2>1, Zenon DEF LoopBody
<1>4. 0 \in S
  BY <1>1 DEF NodesOK
<1>5. PICK n : n = Len(p)
  BY Zenon
<1>6. PICK f : LoopRun(f, 0, D, S, n)
  BY <1>3, <1>4, <1>5, LoopRuns, Zenon
<1>7. WalkEq(p, f)
  <2>1. n \in Nat
    BY <1>5, Zenon
  <2>2. f \in [0..n -> S] /\ f[0] = 0
    BY <1>6, Zenon DEF LoopRun
  <2>3. ASSUME NEW i \in 0..n, i # 0
        PROVE  f[i] = IF f[i - 1] < 0 THEN f[i - 1]
                      ELSE IF ~nodes[f[i - 1]].dir THEN ENOTDIR ELSE FindChild(f[i - 1], p[i])
    <3>1. i - 1 \in 0..n /\ i \in 1..n
      BY <2>1, <2>3
    <3>2. <<f[i - 1], i>> \in S \X (1..n)
      BY <2>2, <3>1, Zenon
    <3>3. f[i] = D[<<f[i - 1], i>>]
      BY <1>6, <3>1, Zenon DEF LoopRun
    <3> QED BY <1>2, <1>5, <3>2, <3>3, Zenon
  <2> QED BY <1>5, <2>2, <2>3, Zenon DEF WalkEq
<1>8. Walk(p) = (CHOOSE g : WalkEq(p, g))[Len(p)]
  BY Zenon DEF Walk, WalkEq
<1>9. WalkEq(p, CHOOSE g : WalkEq(p, g))
  BY <1>7, Zenon
<1> QED BY <1>8, <1>9, Zenon

(* With one directory, a path of one segment is looked up in the root, and *)
(* a longer one never exists.                                              *)
LEMMA WalkValue ==
  ASSUME NodesOK, NEW p \in Seq(Name \cup {BadName})
  PROVE  /\ Len(p) = 0 => Walk(p) = 0
         /\ Len(p) = 1 => Walk(p) = FindChild(0, p[1])
         /\ Len(p) > 1 => Walk(p) \in {EINVAL, ENOENT, ENOTDIR}
<1>1. Len(p) \in Nat
  OBVIOUS
<1>2. PICK f : Walk(p) = f[Len(p)] /\ WalkEq(p, f)
  BY <1>1, WalkRuns, Zenon
<1>3. f[0] = 0
  BY <1>1, <1>2 DEF WalkEq
<1>4. ASSUME NEW i \in 1..Len(p)
      PROVE  f[i] = IF f[i - 1] < 0 THEN f[i - 1]
                    ELSE IF ~nodes[f[i - 1]].dir THEN ENOTDIR ELSE FindChild(f[i - 1], p[i])
  BY <1>1, <1>2 DEF WalkEq
<1>5. nodes[0].dir
  BY DEF NodesOK, OneTree, Root
<1>6. Len(p) > 0 => f[1] = FindChild(0, p[1])
  BY <1>1, <1>3, <1>4, <1>5
<1>7. ASSUME Len(p) > 1 PROVE f[Len(p)] \in {EINVAL, ENOENT, ENOTDIR}
  <2> USE DEF EINVAL, ENOENT, ENOTDIR
  <2> DEFINE E == {EINVAL, ENOENT, ENOTDIR}
             T == { i \in Nat : f[i + 2] \in E }
  <2>1. PICK n \in Nat : n = Len(p) - 2
    BY <1>1, <1>7
  <2>2. f[2] \in E
    <3>1. f[1] \in E \/ f[1] \in 1..(nodeCount - 1)
      <4>1. p[1] \in Name \cup {BadName}
        BY <1>1, <1>7
      <4> QED BY <1>6, <1>7, <4>1, FindChildRoot
    <3>2. f[1] \in 1..(nodeCount - 1) => ~nodes[f[1]].dir
      BY Zenon DEF NodesOK, OneTree
    <3>3. f[2] = IF f[1] < 0 THEN f[1]
                 ELSE IF ~nodes[f[1]].dir THEN ENOTDIR ELSE FindChild(f[1], p[2])
      BY <1>1, <1>4, <1>7
    <3>4. nodeCount \in Nat
      BY DEF NodesOK
    <3> QED BY <3>1, <3>2, <3>3, <3>4
  <2>3. 0 \in T
    BY <2>2
  <2>4. ASSUME NEW i \in 0..(n - 1), i \in T PROVE i + 1 \in T
    <3>1. i + 3 \in 1..Len(p) /\ (i + 3) - 1 = i + 2 /\ (i + 1) + 2 = i + 3
      BY <1>1, <2>1
    <3>2. f[i + 2] \in E
      BY <2>4, Zenon
    <3>3. f[i + 3] = f[i + 2]
      BY <1>4, <3>1, <3>2
    <3> QED BY <3>1, <3>2, <3>3
  <2>5. 0..n \subseteq T
    <3> HIDE DEF T
    <3> QED BY <2>3, <2>4, UpTo, Zenon
  <2>6. n \in T
    <3> HIDE DEF T
    <3>1. n \in 0..n
      OBVIOUS
    <3> QED BY <2>5, <3>1, Zenon
  <2>7. f[n + 2] \in E /\ n + 2 = Len(p)
    BY <1>1, <2>1, <2>6
  <2> QED BY <2>7, Zenon
<1>8. CASE Len(p) = 0
  BY <1>2, <1>3, <1>8
<1>9. CASE Len(p) = 1
  BY <1>2, <1>6, <1>9
<1>10. CASE Len(p) > 1
  <2>1. f[Len(p)] \in {EINVAL, ENOENT, ENOTDIR}
    BY <1>7, <1>10, Zenon
  <2>2. Walk(p) \in {EINVAL, ENOENT, ENOTDIR}
    BY <1>2, <2>1, Zenon
  <2>3. Len(p) # 0 /\ Len(p) # 1
    <3>1. \A k \in Nat : k > 1 => k # 0 /\ k # 1
      OBVIOUS
    <3> QED BY <1>1, <1>10, <3>1, Zenon
  <2> QED BY <2>2, <2>3, Zenon
<1> QED BY <1>1, <1>8, <1>9, <1>10, Zenon

LookupErrors == {EINVAL, ENOENT, ENOTDIR, ENAMETOOLONG}

LEMMA WalkTyped ==
  ASSUME NodesOK, NEW p \in Seq(Name \cup {BadName})
  PROVE  Walk(p) \in LookupErrors \cup 0..(nodeCount - 1)
<1>1. Len(p) \in Nat
  OBVIOUS
<1>2. CASE Len(p) = 0
  BY <1>2, WalkValue DEF NodesOK
<1>3. CASE Len(p) = 1
  <2>1. Walk(p) = FindChild(0, p[1])
    BY <1>3, WalkValue, Zenon
  <2> QED BY <2>1, FindChildTyped, Zenon DEF LookupErrors
<1>4. CASE Len(p) > 1
  <2>1. Walk(p) \in {EINVAL, ENOENT, ENOTDIR}
    BY <1>4, WalkValue, Zenon
  <2> QED BY <2>1, Zenon DEF LookupErrors
<1>5. \A k \in Nat : k = 0 \/ k = 1 \/ k > 1
  OBVIOUS
<1> QED BY <1>1, <1>2, <1>3, <1>4, <1>5, Zenon

LEMMA LookupTyped ==
  ASSUME NodesOK, NEW p \in Path
  PROVE  Lookup(p) \in LookupErrors \cup 0..(nodeCount - 1)
<1>1. CASE p \in {Relative, TooLong}
  BY <1>1, Zenon DEF Lookup, LookupErrors
<1>2. CASE p \notin {Relative, TooLong}
  <2>1. p \in Seq(Name \cup {BadName}) /\ Lookup(p) = Walk(p)
    BY <1>2, Zenon DEF Path, Lookup
  <2> QED BY <2>1, WalkTyped, Zenon
<1> QED BY <1>1, <1>2, Zenon

(* A path that does not exist and can be created is one new name in the    *)
(* root directory.                                                         *)
LEMMA NewName ==
  ASSUME NodesOK, NEW p \in Path, Lookup(p) < 0, Parent(p) >= 0
  PROVE  /\ Parent(p) = 0
         /\ p[Len(p)] \in Name
         /\ \A n \in 1..(nodeCount - 1) : nodes[n].name # p[Len(p)]
<1> USE DEF EINVAL, ENAMETOOLONG, ENOTDIR, ENOENT
<1>1. p # Relative /\ p # <<>> /\ p # TooLong
  BY DEF Parent
<1>2. p \in Seq(Name \cup {BadName}) /\ Lookup(p) = Walk(p)
  BY <1>1, Zenon DEF Path, Lookup
<1>3. Len(p) \in Nat /\ Len(p) # 0
  BY <1>1, <1>2
<1>4. PICK q : q = SubSeq(p, 1, Len(p) - 1)
  BY Zenon
<1>5. q \in Seq(Name \cup {BadName}) /\ Len(q) = Len(p) - 1
  <2>1. 1 \in 1..(Len(p) + 1) /\ Len(p) - 1 \in 0..Len(p) /\ (Len(p) - 1) - 1 + 1 = Len(p) - 1
    BY <1>3
  <2> QED BY <1>2, <1>4, <2>1, SubSeqProperties
<1>6. Walk(q) >= 0 /\ nodes[Walk(q)].dir /\ p[Len(p)] # BadName /\ Parent(p) = Walk(q)
  <2>1. Parent(p) = IF Walk(q) < 0 THEN Walk(q)
                    ELSE IF ~nodes[Walk(q)].dir THEN ENOTDIR
                    ELSE IF p[Len(p)] = BadName THEN EINVAL ELSE Walk(q)
    BY <1>1, <1>4, Zenon DEF Parent
  <2>2. Walk(q) \in Int
    BY <1>5, WalkTyped DEF LookupErrors, NodesOK
  <2> QED BY <2>1, <2>2
<1>7. Len(q) = 0
  <2>1. CASE Len(q) = 1
    <3>1. q[1] \in Name \cup {BadName}
      BY <1>5, <2>1
    <3>2. Walk(q) = FindChild(0, q[1])
      BY <1>5, <2>1, WalkValue, Zenon
    <3>3. Walk(q) \in 1..(nodeCount - 1)
      BY <1>6, <3>1, <3>2, FindChildRoot
    <3> QED BY <1>6, <3>3, Zenon DEF NodesOK, OneTree
  <2>2. CASE Len(q) > 1
    BY <1>5, <1>6, <2>2, WalkValue
  <2> QED BY <1>3, <1>5, <2>1, <2>2
<1>8. Len(p) = 1 /\ p[1] \in Name \cup {BadName} /\ p[1] = p[Len(p)]
  <2>1. Len(p) = 1
    BY <1>3, <1>5, <1>7
  <2> QED BY <1>2, <2>1
<1>9. FindChild(0, p[1]) < 0
  BY <1>2, <1>8, WalkValue, Zenon
<1>10. \A n \in 1..(nodeCount - 1) : nodes[n].name # p[1]
  <2>1. FindChild(0, p[1]) \notin 1..(nodeCount - 1)
    BY <1>9 DEF NodesOK
  <2> QED BY <1>6, <1>8, <2>1, FindChildRoot, Zenon
<1>11. Walk(q) = 0
  BY <1>5, <1>7, WalkValue, Zenon
<1> QED BY <1>6, <1>8, <1>10, <1>11, Zenon

LEMMA ParentTyped ==
  ASSUME NodesOK, NEW p \in Path
  PROVE  Parent(p) \in LookupErrors \cup 0..(nodeCount - 1)
<1>1. CASE p \in {Relative, TooLong, <<>>}
  BY <1>1, Zenon DEF Parent, LookupErrors
<1>2. CASE p \notin {Relative, TooLong, <<>>}
  <2>1. p \in Seq(Name \cup {BadName})
    BY <1>2, Zenon DEF Path
  <2>2. Len(p) \in Nat /\ Len(p) # 0
    BY <1>2, <2>1
  <2>3. PICK q : q = SubSeq(p, 1, Len(p) - 1)
    BY Zenon
  <2>4. q \in Seq(Name \cup {BadName})
    <3>1. 1 \in 1..(Len(p) + 1) /\ Len(p) - 1 \in 0..Len(p)
      BY <2>2
    <3> QED BY <2>1, <2>3, <3>1, SubSeqProperties
  <2>5. Walk(q) \in LookupErrors \cup 0..(nodeCount - 1)
    BY <2>4, WalkTyped, Zenon
  <2>6. Parent(p) = IF Walk(q) < 0 THEN Walk(q)
                    ELSE IF ~nodes[Walk(q)].dir THEN ENOTDIR
                    ELSE IF p[Len(p)] = BadName THEN EINVAL ELSE Walk(q)
    BY <1>2, <2>3, Zenon DEF Parent
  <2> QED BY <2>5, <2>6, Zenon DEF LookupErrors
<1> QED BY <1>1, <1>2, Zenon

(* mcs_ramfs_create_file fails, or makes an empty file of a new name.      *)
FreshFile(nm, k) == [name |-> nm, parent |-> 0, dir |-> FALSE, size |-> k,
                     off |-> dataUsed, cap |-> FileCap]

LEMMA Creates ==
  ASSUME NodesOK, NEW p \in Path, Lookup(p) < 0
  PROVE  \/ CreateError(p) \in LookupErrors \cup {ENOSPC}
         \/ /\ CreateError(p) = OK
            /\ Room
            /\ \E nm \in Name : /\ \A n \in 1..(nodeCount - 1) : nodes[n].name # nm
                                /\ NewFile(p) = FreshFile(nm, 0)
<1>1. Parent(p) \in LookupErrors \cup 0..(nodeCount - 1)
  BY ParentTyped, Zenon
<1>2. CASE Parent(p) < 0
  BY <1>1, <1>2 DEF CreateError, NodesOK
<1>3. CASE ~(Parent(p) < 0) /\ ~Room
  BY <1>3, Zenon DEF CreateError
<1>4. CASE ~(Parent(p) < 0) /\ Room
  <2>1. Parent(p) >= 0
    BY <1>1, <1>4 DEF LookupErrors, EINVAL, ENOENT, ENOTDIR, ENAMETOOLONG, NodesOK
  <2>2. /\ Parent(p) = 0
        /\ p[Len(p)] \in Name
        /\ \A n \in 1..(nodeCount - 1) : nodes[n].name # p[Len(p)]
    BY <2>1, NewName, Zenon
  <2>3. CreateError(p) = OK
    BY <1>4, Zenon DEF CreateError
  <2>4. NewFile(p) = FreshFile(p[Len(p)], 0)
    BY <2>2, Zenon DEF NewFile, FreshFile
  <2> QED BY <1>4, <2>2, <2>3, <2>4, Zenon
<1> QED BY <1>2, <1>3, <1>4, Zenon

-----------------------------------------------------------------------------
(* No step takes a node away or makes a file a directory.                  *)
Kept ==
  /\ nodeCount' \in Nat /\ nodeCount <= nodeCount'
  /\ \A n \in 0..(nodeCount - 1) : nodes'[n].dir = nodes[n].dir

LEMMA NodesSame ==
  ASSUME NodesOK, SameNodes
  PROVE  NodesOK' /\ Kept
BY DEF SameNodes, NodesOK, DataApart, OneTree, Kept

(* A file gets another size.                                               *)
LEMMA NodeResized ==
  ASSUME NodesOK, NEW n \in 1..(nodeCount - 1), NEW k \in 0..nodes[n].cap,
         nodes' = [nodes EXCEPT ![n] = [nodes[n] EXCEPT !.size = k]],
         UNCHANGED <<nodeCount, dataUsed>>
  PROVE  NodesOK' /\ Kept
<1>1. nodeCount \in 1..MaxNodes /\ MaxNodes \in Nat /\ n \in 0..(nodeCount - 1)
      /\ nodes \in [0..(nodeCount - 1) -> NodeRec]
  BY VfsAssumption DEF NodesOK
<1>2. nodes[n] \in NodeRec /\ k \in Nat
  BY <1>1 DEF NodeRec
<1>3. nodes' \in [0..(nodeCount - 1) -> NodeRec]
  BY <1>1, <1>2, Zenon DEF NodeRec
<1>4. ASSUME NEW m \in 0..(nodeCount - 1)
      PROVE  /\ nodes'[m].name = nodes[m].name /\ nodes'[m].parent = nodes[m].parent
             /\ nodes'[m].dir = nodes[m].dir /\ nodes'[m].off = nodes[m].off
             /\ nodes'[m].cap = nodes[m].cap
             /\ nodes'[m].size = IF m = n THEN k ELSE nodes[m].size
             /\ m # n => nodes'[m] = nodes[m]
  BY <1>1, <1>2, Zenon DEF NodeRec
<1>5. DataApart'
  BY <1>4 DEF NodesOK, DataApart
<1>6. OneTree'
  <2>1. 0 \in 0..(nodeCount - 1) /\ 0 # n /\ 1..(nodeCount - 1) \subseteq 0..(nodeCount - 1)
    BY <1>1
  <2>2. nodes'[0] = Root
    BY <1>4, <2>1, Zenon DEF NodesOK, OneTree
  <2> QED BY <1>4, <2>1, <2>2 DEF NodesOK, OneTree
<1>7. Kept
  BY <1>1, <1>4 DEF Kept
<1> QED BY <1>1, <1>3, <1>5, <1>6, <1>7, Zenon DEF NodesOK

(* mcs_alloc_node: a new file in the part of the data array that is free.  *)
LEMMA NodeAdded ==
  ASSUME NodesOK, Room, NEW nm \in Name, NEW k \in 0..FileCap,
         \A n \in 1..(nodeCount - 1) : nodes[n].name # nm,
         AddNode(FreshFile(nm, k))
  PROVE  NodesOK' /\ Kept
<1> DEFINE f == FreshFile(nm, k)
<1>1. /\ nodeCount \in 1..MaxNodes /\ MaxNodes \in Nat /\ nodeCount < MaxNodes
      /\ nodes \in [0..(nodeCount - 1) -> NodeRec]
      /\ dataUsed \in Nat /\ FileCap \in Nat /\ DataBytes \in Nat
      /\ dataUsed + FileCap <= DataBytes
  BY VfsAssumption DEF NodesOK, Room
<1>2. /\ nodes' = [n \in 0..nodeCount |-> IF n = nodeCount THEN f ELSE nodes[n]]
      /\ nodeCount' = nodeCount + 1
      /\ dataUsed' = dataUsed + FileCap
  BY Zenon DEF AddNode, FreshFile
<1>3. /\ f \in NodeRec
      /\ f.name = nm /\ f.parent = 0 /\ ~f.dir /\ f.size = k /\ f.off = dataUsed /\ f.cap = FileCap
  BY <1>1 DEF FreshFile, NodeRec, Node
<1> HIDE DEF f
<1>4. (nodeCount + 1) - 1 = nodeCount /\ nodeCount \in 0..nodeCount
      /\ 0..(nodeCount - 1) \subseteq 0..nodeCount
  BY <1>1
<1>5. nodes' \in [0..(nodeCount' - 1) -> NodeRec]
  BY <1>1, <1>2, <1>3, <1>4
<1>6. nodes'[nodeCount] = f /\ \A n \in 0..(nodeCount - 1) : nodes'[n] = nodes[n]
  BY <1>1, <1>2, <1>4
<1>7. nodeCount' \in 1..MaxNodes /\ dataUsed' \in 0..DataBytes
  BY <1>1, <1>2
<1>8. \A n \in 0..(nodeCount - 1) :
        /\ nodes[n].off \in Nat /\ nodes[n].cap \in Nat /\ nodes[n].size \in Nat
  BY <1>1, Zenon DEF NodeRec
<1>9. DataApart'
  <2> SUFFICES ASSUME NEW n \in 0..(nodeCount' - 1)
               PROVE  /\ nodes'[n].size <= nodes'[n].cap
                      /\ nodes'[n].off + nodes'[n].cap <= dataUsed'
                      /\ \A m \in 0..(nodeCount' - 1) :
                           m < n => \/ nodes'[m].off + nodes'[m].cap <= nodes'[n].off
                                    \/ nodes'[m].cap = 0
    BY Zenon DEF DataApart
  <2>1. CASE n \in 0..(nodeCount - 1)
    <3>1. \A m \in 0..(nodeCount' - 1) : m < n => m \in 0..(nodeCount - 1)
      BY <1>1, <1>2, <2>1
    <3> QED BY <1>1, <1>2, <1>6, <1>8, <2>1, <3>1 DEF NodesOK, DataApart
  <2>2. CASE n = nodeCount
    <3>1. \A m \in 0..(nodeCount' - 1) : m < n => m \in 0..(nodeCount - 1)
      BY <1>1, <1>2, <2>2
    <3>2. \A m \in 0..(nodeCount - 1) : nodes[m].off + nodes[m].cap <= dataUsed
      BY Zenon DEF NodesOK, DataApart
    <3> QED BY <1>1, <1>2, <1>3, <1>6, <2>2, <3>1, <3>2
  <2> QED BY <1>1, <1>2, <2>1, <2>2
<1>10. OneTree'
  <2>1. nodes'[0] = Root
    BY <1>1, <1>6 DEF NodesOK, OneTree
  <2>2. ASSUME NEW n \in 1..(nodeCount' - 1)
        PROVE  ~nodes'[n].dir /\ nodes'[n].parent = 0 /\ nodes'[n].name \in Name
    <3>1. CASE n \in 1..(nodeCount - 1)
      BY <1>6, <3>1 DEF NodesOK, OneTree
    <3>2. CASE n = nodeCount
      BY <1>3, <1>6, <3>2, Zenon
    <3> QED BY <1>1, <1>2, <3>1, <3>2
  <2>3. ASSUME NEW m \in 1..(nodeCount' - 1), NEW n \in 1..(nodeCount' - 1),
               nodes'[m].name = nodes'[n].name
        PROVE  m = n
    <3>1. m \in 1..(nodeCount - 1) \/ m = nodeCount
      BY <1>1, <1>2
    <3>2. n \in 1..(nodeCount - 1) \/ n = nodeCount
      BY <1>1, <1>2
    <3>3. \A i \in 1..(nodeCount - 1) : nodes'[i] = nodes[i]
      BY <1>1, <1>6
    <3> QED BY <1>3, <1>6, <2>3, <3>1, <3>2, <3>3 DEF NodesOK, OneTree
  <2> QED BY <2>1, <2>2, <2>3, Zenon DEF OneTree
<1>11. Kept
  BY <1>1, <1>2, <1>6 DEF Kept
<1> QED BY <1>5, <1>7, <1>9, <1>10, <1>11, Zenon DEF NodesOK

-----------------------------------------------------------------------------
(* What an open descriptor is, and that the table keeps it.                *)
FdGood(r) ==
  /\ r \in FileRec
  /\ r.node < nodeCount
  /\ CanRead(r.flags) \/ CanWrite(r.flags)
  /\ CanWrite(r.flags) => IsFile(r.node)

LEMMA OpenFdGood ==
  ASSUME FdsOK, NEW fd, IsOpen(fd)
  PROVE  fd \in Fd /\ FdGood(fds[fd])
<1>1. fd \in Fd /\ fds[fd].used
  BY Zenon DEF IsOpen
<1>2. fds[fd] \in FileRec
  BY <1>1 DEF FdsOK, NoFile
<1> QED BY <1>1, <1>2, Zenon DEF FdsOK, FdsLive, FdGood

LEMMA FdValues ==
  ASSUME NodesOK, NEW r, FdGood(r)
  PROVE  r.offset \in Nat /\ r.node \in 0..(nodeCount - 1)
<1>1. r.offset \in Nat /\ r.node \in Nat /\ r.node < nodeCount
  BY VfsAssumption DEF FdGood, FileRec, Node
<1> QED BY <1>1 DEF NodesOK

LEMMA FdGoodKept ==
  ASSUME NodesOK, Kept, NEW r, FdGood(r)
  PROVE  FdGood(r)'
<1>1. nodeCount \in Nat /\ r.node \in 0..(nodeCount - 1) /\ r.node \in Nat
  BY VfsAssumption DEF NodesOK, FdGood, FileRec, Node
<1>2. r.node < nodeCount' /\ r.node \in 0..(nodeCount' - 1)
  BY <1>1 DEF Kept
<1>3. IsFile(r.node) => IsFile(r.node)'
  BY <1>1, <1>2, Zenon DEF IsFile, Kept
<1> QED BY <1>2, <1>3, Zenon DEF FdGood

LEMMA FdsKept ==
  ASSUME NodesOK, FdsOK, Kept, UNCHANGED fds
  PROVE  FdsOK'
<1>1. ASSUME NEW fd \in Fd, fds'[fd].used
      PROVE  FdGood(fds[fd])'
  <2>1. PICK r : r = fds[fd]
    BY Zenon
  <2>2. FdGood(r)
    BY <1>1, <2>1, OpenFdGood, Zenon DEF IsOpen
  <2>3. FdGood(r)'
    BY <2>2, FdGoodKept, Zenon
  <2> QED BY <2>1, <2>3, Zenon DEF FdGood
<1> QED BY <1>1, Zenon DEF FdsOK, FdsLive, FdGood

LEMMA FdsSet ==
  ASSUME NodesOK, FdsOK, Kept, NEW g \in Fd, NEW r, FdGood(r)',
         fds' = [fds EXCEPT ![g] = r]
  PROVE  FdsOK'
<1>1. fds' \in [Fd -> FileRec \cup {NoFile}]
  BY Zenon DEF FdGood, FdsOK
<1>2. ASSUME NEW fd \in Fd, fds'[fd].used
      PROVE  FdGood(fds[fd])'
  <2>1. CASE fd = g
    BY <2>1, Zenon DEF FdsOK, FdGood
  <2>2. CASE fd # g
    <3>1. PICK q : q = fds[fd]
      BY Zenon
    <3>2. fds'[fd] = q
      BY <2>2, <3>1, Zenon DEF FdsOK
    <3>3. FdGood(q)
      BY <1>2, <3>1, <3>2, OpenFdGood DEF IsOpen
    <3>4. FdGood(q)'
      BY <3>3, FdGoodKept, Zenon
    <3> QED BY <3>2, <3>4, Zenon DEF FdGood
  <2> QED BY <2>1, <2>2, Zenon
<1> QED BY <1>1, <1>2, Zenon DEF FdsOK, FdsLive, FdGood

LEMMA FdsFreed ==
  ASSUME NodesOK, FdsOK, Kept, NEW g \in Fd, fds' = [fds EXCEPT ![g] = NoFile]
  PROVE  FdsOK'
<1>1. fds' \in [Fd -> FileRec \cup {NoFile}]
  BY Zenon DEF FdsOK
<1>2. ASSUME NEW fd \in Fd, fds'[fd].used
      PROVE  FdGood(fds[fd])'
  <2>1. fd # g
    BY <1>2, Zenon DEF FdsOK, NoFile
  <2>2. PICK q : q = fds[fd]
    BY Zenon
  <2>3. fds'[fd] = q
    BY <2>1, <2>2, Zenon DEF FdsOK
  <2>4. FdGood(q)
    BY <1>2, <2>2, <2>3, OpenFdGood, Zenon DEF IsOpen
  <2>5. FdGood(q)'
    BY <2>4, FdGoodKept, Zenon
  <2> QED BY <2>3, <2>5, Zenon DEF FdGood
<1> QED BY <1>1, <1>2, Zenon DEF FdsOK, FdsLive, FdGood

(* A descriptor moved to another position.                                 *)
LEMMA FdMovedGood ==
  ASSUME NEW r, FdGood(r), NEW k \in Nat
  PROVE  FdGood([r EXCEPT !.offset = k])
BY Zenon DEF FdGood, FileRec

LEMMA FdMoved ==
  ASSUME NodesOK, FdsOK, Kept, NEW fd, IsOpen(fd), NEW k \in Nat,
         fds' = [fds EXCEPT ![fd] = [fds[fd] EXCEPT !.offset = k]]
  PROVE  FdsOK'
<1>1. fd \in Fd /\ FdGood(fds[fd])
  BY OpenFdGood, Zenon
<1>2. PICK q : q = fds[fd]
  BY Zenon
<1>3. PICK r : r = [q EXCEPT !.offset = k]
  BY Zenon
<1>4. FdGood(r)
  BY <1>1, <1>2, <1>3, FdMovedGood, Zenon
<1>5. FdGood(r)'
  BY <1>4, FdGoodKept, Zenon
<1> QED BY <1>1, <1>2, <1>3, <1>5, FdsSet, Zenon

(* mcs_fd_alloc gives the lowest free descriptor, or an error.             *)
LEMMA FdAllocValue ==
  \/ FdAlloc = ENFILE /\ Unused = {}
  \/ FdAlloc \in Unused /\ FdAlloc \in Fd /\ \A g \in Unused : FdAlloc <= g
<1>1. CASE Unused = {}
  BY <1>1, Zenon DEF FdAlloc
<1>2. CASE Unused # {}
  <2>1. PICK T : T = Unused
    BY Zenon
  <2>2. T # {} /\ T \subseteq Nat /\ T \subseteq Fd
    BY <1>2, <2>1, VfsAssumption DEF Unused, Fd
  <2>3. \E n \in T : \A m \in T : n <= m
    BY <2>2, LeastNatural, Zenon
  <2>4. PICK c : c = CHOOSE n \in T : \A m \in T : n <= m
    BY Zenon
  <2>5. c \in T /\ \A m \in T : c <= m
    BY <2>3, <2>4, Zenon
  <2>6. FdAlloc = c
    BY <1>2, <2>1, <2>4, Zenon DEF FdAlloc
  <2> QED BY <2>1, <2>2, <2>5, <2>6, Zenon
<1> QED BY <1>1, <1>2, Zenon

(* memcpy into the data array.                                             *)
LEMMA StoreTyped ==
  ASSUME DataOK, NEW f, f.off \in Nat, NEW at \in Nat, NEW buf \in Seq(Byte), Store(f, at, buf)
  PROVE  DataOK'
<1>1. DataBytes \in Nat /\ Len(buf) \in Nat /\ data \in [0..(DataBytes - 1) -> Byte]
  BY VfsAssumption DEF DataOK
<1>2. ASSUME NEW i \in 0..(DataBytes - 1), f.off + at <= i, i < f.off + at + Len(buf)
      PROVE  buf[i - f.off - at + 1] \in Byte
  <2>1. i - f.off - at + 1 \in 1..Len(buf)
    BY <1>1, <1>2
  <2> QED BY <2>1
<1> QED BY <1>1, <1>2, Zenon DEF Store, DataOK

-----------------------------------------------------------------------------
(* What FailedHarmless says of one step, and each operation: it keeps the  *)
(* invariant and does what FailedHarmless says.                            *)
Harmless ==
  failed' =>
    /\ data' = data
    /\ \A n \in DOMAIN nodes : nodes'[n] = nodes[n]
    /\ \A n \in DOMAIN nodes' \ DOMAIN nodes : nodes'[n].size = 0
    /\ \A fd \in Fd : \/ fds'[fd] = fds[fd]
                      \/ /\ fds[fd].used /\ fds'[fd].used
                         /\ fds'[fd].node = fds[fd].node
                         /\ \/ "APPEND" \in fds[fd].flags
                            \/ fds'[fd].offset > IntMax

LEMMA HarmlessSame ==
  ASSUME UNCHANGED <<nodes, data, fds>>
  PROVE  Harmless
BY Zenon DEF Harmless

LEMMA InvPartsNext ==
  ASSUME NodesOK', FdsOK', DataOK', failed' \in BOOLEAN
  PROVE  VfsInv'
BY Zenon DEF VfsInv, VTypeOK, NodesOK, FdsOK, DataOK

(* What the number that a call returns says.                               *)
Failed == failed' /\ failed' \in BOOLEAN
Succeeded == ~failed' /\ failed' \in BOOLEAN

LEMMA ReturnsFailure ==
  ASSUME NEW r \in Int, r < 0, Returns(r)
  PROVE  Failed
<1>1. (r < 0) = TRUE
  BY Zenon
<1> QED BY <1>1, Zenon DEF Returns, Failed, Succeeded

LEMMA ReturnsSuccess ==
  ASSUME NEW r \in Int, r >= 0, Returns(r)
  PROVE  Succeeded
<1>1. (r < 0) = FALSE
  OBVIOUS
<1> QED BY <1>1, Zenon DEF Returns, Failed, Succeeded

LEMMA OnlyGood ==
  ASSUME VfsInv, NEW r \in Int, Only(r)
  PROVE  VfsInv' /\ Harmless
<1>1. NodesOK /\ FdsOK /\ DataOK
  BY InvParts, Zenon
<1>2. SameNodes /\ UNCHANGED <<data, fds>> /\ failed' \in BOOLEAN
  BY DEF Only, Returns
<1>3. NodesOK' /\ Kept
  BY <1>1, <1>2, NodesSame, Zenon
<1>4. FdsOK'
  BY <1>1, <1>2, <1>3, FdsKept, Zenon
<1>5. DataOK'
  BY <1>1, <1>2, Zenon DEF DataOK
<1>6. VfsInv'
  BY <1>2, <1>3, <1>4, <1>5, InvPartsNext, Zenon
<1>7. Harmless
  BY <1>2, HarmlessSame, Zenon DEF SameNodes
<1> QED BY <1>6, <1>7, Zenon

LEMMA CloseGood ==
  ASSUME VfsInv, NEW fd, VfsClose(fd)
  PROVE  VfsInv' /\ Harmless
<1>1. NodesOK /\ FdsOK /\ DataOK
  BY InvParts, Zenon
<1>2. SameNodes /\ UNCHANGED data
  BY Zenon DEF VfsClose
<1>3. NodesOK' /\ Kept
  BY <1>1, <1>2, NodesSame, Zenon
<1>4. DataOK'
  BY <1>1, <1>2, Zenon DEF DataOK
<1>5. CASE IsOpen(fd)
  <2>1. fds' = [fds EXCEPT ![fd] = NoFile] /\ Returns(OK) /\ fd \in Fd
    BY <1>5, Zenon DEF VfsClose, IsOpen
  <2>3. Succeeded
    BY <2>1, ReturnsSuccess DEF OK
  <2>2. FdsOK'
    BY <1>1, <1>3, <2>1, FdsFreed, Zenon
  <2> QED BY <1>3, <1>4, <2>2, <2>3, InvPartsNext DEF Harmless, Succeeded
<1>6. CASE ~IsOpen(fd)
  <2>3. UNCHANGED fds /\ Returns(EBADF)
    BY <1>6, Zenon DEF VfsClose
  <2>1. UNCHANGED fds /\ Failed
    BY <2>3, ReturnsFailure DEF EBADF
  <2>2. FdsOK'
    BY <1>1, <1>3, <2>1, FdsKept, Zenon
  <2> QED BY <1>2, <1>3, <1>4, <2>1, <2>2, InvPartsNext, HarmlessSame DEF SameNodes, Failed
<1> QED BY <1>5, <1>6, Zenon

LEMMA DupGood ==
  ASSUME VfsInv, NEW fd, VfsDup(fd)
  PROVE  VfsInv' /\ Harmless
<1>1. NodesOK /\ FdsOK /\ DataOK
  BY InvParts, Zenon
<1>2. SameNodes /\ UNCHANGED data
  BY Zenon DEF VfsDup
<1>3. NodesOK' /\ Kept
  BY <1>1, <1>2, NodesSame, Zenon
<1>4. DataOK'
  BY <1>1, <1>2, Zenon DEF DataOK
<1>5. FdAlloc = ENFILE \/ FdAlloc \in Fd
  BY FdAllocValue, Zenon
<1>6. CASE IsOpen(fd) /\ FdAlloc \in Fd
  <2>1. PICK g : g = FdAlloc
    BY Zenon
  <2>2. PICK r : r = fds[fd]
    BY Zenon
  <2>3. g \in Fd /\ ~(g < 0)
    BY <1>6, <2>1, VfsAssumption DEF Fd
  <2>8. fds' = [fds EXCEPT ![g] = r] /\ Returns(g)
    BY <1>6, <2>1, <2>2, <2>3, Zenon DEF VfsDup
  <2>4. fds' = [fds EXCEPT ![g] = r] /\ Succeeded
    BY <2>3, <2>8, ReturnsSuccess DEF Fd
  <2>5. FdGood(r)
    BY <1>1, <1>6, <2>2, OpenFdGood, Zenon
  <2>6. FdGood(r)'
    BY <1>1, <1>3, <2>5, FdGoodKept, Zenon
  <2>7. FdsOK'
    BY <1>1, <1>3, <2>3, <2>4, <2>6, FdsSet
  <2> QED BY <1>3, <1>4, <2>4, <2>7, InvPartsNext DEF Harmless, Succeeded
<1>7. CASE ~(IsOpen(fd) /\ FdAlloc \in Fd)
  <2>3. UNCHANGED fds /\ (Returns(EBADF) \/ Returns(ENFILE))
    BY <1>5, <1>7 DEF VfsDup, ENFILE
  <2>1. UNCHANGED fds /\ Failed
    BY <2>3, ReturnsFailure DEF EBADF, ENFILE
  <2>2. FdsOK'
    BY <1>1, <1>3, <2>1, FdsKept, Zenon
  <2> QED BY <1>2, <1>3, <1>4, <2>1, <2>2, InvPartsNext, HarmlessSame DEF SameNodes, Failed
<1> QED BY <1>6, <1>7, Zenon

LEMMA ReadGood ==
  ASSUME VfsInv, NEW fd, NEW len \in Nat, VfsRead(fd, len)
  PROVE  VfsInv' /\ Harmless
<1>1. NodesOK /\ FdsOK /\ DataOK
  BY InvParts, Zenon
<1>2. SameNodes /\ UNCHANGED data
  BY Zenon DEF VfsRead
<1>3. NodesOK' /\ Kept
  BY <1>1, <1>2, NodesSame, Zenon
<1>4. DataOK'
  BY <1>1, <1>2, Zenon DEF DataOK
<1>5. ReadError(fd) \in {EBADF, EACCES, EISDIR, OK}
  BY Zenon DEF ReadError
<1>6. CASE ReadError(fd) = OK
  <2>1. IsOpen(fd)
    BY <1>6 DEF ReadError, OK, EBADF, EACCES, EISDIR
  <2>2. fd \in Fd /\ FdGood(fds[fd])
    BY <1>1, <2>1, OpenFdGood, Zenon
  <2>3. fds[fd].offset \in Nat /\ fds[fd].node \in 0..(nodeCount - 1)
    BY <1>1, <2>2, FdValues, Zenon
  <2>4. nodes[fds[fd].node].size \in Nat
    BY <1>1, <2>3, Zenon DEF NodesOK, NodeRec
  <2>5. ReadCount(fd, len) \in Nat
    BY <2>3, <2>4 DEF ReadCount, Min
  <2>6. PICK k \in Nat : k = fds[fd].offset + ReadCount(fd, len)
    BY <2>3, <2>5
  <2>7. fds' = [fds EXCEPT ![fd] = [fds[fd] EXCEPT !.offset = k]]
    <3>1. fds' = [fds EXCEPT ![fd].offset = @ + ReadCount(fd, len)]
      BY <1>6 DEF VfsRead, OK
    <3> QED BY <2>2, <2>6, <3>1, Zenon DEF FdGood
  <2>8. Succeeded
    <3>1. PICK r \in Nat : r = ReadCount(fd, len)
      BY <2>5, Zenon
    <3>2. Returns(r)
      BY <1>6, <3>1 DEF VfsRead, OK
    <3> QED BY <3>2, ReturnsSuccess
  <2>9. FdsOK'
    BY <1>1, <1>3, <2>1, <2>7, FdMoved
  <2> QED BY <1>3, <1>4, <2>8, <2>9, InvPartsNext DEF Harmless, Succeeded
<1>7. CASE ReadError(fd) # OK
  <2>3. PICK r \in Int : r = ReadError(fd) /\ r < 0
    BY <1>5, <1>7 DEF OK, EBADF, EACCES, EISDIR
  <2>1. UNCHANGED fds /\ Failed
    BY <2>3, ReturnsFailure, Zenon DEF VfsRead
  <2>2. FdsOK'
    BY <1>1, <1>3, <2>1, FdsKept, Zenon
  <2> QED BY <1>2, <1>3, <1>4, <2>1, <2>2, InvPartsNext, HarmlessSame DEF SameNodes, Failed
<1> QED BY <1>6, <1>7, Zenon

(* A position that is an int is returned as it is.                         *)
LEMMA SmallMod ==
  ASSUME NEW m \in Nat, NEW x \in 0..(m - 1)
  PROVE  x % m = x
<1> DEFINE q == x \div m
           r == x % m
<1>1. q \in Int /\ r \in 0..(m - 1) /\ x = m * q + r
  OBVIOUS
<1> HIDE DEF q, r
<1>2. CASE q >= 1
  <2>1. m * q >= m
    BY <1>1, <1>2
  <2> QED BY <1>1, <2>1
<1>3. CASE q <= -1
  <2>1. m * q <= -m
    BY <1>1, <1>3
  <2> QED BY <1>1, <2>1
<1>4. CASE q = 0
  BY <1>1, <1>4 DEF r
<1> QED BY <1>1, <1>2, <1>3, <1>4

LEMMA AsIntSmall ==
  ASSUME NEW k \in Nat
  PROVE  AsInt(k) \in Int /\ (k <= IntMax => AsInt(k) = k)
<1>1. PICK m \in Nat : m = IntMax + 1 /\ m > 0 /\ k + IntMax + 1 = k + m /\ 2 * (IntMax + 1) = 2 * m
  BY VfsAssumption
<1>2. AsInt(k) = ((k + m) % (2 * m)) - m
  BY <1>1, Zenon DEF AsInt
<1>3. (k + m) % (2 * m) \in 0..(2 * m - 1)
  BY <1>1
<1>4. k <= IntMax => (k + m) % (2 * m) = k + m
  <2>1. PICK d \in Nat : d = 2 * m
    BY <1>1
  <2>2. ASSUME k <= IntMax PROVE k + m \in 0..(d - 1)
    BY <1>1, <2>1, <2>2, VfsAssumption
  <2> QED BY <2>1, <2>2, SmallMod, Zenon
<1>5. PICK v \in Int : v = (k + m) % (2 * m)
  BY <1>1, <1>3
<1>6. AsInt(k) = v - m /\ (k <= IntMax => v = k + m)
  BY <1>2, <1>4, <1>5, Zenon
<1> QED BY <1>1, <1>6

(* What a moved descriptor may have become for FailedHarmless.             *)
LEMMA HarmlessMove ==
  ASSUME FdsOK, NEW fd, IsOpen(fd), NEW k \in Nat,
         fds' = [fds EXCEPT ![fd] = [fds[fd] EXCEPT !.offset = k]],
         "APPEND" \in fds[fd].flags \/ k > IntMax,
         UNCHANGED <<nodes, data>>
  PROVE  Harmless
<1>1. fd \in Fd /\ fds[fd] \in FileRec /\ fds[fd].used
  BY OpenFdGood, Zenon DEF FdGood, IsOpen
<1>2. fds'[fd] = [fds[fd] EXCEPT !.offset = k]
  BY <1>1, Zenon DEF FdsOK
<1>3. fds'[fd].used /\ fds'[fd].node = fds[fd].node /\ fds'[fd].offset = k
  BY <1>1, <1>2 DEF FileRec
<1>4. \A g \in Fd : g # fd => fds'[g] = fds[g]
  BY Zenon DEF FdsOK
<1> QED BY <1>1, <1>3, <1>4, Zenon DEF Harmless

LEMMA LseekGood ==
  ASSUME VfsInv, NEW fd, NEW by \in Int, NEW whence, VfsLseek(fd, by, whence)
  PROVE  VfsInv' /\ Harmless
<1> DEFINE to == SeekBase(fd, whence) + by
           err == IF ~IsOpen(fd) THEN EBADF
                  ELSE IF nodes[fds[fd].node].dir THEN EISDIR
                  ELSE IF whence \notin {"SET", "CUR", "END"} \/ to < 0 THEN EINVAL
                  ELSE OK
<1>1. NodesOK /\ FdsOK /\ DataOK
  BY InvParts, Zenon
<1>2. SameNodes /\ UNCHANGED data
  BY Zenon DEF VfsLseek
<1>3. NodesOK' /\ Kept
  BY <1>1, <1>2, NodesSame, Zenon
<1>4. DataOK'
  BY <1>1, <1>2, Zenon DEF DataOK
<1>5. err \in {EBADF, EISDIR, EINVAL, OK}
  BY Zenon
<1>6. IF err < 0 THEN Returns(err) /\ UNCHANGED fds
      ELSE fds' = [fds EXCEPT ![fd].offset = to] /\ Returns(AsInt(to))
  BY Zenon DEF VfsLseek
<1>7. CASE err = OK
  <2>1. IsOpen(fd) /\ whence \in {"SET", "CUR", "END"} /\ ~(to < 0)
    BY <1>7 DEF OK, EBADF, EISDIR, EINVAL
  <2>2. fd \in Fd /\ FdGood(fds[fd])
    BY <1>1, <2>1, OpenFdGood, Zenon
  <2>3. fds[fd].offset \in Nat /\ fds[fd].node \in 0..(nodeCount - 1)
    BY <1>1, <2>2, FdValues, Zenon
  <2>4. nodes[fds[fd].node].size \in Nat
    BY <1>1, <2>3, Zenon DEF NodesOK, NodeRec
  <2>5. SeekBase(fd, whence) \in Nat
    BY <2>3, <2>4, Zenon DEF SeekBase
  <2>6. PICK k \in Nat : k = to
    BY <2>1, <2>5
  <2> HIDE DEF to
  <2>7. fds' = [fds EXCEPT ![fd] = [fds[fd] EXCEPT !.offset = k]]
    <3>1. fds' = [fds EXCEPT ![fd].offset = to]
      BY <1>6, <1>7 DEF OK
    <3> QED BY <2>2, <2>6, <3>1, Zenon DEF FdGood
  <2>8. FdsOK'
    BY <1>1, <1>3, <2>1, <2>7, FdMoved
  <2>9. PICK r \in Int : r = AsInt(k) /\ (k <= IntMax => r = k)
    BY AsIntSmall, Zenon
  <2>10. Returns(r)
    BY <1>6, <1>7, <2>6, <2>9 DEF OK
  <2>11. CASE r >= 0
    <3>1. Succeeded
      BY <2>10, <2>11, ReturnsSuccess, Zenon
    <3> QED BY <1>3, <1>4, <2>8, <3>1, InvPartsNext DEF Harmless, Succeeded
  <2>12. CASE r < 0
    <3>1. Failed
      BY <2>10, <2>12, ReturnsFailure, Zenon
    <3>2. k > IntMax
      BY <2>9, <2>12, VfsAssumption
    <3>3. Harmless
      BY <1>1, <1>2, <2>1, <2>7, <3>2, HarmlessMove DEF SameNodes
    <3> QED BY <1>3, <1>4, <2>8, <3>1, <3>3, InvPartsNext DEF Failed
  <2> QED BY <2>11, <2>12
<1>8. CASE err # OK
  <2>1. PICK r \in Int : r = err /\ r < 0
    BY <1>5, <1>8 DEF OK, EBADF, EISDIR, EINVAL
  <2> HIDE DEF err
  <2>2. UNCHANGED fds /\ Failed
    BY <1>6, <2>1, ReturnsFailure, Zenon
  <2>3. FdsOK'
    BY <1>1, <1>3, <2>2, FdsKept, Zenon
  <2> QED BY <1>2, <1>3, <1>4, <2>2, <2>3, InvPartsNext, HarmlessSame DEF SameNodes, Failed
<1> QED BY <1>7, <1>8, Zenon

LEMMA WriteGood ==
  ASSUME VfsInv, NEW fd, NEW buf \in Seq(Byte), VfsWrite(fd, buf)
  PROVE  VfsInv' /\ Harmless
<1> DEFINE err == WriteError(fd, Len(buf))
           end == WriteStart(fd) + Len(buf)
           n == fds[fd].node
<1>1. NodesOK /\ FdsOK /\ DataOK /\ Len(buf) \in Nat
  BY InvParts
<1>2. UNCHANGED <<nodeCount, dataUsed>>
  BY Zenon DEF VfsWrite
<1>3. err \in {EBADF, EACCES, EISDIR, EINVAL, ENOSPC, OK}
  BY Zenon DEF WriteError
<1>4. CASE err \in {EBADF, EACCES, EISDIR}
  <2>1. PICK r \in Int : r = err /\ r < 0 /\ r \notin {EINVAL, ENOSPC}
    BY <1>4 DEF EBADF, EACCES, EISDIR, EINVAL, ENOSPC
  <2>2. UNCHANGED <<nodes, data, fds>> /\ Returns(r)
    BY <2>1, Zenon DEF VfsWrite
  <2>3. Failed
    BY <2>1, <2>2, ReturnsFailure, Zenon
  <2>4. NodesOK' /\ Kept
    BY <1>1, <1>2, <2>2, NodesSame, Zenon DEF SameNodes
  <2>5. FdsOK'
    BY <1>1, <2>2, <2>4, FdsKept, Zenon
  <2> QED BY <1>1, <2>2, <2>3, <2>4, <2>5, InvPartsNext, HarmlessSame DEF Failed, DataOK
<1>5. CASE err \in {EINVAL, ENOSPC, OK}
  <2>1. IsOpen(fd) /\ CanWrite(fds[fd].flags)
    BY <1>5 DEF WriteError, OK, EBADF, EACCES, EISDIR, EINVAL, ENOSPC
  <2>2. fd \in Fd /\ FdGood(fds[fd])
    BY <1>1, <2>1, OpenFdGood, Zenon
  <2>3. fds[fd].offset \in Nat /\ n \in 0..(nodeCount - 1)
    BY <1>1, <2>2, FdValues, Zenon
  <2>4. nodes[n] \in NodeRec /\ nodes[n].size \in Nat /\ nodes[n].cap \in Nat /\ nodes[n].off \in Nat
        /\ nodes[n].size <= nodes[n].cap
    BY <1>1, <2>3, Zenon DEF NodesOK, NodeRec, DataApart
  <2>5. WriteStart(fd) \in Nat
    BY <2>3, <2>4, Zenon DEF WriteStart
  <2>6. CASE err \in {EINVAL, ENOSPC}
    <3>1. PICK r \in Int : r = err /\ r < 0 /\ r \in {EINVAL, ENOSPC}
      BY <2>6 DEF EINVAL, ENOSPC
    <3>2. PICK k \in Nat : k = WriteStart(fd)
      BY <2>5, Zenon
    <3>3. UNCHANGED <<nodes, data>> /\ Returns(r) /\ fds' = [fds EXCEPT ![fd].offset = k]
      BY <3>1, <3>2, Zenon DEF VfsWrite
    <3>4. fds' = [fds EXCEPT ![fd] = [fds[fd] EXCEPT !.offset = k]]
      BY <2>2, <3>3, Zenon DEF FdGood
    <3>5. Failed
      BY <3>1, <3>3, ReturnsFailure, Zenon
    <3>6. NodesOK' /\ Kept
      BY <1>1, <1>2, <3>3, NodesSame, Zenon DEF SameNodes
    <3>7. FdsOK'
      BY <1>1, <2>1, <3>4, <3>6, FdMoved, Zenon
    <3>8. Harmless
      <4>1. CASE "APPEND" \in fds[fd].flags
        BY <1>1, <2>1, <3>3, <3>4, <4>1, HarmlessMove
      <4>2. CASE "APPEND" \notin fds[fd].flags
        <5>1. k = fds[fd].offset
          BY <3>2, <4>2, Zenon DEF WriteStart
        <5>2. UNCHANGED fds
          BY <1>1, <2>2, <3>4, <5>1 DEF FdsOK, FdGood, FileRec
        <5> QED BY <3>3, <5>2, HarmlessSame, Zenon
      <4> QED BY <4>1, <4>2, Zenon
    <3> QED BY <1>1, <3>3, <3>5, <3>6, <3>7, <3>8, InvPartsNext DEF Failed, DataOK
  <2>7. CASE err = OK
    <3>1. /\ Store(nodes[n], WriteStart(fd), buf)
          /\ fds' = [fds EXCEPT ![fd].offset = end]
          /\ nodes' = [nodes EXCEPT ![n].size = IF end > @ THEN end ELSE @]
          /\ Returns(Len(buf))
      BY <2>7 DEF VfsWrite, OK
    <3>2. Len(buf) <= nodes[n].cap - WriteStart(fd)
      BY <1>1, <2>1, <2>4, <2>5, <2>7 DEF WriteError, OK, EBADF, EACCES, EISDIR, EINVAL, ENOSPC
    <3>3. PICK e \in Nat : e = end
      BY <1>1, <2>5
    <3>4. PICK a \in Nat : a = WriteStart(fd)
      BY <2>5, Zenon
    <3>5. PICK f : f = nodes[n]
      BY Zenon
    <3>6. PICK k : k = IF end > f.size THEN end ELSE f.size
      BY Zenon
    <3>7. PICK m : m = n
      BY Zenon
    <3>8. k \in 0..nodes[m].cap /\ e \in 0..nodes[m].cap
      BY <1>1, <2>4, <2>5, <3>2, <3>3, <3>5, <3>6, <3>7
    <3>9. m \in 1..(nodeCount - 1)
      <4>1. IsFile(m)
        BY <2>1, <2>2, <3>7, Zenon DEF FdGood
      <4>2. nodes[0].dir
        BY <1>1 DEF NodesOK, OneTree, Root
      <4> QED BY <1>1, <2>3, <3>7, <4>1, <4>2 DEF IsFile, NodesOK
    <3>10. nodes' = [nodes EXCEPT ![m] = [nodes[m] EXCEPT !.size = k]]
      BY <2>3, <2>4, <3>1, <3>5, <3>6, <3>7, Zenon
    <3>11. NodesOK' /\ Kept
      BY <1>1, <1>2, <3>8, <3>9, <3>10, NodeResized, Zenon
    <3>12. fds' = [fds EXCEPT ![fd] = [fds[fd] EXCEPT !.offset = e]]
      BY <2>2, <3>1, <3>3, Zenon DEF FdGood
    <3>13. FdsOK'
      BY <1>1, <2>1, <3>11, <3>12, FdMoved
    <3>14. DataOK'
      <4>1. f.off \in Nat /\ Store(f, a, buf)
        BY <2>4, <3>1, <3>4, <3>5
      <4> QED BY <1>1, <4>1, StoreTyped, Zenon
    <3>15. Succeeded
      <4>1. PICK r \in Nat : r = Len(buf)
        BY <1>1, Zenon
      <4> QED BY <3>1, <4>1, ReturnsSuccess
    <3> QED BY <3>11, <3>13, <3>14, <3>15, InvPartsNext DEF Harmless, Succeeded
  <2> QED BY <1>5, <2>6, <2>7, Zenon
<1> QED BY <1>3, <1>4, <1>5, Zenon

(* A failed call that leaves an empty file behind.                         *)
LEMMA HarmlessCreation ==
  ASSUME NodesOK, NEW nm, AddNode(FreshFile(nm, 0)), UNCHANGED <<data, fds>>
  PROVE  Harmless
<1>1. nodeCount \in Nat /\ DOMAIN nodes = 0..(nodeCount - 1)
  BY VfsAssumption DEF NodesOK
<1>2. nodes' = [n \in 0..nodeCount |-> IF n = nodeCount THEN FreshFile(nm, 0) ELSE nodes[n]]
  BY Zenon DEF AddNode
<1>3. \A n \in DOMAIN nodes : nodes'[n] = nodes[n]
  BY <1>1, <1>2
<1>4. ASSUME NEW n \in DOMAIN nodes' \ DOMAIN nodes PROVE nodes'[n].size = 0
  <2>1. n = nodeCount
    BY <1>1, <1>2
  <2> QED BY <1>1, <1>2, <2>1, Zenon DEF FreshFile
<1> QED BY <1>3, <1>4, Zenon DEF Harmless

LEMMA SeedGood ==
  ASSUME VfsInv, NEW p \in Path, NEW buf \in Seq(Byte), SeedFile(p, buf)
  PROVE  VfsInv' /\ Harmless
<1>1. NodesOK /\ FdsOK /\ DataOK /\ Len(buf) \in Nat /\ UNCHANGED fds
  BY InvParts DEF SeedFile
<1>2. PICK n : n = Lookup(p)
  BY Zenon
<1>3. n \in LookupErrors \cup 0..(nodeCount - 1)
  BY <1>1, <1>2, LookupTyped, Zenon
<1>4. ASSUME NEW r \in Int, r < 0, Returns(r), SameNodes, UNCHANGED data
      PROVE  VfsInv' /\ Harmless
  <2>1. Only(r)
    BY <1>1, <1>4, Zenon DEF Only
  <2> QED BY <2>1, OnlyGood, Zenon
<1>5. CASE n >= 0
  <2>1. n \in 0..(nodeCount - 1)
    BY <1>3, <1>5 DEF LookupErrors, EINVAL, ENOENT, ENOTDIR, ENAMETOOLONG
  <2>2. CASE nodes[n].dir
    <3>1. PICK r \in Int : r = EISDIR /\ r < 0
      BY DEF EISDIR
    <3>2. Returns(r) /\ SameNodes /\ UNCHANGED data
      BY <1>2, <1>5, <2>2, <3>1, Zenon DEF SeedFile
    <3> QED BY <1>4, <3>1, <3>2, Zenon
  <2>3. CASE ~nodes[n].dir
    <3>1. n \in 1..(nodeCount - 1)
      BY <1>1, <2>1, <2>3 DEF NodesOK, OneTree, Root
    <3>2. nodes[n] \in NodeRec /\ nodes[n].cap \in Nat /\ nodes[n].off \in Nat
      BY <1>1, <2>1, Zenon DEF NodesOK, NodeRec
    <3>3. CASE Len(buf) <= nodes[n].cap
      <4>1. PICK k \in 0..nodes[n].cap : k = Len(buf)
        BY <1>1, <3>2, <3>3
      <4>2. PICK f : f = nodes[n]
        BY Zenon
      <4>3. /\ nodes' = [nodes EXCEPT ![n] = [nodes[n] EXCEPT !.size = k]]
            /\ UNCHANGED <<nodeCount, dataUsed>>
            /\ Store(f, 0, buf) /\ Returns(OK)
        BY <1>2, <1>5, <2>3, <3>3, <4>1, <4>2 DEF SeedFile, OK
      <4>4. NodesOK' /\ Kept
        BY <1>1, <3>1, <4>3, NodeResized, Zenon
      <4>5. FdsOK'
        BY <1>1, <4>4, FdsKept, Zenon
      <4>6. DataOK'
        <5>1. PICK at \in Nat : at = 0
          BY Zenon
        <5> QED BY <1>1, <3>2, <4>2, <4>3, <5>1, StoreTyped
      <4>7. Succeeded
        BY <4>3, ReturnsSuccess DEF OK
      <4> QED BY <4>4, <4>5, <4>6, <4>7, InvPartsNext, Zenon DEF Harmless, Succeeded
    <3>4. CASE ~(Len(buf) <= nodes[n].cap)
      <4>1. PICK r \in Int : r = ENOSPC /\ r < 0
        BY DEF ENOSPC
      <4>2. /\ nodes' = [nodes EXCEPT ![n] = nodes[n]]
            /\ UNCHANGED <<nodeCount, dataUsed>>
            /\ UNCHANGED data /\ Returns(r)
        BY <1>2, <1>5, <2>3, <3>4, <4>1 DEF SeedFile, OK
      <4>3. SameNodes
        BY <1>1, <2>1, <4>2, Zenon DEF SameNodes, NodesOK
      <4> QED BY <1>4, <4>1, <4>2, <4>3
    <3> QED BY <3>3, <3>4, Zenon
  <2> QED BY <2>2, <2>3, Zenon
<1>6. CASE ~(n >= 0)
  <2>1. Lookup(p) < 0
    BY <1>1, <1>2, <1>3, <1>6 DEF LookupErrors, EINVAL, ENOENT, ENOTDIR, ENAMETOOLONG, NodesOK
  <2>2. CASE CreateError(p) \in LookupErrors \cup {ENOSPC}
    <3>1. PICK r \in Int : r = CreateError(p) /\ r < 0
      BY <2>2 DEF LookupErrors, EINVAL, ENOENT, ENOTDIR, ENAMETOOLONG, ENOSPC
    <3>2. Returns(r) /\ SameNodes /\ UNCHANGED data
      BY <1>2, <1>6, <3>1, Zenon DEF SeedFile
    <3> QED BY <1>4, <3>1, <3>2, Zenon
  <2>3. CASE /\ CreateError(p) = OK
             /\ Room
             /\ \E nm \in Name : /\ \A m \in 1..(nodeCount - 1) : nodes[m].name # nm
                                 /\ NewFile(p) = FreshFile(nm, 0)
    <3>1. PICK nm \in Name : /\ \A m \in 1..(nodeCount - 1) : nodes[m].name # nm
                             /\ NewFile(p) = FreshFile(nm, 0)
      BY <2>3, Zenon
    <3>2. PICK f : f = FreshFile(nm, 0)
      BY Zenon
    <3>3. f.cap = FileCap /\ f.off \in Nat /\ FileCap \in Nat
      BY <1>1, <3>2, VfsAssumption DEF FreshFile, NodesOK
    <3>4. CASE Len(buf) <= FileCap
      <4>1. PICK k \in 0..FileCap : k = Len(buf)
        BY <1>1, <3>3, <3>4
      <4>2. AddNode([f EXCEPT !.size = k]) /\ Store(f, 0, buf) /\ Returns(OK)
        BY <1>2, <1>6, <2>3, <3>1, <3>2, <3>3, <3>4, <4>1 DEF SeedFile, OK
      <4>3. [f EXCEPT !.size = k] = FreshFile(nm, k)
        <5>1. PICK h : h = [f EXCEPT !.size = k]
          BY Zenon
        <5>2. /\ h.name = nm /\ h.parent = 0 /\ h.size = k /\ h.off = dataUsed /\ h.cap = FileCap
              /\ h = [i \in {"name", "parent", "dir", "size", "off", "cap"} |-> h[i]]
          BY <3>2, <5>1, Zenon DEF FreshFile
        <5>3. h.dir = FALSE
          BY <3>2, <5>1, Zenon DEF FreshFile
        <5> QED BY <5>1, <5>2, <5>3, Zenon DEF FreshFile
      <4>4. NodesOK' /\ Kept
        BY <1>1, <2>3, <3>1, <4>2, <4>3, NodeAdded
      <4>5. FdsOK'
        BY <1>1, <4>4, FdsKept
      <4>6. DataOK'
        <5>1. PICK at \in Nat : at = 0
          BY Zenon
        <5> QED BY <1>1, <3>3, <4>2, <5>1, StoreTyped
      <4>7. Succeeded
        BY <4>2, ReturnsSuccess DEF OK
      <4> QED BY <4>4, <4>5, <4>6, <4>7, InvPartsNext, Zenon DEF Harmless, Succeeded
    <3>5. CASE ~(Len(buf) <= FileCap)
      <4>1. PICK r \in Int : r = ENOSPC /\ r < 0
        BY DEF ENOSPC
      <4>2. AddNode(f) /\ UNCHANGED data /\ Returns(r)
        BY <1>2, <1>6, <2>3, <3>1, <3>2, <3>3, <3>5, <4>1 DEF SeedFile, OK
      <4>3. PICK k \in 0..FileCap : k = 0
        BY <3>3
      <4>4. NodesOK' /\ Kept
        BY <1>1, <2>3, <3>1, <3>2, <4>2, <4>3, NodeAdded
      <4>5. FdsOK'
        BY <1>1, <4>4, FdsKept, Zenon
      <4>6. Failed
        BY <4>1, <4>2, ReturnsFailure, Zenon
      <4>7. Harmless
        BY <1>1, <3>2, <4>2, HarmlessCreation
      <4> QED BY <1>1, <4>2, <4>4, <4>5, <4>6, <4>7, InvPartsNext DEF Failed, DataOK
    <3> QED BY <3>4, <3>5, Zenon
  <2> QED BY <1>1, <2>1, <2>2, <2>3, Creates, Zenon
<1> QED BY <1>5, <1>6, Zenon

(* mcs_vfs_open: the access it gives, and the code once the file is known. *)
LEMMA AccessGiven ==
  ASSUME NEW asked \in SUBSET Flags
  PROVE  /\ WithAccess(asked) \in SUBSET Flags
         /\ CanRead(WithAccess(asked)) \/ CanWrite(WithAccess(asked))
<1>1. CASE asked \cap {"RDONLY", "WRONLY", "RDWR"} = {}
  BY <1>1, Zenon DEF WithAccess, Flags, CanRead
<1>2. CASE asked \cap {"RDONLY", "WRONLY", "RDWR"} # {}
  BY <1>2, Zenon DEF WithAccess, CanRead, CanWrite
<1> QED BY <1>1, <1>2, Zenon

OpenCode(dir, flags) ==
  IF dir /\ CanWrite(flags) THEN EISDIR
  ELSE IF FdAlloc < 0 THEN ENFILE
  ELSE IF "TRUNC" \in flags /\ ~CanWrite(flags) THEN EACCES
  ELSE FdAlloc

LEMMA OpenCodes ==
  ASSUME NEW dir, NEW flags
  PROVE  \/ OpenCode(dir, flags) \in {EISDIR, ENFILE, EACCES}
         \/ /\ OpenCode(dir, flags) = FdAlloc /\ FdAlloc \in Fd
            /\ ~(dir /\ CanWrite(flags))
            /\ "TRUNC" \in flags => CanWrite(flags)
<1>1. FdAlloc = ENFILE \/ FdAlloc \in Fd
  BY FdAllocValue, Zenon
<1> QED BY <1>1, Zenon DEF OpenCode, ENFILE

LEMMA OpenedGood ==
  ASSUME NEW n, NEW start \in Nat, NEW flags \in SUBSET Flags,
         CanRead(flags) \/ CanWrite(flags),
         n \in Node, n < nodeCount', CanWrite(flags) => IsFile(n)'
  PROVE  FdGood(OpenFile(n, start, flags))'
<1> DEFINE kept == flags \ {"CREAT", "TRUNC"}
<1>1. CanRead(kept) = CanRead(flags) /\ CanWrite(kept) = CanWrite(flags)
  BY Zenon DEF CanRead, CanWrite
<1>2. kept \in SUBSET {"RDONLY", "WRONLY", "RDWR", "APPEND"}
  BY Zenon DEF Flags
<1> HIDE DEF kept
<1>3. PICK r : r = [used |-> TRUE, node |-> n, offset |-> start, flags |-> kept]
  BY Zenon
<1>4. r.node = n /\ r.flags = kept
  BY <1>3, Zenon
<1>5. r \in FileRec
  BY <1>2, <1>3, Zenon DEF FileRec
<1>6. FdGood(r)'
  BY <1>1, <1>4, <1>5, Zenon DEF FdGood
<1> QED BY <1>3, <1>6, Zenon DEF OpenFile, kept

LEMMA OpenGood ==
  ASSUME VfsInv, NEW p \in Path, NEW asked \in SUBSET Flags, VfsOpen(p, asked)
  PROVE  VfsInv' /\ Harmless
<1>1. NodesOK /\ FdsOK /\ DataOK /\ UNCHANGED data
  BY InvParts, Zenon DEF VfsOpen
<1>2. PICK n : n = Lookup(p)
  BY Zenon
<1>3. n \in LookupErrors \cup 0..(nodeCount - 1)
  BY <1>1, <1>2, LookupTyped, Zenon
<1>4. PICK flags \in SUBSET Flags : /\ flags = WithAccess(asked)
                                    /\ CanRead(flags) \/ CanWrite(flags)
  BY AccessGiven, Zenon
<1>5. ASSUME NEW r \in Int, r < 0, Returns(r), SameNodes, UNCHANGED fds
      PROVE  VfsInv' /\ Harmless
  <2>1. Only(r)
    BY <1>1, <1>5, Zenon DEF Only
  <2> QED BY <2>1, OnlyGood, Zenon
<1>6. CASE n >= 0
  <2>1. n \in 0..(nodeCount - 1) /\ n \in Node /\ n < nodeCount
    BY <1>1, <1>3, <1>6, VfsAssumption
    DEF LookupErrors, EINVAL, ENOENT, ENOTDIR, ENAMETOOLONG, NodesOK, Node
  <2>2. nodes[n] \in NodeRec /\ nodes[n].size \in Nat /\ nodes[n].cap \in Nat
    BY <1>1, <2>1, Zenon DEF NodesOK, NodeRec
  <2>3. PICK code : code = OpenCode(nodes[n].dir, flags)
    BY Zenon
  <2>4. PICK start : start = IF ~Truncates(flags, code) /\ "APPEND" \in flags
                             THEN nodes[n].size ELSE 0
    BY Zenon
  <2>5. /\ nodes' = [nodes EXCEPT ![n] = IF Truncates(flags, code)
                                         THEN [nodes[n] EXCEPT !.size = 0] ELSE nodes[n]]
        /\ UNCHANGED <<nodeCount, dataUsed>>
        /\ fds' = IF code >= 0 THEN [fds EXCEPT ![code] = OpenFile(n, start, flags)] ELSE fds
        /\ Returns(code)
    BY <1>2, <1>4, <1>6, <2>3, <2>4 DEF VfsOpen, OpenCode, OK
  <2>6. CASE code \in {EISDIR, ENFILE, EACCES}
    <3>1. code \in Int /\ code < 0
      BY <2>6 DEF EISDIR, ENFILE, EACCES
    <3>2. UNCHANGED fds
      BY <2>5, <3>1
    <3>3. SameNodes
      <4>1. ~Truncates(flags, code)
        BY <3>1 DEF Truncates
      <4> QED BY <1>1, <2>1, <2>5, <4>1 DEF SameNodes, NodesOK
    <3> QED BY <1>5, <2>5, <3>1, <3>2, <3>3
  <2>7. CASE /\ code = FdAlloc /\ FdAlloc \in Fd
             /\ ~(nodes[n].dir /\ CanWrite(flags))
             /\ "TRUNC" \in flags => CanWrite(flags)
    <3>1. code \in Fd /\ code \in Nat
      BY <2>7, VfsAssumption DEF Fd
    <3>2. start \in Nat
      BY <2>2, <2>4, Zenon
    <3>3. NodesOK' /\ Kept
      <4>1. CASE Truncates(flags, code)
        <5>1. ~nodes[n].dir
          BY <2>7, <4>1, Zenon DEF Truncates
        <5>2. n \in 1..(nodeCount - 1)
          BY <1>1, <2>1, <5>1 DEF NodesOK, OneTree, Root
        <5>3. PICK k \in 0..nodes[n].cap : k = 0
          BY <2>2
        <5>4. nodes' = [nodes EXCEPT ![n] = [nodes[n] EXCEPT !.size = k]]
          BY <2>5, <4>1, <5>3, Zenon
        <5> QED BY <1>1, <2>5, <5>2, <5>4, NodeResized, Zenon
      <4>2. CASE ~Truncates(flags, code)
        <5>1. SameNodes
          BY <1>1, <2>1, <2>5, <4>2 DEF SameNodes, NodesOK
        <5> QED BY <1>1, <5>1, NodesSame, Zenon
      <4> QED BY <4>1, <4>2, Zenon
    <3>4. PICK r : r = OpenFile(n, start, flags)
      BY Zenon
    <3>5. n < nodeCount' /\ (CanWrite(flags) => IsFile(n)')
      <4>1. nodeCount \in Nat /\ n \in 0..(nodeCount - 1) /\ n \in Nat /\ n < nodeCount
        BY <1>1, <2>1, VfsAssumption DEF NodesOK
      <4>2. nodeCount' \in Nat /\ nodeCount <= nodeCount'
        BY <3>3, Zenon DEF Kept
      <4>3. n < nodeCount' /\ n \in 0..(nodeCount' - 1)
        <5>1. \A a, b, c \in Nat : a < b /\ b <= c => a < c /\ a \in 0..(c - 1)
          OBVIOUS
        <5> QED BY <4>1, <4>2, <5>1, Zenon
      <4>4. nodes'[n].dir = nodes[n].dir
        BY <3>3, <4>1, Zenon DEF Kept
      <4> QED BY <2>7, <4>3, <4>4 DEF IsFile
    <3>6. FdGood(OpenFile(n, start, flags))'
      BY <1>4, <2>1, <3>2, <3>5, OpenedGood
    <3>7. FdGood(r)'
      BY <3>4, <3>6, Zenon
    <3>8. FdsOK'
      <4>1. fds' = [fds EXCEPT ![code] = r]
        BY <2>5, <3>1, <3>4
      <4> QED BY <1>1, <3>1, <3>3, <3>7, <4>1, FdsSet
    <3>9. Succeeded
      BY <2>5, <3>1, ReturnsSuccess
    <3> QED BY <1>1, <3>3, <3>8, <3>9, InvPartsNext DEF Harmless, Succeeded, DataOK
  <2> QED BY <2>3, <2>6, <2>7, OpenCodes
<1>7. CASE ~(n >= 0)
  <2>1. Lookup(p) < 0 /\ n \in Int /\ n < 0
    BY <1>1, <1>2, <1>3, <1>7 DEF LookupErrors, EINVAL, ENOENT, ENOTDIR, ENAMETOOLONG, NodesOK
  <2>2. CASE "CREAT" \notin flags
    <3>1. Returns(n) /\ SameNodes /\ UNCHANGED fds
      BY <1>2, <1>4, <1>7, <2>1, <2>2 DEF VfsOpen
    <3> QED BY <1>5, <2>1, <3>1, Zenon
  <2>3. CASE "CREAT" \in flags /\ CreateError(p) \in LookupErrors \cup {ENOSPC}
    <3>1. PICK r \in Int : r = CreateError(p) /\ r < 0
      BY <2>3 DEF LookupErrors, EINVAL, ENOENT, ENOTDIR, ENAMETOOLONG, ENOSPC
    <3>2. Returns(r) /\ SameNodes /\ UNCHANGED fds
      BY <1>2, <1>4, <1>7, <2>3, <3>1 DEF VfsOpen
    <3> QED BY <1>5, <3>1, <3>2, Zenon
  <2>4. CASE /\ "CREAT" \in flags
             /\ CreateError(p) = OK
             /\ Room
             /\ \E nm \in Name : /\ \A m \in 1..(nodeCount - 1) : nodes[m].name # nm
                                 /\ NewFile(p) = FreshFile(nm, 0)
    <3>1. PICK nm \in Name : /\ \A m \in 1..(nodeCount - 1) : nodes[m].name # nm
                             /\ NewFile(p) = FreshFile(nm, 0)
      BY <2>4, Zenon
    <3>2. PICK f : f = FreshFile(nm, 0)
      BY Zenon
    <3>3. f.dir = FALSE /\ f.size = 0
      BY <3>2, Zenon DEF FreshFile
    <3>4. [f EXCEPT !.size = 0] = f
      BY <3>2, <3>3, Zenon DEF FreshFile
    <3>5. PICK code : code = OpenCode(f.dir, flags)
      BY Zenon
    <3>6. PICK id : id = nodeCount
      BY Zenon
    <3>7. /\ AddNode(f)
          /\ fds' = IF code >= 0 THEN [fds EXCEPT ![code] = OpenFile(id, 0, flags)] ELSE fds
          /\ Returns(code)
      <4>1. f = NewFile(p)
        BY <3>1, <3>2, Zenon
      <4>2. /\ AddNode(IF Truncates(flags, code) THEN [f EXCEPT !.size = 0] ELSE f)
            /\ fds' = IF code >= 0
                      THEN [fds EXCEPT ![code] =
                              OpenFile(id, IF ~Truncates(flags, code) /\ "APPEND" \in flags
                                           THEN f.size ELSE 0, flags)]
                      ELSE fds
            /\ Returns(code)
        BY <1>2, <1>4, <1>7, <2>4, <3>5, <3>6, <4>1 DEF VfsOpen, OpenCode, OK
      <4> QED BY <3>3, <3>4, <4>2
    <3>8. PICK k \in 0..FileCap : k = 0
      BY VfsAssumption
    <3>9. NodesOK' /\ Kept
      BY <1>1, <2>4, <3>1, <3>2, <3>7, <3>8, NodeAdded
    <3>10. CASE code \in {EISDIR, ENFILE, EACCES}
      <4>1. code \in Int /\ code < 0
        BY <3>10 DEF EISDIR, ENFILE, EACCES
      <4>2. UNCHANGED fds /\ Failed
        BY <3>7, <4>1, ReturnsFailure
      <4>3. FdsOK'
        BY <1>1, <3>9, <4>2, FdsKept
      <4>4. Harmless
        BY <1>1, <3>2, <3>7, <4>2, HarmlessCreation
      <4> QED BY <1>1, <3>9, <4>2, <4>3, <4>4, InvPartsNext DEF Failed, DataOK
    <3>11. CASE code = FdAlloc /\ FdAlloc \in Fd
      <4>1. code \in Fd /\ code \in Nat
        BY <3>11, VfsAssumption DEF Fd
      <4>2. PICK start \in Nat : start = 0
        BY Zenon
      <4>3. PICK r : r = OpenFile(id, start, flags)
        BY Zenon
      <4>4. FdGood(r)'
        <5>1. id \in Node /\ (id < nodeCount)' /\ nodeCount \in Nat
          BY <1>1, <2>4, <3>6, <3>7, VfsAssumption DEF Room, AddNode, Node, NodesOK
        <5>2. IsFile(id)'
          <6>1. nodes'[id] = f /\ id \in 0..(nodeCount' - 1)
            BY <3>6, <3>7, <5>1 DEF AddNode
          <6> QED BY <3>3, <6>1, Zenon DEF IsFile
        <5>3. FdGood(OpenFile(id, start, flags))'
          BY <1>4, <5>1, <5>2, OpenedGood
        <5> QED BY <4>3, <5>3, Zenon
      <4>5. FdsOK'
        <5>1. fds' = [fds EXCEPT ![code] = r]
          BY <3>7, <4>1, <4>2, <4>3
        <5> QED BY <1>1, <3>9, <4>1, <4>4, <5>1, FdsSet
      <4>6. Succeeded
        BY <3>7, <4>1, ReturnsSuccess
      <4> QED BY <1>1, <3>9, <4>5, <4>6, InvPartsNext DEF Harmless, Succeeded, DataOK
    <3> QED BY <3>5, <3>10, <3>11, OpenCodes
  <2> QED BY <1>1, <2>1, <2>2, <2>3, <2>4, Creates
<1> QED BY <1>6, <1>7, Zenon

-----------------------------------------------------------------------------
(* Every step of the system calls and of the kernel's own calls.           *)
LEMMA StepGood ==
  ASSUME VfsInv, [Next]_vars
  PROVE  VfsInv' /\ Harmless
<1> USE SyscallAssumption
<1>1. ASSUME UNCHANGED vvars PROVE VfsInv' /\ Harmless
  <2>1. NodesOK' /\ Kept
    BY <1>1, InvParts, NodesSame, Zenon DEF vvars, SameNodes
  <2>2. FdsOK'
    BY <1>1, <2>1, InvParts, FdsKept DEF vvars
  <2>3. DataOK' /\ failed' \in BOOLEAN
    BY <1>1, InvParts, Zenon DEF vvars, DataOK
  <2> QED BY <1>1, <2>1, <2>2, <2>3, InvPartsNext, HarmlessSame DEF vvars
<1>2. ASSUME NEW ptr, NEW o \in Opens, SysOpen(ptr, o.path, o.flags)
      PROVE  VfsInv' /\ Harmless
  <2>1. PICK p \in Path, fl \in SUBSET Flags : p = o.path /\ fl = o.flags
    BY Zenon
  <2>2. PICK r \in Int : r = PathError(ptr)
    BY DEF PathError, EINVAL, EFAULT, OK
  <2> QED BY <1>2, <2>1, <2>2, OnlyGood, OpenGood DEF SysOpen
<1>3. ASSUME NEW reg, NEW ptr, NEW len \in ReadLens, SysRead(reg, ptr, len)
      PROVE  VfsInv' /\ Harmless
  <2>1. len \in Nat
    BY Zenon
  <2>2. PICK r \in Int : r = BufError(ptr, len)
    BY DEF BufError, EINVAL, EFAULT, OK
  <2> QED BY <1>3, <2>1, <2>2, OnlyGood, ReadGood, Zenon DEF SysRead
<1>4. ASSUME NEW reg, NEW ptr, NEW buf \in Buffers, SysWrite(reg, ptr, buf)
      PROVE  VfsInv' /\ Harmless
  <2>1. buf \in Seq(Byte)
    BY Zenon
  <2>2. PICK r \in Int : r = BufError(ptr, Len(buf))
    BY DEF BufError, EINVAL, EFAULT, OK
  <2> QED BY <1>4, <2>1, <2>2, OnlyGood, WriteGood, Zenon DEF SysWrite
<1>5. ASSUME NEW reg, NEW s \in Seeks, SysLseek(reg, s.by, s.whence)
      PROVE  VfsInv' /\ Harmless
  <2>1. PICK by, wh : by \in Int /\ by = s.by /\ wh = s.whence
    BY Zenon
  <2> QED BY <1>5, <2>1, LseekGood, Zenon DEF SysLseek
<1>6. ASSUME NEW ptr, NEW len, SysWriteSerial(ptr, len)
      PROVE  VfsInv' /\ Harmless
  <2>1. PICK r \in Int : r = SerialError(ptr, len)
    BY DEF SerialError, EINVAL, EFAULT, OK
  <2> QED BY <1>6, <2>1, OnlyGood, Zenon DEF SysWriteSerial
<1>7. ASSUME NEW nr, SysCallback(nr) PROVE VfsInv' /\ Harmless
  <2>1. PICK r \in Int : r = IF nr = "ping" \/ nr \in ops THEN OK ELSE EBUSY
    BY DEF OK, EBUSY
  <2> QED BY <1>7, <2>1, OnlyGood, Zenon DEF SysCallback
<1>8. ASSUME SysUnknown(NrMax) PROVE VfsInv' /\ Harmless
  <2>1. PICK r \in Int : r = ENOSYS
    BY DEF ENOSYS
  <2> QED BY <1>8, <2>1, OnlyGood, Zenon DEF SysUnknown
<1>9. ASSUME NEW s \in Seeds, SeedFile(s.path, s.buf) PROVE VfsInv' /\ Harmless
  <2>1. PICK p \in Path, buf \in Seq(Byte) : p = s.path /\ buf = s.buf
    BY Zenon
  <2> QED BY <1>9, <2>1, SeedGood, Zenon
<1>10. CASE Dispatch
  BY <1>2, <1>3, <1>4, <1>5, <1>6, <1>7, <1>8, <1>10, CloseGood, Zenon DEF Dispatch, SysClose
<1>11. CASE KernelCalls
  BY <1>9, <1>11, DupGood, Zenon DEF KernelCalls
<1>12. CASE \E r \in Regions : SyscallInit(Callback, r)
  BY <1>1, <1>12, Zenon DEF SyscallInit
<1>13. CASE UNCHANGED vars
  BY <1>1, <1>13 DEF vars
<1> QED BY <1>10, <1>11, <1>12, <1>13 DEF Next

LEMMA VfsInvInit == Init => VfsInv
<1> SUFFICES ASSUME Init PROVE VfsInv
  BY Zenon
<1> USE VfsAssumption DEF Init, VInit
<1>1. Root \in NodeRec /\ Root.size = 0 /\ Root.cap = 0 /\ Root.off = 0
  BY DEF Root, NodeRec, Node
<1>2. NodesOK
  <2>1. 0..(nodeCount - 1) = {0} /\ 1..(nodeCount - 1) = {} /\ nodes[0] = Root
    OBVIOUS
  <2>2. DataApart
    BY <1>1, <2>1 DEF DataApart
  <2>3. OneTree
    BY <2>1, Zenon DEF OneTree
  <2> QED BY <1>1, <2>1, <2>2, <2>3 DEF NodesOK
<1>3. FdsOK
  BY Zenon DEF FdsOK, FdsLive, NoFile
<1>4. DataOK
  BY Zenon DEF DataOK
<1> QED BY <1>2, <1>3, <1>4, InvParts

(* Whatever calls are made, each file keeps its own part of the data array,*)
(* every file is in the root under a name of its own, and every open       *)
(* descriptor is of a node that exists and may be read or written.         *)
THEOREM VfsHolds == Spec => []VfsInv
<1>1. VfsInv /\ [Next]_vars => VfsInv'
  BY StepGood, Zenon
<1> QED BY <1>1, VfsInvInit, PTL DEF Spec

(* A call of kernel/vfs/fd.c that fails changes no file and no byte, and no*)
(* descriptor but for the three remains that FailedHarmless names.         *)
THEOREM FailedCallsHarmless == Spec => FailedHarmless
<1>1. VfsInv /\ [Next]_vars => [Harmless]_vvars
  BY StepGood, Zenon
<1>2. VfsInv /\ [Next]_vars => VfsInv'
  BY StepGood, Zenon
<1>3. FailedHarmless <=> [][Harmless]_vvars
  BY Zenon DEF FailedHarmless, Harmless
<1> QED BY <1>1, <1>2, <1>3, VfsInvInit, PTL DEF Spec
=============================================================================
