----------------------------- MODULE SyncProofs ------------------------------
(***************************************************************************)
(* Processors that heed the lock-order validator exclude each other and    *)
(* never wait in a circle: for every set of processors, every set of       *)
(* classes and every depth of the validator's stack.  The mutex excludes,  *)
(* and its answers hold, for every set of threads.                         *)
(***************************************************************************)
EXTENDS LockOrder, Mutex, NatFacts, SequenceTheorems, TLAPS

(* Nothing is held, waited for or recorded at first.                       *)
LEMMA InitOrder == OInit => OrderInv
BY OrderAssumption, SpinAssumption
   DEF OInit, SpinInit, OrderInv, OTypeOK, SpinTypeOK, LockedMeansHeld, StackTracksLocks,
       Increasing, IsHeld

(* Classes are numbers.                                                    *)
LEMMA LockIsNat == \A l \in Lock : l \in Nat
BY OrderAssumption

(* What before_acquire accepts is above all that is on the stack, so the   *)
(* stack stays strictly increasing and names the new class too.            *)
LEMMA PushKeepsOrder ==
  ASSUME NEW s \in Seq(Lock), NEW c \in Lock, Accepts(s, c), Increasing(s)
  PROVE  /\ Append(s, c) \in Seq(Lock)
         /\ Append(s, c) # <<>>
         /\ Top(Append(s, c)) = c
         /\ Len(Append(s, c)) <= MaxHeld
         /\ Increasing(Append(s, c))
         /\ \A x : IsHeld(s, x) \/ x = c => IsHeld(Append(s, c), x)
<1> DEFINE t == Append(s, c)
<1>1. /\ t \in Seq(Lock) /\ Len(t) = Len(s) + 1 /\ DOMAIN t = 1..(Len(s) + 1)
      /\ DOMAIN s = 1..Len(s) /\ Len(s) \in Nat
      /\ \A i \in 1..Len(s) : t[i] = s[i]
      /\ t[Len(s) + 1] = c
  OBVIOUS
<1>2. \A i \in 1..Len(s) : s[i] \in Nat
  <2>1. \A i \in 1..Len(s) : s[i] \in Lock
    BY ElementOfSeq, Zenon
  <2> QED BY <2>1, LockIsNat, Zenon
<1>3. c \in Nat
  BY LockIsNat, Zenon
<1>4. \A i \in 1..Len(s) : s[i] < c
  <2> SUFFICES ASSUME NEW i \in 1..Len(s) PROVE s[i] < c
    BY Zenon
  <2>1. s # <<>> /\ c >= s[Len(s)] /\ s[Len(s)] # c /\ Len(s) \in 1..Len(s)
    BY <1>1 DEF Accepts, Top, IsHeld
  <2>2. s[i] <= s[Len(s)]
    BY <1>1, <1>2, <2>1 DEF Increasing
  <2> QED BY <1>2, <1>3, <2>1, <2>2
<1>5. Increasing(t)
  BY <1>1, <1>4 DEF Increasing
<1>6. Len(t) <= MaxHeld
  BY <1>1, OrderAssumption DEF Accepts
<1>7. t # <<>> /\ Top(t) = c
  BY <1>1 DEF Top
<1>8. \A x : IsHeld(s, x) \/ x = c => IsHeld(t, x)
  BY <1>1 DEF IsHeld
<1> QED BY <1>1, <1>5, <1>6, <1>7, <1>8, Zenon

(* after_release takes off the top class, and no other.                    *)
LEMMA PopKeepsOrder ==
  ASSUME NEW s \in Seq(Lock), s # <<>>, Len(s) <= MaxHeld, Increasing(s)
  PROVE  LET t == SubSeq(s, 1, Len(s) - 1)
         IN /\ t \in Seq(Lock)
            /\ Len(t) <= MaxHeld
            /\ Increasing(t)
            /\ \A x : IsHeld(s, x) /\ x # Top(s) => IsHeld(t, x)
<1> DEFINE t == SubSeq(s, 1, Len(s) - 1)
<1>1. /\ Len(s) \in Nat \ {0} /\ DOMAIN s = 1..Len(s)
      /\ t \in Seq(Lock) /\ Len(t) = Len(s) - 1 /\ DOMAIN t = 1..(Len(s) - 1)
      /\ \A i \in 1..(Len(s) - 1) : t[i] = s[i]
  <2>1. Len(s) \in Nat \ {0} /\ DOMAIN s = 1..Len(s)
    BY EmptySeq, LenProperties, Zenon
  <2>2. \A i \in 1..(Len(s) - 1) : s[i] \in Lock
    BY <2>1, ElementOfSeq
  <2>3. /\ t \in Seq(Lock)
        /\ Len(t) = IF 1 <= Len(s) - 1 THEN Len(s) - 1 - 1 + 1 ELSE 0
        /\ \A i \in 1..(Len(s) - 1 - 1 + 1) : t[i] = s[1 + i - 1]
    BY <2>1, <2>2, SubSeqProperties
  <2>4. Len(t) = Len(s) - 1 /\ \A i \in 1..(Len(s) - 1) : t[i] = s[i]
    BY <2>1, <2>3
  <2>5. DOMAIN t = 1..Len(t)
    BY <2>3, LenProperties, Zenon
  <2> QED BY <2>1, <2>3, <2>4, <2>5, Zenon
<1>2. Len(t) <= MaxHeld
  BY <1>1, OrderAssumption
<1>3. Increasing(t)
  BY <1>1 DEF Increasing
<1>4. \A x : IsHeld(s, x) /\ x # Top(s) => IsHeld(t, x)
  <2> SUFFICES ASSUME NEW i \in DOMAIN s, s[i] # Top(s) PROVE IsHeld(t, s[i])
    BY Zenon DEF IsHeld
  <2>1. i \in 1..(Len(s) - 1)
    BY <1>1 DEF Top
  <2> QED BY <1>1, <2>1, Zenon DEF IsHeld
<1> QED BY <1>1, <1>2, <1>3, <1>4, Zenon

-----------------------------------------------------------------------------
(* before_acquire pushes a class that is not held, and mcs_spin_lock waits.*)
LEMMA AcquireKeeps ==
  ASSUME OrderInv, NEW p \in Proc, NEW c \in Lock, BeforeAcquire(p, c)
  PROVE  OrderInv'
<1> USE SpinAssumption DEF OrderInv, OTypeOK, SpinTypeOK, LockedMeansHeld, StackTracksLocks
<1> DEFINE t == Append(held[p], c)
<1>1. /\ t \in Seq(Lock) /\ t # <<>> /\ Top(t) = c /\ Len(t) <= MaxHeld /\ Increasing(t)
      /\ \A x : IsHeld(held[p], x) \/ x = c => IsHeld(t, x)
  BY PushKeepsOrder, Zenon DEF BeforeAcquire
<1>2. c \notin holds[p]
  BY Zenon DEF BeforeAcquire, Accepts
<1>3. held' = [held EXCEPT ![p] = t] /\ UNCHANGED <<locked, holds, step, arg>>
      /\ pc' = [pc EXCEPT ![p] = "try"] /\ want' = [want EXCEPT ![p] = c]
      /\ step[p] = "run"
  BY Zenon DEF BeforeAcquire, SpinLock
<1> HIDE DEF t
<1>4. OTypeOK'
  BY <1>1, <1>3
<1>5. LockedMeansHeld'
  BY <1>3, Zenon
<1>6. StackTracksLocks'
  BY <1>1, <1>2, <1>3
<1> QED BY <1>4, <1>5, <1>6, Zenon

(* mcs_spin_try_lock takes the lock, or the class is to be taken off.      *)
LEMMA TryKeeps ==
  ASSUME OrderInv, NEW p \in Proc, NEW c \in Lock, BeforeTry(p, c)
  PROVE  OrderInv'
<1> USE SpinAssumption DEF OrderInv, OTypeOK, SpinTypeOK, LockedMeansHeld, StackTracksLocks
<1> DEFINE t == Append(held[p], c)
<1>1. /\ t \in Seq(Lock) /\ t # <<>> /\ Top(t) = c /\ Len(t) <= MaxHeld /\ Increasing(t)
      /\ \A x : IsHeld(held[p], x) \/ x = c => IsHeld(t, x)
  BY PushKeepsOrder, Zenon DEF BeforeTry
<1>2. c \notin holds[p]
  BY Zenon DEF BeforeTry, Accepts
<1>3. /\ held' = [held EXCEPT ![p] = t] /\ UNCHANGED <<pc, want>>
      /\ pc[p] = "run" /\ step[p] = "run"
      /\ locked' = [locked EXCEPT ![c] = 1]
  BY Zenon DEF BeforeTry, TryLock, Taken
<1> HIDE DEF t
<1>4. CASE locked[c] = 0
  <2>1. holds' = [holds EXCEPT ![p] = @ \cup {c}] /\ UNCHANGED <<step, arg>>
    BY <1>4, Zenon DEF BeforeTry, TryLock, Taken
  <2>2. OTypeOK'
    BY <1>1, <1>3, <2>1
  <2>3. LockedMeansHeld'
    BY <1>3, <1>4, <2>1
  <2>4. StackTracksLocks'
    BY <1>1, <1>2, <1>3, <2>1
  <2> QED BY <2>2, <2>3, <2>4, Zenon
<1>5. CASE locked[c] # 0
  <2>1. holds' = holds /\ step' = [step EXCEPT ![p] = "after"] /\ arg' = [arg EXCEPT ![p] = c]
    BY <1>5 DEF BeforeTry, TryLock, Taken
  <2>2. OTypeOK'
    BY <1>1, <1>3, <2>1
  <2>3. LockedMeansHeld'
    BY <1>3, <1>5, <2>1
  <2>4. StackTracksLocks'
    BY <1>1, <1>2, <1>3, <2>1
  <2> QED BY <2>2, <2>3, <2>4, Zenon
<1> QED BY <1>4, <1>5, Zenon

(* mcs_spin_unlock clears the word that only its holder has set.           *)
LEMMA ReleaseKeeps ==
  ASSUME OrderInv, NEW p \in Proc, NEW c \in Lock, Release(p, c)
  PROVE  OrderInv'
<1> USE SpinAssumption DEF OrderInv, OTypeOK, SpinTypeOK, LockedMeansHeld, StackTracksLocks
<1>1. OTypeOK'
  BY DEF Release, SpinUnlock
<1>2. LockedMeansHeld'
  BY DEF Release, SpinUnlock
<1>3. StackTracksLocks'
  BY DEF Release, SpinUnlock
<1> QED BY <1>1, <1>2, <1>3, Zenon

(* after_release takes off a class whose lock is not held.                 *)
LEMMA AfterReleaseKeeps ==
  ASSUME OrderInv, NEW p \in Proc, AfterRelease(p)
  PROVE  OrderInv'
<1> USE SpinAssumption DEF OrderInv, OTypeOK, SpinTypeOK, LockedMeansHeld, StackTracksLocks
<1> DEFINE t == SubSeq(held[p], 1, Len(held[p]) - 1)
<1>1. UNCHANGED <<locked, pc, want, holds>> /\ step' = [step EXCEPT ![p] = "run"]
      /\ arg' = [arg EXCEPT ![p] = NoLock] /\ step[p] = "after"
  BY Zenon DEF AfterRelease, spinVars
<1>2. CASE held[p] # <<>> /\ Top(held[p]) = arg[p]
  <2>1. held' = [held EXCEPT ![p] = t]
    BY <1>2, Zenon DEF AfterRelease
  <2>2. /\ t \in Seq(Lock) /\ Len(t) <= MaxHeld /\ Increasing(t)
        /\ \A x : IsHeld(held[p], x) /\ x # Top(held[p]) => IsHeld(t, x)
    BY <1>2, PopKeepsOrder, Zenon
  <2> HIDE DEF t
  <2>3. OTypeOK'
    BY <1>1, <2>1, <2>2
  <2>4. StackTracksLocks'
    BY <1>1, <1>2, <2>1, <2>2
  <2> QED BY <1>1, <2>3, <2>4, Zenon
<1>3. CASE ~(held[p] # <<>> /\ Top(held[p]) = arg[p])
  <2>1. UNCHANGED held
    BY <1>3 DEF AfterRelease
  <2> QED BY <1>1, <2>1
<1> QED BY <1>2, <1>3, Zenon

(* An exchange that finds the lock taken changes nothing but pc.           *)
LEMMA RunsKeeps ==
  ASSUME OrderInv, NEW p \in Proc, Runs(p)
  PROVE  OrderInv'
<1> USE SpinAssumption DEF OrderInv, OTypeOK, SpinTypeOK, LockedMeansHeld, StackTracksLocks
<1>1. UNCHANGED <<held, step, arg>>
  BY Zenon DEF Runs, ldVars
<1>2. CASE SpinLoad(p)
  BY <1>1, <1>2 DEF SpinLoad
<1>3. CASE SpinExchange(p)
  <2>1. /\ pc[p] = "try" /\ want[p] \in Lock /\ step[p] = "run"
        /\ want[p] = Top(held[p]) /\ held[p] # <<>>
    BY <1>3 DEF SpinExchange
  <2>2. CASE locked[want[p]] = 0
    <3>1. /\ locked' = [locked EXCEPT ![want[p]] = 1]
          /\ holds' = [holds EXCEPT ![p] = @ \cup {want[p]}]
          /\ pc' = [pc EXCEPT ![p] = "run"] /\ want' = [want EXCEPT ![p] = NoLock]
      BY <1>3, <2>2, Zenon DEF SpinExchange, Taken
    <3>2. OTypeOK'
      BY <1>1, <2>1, <3>1
    <3>3. LockedMeansHeld'
      BY <1>1, <2>1, <2>2, <3>1
    <3>4. IsHeld(held[p], want[p])
      BY <2>1, EmptySeq, LenProperties DEF IsHeld, Top
    <3>5. StackTracksLocks'
      BY <1>1, <2>1, <3>1, <3>4
    <3> QED BY <3>2, <3>3, <3>5, Zenon
  <2>3. CASE locked[want[p]] = 1
    BY <1>1, <1>3, <2>1, <2>3 DEF SpinExchange, Taken
  <2> QED BY <2>1, <2>2, <2>3
<1> QED BY <1>2, <1>3 DEF Runs, SpinStep

(* Mutual exclusion of the spinlocks, and what the validator's stack says  *)
(* of the locks that are held, at every moment and for any number of       *)
(* processors, classes and stack entries.                                  *)
THEOREM OrderHolds == OSpec => []OrderInv
<1>1. OrderInv /\ [ONext]_vars => OrderInv'
  <2> SUFFICES ASSUME OrderInv, [ONext]_vars PROVE OrderInv'
    BY Zenon
  <2>1. CASE ONext
    BY <2>1, AcquireKeeps, TryKeeps, ReleaseKeeps, AfterReleaseKeeps, RunsKeeps, Zenon DEF ONext
  <2>2. CASE UNCHANGED vars
    BY <2>2, Zenon DEF vars, spinVars, ldVars, OrderInv, OTypeOK, SpinTypeOK, LockedMeansHeld,
                StackTracksLocks, Top
  <2> QED BY <2>1, <2>2, Zenon
<1> QED BY InitOrder, <1>1, PTL DEF OSpec

-----------------------------------------------------------------------------
(* A processor waits only for a lock above all that it holds, so of some   *)
(* processors that wait, one that waits for the highest class is not held  *)
(* up by any of them.                                                      *)
LEMMA HighestIsFree == OrderInv => NoWaitCycle
<1> SUFFICES ASSUME OrderInv, NEW S \in (SUBSET Proc) \ {{}},
                    \A p \in S : \E q \in S : want[p] \in holds[q]
             PROVE  FALSE
  BY Zenon DEF NoWaitCycle
<1>1. \A p \in S : want[p] \in Lock
  BY Zenon DEF OrderInv, OTypeOK, SpinTypeOK
<1>2. \A p \in S : want[p] \in Nat /\ want[p] <= MaxClass
  <2>1. \A l \in Lock : l \in Nat /\ l <= MaxClass
    BY OrderAssumption
  <2> QED BY <1>1, <2>1, Zenon
<1> DEFINE T == { MaxClass - want[p] : p \in S }
<1>3. T \subseteq Nat /\ T # {}
  <2>1. ASSUME NEW p \in S PROVE MaxClass - want[p] \in Nat
    BY <1>2, OrderAssumption
  <2> QED BY <2>1, Zenon
<1>4. PICK m \in T : \A y \in T : m <= y
  BY <1>3, LeastNatural, Zenon
<1>5. PICK p \in S : m = MaxClass - want[p]
  BY Zenon
<1>6. ASSUME NEW q \in S PROVE want[q] <= want[p]
  <2>1. MaxClass - want[p] <= MaxClass - want[q]
    BY <1>4, <1>5, Zenon
  <2> QED BY <1>2, <2>1, OrderAssumption
<1>7. PICK q \in S : want[p] \in holds[q]
  BY Zenon
<1>8. PICK i \in DOMAIN held[q] : held[q][i] = want[p]
  BY <1>7, Zenon DEF IsHeld, OrderInv, StackTracksLocks
<1>9. want[q] # NoLock
  BY <1>1, SpinAssumption, Zenon
<1>10. held[q] # <<>> /\ want[q] = held[q][Len(held[q])]
  BY <1>9, Zenon DEF Top, OrderInv, StackTracksLocks
<1>11. i \in Nat /\ i <= Len(held[q]) /\ Len(held[q]) \in DOMAIN held[q]
  <2>1. held[q] \in Seq(Lock)
    BY Zenon DEF OrderInv, OTypeOK
  <2>2. Len(held[q]) \in Nat \ {0} /\ DOMAIN held[q] = 1..Len(held[q])
    BY <1>10, <2>1, EmptySeq, LenProperties, Zenon
  <2>3. i \in 1..Len(held[q])
    BY <1>8, <2>2, Zenon
  <2> QED BY <2>2, <2>3
<1>12. want[p] # want[q]
  BY <1>7, Zenon DEF OrderInv, StackTracksLocks
<1>13. want[p] < want[q]
  BY <1>8, <1>10, <1>11, <1>12 DEF Increasing, OrderInv, StackTracksLocks
<1> QED BY <1>2, <1>6, <1>13

(* Processors that heed mcs_lockdep_before_acquire never wait for each     *)
(* other in a circle, whatever their number and the order of their         *)
(* releases, and although after_release leaves classes on the stack.       *)
THEOREM NoDeadlock == OSpec => []NoWaitCycle
BY OrderHolds, HighestIsFree, PTL

-----------------------------------------------------------------------------
(* The mutex starts free, without owner.                                   *)
LEMMA InitMutex == MInit => MutexInv
BY MutexAssumption DEF MInit, MutexInv, MTypeOK, MutexExclusive, Inside, Named

(* A thread that asks for its own mutex back, or for that of another,      *)
(* reads an owner that the invariant makes true.                           *)
LEMMA NextMutex == MutexInv /\ [MNext]_mvars => MutexInv'
<1> SUFFICES ASSUME MutexInv, [MNext]_mvars PROVE MutexInv'
  BY Zenon
<1> USE MutexAssumption DEF MutexInv, MTypeOK, MutexExclusive, Inside, Named, At, Returns
<1>1. ASSUME NEW t \in Thread, MutexTryLock(t) PROVE MutexInv'
  <2>1. CASE mutexLocked = 0
    BY <1>1, <2>1 DEF MutexTryLock
  <2>2. CASE mutexLocked = 1
    BY <1>1, <2>2 DEF MutexTryLock
  <2> QED BY <2>1, <2>2, Zenon
<1>2. ASSUME NEW t \in Thread, StoreOwner(t) PROVE MutexInv'
  BY <1>2 DEF StoreOwner
<1>3. ASSUME NEW t \in Thread, LoadOwner(t) PROVE MutexInv'
  BY <1>3 DEF LoadOwner
<1>4. ASSUME NEW t \in Thread, MutexUnlock(t) PROVE MutexInv'
  BY <1>4 DEF MutexUnlock
<1>5. ASSUME NEW t \in Thread, Disown(t) PROVE MutexInv'
  BY <1>5 DEF Disown
<1>6. ASSUME NEW t \in Thread, Free(t) PROVE MutexInv'
  BY <1>6 DEF Free
<1>7. CASE UNCHANGED mvars
  BY <1>7 DEF mvars
<1> QED BY <1>1, <1>2, <1>3, <1>4, <1>5, <1>6, <1>7, Zenon DEF MNext, InCall

(* Mutual exclusion of mcs_mutex_try_lock and mcs_mutex_unlock, for every  *)
(* number of threads and in every interleaving of their accesses to locked *)
(* and owner.                                                              *)
THEOREM MutexExclusion == MSpec => []MutexInv
BY InitMutex, NextMutex, PTL DEF MSpec

(* EDEADLK goes only to the thread that has the mutex, and EBUSY and EPERM *)
(* never to it, although owner is read apart from locked.                  *)
THEOREM MutexAnswers == MSpec => AnswersHold
<1> DEFINE Answers == \A t \in Thread :
             /\ rc'[t] # rc[t] /\ rc'[t] = "EDEADLK" => t \in has
             /\ rc'[t] # rc[t] /\ rc'[t] \in {"EBUSY", "EPERM"} => t \notin has
<1>1. ASSUME MutexInv, [MNext]_mvars PROVE [Answers]_mvars
  <2> USE MutexAssumption DEF MutexInv, MTypeOK, MutexExclusive, Inside, Named, At, Returns
  <2> SUFFICES ASSUME MNext, NEW u \in Thread
               PROVE  /\ rc'[u] # rc[u] /\ rc'[u] = "EDEADLK" => u \in has
                      /\ rc'[u] # rc[u] /\ rc'[u] \in {"EBUSY", "EPERM"} => u \notin has
    BY <1>1, Zenon
  <2>1. PICK t \in Thread : MutexTryLock(t) \/ MutexUnlock(t) \/ InCall(t)
    BY Zenon DEF MNext
  <2>2. CASE MutexTryLock(t)
    BY <1>1, <2>2 DEF MutexTryLock
  <2>3. CASE MutexUnlock(t)
    BY <1>1, <2>3 DEF MutexUnlock
  <2>4. CASE InCall(t)
    BY <1>1, <2>4 DEF InCall, StoreOwner, LoadOwner, Disown, Free
  <2> QED BY <2>1, <2>2, <2>3, <2>4, Zenon
<1>2. MutexInv /\ [MNext]_mvars => [Answers]_mvars
  BY <1>1, Zenon
<1> QED BY <1>2, MutexExclusion, PTL DEF MSpec, AnswersHold
=============================================================================
