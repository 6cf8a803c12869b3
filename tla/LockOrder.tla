------------------------------ MODULE LockOrder ------------------------------
(***************************************************************************)
(* The lock-order validator of kernel/sync/lockdep.c around the spinlocks: *)
(* before_acquire, and only if that returned OK mcs_spin_lock or           *)
(* mcs_spin_try_lock; mcs_spin_unlock, or a try that failed, and then      *)
(* after_release.  There is one state for each processor.  A lock stands   *)
(* for its class, a positive number.  violation_count is a statistic that  *)
(* nothing reads, and left out: a call that is refused changes nothing.    *)
(***************************************************************************)
EXTENDS Spinlock, Sequences

CONSTANTS
    MaxClass,       \* the largest class: class_id is a uint32_t
    MaxHeld         \* MCS_LOCKDEP_MAX_HELD

ASSUME OrderAssumption ==
    /\ MaxClass \in Nat
    /\ Lock \subseteq 1..MaxClass
    /\ MaxHeld \in Nat

VARIABLES
    held,           \* held_class[0..depth-1]
    step,           \* "after" before after_release
    arg             \* the class that after_release is about to be called for

ldVars == <<held, step, arg>>
vars == <<spinVars, ldVars>>

OInit ==
    /\ SpinInit
    /\ held = [p \in Proc |-> <<>>]
    /\ step = [p \in Proc |-> "run"]
    /\ arg = [p \in Proc |-> NoLock]

Top(s) == s[Len(s)]

(* mcs_lockdep_is_held, for a class and the stack s.                       *)
IsHeld(s, c) == \E i \in DOMAIN s : s[i] = c

(* Mutant: the order of the classes is not checked, only recursion.        *)
AcceptsMut(s, c) ==
    /\ Len(s) < MaxHeld
    /\ ~IsHeld(s, c)

(* What mcs_lockdep_before_acquire accepts.                                *)
Accepts(s, c) ==
    /\ Len(s) < MaxHeld
    /\ ~IsHeld(s, c)
    /\ s # <<>> => c >= Top(s)

(* Mutant: the class is not recorded.                                      *)
BeforeAcquireMut(p, c) ==
    /\ step[p] = "run" /\ pc[p] = "run"
    /\ Accepts(held[p], c)
    /\ SpinLock(p, c)
    /\ UNCHANGED ldVars

(* before_acquire, and on OK the call of mcs_spin_lock.                    *)
BeforeAcquire(p, c) ==
    /\ step[p] = "run" /\ pc[p] = "run"
    /\ Accepts(held[p], c)
    /\ held' = [held EXCEPT ![p] = Append(@, c)]
    /\ SpinLock(p, c)
    /\ UNCHANGED <<step, arg>>

(* The same with mcs_spin_try_lock.  If it fails, after_release follows.   *)
BeforeTry(p, c) ==
    /\ step[p] = "run" /\ pc[p] = "run"
    /\ Accepts(held[p], c)
    /\ held' = [held EXCEPT ![p] = Append(@, c)]
    /\ TryLock(p, c)
    /\ IF locked[c] = 0
         THEN UNCHANGED <<step, arg>>
         ELSE step' = [step EXCEPT ![p] = "after"] /\ arg' = [arg EXCEPT ![p] = c]

(* The caller releases any lock it holds, not always the one taken last.   *)
Release(p, c) ==
    /\ step[p] = "run"
    /\ SpinUnlock(p, c)
    /\ step' = [step EXCEPT ![p] = "after"]
    /\ arg' = [arg EXCEPT ![p] = c]
    /\ UNCHANGED held

(* after_release takes a class off the stack only if it is the top one.    *)
AfterRelease(p) ==
    /\ step[p] = "after"
    /\ held' = [held EXCEPT ![p] =
                  IF @ # <<>> /\ Top(@) = arg[p] THEN SubSeq(@, 1, Len(@) - 1) ELSE @]
    /\ step' = [step EXCEPT ![p] = "run"]
    /\ arg' = [arg EXCEPT ![p] = NoLock]
    /\ UNCHANGED spinVars

Runs(p) == SpinStep(p) /\ UNCHANGED ldVars

ONext ==
    \E p \in Proc :
      \/ \E c \in Lock : BeforeAcquire(p, c) \/ BeforeTry(p, c) \/ Release(p, c)
      \/ AfterRelease(p)
      \/ Runs(p)

OSpec ==
    /\ OInit /\ [][ONext]_vars
    /\ \A p \in Proc : WF_vars(Runs(p)) /\ WF_vars(AfterRelease(p))
    /\ \A p \in Proc : WF_vars(\E c \in Lock : Release(p, c))

-----------------------------------------------------------------------------
OTypeOK ==
    /\ SpinTypeOK
    /\ held \in [Proc -> Seq(Lock)]
    /\ \A p \in Proc : Len(held[p]) <= MaxHeld
    /\ step \in [Proc -> {"run", "after"}]
    /\ arg \in [Proc -> Lock \cup {NoLock}]

Increasing(s) == \A i, j \in DOMAIN s : i < j => s[i] < s[j]

(* The validator's stack is strictly increasing and names every lock that  *)
(* the processor holds or waits for.  It may name more: a lock released    *)
(* out of order stays on it.  A class is taken off only when its lock is   *)
(* not held any more.                                                      *)
StackTracksLocks ==
    \A p \in Proc :
      /\ Increasing(held[p])
      /\ \A c \in holds[p] : IsHeld(held[p], c)
      /\ want[p] # NoLock => held[p] # <<>> /\ want[p] = Top(held[p])
      /\ want[p] \notin holds[p]
      /\ step[p] = "after" => pc[p] = "run" /\ arg[p] \notin holds[p]

(* Processors that heed the validator never wait for each other in a       *)
(* circle, nor one for itself, in whatever order they release.             *)
NoWaitCycle ==
    \A S \in (SUBSET Proc) \ {{}} :
      \E p \in S : \A q \in S : want[p] \notin holds[q]

(* The inductive invariant behind NoWaitCycle: types, mutual exclusion and *)
(* what the stack of mcs_lockdep_before_acquire and _after_release holds.  *)
OrderInv == OTypeOK /\ LockedMeansHeld /\ StackTracksLocks

(* The lock of the highest class does not stay taken: its holder is never  *)
(* allowed to wait for another.                                            *)
HighestReleased ==
    \A c \in Lock, p \in Proc :
      (\A d \in Lock : d <= c) => (c \in holds[p] ~> c \notin holds[p])
=============================================================================
