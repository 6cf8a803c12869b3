------------------------------ MODULE Spinlock ------------------------------
(***************************************************************************)
(* The spinlocks of kernel/sync/spinlock.c, one step per atomic access.    *)
(* A processor waits in mcs_spin_lock, or tries once with                  *)
(* mcs_spin_try_lock, and unlocks only a lock that it has taken: the code  *)
(* records no owner and leaves that to the caller.                         *)
(***************************************************************************)
EXTENDS Integers, FiniteSets

CONSTANTS Proc, Lock, NoLock

ASSUME SpinAssumption == NoLock \notin Lock

VARIABLES
    locked,     \* lock->locked
    pc,         \* "run", "try" before the exchange, "spin" before the load
    want,       \* the lock being waited for
    holds       \* ghost: the locks each processor has taken

spinVars == <<locked, pc, want, holds>>

SpinInit ==
    /\ locked = [l \in Lock |-> 0]
    /\ pc = [p \in Proc |-> "run"]
    /\ want = [p \in Proc |-> NoLock]
    /\ holds = [p \in Proc |-> {}]

(* The outcome of the exchange in mcs_spin_try_lock.                       *)
Taken(p, l) ==
    /\ locked' = [locked EXCEPT ![l] = 1]
    /\ holds' = [holds EXCEPT ![p] = IF locked[l] = 0 THEN @ \cup {l} ELSE @]

(* A call of mcs_spin_try_lock on its own.                                 *)
TryLock(p, l) ==
    /\ pc[p] = "run"
    /\ Taken(p, l)
    /\ UNCHANGED <<pc, want>>

(* mcs_spin_lock.                                                          *)
SpinLock(p, l) ==
    /\ pc[p] = "run"
    /\ pc' = [pc EXCEPT ![p] = "try"]
    /\ want' = [want EXCEPT ![p] = l]
    /\ UNCHANGED <<locked, holds>>

SpinExchange(p) ==
    /\ pc[p] = "try"
    /\ Taken(p, want[p])
    /\ pc' = [pc EXCEPT ![p] = IF locked[want[p]] = 0 THEN "run" ELSE "spin"]
    /\ want' = [want EXCEPT ![p] = IF locked[@] = 0 THEN NoLock ELSE @]

(* The inner loop: load until the lock is seen free.                       *)
SpinLoad(p) ==
    /\ pc[p] = "spin"
    /\ locked[want[p]] = 0
    /\ pc' = [pc EXCEPT ![p] = "try"]
    /\ UNCHANGED <<locked, want, holds>>

(* Mutant: the lock word is left set.                                      *)
SpinUnlockMut(p, l) ==
    /\ pc[p] = "run"
    /\ l \in holds[p]
    /\ holds' = [holds EXCEPT ![p] = @ \ {l}]
    /\ UNCHANGED <<locked, pc, want>>

SpinUnlock(p, l) ==
    /\ pc[p] = "run"
    /\ l \in holds[p]
    /\ locked' = [locked EXCEPT ![l] = 0]
    /\ holds' = [holds EXCEPT ![p] = @ \ {l}]
    /\ UNCHANGED <<pc, want>>

SpinStep(p) == SpinExchange(p) \/ SpinLoad(p)

SpinNext ==
    \E p \in Proc :
      \/ \E l \in Lock : TryLock(p, l) \/ SpinLock(p, l) \/ SpinUnlock(p, l)
      \/ SpinStep(p)

(* A processor in mcs_spin_lock runs on.                                   *)
SpinSpec ==
    /\ SpinInit /\ [][SpinNext]_spinVars
    /\ \A p \in Proc : WF_spinVars(SpinStep(p))

-----------------------------------------------------------------------------
SpinTypeOK ==
    /\ locked \in [Lock -> {0, 1}]
    /\ pc \in [Proc -> {"run", "try", "spin"}]
    /\ want \in [Proc -> Lock \cup {NoLock}]
    /\ holds \in [Proc -> SUBSET Lock]
    /\ \A p \in Proc : want[p] = NoLock <=> pc[p] = "run"

(* locked = 1 exactly while one processor is in the critical section: an   *)
(* exchange that fails stores a 1 over the 1 of the holder, and never over *)
(* the 0 of an unlock.                                                     *)
LockedMeansHeld ==
    \A l \in Lock :
      /\ locked[l] = 1 <=> \E p \in Proc : l \in holds[p]
      /\ \A p, q \in Proc : l \in holds[p] /\ l \in holds[q] => p = q

(* A lock that mcs_spin_lock waits for is taken by somebody.  Nothing      *)
(* promises that each waiter gets its turn.                                *)
SpinProgress ==
    \A l \in Lock : (\E p \in Proc : want[p] = l) ~> (\E p \in Proc : l \in holds[p])
=============================================================================
