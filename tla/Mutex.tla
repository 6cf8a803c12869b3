-------------------------------- MODULE Mutex --------------------------------
(***************************************************************************)
(* The mutex of kernel/sync/mutex.c, one step per atomic access: two words,*)
(* locked and owner, that mcs_mutex_try_lock and mcs_mutex_unlock change   *)
(* one after the other.  A thread may call either at any time, whether it  *)
(* has the mutex or not.  owner_id is the thread itself.                   *)
(***************************************************************************)
EXTENDS Integers

CONSTANTS Thread, Nobody    \* owner 0

ASSUME MutexAssumption == Nobody \notin Thread

VARIABLES
    mutexLocked,    \* mutex->locked
    owner,          \* mutex->owner
    mpc,            \* the next atomic access of each thread
    rc,             \* result of each thread's last call
    has             \* ghost: threads told they have the mutex, which have
                    \* not asked to give it back

mvars == <<mutexLocked, owner, mpc, rc, has>>

MInit ==
    /\ mutexLocked = 0
    /\ owner = Nobody
    /\ mpc = [t \in Thread |-> "out"]
    /\ rc = [t \in Thread |-> "none"]
    /\ has = {}

At(t, here, there) == mpc[t] = here /\ mpc' = [mpc EXCEPT ![t] = there]
Returns(t, r) == rc' = [rc EXCEPT ![t] = r]

-----------------------------------------------------------------------------
(* mcs_mutex_try_lock: compare-and-exchange on locked, then store or load  *)
(* of owner.                                                               *)

MutexTryLock(t) ==
    /\ \/ mutexLocked = 0 /\ At(t, "out", "own") /\ mutexLocked' = 1
       \/ mutexLocked = 1 /\ At(t, "out", "whose") /\ UNCHANGED mutexLocked
    /\ Returns(t, "none")
    /\ UNCHANGED <<owner, has>>

StoreOwner(t) ==
    /\ At(t, "own", "out")
    /\ owner' = t
    /\ has' = has \cup {t}
    /\ Returns(t, "OK")
    /\ UNCHANGED mutexLocked

(* Mutant: any owner but none is taken for the caller.                     *)
LoadOwnerMut(t) ==
    /\ At(t, "whose", "out")
    /\ Returns(t, IF owner # Nobody THEN "EDEADLK" ELSE "EBUSY")
    /\ UNCHANGED <<mutexLocked, owner, has>>

LoadOwner(t) ==
    /\ At(t, "whose", "out")
    /\ Returns(t, IF owner = t THEN "EDEADLK" ELSE "EBUSY")
    /\ UNCHANGED <<mutexLocked, owner, has>>

-----------------------------------------------------------------------------
(* mcs_mutex_unlock: load of owner, store of owner, store of locked.       *)

(* Mutant: the owner is not checked.                                       *)
MutexUnlockMut(t) ==
    /\ At(t, "out", "disown")
    /\ has' = has \ {t}
    /\ Returns(t, "none")
    /\ UNCHANGED <<mutexLocked, owner>>

MutexUnlock(t) ==
    /\ \/ owner = t /\ At(t, "out", "disown") /\ has' = has \ {t} /\ Returns(t, "none")
       \/ owner # t /\ At(t, "out", "out") /\ UNCHANGED has /\ Returns(t, "EPERM")
    /\ UNCHANGED <<mutexLocked, owner>>

Disown(t) ==
    /\ At(t, "disown", "free")
    /\ owner' = Nobody
    /\ UNCHANGED <<mutexLocked, rc, has>>

(* Mutant: locked is left set when the call returns.                       *)
FreeMut(t) ==
    /\ At(t, "free", "out")
    /\ Returns(t, "OK")
    /\ UNCHANGED <<mutexLocked, owner, has>>

Free(t) ==
    /\ At(t, "free", "out")
    /\ mutexLocked' = 0
    /\ Returns(t, "OK")
    /\ UNCHANGED <<owner, has>>

-----------------------------------------------------------------------------
InCall(t) == StoreOwner(t) \/ LoadOwner(t) \/ Disown(t) \/ Free(t)

MNext == \E t \in Thread : MutexTryLock(t) \/ MutexUnlock(t) \/ InCall(t)

(* A call that has begun runs to its end; and callers give the mutex back, *)
(* however often they try to lock it in between.                           *)
MSpec ==
    /\ MInit /\ [][MNext]_mvars
    /\ \A t \in Thread : WF_mvars(InCall(t))
    /\ \A t \in Thread : SF_mvars(t \in has /\ MutexUnlock(t))

-----------------------------------------------------------------------------
MTypeOK ==
    /\ mutexLocked \in {0, 1}
    /\ owner \in Thread \cup {Nobody}
    /\ mpc \in [Thread -> {"out", "own", "whose", "disown", "free"}]
    /\ rc \in [Thread -> {"none", "OK", "EBUSY", "EDEADLK", "EPERM"}]
    /\ has \subseteq Thread

(* Threads between the exchange that took locked and the store that clears *)
(* it, and those of them that owner should name.                           *)
Inside == has \cup { t \in Thread : mpc[t] \in {"own", "disown", "free"} }
Named == has \cup { t \in Thread : mpc[t] = "disown" }

(* Mutual exclusion: at most one thread is between taking and freeing the  *)
(* mutex, locked says whether there is one, and owner is that thread or,   *)
(* in the two windows where only one word has been changed, nobody.        *)
MutexExclusive ==
    /\ \A t, u \in Inside : t = u
    /\ mutexLocked = 1 <=> Inside # {}
    /\ \A t \in Thread : owner = t <=> t \in Named
    /\ \A t \in has : mpc[t] \in {"out", "whose"}

(* Types and mutual exclusion of mcs_mutex_try_lock and mcs_mutex_unlock.  *)
MutexInv == MTypeOK /\ MutexExclusive

(* try_lock says EDEADLK exactly to the thread that already has the mutex, *)
(* and a thread that has it is never told EBUSY or, by unlock, EPERM,      *)
(* although the words it reads change under it.                            *)
AnswersHold ==
    [][ \A t \in Thread :
          /\ rc'[t] # rc[t] /\ rc'[t] = "EDEADLK" => t \in has
          /\ rc'[t] # rc[t] /\ rc'[t] \in {"EBUSY", "EPERM"} => t \notin has ]_mvars

(* The mutex does not stay taken: a thread that was given it frees it.     *)
MutexFreed == mutexLocked = 1 ~> mutexLocked = 0
=============================================================================
