----------------------------- MODULE AtomicDisk -----------------------------
(***************************************************************************)
(* What the M16 journal promises its caller: a set of block writes (a      *)
(* transaction) takes effect in one indivisible step, or not at all.       *)
(*                                                                         *)
(* A call is begun with Begin, takes effect at most once with Apply, and   *)
(* ends with ReturnOk, which is possible only after it took effect, or     *)
(* with Lost: an error code or a power failure, after which the caller     *)
(* does not know whether the transaction took effect.  Recovery and mount  *)
(* never change the contents of this disk.                                 *)
(***************************************************************************)
EXTENDS Integers, Sequences

CONSTANTS
    Lba,        \* home block addresses
    Val,        \* block contents
    MaxRec      \* M16_JOURNAL_MAX_RECORDS

VARIABLES
    disk,       \* contents of every home block, as a caller sees them
    pending,    \* transaction of the call in progress, <<>> when there is none
    applied,    \* whether the call in progress has taken effect
    result      \* outcome of the last call

absVars == <<disk, pending, applied, result>>

(* A record of a transaction is a target block and the payload for it.     *)
Record == [lba : Lba, val : Val]

(* The transactions the callers build: one to MaxRec records, no two of    *)
(* them for the same block.                                                *)
Tx == { t \in UNION { [1..n -> Record] : n \in 1..MaxRec } :
          \A i, j \in DOMAIN t : t[i].lba = t[j].lba => i = j }

(* Block l of disk d after the records of t have been written to it.       *)
Written(d, t) ==
    [l \in Lba |-> IF \E i \in DOMAIN t : t[i].lba = l
                     THEN t[CHOOSE i \in DOMAIN t : t[i].lba = l].val
                     ELSE d[l]]

AbsInit ==
    /\ disk \in [Lba -> Val]
    /\ pending = <<>>
    /\ applied = FALSE
    /\ result = "none"

Begin(t) ==
    /\ pending = <<>>
    /\ pending' = t
    /\ applied' = FALSE
    /\ result' = "none"
    /\ UNCHANGED disk

Apply ==
    /\ pending # <<>>
    /\ ~applied
    /\ disk' = Written(disk, pending)
    /\ applied' = TRUE
    /\ UNCHANGED <<pending, result>>

ReturnOk ==
    /\ pending # <<>>
    /\ applied
    /\ pending' = <<>>
    /\ applied' = FALSE
    /\ result' = "OK"
    /\ UNCHANGED disk

Lost ==
    /\ pending' = <<>>
    /\ applied' = FALSE
    /\ result' \in {"none", "EIO"}
    /\ UNCHANGED disk

(* A recovery pass is begun, and reports its outcome.                      *)
Recover ==
    /\ pending = <<>>
    /\ result' \in {"none", "OK"}
    /\ UNCHANGED <<disk, pending, applied>>

AbsNext ==
    \/ \E t \in Tx : Begin(t)
    \/ Apply
    \/ ReturnOk
    \/ Lost
    \/ Recover

AbsSpec == AbsInit /\ [][AbsNext]_absVars
=============================================================================
