------------------------------- MODULE Journal -------------------------------
(***************************************************************************)
(* The write-ahead journal of MCSFS1J (kernel/fs/mcsfs1j):                 *)
(* m16_journal_commit, m16_journal_recover, m16_journal_clear and the      *)
(* block device below them, at the granularity of one block write.         *)
(*                                                                         *)
(* A power failure may strike between any two block writes, also during a  *)
(* recovery.  The device may begin to refuse writes (fail_after reaching   *)
(* 0), from then on every write returns M16_E_IO and the call in progress  *)
(* gives up.                                                               *)
(***************************************************************************)
EXTENDS Integers, Sequences

CONSTANTS
    Lba,        \* home block addresses
    Val,        \* block contents
    MaxRec,     \* M16_JOURNAL_MAX_RECORDS
    NoDesc      \* a descriptor block without M16_JMAGIC or with an LBA
                \* outside the device

Desc == [target : Lba, sum : Val]

ASSUME JournalAssumption ==
    /\ MaxRec \in Nat \ {0}
    /\ NoDesc \notin Desc

VARIABLES
    home,       \* the home blocks
    hdr,        \* the journal header block
    desc,       \* the descriptor blocks
    data,       \* the payload blocks
    failing,    \* dev->fail_after = 0
    jpc,        \* where the journal code is: which block write comes next
    ji,         \* its loop counter
    tx,         \* the transaction being committed (on the stack)
    stop,       \* argument stop_after_commit_record
    jrc,        \* result of the last journal call, "none" while it runs
    clean       \* the last journal call left nothing to replay, as the
                \* caller knows from its return code

diskVars == <<home, hdr, desc, data>>
callVars == <<jpc, ji, tx, stop, jrc, clean>>
jvars == <<diskVars, failing, callVars>>

(* A transaction as m16_tx_add builds it, see AtomicDisk.                  *)
Record == [lba : Lba, val : Val]
Tx == { t \in UNION { [1..n -> Record] : n \in 1..MaxRec } :
          \A i, j \in DOMAIN t : t[i].lba = t[j].lba => i = j }

(* The checksum of a payload.  Collisions are not modelled: equal sums are *)
(* taken to mean equal payloads.                                           *)
Checksum(v) == v

(* A header is empty, committed with a valid checksum, or refused.         *)
EmptyHdr == [state |-> "empty", count |-> 0]
CommittedHdr(n) == [state |-> "committed", count |-> n]

JInit ==
    /\ home \in [Lba -> Val]
    /\ hdr = EmptyHdr
    /\ desc = [i \in 1..MaxRec |-> NoDesc]
    /\ data \in [1..MaxRec -> Val]
    /\ failing = FALSE
    /\ jpc = "idle"
    /\ ji = 1
    /\ tx = <<>>
    /\ stop = FALSE
    /\ jrc = "none"
    /\ clean = FALSE

-----------------------------------------------------------------------------
(* The block device.                                                       *)

Commits == {"clear0", "desc", "data", "head", "stopchk", "home", "clear"}
Recovers == {"rcheck", "rec", "rclear"}

Goto(pc, i) ==
    /\ jpc' = pc
    /\ ji' = i
    /\ UNCHANGED <<tx, stop, jrc, clean>>

(* The call returns rc; c tells whether the journal is then clean.         *)
Return(rc, c) ==
    /\ jpc' = "idle"
    /\ ji' = 1
    /\ tx' = <<>>
    /\ stop' = FALSE
    /\ jrc' = rc
    /\ clean' = c

(* m16_write_block succeeds only while fail_after has not run out.         *)
CanWrite(pc) == jpc = pc /\ ~failing

WriteHdr(h) == hdr' = h /\ UNCHANGED <<home, desc, data, failing>>
WriteDesc(i, d) ==
    desc' = [desc EXCEPT ![i] = d] /\ UNCHANGED <<home, hdr, data, failing>>
WriteData(i, v) ==
    data' = [data EXCEPT ![i] = v] /\ UNCHANGED <<home, hdr, desc, failing>>
WriteHome(l, v) ==
    home' = [home EXCEPT ![l] = v] /\ UNCHANGED <<hdr, desc, data, failing>>

-----------------------------------------------------------------------------
(* m16_journal_commit(dev, t, seq, s).                                     *)

StartCommit(t, s) ==
    /\ jpc = "idle"
    /\ jpc' = "clear0"
    /\ ji' = 1
    /\ tx' = t
    /\ stop' = s
    /\ jrc' = "none"
    /\ clean' = FALSE
    /\ UNCHANGED <<diskVars, failing>>

CommitClear ==
    /\ CanWrite("clear0")
    /\ WriteHdr(EmptyHdr)
    /\ Goto("desc", 1)

CommitDesc ==
    /\ CanWrite("desc")
    /\ WriteDesc(ji, [target |-> tx[ji].lba, sum |-> Checksum(tx[ji].val)])
    /\ Goto("data", ji)

(* Mutant: the commit header is written one record too early.              *)
CommitDataMut ==
    /\ CanWrite("data")
    /\ WriteData(ji, tx[ji].val)
    /\ IF ji + 1 < Len(tx) THEN Goto("desc", ji + 1) ELSE Goto("head", 1)

CommitData ==
    /\ CanWrite("data")
    /\ WriteData(ji, tx[ji].val)
    /\ IF ji < Len(tx) THEN Goto("desc", ji + 1) ELSE Goto("head", 1)

CommitHeader ==
    /\ CanWrite("head")
    /\ WriteHdr(CommittedHdr(Len(tx)))
    /\ Goto("stopchk", 1)

(* stop_after_commit_record: return with the home blocks still old.        *)
CommitStop ==
    /\ jpc = "stopchk"
    /\ IF stop THEN Return("OK", FALSE) ELSE Goto("home", 1)
    /\ UNCHANGED <<diskVars, failing>>

CommitHome ==
    /\ CanWrite("home")
    /\ WriteHome(tx[ji].lba, tx[ji].val)
    /\ IF ji < Len(tx) THEN Goto("home", ji + 1) ELSE Goto("clear", 1)

CommitEnd ==
    /\ CanWrite("clear")
    /\ WriteHdr(EmptyHdr)
    /\ Return("OK", TRUE)

-----------------------------------------------------------------------------
(* m16_journal_recover(dev).                                               *)

StartRecover ==
    /\ jpc = "idle"
    /\ jpc' = "rcheck"
    /\ ji' = 1
    /\ jrc' = "none"
    /\ clean' = FALSE
    /\ UNCHANGED <<diskVars, failing, tx, stop>>

(* The header is read: nothing to do, a header that is refused, or replay. *)
RecoverHeader ==
    /\ jpc = "rcheck"
    /\ CASE hdr.state = "empty" -> Return("OK", TRUE)
         [] hdr.state = "committed" ->
              IF hdr.count = 0 THEN Goto("rclear", 1) ELSE Goto("rec", 1)
         [] OTHER -> Return("CORRUPT", FALSE)
    /\ UNCHANGED <<diskVars, failing>>

(* Mutant: the payload checksum is not compared.                           *)
ValidRecordMut(i) == desc[i] # NoDesc

ValidRecord(i) == desc[i] # NoDesc /\ Checksum(data[i]) = desc[i].sum

(* Mutant: the replay stops one record short.                              *)
RecoverRecordMut ==
    /\ CanWrite("rec")
    /\ WriteHome(desc[ji].target, data[ji])
    /\ IF ji + 1 < hdr.count THEN Goto("rec", ji + 1) ELSE Goto("rclear", 1)

RecoverRecord ==
    /\ CanWrite("rec")
    /\ WriteHome(desc[ji].target, data[ji])
    /\ IF ji < hdr.count THEN Goto("rec", ji + 1) ELSE Goto("rclear", 1)

(* Mutant: a journal with a bad record is cleared and forgotten.           *)
RecoverCorruptMut ==
    /\ WriteHdr(EmptyHdr)
    /\ Return("CORRUPT", FALSE)

(* A bad record stops the replay; the records before it stay written.      *)
RecoverCorrupt ==
    /\ Return("CORRUPT", FALSE)
    /\ UNCHANGED <<diskVars, failing>>

(* One round of the replay loop.                                           *)
RecoverLoop ==
    /\ jpc = "rec"
    /\ IF ValidRecord(ji) THEN RecoverRecord ELSE RecoverCorrupt

RecoverEnd ==
    /\ CanWrite("rclear")
    /\ WriteHdr(EmptyHdr)
    /\ Return("OK", TRUE)

-----------------------------------------------------------------------------
(* Faults.                                                                 *)

(* The device refuses every write from now on.                             *)
Fault ==
    /\ ~failing
    /\ failing' = TRUE
    /\ UNCHANGED <<diskVars, callVars>>

(* Mutant: a refused write is tried again.                                 *)
WriteErrorMut ==
    /\ failing
    /\ jpc # "idle"
    /\ Goto(jpc, ji)
    /\ UNCHANGED <<diskVars, failing>>

(* A refused write: every caller of m16_write_block returns at once.       *)
WriteError ==
    /\ failing
    /\ \/ jpc \in {"clear0", "desc", "data", "head", "home", "clear", "rclear"}
       \/ jpc = "rec" /\ ValidRecord(ji)
    /\ Return("EIO", FALSE)
    /\ UNCHANGED <<diskVars, failing>>

(* Between two calls fail_after is set back to -1.                         *)
Repair ==
    /\ failing
    /\ jpc = "idle"
    /\ failing' = FALSE
    /\ UNCHANGED <<diskVars, callVars>>

(* Power is lost and comes back: memory is gone, the blocks are not.       *)
PowerLoss ==
    /\ Return("none", FALSE)
    /\ failing' = FALSE
    /\ UNCHANGED diskVars

-----------------------------------------------------------------------------
JournalStep ==
    \/ CommitClear \/ CommitDesc \/ CommitData \/ CommitHeader
    \/ CommitStop \/ CommitHome \/ CommitEnd
    \/ RecoverHeader \/ RecoverLoop \/ RecoverEnd
    \/ WriteError

(* The caller's protocol: commit only when the last journal call left the  *)
(* journal clean.  m16_write_file_ex keeps it by mounting first.           *)
JNext ==
    \/ \E t \in Tx, s \in BOOLEAN : clean /\ StartCommit(t, s)
    \/ StartRecover
    \/ JournalStep
    \/ Fault
    \/ Repair
    \/ PowerLoss

JSpec == JInit /\ [][JNext]_jvars

(* The journal code itself never stops between two block writes.           *)
JFairSpec == JSpec /\ WF_jvars(JournalStep)
-----------------------------------------------------------------------------
(* Properties.                                                             *)

DiskTypeOK ==
    /\ home \in [Lba -> Val]
    /\ hdr \in {EmptyHdr} \cup [state : {"committed", "bad"}, count : 0..MaxRec]
    /\ desc \in [1..MaxRec -> Desc \cup {NoDesc}]
    /\ data \in [1..MaxRec -> Val]

CallTypeOK ==
    /\ jpc \in {"idle"} \cup Commits \cup Recovers
    /\ ji \in 1..MaxRec
    /\ tx \in Tx \cup {<<>>}
    /\ jrc \in {"none", "OK", "EIO", "CORRUPT"}

FlagsTypeOK ==
    /\ failing \in BOOLEAN
    /\ stop \in BOOLEAN
    /\ clean \in BOOLEAN

JTypeOK == DiskTypeOK /\ CallTypeOK /\ FlagsTypeOK

(* The first n journal records are the first n records of tx.              *)
Logged(n) ==
    \A i \in 1..n : /\ desc[i] = [target |-> tx[i].lba,
                                  sum |-> Checksum(tx[i].val)]
                    /\ data[i] = tx[i].val

(* The first n journal records have reached their home blocks.             *)
Homed(n) == \A i \in 1..n : home[desc[i].target] = data[i]

(* Whatever interrupted the code, a committed header describes records     *)
(* that replay will accept, for distinct home blocks: a crash never leaves *)
(* a journal that m16_journal_recover refuses.                             *)
CommittedReplayable ==
    /\ hdr.state # "bad"
    /\ hdr.state = "committed" =>
         /\ hdr.count \in 1..MaxRec
         /\ \A i \in 1..hdr.count : ValidRecord(i)
         /\ \A i, j \in 1..hdr.count :
              desc[i].target = desc[j].target => i = j

(* A commit in progress never has an older committed transaction under it: *)
(* the header it is about to overwrite is empty, so the first              *)
(* m16_journal_clear of m16_journal_commit throws nothing away.            *)
NoCommittedTxDropped ==
    /\ jpc \in {"clear0", "desc", "data", "head"} => hdr = EmptyHdr
    /\ clean => jpc = "idle" /\ hdr = EmptyHdr

(* Where each step of a commit stands: which records are in the journal,   *)
(* which have reached home.                                                *)
CommitProgress ==
    /\ jpc \in Commits => tx # <<>> /\ ji \in 1..Len(tx)
    /\ jpc = "idle" \/ jpc \in Recovers => tx = <<>>
    /\ jpc = "desc" => Logged(ji - 1)
    /\ jpc = "data" => /\ Logged(ji - 1)
                       /\ desc[ji] = [target |-> tx[ji].lba,
                                      sum |-> Checksum(tx[ji].val)]
    /\ jpc = "head" => Logged(Len(tx))
    /\ jpc \in {"stopchk", "home", "clear"} =>
         hdr = CommittedHdr(Len(tx)) /\ Logged(Len(tx))
    /\ jpc = "home" => Homed(ji - 1)
    /\ jpc = "clear" => Homed(Len(tx))

(* The header is only cleared once every record has reached home.          *)
RecoverProgress ==
    /\ jpc \in {"rec", "rclear"} => hdr.state = "committed"
    /\ jpc = "rec" => ji \in 1..hdr.count /\ Homed(ji - 1)
    /\ jpc = "rclear" => Homed(hdr.count)

(* The inductive invariant of m16_journal_commit and m16_journal_recover:  *)
(* types, what a committed header stands for, and for each block write     *)
(* which records are already in the journal and which are already home.    *)
JInv ==
    /\ JTypeOK
    /\ CommittedReplayable
    /\ NoCommittedTxDropped
    /\ CommitProgress
    /\ RecoverProgress

(* The disk as the next mount will see it: a committed journal counts.     *)
Effective ==
    [l \in Lba |->
        IF hdr.state = "committed" /\ \E i \in 1..hdr.count : desc[i].target = l
          THEN data[CHOOSE i \in 1..hdr.count : desc[i].target = l]
          ELSE home[l]]

(* The journal implements atomic transactions: writing the commit header   *)
(* is the step at which all of a transaction takes effect.  No crash, I/O  *)
(* error, interrupted recovery or repeated replay is visible in Effective. *)
A == INSTANCE AtomicDisk WITH
       disk <- Effective,
       pending <- IF jpc \in Commits THEN tx ELSE <<>>,
       applied <- jpc \in {"stopchk", "home", "clear"},
       result <- jrc
ImplementsAtomicDisk == A!AbsSpec

(* Every commit and every recovery ends: the loops over the records finish *)
(* or give up with an error.                                               *)
CallReturns == jpc # "idle" ~> jpc = "idle"
=============================================================================
