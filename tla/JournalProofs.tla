---------------------------- MODULE JournalProofs ----------------------------
(***************************************************************************)
(* The journal keeps its invariant and implements atomic transactions, for *)
(* every set of blocks, every set of contents and every journal size.  On  *)
(* a medium that decays it applies no damaged payload and forgets no       *)
(* damage.                                                                 *)
(***************************************************************************)
EXTENDS JournalRot, TLAPS

(* A transaction built by m16_tx_add is a sequence of one to MaxRec        *)
(* records for distinct blocks.                                            *)
LEMMA TxFacts ==
    ASSUME NEW t \in Tx
    PROVE  /\ t \in Seq(Record)
           /\ Len(t) \in 1..MaxRec
           /\ DOMAIN t = 1..Len(t)
           /\ \A i \in 1..Len(t) : t[i].lba \in Lba /\ t[i].val \in Val
           /\ \A i, j \in 1..Len(t) : t[i].lba = t[j].lba => i = j
<1>1. PICK n \in 1..MaxRec : t \in [1..n -> Record]
  BY Zenon DEF Tx
<1>2. t \in Seq(Record) /\ Len(t) = n
  BY <1>1, JournalAssumption
<1>3. \A i, j \in DOMAIN t : t[i].lba = t[j].lba => i = j
  BY Zenon DEF Tx
<1>4. \A i \in 1..n : t[i].lba \in Lba /\ t[i].val \in Val
  BY <1>1, Zenon DEF Record
<1>. QED
  BY <1>1, <1>2, <1>3, <1>4, JournalAssumption, Zenon

LEMMA EmptyNotTx == <<>> \notin Tx
BY TxFacts, JournalAssumption

-----------------------------------------------------------------------------
(* The parts of the invariant, unfolded once for the steps below.          *)
LEMMA InitInv == JInit => JInv
<1> SUFFICES ASSUME JInit PROVE JInv
  BY Zenon
<1>1. JTypeOK
  <2>1. FlagsTypeOK
    BY Zenon DEF JInit, FlagsTypeOK
  <2>2. DiskTypeOK
    BY JournalAssumption, Zenon DEF JInit, EmptyHdr, DiskTypeOK
  <2>3. CallTypeOK
    BY JournalAssumption DEF JInit, CallTypeOK
  <2>. QED
    BY <2>1, <2>2, <2>3, Zenon DEF JTypeOK
<1>2. CommittedReplayable /\ NoCommittedTxDropped /\ RecoverProgress
  BY Zenon DEF JInit, CommittedReplayable, NoCommittedTxDropped, RecoverProgress, EmptyHdr
<1>3. CommitProgress
  BY Zenon DEF JInit, CommitProgress, Commits, Recovers
<1>. QED
  BY <1>1, <1>2, <1>3, Zenon DEF JInv

LEMMA StartCommitInv ==
    ASSUME JInv, NEW t \in Tx, NEW s \in BOOLEAN, clean, StartCommit(t, s)
    PROVE  JInv'
<1> USE DEF StartCommit, diskVars
<1>1. Len(t) \in 1..MaxRec /\ t # <<>>
  BY TxFacts, EmptyNotTx, Zenon
<1>2. JTypeOK'
  <2>1. FlagsTypeOK'
    BY Zenon DEF JInv, JTypeOK, FlagsTypeOK
  <2>2. DiskTypeOK' /\ CallTypeOK'
    BY <1>1, JournalAssumption DEF JInv, JTypeOK, DiskTypeOK, CallTypeOK, Commits
  <2>. QED
    BY <2>1, <2>2, Zenon DEF JTypeOK
<1>3. (CommittedReplayable /\ NoCommittedTxDropped)'
  BY Zenon DEF JInv, CommittedReplayable, NoCommittedTxDropped, ValidRecord
<1>4. (CommitProgress /\ RecoverProgress)'
  BY <1>1 DEF CommitProgress, RecoverProgress, Commits, Recovers
<1>. QED
  BY <1>2, <1>3, <1>4, Zenon DEF JInv

LEMMA StartRecoverInv == JInv /\ StartRecover => JInv'
<1> SUFFICES ASSUME JInv, StartRecover PROVE JInv'
  BY Zenon
<1> USE DEF StartRecover, diskVars
<1>1. JTypeOK'
  <2>1. FlagsTypeOK'
    BY Zenon DEF JInv, JTypeOK, FlagsTypeOK
  <2>2. DiskTypeOK' /\ CallTypeOK'
    BY JournalAssumption DEF JInv, JTypeOK, DiskTypeOK, CallTypeOK, Recovers
  <2>. QED
    BY <2>1, <2>2, Zenon DEF JTypeOK
<1>2. (CommittedReplayable /\ NoCommittedTxDropped)'
  BY Zenon DEF JInv, CommittedReplayable, NoCommittedTxDropped, ValidRecord
<1>3. (CommitProgress /\ RecoverProgress)'
  BY Zenon DEF JInv, CommitProgress, RecoverProgress, Commits, Recovers
<1>. QED
  BY <1>1, <1>2, <1>3, Zenon DEF JInv

(* A call that ends, with whatever result, leaves the blocks as they are,  *)
(* and leaves no committed header behind if it reports the journal clean.  *)
LEMMA ReturnInv ==
    ASSUME JInv,
           NEW rc \in {"none", "OK", "EIO", "CORRUPT"}, NEW c \in BOOLEAN,
           Return(rc, c), UNCHANGED diskVars, failing' \in BOOLEAN,
           c => hdr = EmptyHdr
    PROVE  JInv'
<1> USE DEF Return, diskVars
<1>1. JTypeOK'
  <2>1. FlagsTypeOK'
    BY Zenon DEF JInv, JTypeOK, FlagsTypeOK
  <2>2. DiskTypeOK' /\ CallTypeOK'
    BY JournalAssumption DEF JInv, JTypeOK, DiskTypeOK, CallTypeOK
  <2>. QED
    BY <2>1, <2>2, Zenon DEF JTypeOK
<1>2. (CommittedReplayable /\ NoCommittedTxDropped)'
  BY Zenon DEF JInv, CommittedReplayable, NoCommittedTxDropped, ValidRecord
<1>3. (CommitProgress /\ RecoverProgress)'
  BY Zenon DEF CommitProgress, RecoverProgress, Commits, Recovers
<1>. QED
  BY <1>1, <1>2, <1>3, Zenon DEF JInv

(* What CommitProgress and the type say of tx during a commit.             *)
LEMMA CommitTx ==
    ASSUME JInv, jpc \in Commits
    PROVE  /\ tx \in Tx
           /\ Len(tx) \in 1..MaxRec
           /\ ji \in 1..Len(tx)
           /\ \A i \in 1..Len(tx) : tx[i].lba \in Lba /\ tx[i].val \in Val
           /\ \A i, j \in 1..Len(tx) : tx[i].lba = tx[j].lba => i = j
<1>1. tx \in Tx /\ ji \in 1..Len(tx)
  BY Zenon DEF JInv, JTypeOK, CallTypeOK, CommitProgress
<1>. QED
  BY <1>1, TxFacts, Zenon

LEMMA CommitClearInv == JInv /\ CommitClear => JInv'
<1> SUFFICES ASSUME JInv, CommitClear PROVE JInv'
  BY Zenon
<1> USE DEF CommitClear, CanWrite, WriteHdr, Goto
<1>0. jpc \in Commits
  BY Zenon DEF Commits
<1>1. JTypeOK'
  <2>1. FlagsTypeOK'
    BY Zenon DEF JInv, JTypeOK, FlagsTypeOK
  <2>2. DiskTypeOK' /\ CallTypeOK'
    BY JournalAssumption
    DEF JInv, JTypeOK, DiskTypeOK, CallTypeOK, EmptyHdr, Commits
  <2>. QED
    BY <2>1, <2>2, Zenon DEF JTypeOK
<1>2. (CommittedReplayable /\ NoCommittedTxDropped /\ RecoverProgress)'
  BY Zenon DEF JInv, CommittedReplayable, NoCommittedTxDropped, RecoverProgress, EmptyHdr
<1>3. CommitProgress'
  <2>1. 1 \in 1..Len(tx) /\ tx # <<>>
    BY <1>0, CommitTx, EmptyNotTx
  <2>2. Logged(0)'
    BY DEF Logged
  <2>. QED
    BY <2>1, <2>2 DEF CommitProgress, Commits, Recovers
<1>. QED
  BY <1>1, <1>2, <1>3, Zenon DEF JInv

LEMMA CommitDescInv == JInv /\ CommitDesc => JInv'
<1> SUFFICES ASSUME JInv, CommitDesc PROVE JInv'
  BY Zenon
<1> USE DEF CommitDesc, CanWrite, WriteDesc, Goto
<1>0. jpc \in Commits
  BY Zenon DEF Commits
<1>a. hdr = EmptyHdr /\ hdr' = EmptyHdr
  BY Zenon DEF JInv, NoCommittedTxDropped
<1>b. ji \in 1..MaxRec /\ tx[ji].lba \in Lba /\ tx[ji].val \in Val
  BY <1>0, CommitTx, JournalAssumption
<1>1. JTypeOK'
  <2>1. FlagsTypeOK'
    BY Zenon DEF JInv, JTypeOK, FlagsTypeOK
  <2>2. DiskTypeOK' /\ CallTypeOK'
    BY <1>b, Zenon
    DEF JInv, JTypeOK, DiskTypeOK, CallTypeOK, Desc, Checksum, Commits
  <2>. QED
    BY <2>1, <2>2, Zenon DEF JTypeOK
<1>2. (CommittedReplayable /\ NoCommittedTxDropped /\ RecoverProgress)'
    BY <1>a DEF JInv, CommittedReplayable, NoCommittedTxDropped, RecoverProgress, EmptyHdr
<1>3. CommitProgress'
  <2>1. Logged(ji - 1)'
    BY <1>0, <1>b, CommitTx DEF JInv, CommitProgress, Logged, JTypeOK, DiskTypeOK
  <2>. QED
    BY <2>1, <1>0, <1>b, CommitTx, Zenon DEF JInv, CommitProgress, Commits, Recovers, JTypeOK, DiskTypeOK
<1>. QED
  BY <1>1, <1>2, <1>3, Zenon DEF JInv

LEMMA CommitDataInv == JInv /\ CommitData => JInv'
<1> SUFFICES ASSUME JInv, CommitData PROVE JInv'
  BY Zenon
<1> USE DEF CommitData, CanWrite, WriteData, Goto
<1>0. jpc \in Commits
  BY Zenon DEF Commits
<1>a. hdr = EmptyHdr /\ hdr' = EmptyHdr
  BY Zenon DEF JInv, NoCommittedTxDropped
<1>b. /\ ji \in 1..MaxRec /\ tx[ji].lba \in Lba /\ tx[ji].val \in Val
      /\ ji \in 1..Len(tx) /\ Len(tx) \in 1..MaxRec /\ tx # <<>>
  BY <1>0, CommitTx, EmptyNotTx, JournalAssumption
<1>1. JTypeOK'
  <2>1. FlagsTypeOK'
    BY Zenon DEF JInv, JTypeOK, FlagsTypeOK
  <2>2. DiskTypeOK' /\ CallTypeOK'
    BY <1>b, JournalAssumption DEF JInv, JTypeOK, DiskTypeOK, CallTypeOK, Commits
  <2>. QED
    BY <2>1, <2>2, Zenon DEF JTypeOK
<1>2. (CommittedReplayable /\ NoCommittedTxDropped /\ RecoverProgress)'
  BY <1>a DEF JInv, CommittedReplayable, NoCommittedTxDropped, RecoverProgress, EmptyHdr
<1>3. CommitProgress'
  <2>1. \A i \in 1..ji : /\ desc[i] = [target |-> tx[i].lba, sum |-> Checksum(tx[i].val)]
                         /\ data'[i] = tx[i].val
    BY <1>b DEF JInv, CommitProgress, Logged, JTypeOK, DiskTypeOK
  <2>2. CASE ji < Len(tx)
    <3>1. jpc' = "desc" /\ ji' = ji + 1 /\ tx' = tx /\ desc' = desc
      BY <2>2, Zenon
    <3>2. Logged(ji - 1)'
      BY <2>1, <3>1, <1>b DEF Logged
    <3>3. tx' # <<>> /\ ji' \in 1..Len(tx')
      BY <3>1, <2>2, <1>b
    <3>. QED
      BY ONLY <3>1, <3>2, <3>3, Zenon DEF CommitProgress, Recovers
  <2>3. CASE ~(ji < Len(tx))
    <3>1. jpc' = "head" /\ ji' = 1 /\ tx' = tx /\ desc' = desc /\ ji = Len(tx)
      BY <2>3, <1>b
    <3>2. Logged(Len(tx))'
      BY <2>1, <3>1, Zenon DEF Logged
    <3>3. tx' # <<>> /\ ji' \in 1..Len(tx')
      BY <3>1, <1>b
    <3>. QED
      BY ONLY <3>1, <3>2, <3>3, Zenon DEF CommitProgress, Recovers
  <2>. QED
    BY <2>2, <2>3, Zenon
<1>. QED
  BY <1>1, <1>2, <1>3, Zenon DEF JInv

LEMMA CommitHeaderInv == JInv /\ CommitHeader => JInv'
<1> SUFFICES ASSUME JInv, CommitHeader PROVE JInv'
  BY Zenon
<1> USE DEF CommitHeader, CanWrite, WriteHdr, Goto, CommittedHdr
<1>0. jpc \in Commits
  BY Zenon DEF Commits
<1>b. /\ Len(tx) \in 1..MaxRec /\ tx # <<>> /\ Logged(Len(tx))
      /\ \A i \in 1..Len(tx) : tx[i].lba \in Lba /\ tx[i].val \in Val
      /\ \A i, j \in 1..Len(tx) : tx[i].lba = tx[j].lba => i = j
  BY <1>0, CommitTx, EmptyNotTx, Zenon DEF JInv, CommitProgress
<1>1. JTypeOK'
  <2>1. FlagsTypeOK'
    BY Zenon DEF JInv, JTypeOK, FlagsTypeOK
  <2>2. DiskTypeOK' /\ CallTypeOK'
    BY <1>b, JournalAssumption DEF JInv, JTypeOK, DiskTypeOK, CallTypeOK, Commits
  <2>. QED
    BY <2>1, <2>2, Zenon DEF JTypeOK
<1>2. CommittedReplayable'
  <2>1. \A i \in 1..Len(tx) : /\ desc[i] = [target |-> tx[i].lba, sum |-> tx[i].val]
                              /\ data[i] = tx[i].val
    BY <1>b, Zenon DEF Logged, Checksum
  <2>2. \A i \in 1..Len(tx) : desc[i] \in Desc
    <3> TAKE i \in 1..Len(tx)
    <3>1. tx[i].lba \in Lba /\ tx[i].val \in Val
      BY <1>b, Zenon
    <3>2. [target |-> tx[i].lba, sum |-> tx[i].val] \in Desc
      BY <3>1, Zenon DEF Desc
    <3>. QED
      BY <3>2, <2>1, Zenon
  <2>3. \A i \in 1..Len(tx) : desc[i].target = tx[i].lba /\ desc[i].sum = tx[i].val
    <3> TAKE i \in 1..Len(tx)
    <3>1. desc[i] = [target |-> tx[i].lba, sum |-> tx[i].val]
      BY <2>1, Zenon
    <3>. QED
      BY <3>1
  <2>4. \A i \in 1..Len(tx) : ValidRecord(i)'
    BY <2>1, <2>2, <2>3, JournalAssumption, Zenon DEF ValidRecord, Checksum
  <2>5. \A i, j \in 1..Len(tx) : desc[i].target = desc[j].target => i = j
    BY <2>3, <1>b, Zenon
  <2>. QED
    BY <2>4, <2>5, <1>b, Zenon DEF CommittedReplayable
<1>3. (NoCommittedTxDropped /\ RecoverProgress)'
  BY Zenon DEF JInv, NoCommittedTxDropped, RecoverProgress
<1>4. CommitProgress'
  BY <1>b, JournalAssumption DEF CommitProgress, Commits, Recovers, Logged
<1>. QED
  BY <1>1, <1>2, <1>3, <1>4, Zenon DEF JInv

LEMMA CommitStopInv == JInv /\ CommitStop => JInv'
<1> SUFFICES ASSUME JInv, CommitStop PROVE JInv'
  BY Zenon
<1>1. CASE stop
  BY <1>1, ReturnInv, Zenon DEF CommitStop, JInv, JTypeOK, FlagsTypeOK
<1>2. CASE ~stop
  <2> USE <1>2 DEF CommitStop, Goto, diskVars
  <2>0. jpc \in Commits
    BY Zenon DEF Commits
  <2>1. JTypeOK'
    <3>1. FlagsTypeOK'
      BY Zenon DEF JInv, JTypeOK, FlagsTypeOK
    <3>2. DiskTypeOK' /\ CallTypeOK'
      BY JournalAssumption DEF JInv, JTypeOK, DiskTypeOK, CallTypeOK, Commits
    <3>. QED
      BY <3>1, <3>2, Zenon DEF JTypeOK
  <2>2. (CommittedReplayable /\ NoCommittedTxDropped /\ RecoverProgress)'
    BY Zenon DEF JInv, CommittedReplayable, NoCommittedTxDropped, RecoverProgress, ValidRecord
  <2>3. CommitProgress'
    <3>1. 1 \in 1..Len(tx) /\ tx # <<>>
      BY <2>0, CommitTx, EmptyNotTx
    <3>2. hdr = CommittedHdr(Len(tx)) /\ Logged(Len(tx))
      BY Zenon DEF JInv, CommitProgress
    <3>3. Homed(0)' /\ Logged(Len(tx))'
      BY <3>2 DEF Homed, Logged
    <3>. QED
      BY <3>1, <3>2, <3>3 DEF CommitProgress, Commits, Recovers, CommittedHdr
  <2>. QED
    BY <2>1, <2>2, <2>3, Zenon DEF JInv
<1>. QED
  BY <1>1, <1>2, Zenon

(* What a committed header says of the journal's records.                  *)
LEMMA CommittedFacts ==
    ASSUME JInv, hdr.state = "committed"
    PROVE  /\ hdr.count \in 1..MaxRec
           /\ \A i \in 1..hdr.count : /\ i \in 1..MaxRec
                                      /\ desc[i] \in Desc
                                      /\ desc[i].target \in Lba
                                      /\ data[i] \in Val
           /\ \A i, j \in 1..hdr.count :
                desc[i].target = desc[j].target => i = j
<1>1. /\ hdr.count \in 1..MaxRec
      /\ \A i \in 1..hdr.count : ValidRecord(i)
      /\ \A i, j \in 1..hdr.count : desc[i].target = desc[j].target => i = j
  BY Zenon DEF JInv, CommittedReplayable
<1>2. ASSUME NEW i \in 1..hdr.count
      PROVE  i \in 1..MaxRec /\ desc[i] \in Desc /\ desc[i].target \in Lba /\ data[i] \in Val
  <2>1. i \in 1..MaxRec
    BY <1>1, JournalAssumption
  <2>2. desc[i] \in Desc
    BY <2>1, <1>1, Zenon DEF JInv, JTypeOK, DiskTypeOK, ValidRecord
  <2>. QED
    BY <2>1, <2>2, Zenon DEF Desc, JInv, JTypeOK, DiskTypeOK
<1>. QED
  BY <1>1, <1>2, Zenon

(* During the home writes the journal's records are those of tx.           *)
LEMMA HomeFacts ==
    ASSUME JInv, jpc \in {"stopchk", "home", "clear"}
    PROVE  /\ hdr.state = "committed" /\ hdr.count = Len(tx)
           /\ \A i \in 1..Len(tx) : desc[i].target = tx[i].lba /\ data[i] = tx[i].val
<1>1. hdr = CommittedHdr(Len(tx)) /\ Logged(Len(tx))
  BY Zenon DEF JInv, CommitProgress
<1>2. ASSUME NEW i \in 1..Len(tx)
      PROVE  desc[i].target = tx[i].lba /\ data[i] = tx[i].val
  <2>1. /\ desc[i] = [target |-> tx[i].lba, sum |-> Checksum(tx[i].val)]
        /\ data[i] = tx[i].val
    BY <1>1, Zenon DEF Logged
  <2>. QED
    BY <2>1
<1>. QED
  BY <1>1, <1>2, Zenon DEF CommittedHdr

(* Writing record n home, after records 1 to n - 1, leaves records 1 to n  *)
(* home: no two records have the same target.                              *)
LEMMA HomeWrite ==
    ASSUME JInv, hdr.state = "committed", NEW n \in 1..hdr.count, Homed(n - 1),
           WriteHome(desc[n].target, data[n])
    PROVE  /\ Homed(n)'
           /\ DiskTypeOK' /\ CommittedReplayable'
<1> USE DEF WriteHome
<1>1. /\ n \in 1..MaxRec /\ desc[n].target \in Lba /\ data[n] \in Val
      /\ hdr.count \in 1..MaxRec
      /\ \A i, j \in 1..hdr.count : desc[i].target = desc[j].target => i = j
      /\ \A i \in 1..hdr.count : desc[i].target \in Lba
  BY CommittedFacts, Zenon
<1>2. home \in [Lba -> Val]
  BY Zenon DEF JInv, JTypeOK, DiskTypeOK
<1>3. Homed(n)'
  <2> SUFFICES ASSUME NEW i \in 1..n
               PROVE  home'[desc[i].target] = data[i]
    BY Zenon DEF Homed
  <2>1. CASE i = n
    BY <2>1, <1>1, <1>2, Zenon
  <2>2. CASE i # n
    <3>1. i \in 1..(n - 1) /\ i \in 1..hdr.count
      BY <2>2, <1>1, JournalAssumption
    <3>2. home[desc[i].target] = data[i]
      BY <3>1, Zenon DEF Homed
    <3>3. desc[i].target # desc[n].target
      BY <3>1, <2>2, <1>1, Zenon
    <3>. QED
      BY <3>1, <3>2, <3>3, <1>1, <1>2, Zenon
  <2>. QED
    BY <2>1, <2>2, Zenon
<1>4. DiskTypeOK'
  BY <1>1, <1>2, Zenon DEF JInv, JTypeOK, DiskTypeOK
<1>5. CommittedReplayable'
  BY Zenon DEF JInv, CommittedReplayable, ValidRecord
<1>. QED
  BY <1>3, <1>4, <1>5, Zenon

LEMMA CommitHomeInv == JInv /\ CommitHome => JInv'
<1> SUFFICES ASSUME JInv, CommitHome PROVE JInv'
  BY Zenon
<1>0. jpc \in Commits /\ jpc = "home" /\ ji \in 1..Len(tx) /\ Len(tx) \in 1..MaxRec /\ tx # <<>>
  BY CommitTx, EmptyNotTx, Zenon DEF CommitHome, CanWrite, Commits
<1>1. /\ hdr.state = "committed" /\ hdr.count = Len(tx)
      /\ \A i \in 1..Len(tx) : desc[i].target = tx[i].lba /\ data[i] = tx[i].val
  BY <1>0, HomeFacts, Zenon
<1>2. PICK n \in 1..Len(tx) : n = ji
  BY <1>0, Zenon
<1>3. Homed(n - 1) /\ hdr = CommittedHdr(Len(tx)) /\ Logged(Len(tx))
  BY <1>0, <1>2, Zenon DEF JInv, CommitProgress
<1>4. Homed(n)' /\ DiskTypeOK' /\ CommittedReplayable'
  <2>1. WriteHome(desc[n].target, data[n])
    BY <1>0, <1>1, <1>2, Zenon DEF CommitHome
  <2>. QED
    BY <2>1, <1>1, <1>3, HomeWrite, Zenon
<1> USE DEF CommitHome, CanWrite, WriteHome, Goto
<1>5. FlagsTypeOK'
  BY Zenon DEF JInv, JTypeOK, FlagsTypeOK
<1>6. CallTypeOK'
  BY <1>0, JournalAssumption DEF JInv, JTypeOK, CallTypeOK, Commits
<1>7. (NoCommittedTxDropped /\ RecoverProgress)'
  BY Zenon DEF JInv, NoCommittedTxDropped, RecoverProgress
<1>8. CommitProgress'
  <2>1. Logged(Len(tx))'
    BY <1>3, Zenon DEF Logged
  <2>2. hdr' = CommittedHdr(Len(tx)) /\ tx' = tx
    BY <1>3, Zenon
  <2>3. CASE ji < Len(tx)
    <3>1. ji' = n + 1 /\ jpc' = "home"
      BY <2>3, <1>2, Zenon
    <3>2. Homed(ji - 1)'
      BY <3>1, <1>4, <1>0, <1>2 DEF Homed
    <3>. QED
      BY <3>1, <3>2, <2>1, <2>2, <2>3, <1>0, <1>2 DEF CommitProgress, Commits, Recovers, CommittedHdr
  <2>4. CASE ~(ji < Len(tx))
    <3>1. ji' = 1 /\ jpc' = "clear" /\ n = Len(tx)
      BY <2>4, <1>2, <1>0
    <3>2. Homed(Len(tx))'
      BY <3>1, <2>2, <1>4, Zenon DEF Homed
    <3>. QED
      BY <3>1, <3>2, <2>1, <2>2, <1>0 DEF CommitProgress, Commits, Recovers, CommittedHdr
  <2>. QED
    BY <2>3, <2>4, Zenon
<1>. QED
  BY <1>4, <1>5, <1>6, <1>7, <1>8, Zenon DEF JInv, JTypeOK

(* Clearing the header at the end of a commit or of a recovery.            *)
LEMMA ClearInv ==
    ASSUME JInv, WriteHdr(EmptyHdr), Return("OK", TRUE)
    PROVE  JInv'
<1> USE DEF WriteHdr, Return
<1>1. FlagsTypeOK'
  BY Zenon DEF JInv, JTypeOK, FlagsTypeOK
<1>2. DiskTypeOK' /\ CallTypeOK'
  BY JournalAssumption DEF JInv, JTypeOK, DiskTypeOK, CallTypeOK, EmptyHdr
<1>3. (CommittedReplayable /\ NoCommittedTxDropped /\ RecoverProgress /\ CommitProgress)'
  BY Zenon DEF CommittedReplayable, NoCommittedTxDropped, RecoverProgress, CommitProgress, EmptyHdr, Commits, Recovers
<1>. QED
  BY <1>1, <1>2, <1>3, Zenon DEF JInv, JTypeOK

LEMMA RecoverHeaderInv == JInv /\ RecoverHeader => JInv'
<1> SUFFICES ASSUME JInv, RecoverHeader PROVE JInv'
  BY Zenon
<1>0. jpc = "rcheck" /\ UNCHANGED <<diskVars, failing>> /\ tx = <<>>
  BY Zenon DEF RecoverHeader, JInv, CommitProgress, Recovers
<1>1. CASE hdr.state = "empty"
  <2>1. hdr = EmptyHdr
    BY <1>1, Zenon DEF JInv, JTypeOK, DiskTypeOK
  <2>2. Return("OK", TRUE)
    BY <1>1, Zenon DEF RecoverHeader
  <2>3. failing' \in BOOLEAN
    BY <1>0, Zenon DEF JInv, JTypeOK, FlagsTypeOK
  <2>. QED
    BY <2>1, <2>2, <2>3, <1>0, ReturnInv, Zenon
<1>2. CASE hdr.state = "committed"
  <2>1. hdr.count \in 1..MaxRec /\ hdr.count # 0
    BY <1>2, CommittedFacts, JournalAssumption
  <2>2. Goto("rec", 1)
    BY <1>2, <2>1, Zenon DEF RecoverHeader
  <2> USE <1>0, <2>2 DEF Goto, diskVars
  <2>3. FlagsTypeOK'
    BY Zenon DEF JInv, JTypeOK, FlagsTypeOK
  <2>4. DiskTypeOK' /\ CallTypeOK'
    BY JournalAssumption DEF JInv, JTypeOK, DiskTypeOK, CallTypeOK, Recovers
  <2>5. (CommittedReplayable /\ NoCommittedTxDropped)'
    BY Zenon DEF JInv, CommittedReplayable, NoCommittedTxDropped, ValidRecord
  <2>6. (CommitProgress /\ RecoverProgress)'
    BY <1>2, <2>1 DEF CommitProgress, RecoverProgress, Commits, Recovers, Homed
  <2>. QED
    BY <2>3, <2>4, <2>5, <2>6, Zenon DEF JInv, JTypeOK
<1>3. hdr.state \in {"empty", "committed"}
  BY DEF JInv, JTypeOK, DiskTypeOK, CommittedReplayable, EmptyHdr
<1>. QED
  BY <1>1, <1>2, <1>3, Zenon

LEMMA RecoverRecordInv == JInv /\ RecoverRecord => JInv'
<1> SUFFICES ASSUME JInv, RecoverRecord PROVE JInv'
  BY Zenon
<1>0. /\ jpc = "rec" /\ tx = <<>> /\ hdr.state = "committed"
      /\ ji \in 1..hdr.count /\ Homed(ji - 1)
  BY Zenon DEF RecoverRecord, CanWrite, JInv, CommitProgress, RecoverProgress, Recovers
<1>1. hdr.count \in 1..MaxRec
  BY <1>0, CommittedFacts, Zenon
<1>2. PICK n \in 1..hdr.count : n = ji
  BY <1>0, Zenon
<1>3. Homed(n)' /\ DiskTypeOK' /\ CommittedReplayable'
  <2>1. WriteHome(desc[n].target, data[n]) /\ Homed(n - 1)
    BY <1>0, <1>2, Zenon DEF RecoverRecord
  <2>. QED
    BY <2>1, <1>0, HomeWrite, Zenon
<1> USE DEF RecoverRecord, CanWrite, WriteHome, Goto
<1>4. FlagsTypeOK'
  BY Zenon DEF JInv, JTypeOK, FlagsTypeOK
<1>5. CallTypeOK'
  BY <1>0, <1>1, JournalAssumption DEF JInv, JTypeOK, CallTypeOK, Recovers
<1>6. NoCommittedTxDropped' /\ CommitProgress'
  BY <1>0, Zenon DEF JInv, NoCommittedTxDropped, CommitProgress, Commits, Recovers
<1>7. RecoverProgress'
  <2>1. CASE ji < hdr.count
    <3>1. ji' = n + 1 /\ jpc' = "rec" /\ hdr' = hdr
      BY <2>1, <1>2, Zenon
    <3>2. Homed(ji - 1)'
      BY <3>1, <1>3, <1>1, <1>2 DEF Homed
    <3>. QED
      BY <3>1, <3>2, <2>1, <1>0, <1>1, <1>2 DEF RecoverProgress
  <2>2. CASE ~(ji < hdr.count)
    <3>1. jpc' = "rclear" /\ hdr' = hdr /\ n = hdr.count
      BY <2>2, <1>1, <1>2
    <3>2. Homed(hdr.count)'
      BY <3>1, <1>3, Zenon DEF Homed
    <3>. QED
      BY <3>1, <3>2, <1>0, Zenon DEF RecoverProgress
  <2>. QED
    BY <2>1, <2>2, Zenon
<1>. QED
  BY <1>3, <1>4, <1>5, <1>6, <1>7, Zenon DEF JInv, JTypeOK

(* Steps that end a call without a block write, or only change failing.    *)
LEMMA FaultInv ==
    JInv /\ (RecoverCorrupt \/ WriteError \/ PowerLoss \/ Fault \/ Repair) => JInv'
<1> SUFFICES ASSUME JInv, RecoverCorrupt \/ WriteError \/ PowerLoss \/ Fault \/ Repair
             PROVE  JInv'
  BY Zenon
<1>0. failing \in BOOLEAN
  BY Zenon DEF JInv, JTypeOK, FlagsTypeOK
<1>1. CASE RecoverCorrupt
  <2>1. Return("CORRUPT", FALSE) /\ UNCHANGED diskVars /\ failing' \in BOOLEAN
    BY <1>1, <1>0, Zenon DEF RecoverCorrupt
  <2>. QED
    BY <2>1, ReturnInv, Zenon
<1>2. CASE WriteError
  <2>1. Return("EIO", FALSE) /\ UNCHANGED diskVars /\ failing' \in BOOLEAN
    BY <1>2, <1>0, Zenon DEF WriteError
  <2>. QED
    BY <2>1, ReturnInv, Zenon
<1>3. CASE PowerLoss
  <2>1. Return("none", FALSE) /\ UNCHANGED diskVars /\ failing' \in BOOLEAN
    BY <1>3, Zenon DEF PowerLoss
  <2>. QED
    BY <2>1, ReturnInv, Zenon
<1>4. CASE Fault \/ Repair
  <2>1. UNCHANGED <<diskVars, callVars>>
    BY <1>4, Zenon DEF Fault, Repair
  <2>2. FlagsTypeOK'
    BY <1>4, Zenon DEF JInv, JTypeOK, FlagsTypeOK, Fault, Repair, callVars
  <2> USE <2>1 DEF diskVars, callVars
  <2>3. (DiskTypeOK /\ CallTypeOK /\ CommittedReplayable /\ NoCommittedTxDropped)'
    BY Zenon DEF JInv, JTypeOK, DiskTypeOK, CallTypeOK, CommittedReplayable, NoCommittedTxDropped, ValidRecord
  <2>4. (CommitProgress /\ RecoverProgress)'
    BY DEF JInv, CommitProgress, RecoverProgress, Logged, Homed
  <2>. QED
    BY <2>2, <2>3, <2>4, Zenon DEF JInv, JTypeOK
<1>. QED
  BY <1>1, <1>2, <1>3, <1>4, Zenon

(* JInv is kept by every step of the journal.                              *)
LEMMA StepInv == JInv /\ [JNext]_jvars => JInv'
<1> SUFFICES ASSUME JInv, [JNext]_jvars PROVE JInv'
  BY Zenon
<1>1. CASE \E t \in Tx, s \in BOOLEAN : clean /\ StartCommit(t, s)
  BY <1>1, StartCommitInv, Zenon
<1>2. CASE StartRecover
  BY <1>2, StartRecoverInv, Zenon
<1>3. CASE JournalStep
  <2>1. CASE CommitEnd \/ RecoverEnd
    BY <2>1, ClearInv, Zenon DEF CommitEnd, RecoverEnd
  <2>. QED
    BY <1>3, <2>1, CommitClearInv, CommitDescInv, CommitDataInv, CommitHeaderInv,
       CommitStopInv, CommitHomeInv, RecoverHeaderInv, RecoverRecordInv, FaultInv, Zenon
    DEF JournalStep, RecoverLoop
<1>4. CASE Fault \/ Repair \/ PowerLoss
  BY <1>4, FaultInv, Zenon
<1>5. CASE UNCHANGED jvars
  <2> USE <1>5 DEF jvars, diskVars, callVars
  <2>1. (JTypeOK /\ CommittedReplayable /\ NoCommittedTxDropped)'
    BY DEF JInv, JTypeOK, DiskTypeOK, CallTypeOK, FlagsTypeOK, CommittedReplayable, NoCommittedTxDropped, ValidRecord
  <2>2. (CommitProgress /\ RecoverProgress)'
    BY DEF JInv, CommitProgress, RecoverProgress, Logged, Homed
  <2>. QED
    BY <2>1, <2>2, Zenon DEF JInv
<1>. QED
  BY <1>1, <1>2, <1>3, <1>4, <1>5, Zenon DEF JNext

(* The journal's invariant, for any blocks, contents and journal size: in  *)
(* particular a crash never leaves a journal that recovery refuses, and a  *)
(* commit never begins over a committed transaction.                       *)
THEOREM JournalInvariant == JSpec => []JInv
<1>. QED
  BY InitInv, StepInv, PTL DEF JSpec

-----------------------------------------------------------------------------
(* Effective, the disk as the next mount will see it, changes at the       *)
(* commit header and nowhere else.                                         *)

LEMMA EffectiveNotCommitted ==
    ASSUME JInv, hdr.state # "committed"
    PROVE  Effective = home
BY Zenon DEF Effective, JInv, JTypeOK, DiskTypeOK

LEMMA EffectiveSame ==
    ASSUME UNCHANGED diskVars
    PROVE  Effective' = Effective
BY Zenon DEF Effective, diskVars

(* Writing a record of the committed transaction home is invisible.        *)
LEMMA EffectiveHomeWrite ==
    ASSUME JInv, hdr.state = "committed", NEW n \in 1..hdr.count,
           WriteHome(desc[n].target, data[n])
    PROVE  Effective' = Effective
<1> SUFFICES ASSUME NEW l \in Lba PROVE Effective'[l] = Effective[l]
  BY Zenon DEF Effective
<1>1. home \in [Lba -> Val] /\ desc[n].target \in Lba
  BY CommittedFacts, Zenon DEF JInv, JTypeOK, DiskTypeOK
<1> USE DEF WriteHome
<1>2. CASE \E i \in 1..hdr.count : desc[i].target = l
  BY <1>2, Zenon DEF Effective
<1>3. CASE ~(\E i \in 1..hdr.count : desc[i].target = l)
  <2>1. desc[n].target # l
    BY <1>3, Zenon
  <2>2. home'[l] = home[l]
    BY <2>1, <1>1, Zenon
  <2>. QED
    BY <2>2, <1>3, Zenon DEF Effective
<1>. QED
  BY <1>2, <1>3, Zenon

(* Clearing the header of a transaction that is home is invisible.         *)
LEMMA EffectiveClear ==
    ASSUME JInv, hdr.state = "committed" => Homed(hdr.count), WriteHdr(EmptyHdr)
    PROVE  Effective' = Effective
<1> SUFFICES ASSUME NEW l \in Lba PROVE Effective'[l] = Effective[l]
  BY Zenon DEF Effective
<1>1. Effective'[l] = home[l]
  BY Zenon DEF Effective, WriteHdr, EmptyHdr
<1>2. CASE hdr.state = "committed" /\ \E i \in 1..hdr.count : desc[i].target = l
  <2> DEFINE k == CHOOSE i \in 1..hdr.count : desc[i].target = l
  <2>1. k \in 1..hdr.count /\ desc[k].target = l
    BY <1>2, Zenon
  <2>2. home[l] = data[k]
    BY <2>1, <1>2, Zenon DEF Homed
  <2>. QED
    BY <1>1, <1>2, <2>2, Zenon DEF Effective
<1>3. CASE ~(hdr.state = "committed" /\ \E i \in 1..hdr.count : desc[i].target = l)
  BY <1>1, <1>3, Zenon DEF Effective
<1>. QED
  BY <1>2, <1>3, Zenon

(* Writing the commit header makes the whole transaction visible.          *)
LEMMA EffectiveCommit ==
    ASSUME JInv, CommitHeader
    PROVE  Effective' = A!Written(Effective, tx)
<1>0. jpc \in Commits /\ jpc = "head"
  BY Zenon DEF CommitHeader, CanWrite, Commits
<1>1. /\ DOMAIN tx = 1..Len(tx)
      /\ \A i, j \in 1..Len(tx) : tx[i].lba = tx[j].lba => i = j
  BY <1>0, CommitTx, TxFacts, Zenon
<1>2. Effective = home
  BY <1>0, EffectiveNotCommitted DEF JInv, NoCommittedTxDropped, EmptyHdr
<1>3. JInv' /\ jpc' = "stopchk" /\ tx' = tx
  BY CommitHeaderInv, Zenon DEF CommitHeader, Goto
<1>4. /\ hdr'.state = "committed" /\ hdr'.count = Len(tx) /\ home' = home
      /\ \A i \in 1..Len(tx) : desc'[i].target = tx[i].lba /\ data'[i] = tx[i].val
  <2>1. \A i \in 1..Len(tx) : desc[i].target = tx[i].lba /\ data[i] = tx[i].val
    <3> TAKE i \in 1..Len(tx)
    <3>1. /\ desc[i] = [target |-> tx[i].lba, sum |-> Checksum(tx[i].val)]
          /\ data[i] = tx[i].val
      BY <1>0, Zenon DEF JInv, CommitProgress, Logged
    <3>. QED
      BY <3>1
  <2>. QED
    BY <2>1, Zenon DEF CommitHeader, WriteHdr, CommittedHdr
<1>a. Effective' = [l \in Lba |-> Effective'[l]]
  BY Zenon DEF Effective
<1>b. A!Written(home, tx) = [l \in Lba |-> A!Written(home, tx)[l]]
  BY Zenon DEF A!Written
<1> SUFFICES ASSUME NEW l \in Lba PROVE Effective'[l] = A!Written(home, tx)[l]
  BY <1>2, <1>a, <1>b, Zenon
<1>5. CASE \E i \in 1..Len(tx) : tx[i].lba = l
  <2>1. PICK k \in 1..Len(tx) : tx[k].lba = l
    BY <1>5, Zenon
  <2>2. k = CHOOSE i \in DOMAIN tx : tx[i].lba = l
    BY <2>1, <1>1, Zenon
  <2>3. k = CHOOSE i \in 1..hdr'.count : desc'[i].target = l
    BY <2>1, <1>1, <1>4, Zenon
  <2>4. Effective'[l] = data'[k]
    BY <2>1, <2>3, <1>4, Zenon DEF Effective
  <2>5. A!Written(home, tx)[l] = tx[k].val
    BY <2>1, <2>2, <1>1, Zenon DEF A!Written
  <2>. QED
    BY <2>1, <2>4, <2>5, <1>4, Zenon
<1>6. CASE ~(\E i \in 1..Len(tx) : tx[i].lba = l)
  <2>1. Effective'[l] = home[l]
    BY <1>4, <1>6 DEF Effective
  <2>2. A!Written(home, tx)[l] = home[l]
    BY <1>1, <1>6, Zenon DEF A!Written
  <2>. QED
    BY <2>1, <2>2, Zenon
<1>. QED
  BY <1>5, <1>6, Zenon

(* Every step of the journal is a step of the atomic disk, or invisible.   *)
LEMMA StepRefines ==
    ASSUME JInv, [JNext]_jvars
    PROVE  [A!AbsNext]_(A!absVars)
<1> USE DEF A!AbsNext, A!absVars
<1>1. ASSUME NEW t \in Tx, NEW s \in BOOLEAN, StartCommit(t, s) PROVE \E u \in A!Tx : A!Begin(u)
  <2>1. Effective' = Effective
    BY <1>1, EffectiveSame, Zenon DEF StartCommit
  <2>2. t \in A!Tx
    BY Zenon DEF Tx, Record, A!Tx, A!Record
  <2>3. A!Begin(t)
    BY <1>1, <2>1 DEF StartCommit, A!Begin, Commits
  <2>. QED
    BY <2>2, <2>3, Zenon
<1>2. ASSUME StartRecover PROVE A!Recover
  <2>1. Effective' = Effective
    BY <1>2, EffectiveSame, Zenon DEF StartRecover
  <2>. QED
    BY <1>2, <2>1 DEF StartRecover, A!Recover, Commits
<1>3. ASSUME CommitHeader PROVE A!Apply
  <2>1. Effective' = A!Written(Effective, tx)
    BY <1>3, EffectiveCommit, Zenon
  <2>2. tx # <<>>
    BY <1>3, CommitTx, EmptyNotTx, Zenon DEF CommitHeader, CanWrite, Commits
  <2>. QED
    BY <1>3, <2>1, <2>2, Zenon DEF CommitHeader, CanWrite, Goto, A!Apply, Commits
<1>4. ASSUME CommitClear \/ CommitDesc \/ CommitData
      PROVE  UNCHANGED A!absVars
  <2>1. hdr.state # "committed" /\ hdr'.state # "committed" /\ home' = home
    BY <1>4 DEF JInv, NoCommittedTxDropped, EmptyHdr, CommitClear, CommitDesc, CommitData,
                CanWrite, WriteHdr, WriteDesc, WriteData
  <2>2. JInv'
    BY <1>4, CommitClearInv, CommitDescInv, CommitDataInv, Zenon
  <2>3. Effective' = Effective
    BY <2>1, <2>2, EffectiveNotCommitted, Zenon DEF Effective
  <2>. QED
    BY <1>4, <2>3 DEF CommitClear, CommitDesc, CommitData, CanWrite, Goto, Commits
<1>5. ASSUME CommitStop PROVE A!ReturnOk \/ UNCHANGED A!absVars
  <2>1. Effective' = Effective
    BY <1>5, EffectiveSame, Zenon DEF CommitStop
  <2>2. tx # <<>>
    BY <1>5, CommitTx, EmptyNotTx, Zenon DEF CommitStop, Commits
  <2>3. CASE stop
    BY <1>5, <2>1, <2>2, <2>3 DEF CommitStop, Return, A!ReturnOk, Commits
  <2>4. CASE ~stop
    BY <1>5, <2>1, <2>4 DEF CommitStop, Goto, Commits
  <2>. QED
    BY <2>3, <2>4, Zenon
<1>6. ASSUME CommitHome PROVE UNCHANGED A!absVars
  <2>1. jpc = "home" /\ jpc \in Commits
    BY <1>6, Zenon DEF CommitHome, CanWrite, Commits
  <2>2. hdr.state = "committed" /\ hdr.count = Len(tx) /\ ji \in 1..Len(tx)
        /\ desc[ji].target = tx[ji].lba /\ data[ji] = tx[ji].val
    BY <2>1, HomeFacts, CommitTx, Zenon
  <2>3. PICK n \in 1..hdr.count : n = ji
    BY <2>2, Zenon
  <2>4. Effective' = Effective
    BY <1>6, <2>2, <2>3, EffectiveHomeWrite, Zenon DEF CommitHome
  <2>. QED
    BY <1>6, <2>4 DEF CommitHome, CanWrite, Goto, Commits
<1>7. ASSUME CommitEnd PROVE A!ReturnOk
  <2>1. jpc = "clear" /\ jpc \in Commits
    BY <1>7, Zenon DEF CommitEnd, CanWrite, Commits
  <2>2. tx # <<>> /\ Homed(hdr.count)
    BY <2>1, CommitTx, EmptyNotTx, HomeFacts, Zenon DEF JInv, CommitProgress
  <2>3. Effective' = Effective
    BY <1>7, <2>2, EffectiveClear, Zenon DEF CommitEnd
  <2>. QED
    BY <1>7, <2>1, <2>2, <2>3 DEF CommitEnd, Return, A!ReturnOk, Commits
<1>8. ASSUME RecoverHeader PROVE A!Recover \/ UNCHANGED A!absVars
  <2>1. Effective' = Effective
    BY <1>8, EffectiveSame, Zenon DEF RecoverHeader
  <2>2. hdr.state \in {"empty", "committed"}
    BY DEF JInv, JTypeOK, DiskTypeOK, CommittedReplayable, EmptyHdr
  <2>3. CASE hdr.state = "empty"
    BY <1>8, <2>1, <2>3 DEF RecoverHeader, Return, A!Recover, Commits
  <2>4. CASE hdr.state = "committed"
    BY <1>8, <2>1, <2>4 DEF RecoverHeader, Goto, Commits
  <2>. QED
    BY <2>2, <2>3, <2>4, Zenon
<1>9. ASSUME RecoverRecord PROVE UNCHANGED A!absVars
  <2>1. hdr.state = "committed" /\ ji \in 1..hdr.count
    BY <1>9, Zenon DEF RecoverRecord, CanWrite, JInv, RecoverProgress
  <2>2. PICK n \in 1..hdr.count : n = ji
    BY <2>1, Zenon
  <2>3. Effective' = Effective
    BY <1>9, <2>1, <2>2, EffectiveHomeWrite, Zenon DEF RecoverRecord
  <2>. QED
    BY <1>9, <2>3 DEF RecoverRecord, CanWrite, Goto, Commits
<1>10. ASSUME RecoverEnd PROVE A!Recover
  <2>1. jpc = "rclear" /\ Homed(hdr.count)
    BY <1>10, Zenon DEF RecoverEnd, CanWrite, JInv, RecoverProgress
  <2>2. Effective' = Effective
    BY <1>10, <2>1, EffectiveClear, Zenon DEF RecoverEnd
  <2>. QED
    BY <1>10, <2>1, <2>2 DEF RecoverEnd, Return, A!Recover, Commits
<1>11. RecoverLoop => RecoverRecord
  BY CommittedFacts, Zenon DEF RecoverLoop, JInv, RecoverProgress, CommittedReplayable
<1>12. ASSUME WriteError \/ PowerLoss PROVE A!Lost
  <2>1. Effective' = Effective
    BY <1>12, EffectiveSame, Zenon DEF WriteError, PowerLoss
  <2>. QED
    BY <1>12, <2>1 DEF WriteError, PowerLoss, Return, A!Lost, Commits
<1>13. ASSUME Fault \/ Repair \/ UNCHANGED jvars PROVE UNCHANGED A!absVars
  <2>1. Effective' = Effective
    BY <1>13, EffectiveSame, Zenon DEF Fault, Repair, jvars
  <2>. QED
    BY <1>13, <2>1, Zenon DEF Fault, Repair, jvars, callVars
<1>. QED
  BY <1>1, <1>2, <1>3, <1>4, <1>5, <1>6, <1>7, <1>8, <1>9, <1>10, <1>11, <1>12, <1>13, Zenon
  DEF JNext, JournalStep

(* The journal implements AtomicDisk for any blocks, contents and journal  *)
(* size: a transaction takes effect wholly, at its commit header, or not   *)
(* at all, and no crash, write error or replay is visible.                 *)
THEOREM JournalRefinement == JSpec => ImplementsAtomicDisk
<1>1. JInit => A!AbsInit
  <2> SUFFICES ASSUME JInit PROVE A!AbsInit
    BY Zenon
  <2>1. Effective = home /\ home \in [Lba -> Val]
    BY InitInv, EffectiveNotCommitted, Zenon DEF JInit, EmptyHdr
  <2>. QED
    BY <2>1 DEF JInit, A!AbsInit, Commits
<1>2. JInv /\ [JNext]_jvars => [A!AbsNext]_(A!absVars)
  BY StepRefines, Zenon
<1>. QED
  BY <1>1, <1>2, JournalInvariant, PTL DEF JSpec, A!AbsSpec, ImplementsAtomicDisk

-----------------------------------------------------------------------------
(* A medium that decays.  JInv does not hold on it: what a commit has in   *)
(* the journal when it writes its header is still right, what is there     *)
(* later need not be.                                                      *)

(* The record i of a transaction, as a descriptor.                         *)
RecordDesc(r) == [target |-> r.lba, sum |-> Checksum(r.val)]

LoggedSoFar ==
  /\ jpc = "desc" => \A i \in 1..(ji - 1) : desc[i] = RecordDesc(tx[i])
  /\ jpc = "data" => \A i \in 1..ji : desc[i] = RecordDesc(tx[i])
  /\ jpc = "head" => \A i \in 1..Len(tx) : desc[i] = RecordDesc(tx[i])

(* A descriptor names a stray block or has the sum of a payload that was   *)
(* committed for its block.                                                *)
DescIssued(i) ==
  desc[i] # NoDesc => \/ desc[i].target \in strays
                      \/ <<desc[i].target, desc[i].sum>> \in issued

DescsIssued ==
  hdr.state = "committed" => \A i \in 1..hdr.count : DescIssued(i)

(* The records that m16_journal_recover is going through stay accounted    *)
(* for even when it overwrites the header it read them from.  As long as   *)
(* no payload goes into the journal, that header is still there, and the   *)
(* records behind are the ones whose checksums were compared.              *)
Intact == strays \cap JournalBlock = {}

CheckedSoFar ==
  /\ jpc = "rec" => ji \in 1..hcount /\ \A i \in 1..hcount : DescIssued(i)
  /\ Intact =>
       /\ jpc \in {"rec", "rclear"} => hdr.state = "committed" /\ hdr.count = hcount
       /\ jpc = "rec" => \A i \in 1..(ji - 1) : ValidRecord(i)
       /\ jpc = "rclear" => \A i \in 1..hcount : ValidRecord(i)

TxIssued ==
  jpc \in {"stopchk", "home", "clear"} =>
    \A i \in 1..Len(tx) : <<tx[i].lba, tx[i].val>> \in issued

RotDiskOK ==
  /\ home \in [Lba -> Val]
  /\ hdr \in AnyHdr
  /\ desc \in [1..MaxRec -> AnyDesc \cup {NoDesc}]
  /\ data \in [1..MaxRec -> Val]
  /\ hcount \in 0..MaxRec
  /\ issued \subseteq Lba \X Val

RotTypeOK ==
  /\ RotDiskOK /\ CallTypeOK
  /\ NoCommittedTxDropped
  /\ jpc \in Commits => tx # <<>> /\ ji \in 1..Len(tx)

RotInv ==
  RotTypeOK /\ LoggedSoFar /\ CheckedSoFar /\ DescsIssued /\ TxIssued /\ OnlyCommittedApplied

LEMMA CommitDescs == Desc \subseteq AnyDesc
BY DEF Desc, AnyDesc, Block

LEMMA CountBounded == \A h \in AnyHdr : h.count \in 0..MaxRec
BY JournalAssumption DEF AnyHdr, EmptyHdr

LEMMA InitRot == RInit => RotInv
<1> SUFFICES ASSUME RInit PROVE RotInv
  BY Zenon
<1>1. RotDiskOK
  <2>1. hcount \in 0..MaxRec
    BY JournalAssumption DEF RInit
  <2>2. issued \subseteq Lba \X Val
    BY DEF RInit, JInit
  <2> QED BY <2>1, <2>2, Zenon DEF RInit, JInit, AnyHdr, RotDiskOK
<1>4. CallTypeOK
  BY JournalAssumption DEF RInit, JInit, CallTypeOK
<1>2. OnlyCommittedApplied
  BY Zenon DEF RInit, OnlyCommittedApplied
<1>3. jpc = "idle" /\ hdr.state = "empty" /\ clean = FALSE
  BY Zenon DEF RInit, JInit, EmptyHdr
<1> QED BY <1>1, <1>2, <1>3, <1>4, Zenon DEF RotInv, RotTypeOK, LoggedSoFar, CheckedSoFar, DescsIssued, TxIssued,
        NoCommittedTxDropped, Commits

(* A step that writes no block.                                            *)
LEMMA NothingWritten ==
  ASSUME RotInv, UNCHANGED <<diskVars, issued, strays>>, hcount' \in 0..MaxRec
  PROVE  RotDiskOK' /\ DescsIssued' /\ OnlyCommittedApplied'
BY Zenon DEF RotInv, RotTypeOK, diskVars, RotDiskOK, DescsIssued, DescIssued, OnlyCommittedApplied

(* A call returns, and no block is written with that.                      *)
LEMMA ReturnRot ==
  ASSUME RotInv, NEW rc \in {"none", "OK", "EIO", "CORRUPT"}, NEW c, Return(rc, c),
         UNCHANGED <<diskVars, issued, strays>>, hcount' \in 0..MaxRec, c => hdr = EmptyHdr
  PROVE  RotInv'
<1>1. RotDiskOK' /\ DescsIssued' /\ OnlyCommittedApplied'
  BY NothingWritten, Zenon
<1>2. jpc' = "idle" /\ CallTypeOK' /\ (clean' => hdr' = EmptyHdr)
  BY JournalAssumption DEF Return, CallTypeOK, diskVars
<1> QED BY <1>1, <1>2, Zenon DEF RotInv, RotTypeOK, LoggedSoFar, CheckedSoFar, TxIssued,
        NoCommittedTxDropped, Commits

LEMMA ClearedRot ==
  ASSUME RotInv, WriteHdr(EmptyHdr), UNCHANGED <<hcount, issued, strays>>
  PROVE  RotDiskOK' /\ DescsIssued' /\ OnlyCommittedApplied'
BY Zenon DEF RotInv, RotTypeOK, WriteHdr, RotDiskOK, DescsIssued, OnlyCommittedApplied, EmptyHdr, AnyHdr

(* A home block gets a payload that was committed for it.                  *)
LEMMA HomeRot ==
  ASSUME RotInv, NEW l \in Lba, NEW v \in Val, WriteHome(l, v), UNCHANGED <<hcount, issued, strays>>,
         l \in strays \/ <<l, v>> \in issued
  PROVE  RotDiskOK' /\ DescsIssued' /\ OnlyCommittedApplied'
BY Zenon DEF RotInv, RotTypeOK, WriteHome, RotDiskOK, DescsIssued, DescIssued, OnlyCommittedApplied

LEMMA TxRot ==
  ASSUME RotInv, jpc \in Commits
  PROVE  /\ tx \in Tx /\ Len(tx) \in 1..MaxRec /\ ji \in 1..Len(tx) /\ tx # <<>>
         /\ DOMAIN tx = 1..Len(tx)
         /\ \A i \in 1..Len(tx) : tx[i].lba \in Lba /\ tx[i].val \in Val
BY TxFacts, EmptyNotTx, Zenon DEF RotInv, RotTypeOK, CallTypeOK

(* One block write of m16_journal_commit.                                  *)
LEMMA CommitRot ==
  ASSUME RotInv, UNCHANGED <<hcount, strays>>,
         \/ CommitClear \/ CommitDesc \/ CommitData \/ CommitStop \/ CommitHome \/ CommitEnd,
         UNCHANGED issued
  PROVE  RotInv'
<1>1. CASE CommitClear
  <2>1. RotDiskOK' /\ DescsIssued' /\ OnlyCommittedApplied'
    BY <1>1, ClearedRot, Zenon DEF CommitClear
  <2>2. jpc' = "desc" /\ ji' = 1 /\ hdr' = EmptyHdr /\ UNCHANGED <<tx, jrc, clean>> /\ jpc = "clear0"
    BY <1>1, Zenon DEF CommitClear, Goto, WriteHdr, CanWrite
  <2>3. tx' \in Tx /\ Len(tx') \in 1..MaxRec /\ tx' # <<>>
    BY <2>2, TxRot, Zenon DEF Commits
  <2>4. RotTypeOK'
    <3>1. ji' \in 1..Len(tx') /\ ji' \in 1..MaxRec /\ ~clean'
      BY <2>2, <2>3, JournalAssumption DEF RotInv, RotTypeOK, NoCommittedTxDropped
    <3> QED BY <2>1, <2>2, <2>3, <3>1, Zenon DEF RotInv, RotTypeOK, CallTypeOK, NoCommittedTxDropped, Commits
  <2> QED BY <2>1, <2>2, <2>4 DEF RotInv, LoggedSoFar, CheckedSoFar, TxIssued
<1>2. CASE CommitDesc
  <2>1. /\ jpc = "desc" /\ jpc' = "data" /\ UNCHANGED <<ji, tx, jrc, clean, hdr, home, data>>
        /\ desc' = [desc EXCEPT ![ji] = RecordDesc(tx[ji])] /\ hdr = EmptyHdr
    BY <1>2, Zenon DEF CommitDesc, Goto, WriteDesc, CanWrite, RecordDesc, RotInv, RotTypeOK, NoCommittedTxDropped
  <2>2. /\ tx \in Tx /\ Len(tx) \in 1..MaxRec /\ ji \in 1..Len(tx) /\ tx # <<>> /\ ji \in 1..MaxRec
        /\ tx[ji].lba \in Lba /\ tx[ji].val \in Val
    BY <2>1, TxRot, JournalAssumption DEF Commits
  <2>3. RecordDesc(tx[ji]) \in AnyDesc
    BY <2>2, CommitDescs, Zenon DEF RecordDesc, Checksum, Desc
  <2>4. RotDiskOK'
    BY <2>1, <2>3, Zenon DEF RotInv, RotTypeOK, RotDiskOK
  <2>5. DescsIssued' /\ OnlyCommittedApplied'
    BY <2>1, Zenon DEF RotInv, DescsIssued, OnlyCommittedApplied, EmptyHdr
  <2>6. RotTypeOK'
    BY <2>1, <2>2, <2>4, Zenon DEF RotInv, RotTypeOK, CallTypeOK, NoCommittedTxDropped, Commits
  <2>7. \A i \in 1..ji : desc'[i] = RecordDesc(tx'[i])
    <3> TAKE i \in 1..ji
    <3>1. i \in 1..MaxRec /\ desc \in [1..MaxRec -> AnyDesc \cup {NoDesc}]
      BY <2>2, JournalAssumption DEF RotInv, RotTypeOK, RotDiskOK
    <3>2. i \in 1..(ji - 1) \/ i = ji
      BY <2>2
    <3> QED BY <2>1, <2>2, <3>1, <3>2, Zenon DEF RotInv, LoggedSoFar
  <2>8. LoggedSoFar'
    BY <2>1, <2>7, Zenon DEF LoggedSoFar
  <2> QED BY <2>1, <2>5, <2>6, <2>8, Zenon DEF RotInv, CheckedSoFar, TxIssued
<1>3. CASE CommitData
  <2>1. /\ jpc = "data" /\ UNCHANGED <<tx, jrc, clean, hdr, home, desc>>
        /\ data' = [data EXCEPT ![ji] = tx[ji].val] /\ hdr = EmptyHdr
        /\ IF ji < Len(tx) THEN jpc' = "desc" /\ ji' = ji + 1 ELSE jpc' = "head" /\ ji' = 1
    BY <1>3, Zenon DEF CommitData, Goto, WriteData, CanWrite, RotInv, RotTypeOK, NoCommittedTxDropped
  <2>2. /\ tx \in Tx /\ Len(tx) \in 1..MaxRec /\ ji \in 1..Len(tx) /\ tx # <<>>
        /\ tx[ji].lba \in Lba /\ tx[ji].val \in Val
    BY <2>1, TxRot, Zenon DEF Commits
  <2>3. ji' \in 1..Len(tx') /\ ji' \in 1..MaxRec
    BY <2>1, <2>2, JournalAssumption
  <2>4. RotDiskOK' /\ DescsIssued' /\ OnlyCommittedApplied'
    BY <2>1, <2>2, Zenon DEF RotInv, RotTypeOK, RotDiskOK, DescsIssued, OnlyCommittedApplied, EmptyHdr
  <2>5. RotTypeOK'
    BY <2>1, <2>2, <2>3, <2>4, Zenon DEF RotInv, RotTypeOK, CallTypeOK, NoCommittedTxDropped, Commits
  <2>6. \A i \in 1..ji : desc'[i] = RecordDesc(tx'[i])
    BY <2>1, Zenon DEF RotInv, LoggedSoFar
  <2>7. LoggedSoFar'
    BY <2>1, <2>2, <2>6 DEF LoggedSoFar
  <2> QED BY <2>1, <2>4, <2>5, <2>7, Zenon DEF RotInv, CheckedSoFar, TxIssued
<1>4. CASE CommitStop
  <2>1. CASE stop
    <3>1. hcount' \in 0..MaxRec
      BY Zenon DEF RotInv, RotTypeOK, RotDiskOK
    <3> QED BY <1>4, <2>1, <3>1, ReturnRot, Zenon DEF CommitStop
  <2>2. CASE ~stop
    <3>1. jpc = "stopchk" /\ jpc' = "home" /\ ji' = 1 /\ UNCHANGED <<tx, jrc, clean, diskVars>>
      BY <1>4, <2>2, Zenon DEF CommitStop, Goto
    <3>5. hcount' \in 0..MaxRec
      BY Zenon DEF RotInv, RotTypeOK, RotDiskOK
    <3>2. RotDiskOK' /\ DescsIssued' /\ OnlyCommittedApplied'
      BY <3>1, <3>5, NothingWritten, Zenon
    <3>3. tx \in Tx /\ Len(tx) \in 1..MaxRec /\ tx # <<>>
      BY <3>1, TxRot, Zenon DEF Commits
    <3>4. RotTypeOK'
      <4>1. ji' \in 1..Len(tx') /\ ji' \in 1..MaxRec /\ ~clean'
        BY <3>1, <3>3, JournalAssumption DEF RotInv, RotTypeOK, NoCommittedTxDropped
      <4> QED BY <3>1, <3>2, <3>3, <4>1, Zenon
              DEF RotInv, RotTypeOK, CallTypeOK, NoCommittedTxDropped, Commits
    <3> QED BY <3>1, <3>2, <3>4, Zenon DEF RotInv, LoggedSoFar, CheckedSoFar, TxIssued
  <2> QED BY <2>1, <2>2, Zenon
<1>5. CASE CommitHome
  <2>1. /\ jpc = "home" /\ UNCHANGED <<tx, jrc, clean, hdr, desc, data>>
        /\ WriteHome(tx[ji].lba, tx[ji].val)
        /\ IF ji < Len(tx) THEN jpc' = "home" /\ ji' = ji + 1 ELSE jpc' = "clear" /\ ji' = 1
    BY <1>5, Zenon DEF CommitHome, Goto, WriteHome, CanWrite
  <2>2. /\ tx \in Tx /\ Len(tx) \in 1..MaxRec /\ ji \in 1..Len(tx) /\ tx # <<>>
        /\ tx[ji].lba \in Lba /\ tx[ji].val \in Val
    BY <2>1, TxRot, Zenon DEF Commits
  <2>3. <<tx[ji].lba, tx[ji].val>> \in issued
    BY <2>1, <2>2, Zenon DEF RotInv, TxIssued
  <2>4. RotDiskOK' /\ DescsIssued' /\ OnlyCommittedApplied'
    BY <2>1, <2>2, <2>3, HomeRot, Zenon
  <2>5. ji' \in 1..Len(tx') /\ ji' \in 1..MaxRec
    BY <2>1, <2>2, JournalAssumption
  <2>6. RotTypeOK'
    BY <2>1, <2>2, <2>4, <2>5, Zenon DEF RotInv, RotTypeOK, CallTypeOK, NoCommittedTxDropped, Commits
  <2> QED BY <2>1, <2>4, <2>6, Zenon DEF RotInv, LoggedSoFar, CheckedSoFar, TxIssued
<1>6. CASE CommitEnd
  <2>1. RotDiskOK' /\ DescsIssued' /\ OnlyCommittedApplied'
    BY <1>6, ClearedRot, Zenon DEF CommitEnd
  <2>2. jpc' = "idle" /\ hdr' = EmptyHdr /\ CallTypeOK'
    BY <1>6, JournalAssumption DEF CommitEnd, Return, WriteHdr, CallTypeOK
  <2> QED BY <2>1, <2>2, Zenon DEF RotInv, RotTypeOK, LoggedSoFar, CheckedSoFar, TxIssued,
          NoCommittedTxDropped, Commits
<1> QED BY <1>1, <1>2, <1>3, <1>4, <1>5, <1>6, Zenon

(* The commit header is written: its transaction counts as committed.      *)
LEMMA HeaderRot ==
  ASSUME RotInv, CommitHeader, UNCHANGED <<hcount, strays>>,
         issued' = issued \cup { <<tx[i].lba, tx[i].val>> : i \in DOMAIN tx }
  PROVE  RotInv'
<1>1. /\ jpc = "head" /\ jpc' = "stopchk" /\ ji' = 1 /\ UNCHANGED <<tx, jrc, clean, home, desc, data>>
      /\ hdr' = CommittedHdr(Len(tx)) /\ hdr = EmptyHdr
  BY Zenon DEF CommitHeader, Goto, WriteHdr, CanWrite, RotInv, RotTypeOK, NoCommittedTxDropped
<1>2. /\ tx \in Tx /\ Len(tx) \in 1..MaxRec /\ tx # <<>> /\ DOMAIN tx = 1..Len(tx)
  BY <1>1, TxRot, Zenon DEF Commits
<1>3. hdr'.count = Len(tx) /\ hdr'.state = "committed"
      /\ hdr' \in [state : {"committed", "bad"}, count : 0..MaxRec]
  BY <1>1, <1>2, JournalAssumption DEF CommittedHdr
<1>5. issued' \subseteq Lba \X Val
  <2>1. \A i \in 1..Len(tx) : tx[i].lba \in Lba /\ tx[i].val \in Val
    BY <1>1, TxRot, Zenon DEF Commits
  <2>2. issued \subseteq Lba \X Val
    BY Zenon DEF RotInv, RotTypeOK, RotDiskOK
  <2> QED BY <1>2, <2>1, <2>2
<1>4. RotDiskOK'
  BY <1>1, <1>3, <1>5, Zenon DEF RotInv, RotTypeOK, RotDiskOK, AnyHdr
<1>6. ~clean'
  BY <1>1, Zenon DEF RotInv, RotTypeOK, NoCommittedTxDropped
<1>7. RotTypeOK'
  BY <1>1, <1>2, <1>4, <1>6, JournalAssumption DEF RotInv, RotTypeOK, CallTypeOK, NoCommittedTxDropped, Commits
<1>8. \A i \in 1..Len(tx) : <<tx[i].lba, tx[i].val>> \in issued'
  BY <1>2, Zenon
<1>9. DescsIssued'
  <2> SUFFICES ASSUME NEW i \in 1..Len(tx)
               PROVE  <<desc'[i].target, desc'[i].sum>> \in issued'
    BY <1>3, Zenon DEF DescsIssued, DescIssued
  <2>1. desc'[i] = RecordDesc(tx[i])
    BY <1>1, Zenon DEF RotInv, LoggedSoFar
  <2>2. desc'[i].target = tx[i].lba /\ desc'[i].sum = tx[i].val
    BY <2>1 DEF RecordDesc, Checksum
  <2> QED BY <1>8, <2>2, Zenon
<1>10. OnlyCommittedApplied'
  BY <1>1, Zenon DEF RotInv, OnlyCommittedApplied
<1>11. TxIssued'
  BY <1>1, <1>8, Zenon DEF TxIssued
<1> QED BY <1>1, <1>7, <1>9, <1>10, <1>11, Zenon DEF RotInv, LoggedSoFar, CheckedSoFar

(* m16_journal_recover goes on to its next block.                          *)
LEMMA GoesOn ==
  ASSUME RotInv, jpc \in Recovers, jpc' \in {"rec", "rclear"}, UNCHANGED <<tx, jrc, clean>>,
         RotDiskOK' /\ DescsIssued' /\ OnlyCommittedApplied', ji' \in 1..MaxRec, CheckedSoFar'
  PROVE  RotInv'
<1>1. ~clean' /\ jpc' \notin Commits
  BY Zenon DEF RotInv, RotTypeOK, NoCommittedTxDropped, Recovers, Commits
<1>2. RotTypeOK'
  BY <1>1, Zenon DEF RotInv, RotTypeOK, CallTypeOK, NoCommittedTxDropped, Recovers
<1> QED BY <1>1, <1>2, Zenon DEF RotInv, LoggedSoFar, TxIssued

(* m16_journal_recover, but for its loop.                                  *)
LEMMA RecoverRot ==
  ASSUME RotInv, UNCHANGED <<issued, strays>>,
         \/ StartRecover /\ UNCHANGED hcount
         \/ RecoverHeader /\ hcount' = hdr.count
         \/ RecoverEnd /\ UNCHANGED hcount
  PROVE  RotInv'
<1>1. hdr.count \in 0..MaxRec /\ hcount' \in 0..MaxRec
  <2>1. hdr \in AnyHdr /\ hcount \in 0..MaxRec
    BY Zenon DEF RotInv, RotTypeOK, RotDiskOK
  <2> QED BY <2>1, CountBounded, Zenon
<1>2. CASE StartRecover
  <2>1. RotDiskOK' /\ DescsIssued' /\ OnlyCommittedApplied'
    BY <1>1, <1>2, NothingWritten, Zenon DEF StartRecover
  <2>2. jpc' = "rcheck" /\ ji' = 1 /\ UNCHANGED tx /\ jrc' = "none" /\ ~clean'
    BY <1>2, Zenon DEF StartRecover
  <2>3. RotTypeOK'
    BY <2>1, <2>2, JournalAssumption DEF RotInv, RotTypeOK, CallTypeOK, NoCommittedTxDropped, Commits, Recovers
  <2> QED BY <2>1, <2>2, <2>3, Zenon DEF RotInv, LoggedSoFar, CheckedSoFar, TxIssued
<1>3. CASE RecoverHeader /\ hcount' = hdr.count
  <2>1. jpc = "rcheck" /\ UNCHANGED diskVars
    BY <1>3, Zenon DEF RecoverHeader
  <2>2. RotDiskOK' /\ DescsIssued' /\ OnlyCommittedApplied'
    BY <1>1, <2>1, NothingWritten, Zenon
  <2>3. CASE hdr.state = "empty"
    <3>1. hdr = EmptyHdr
      BY <2>3, Zenon DEF RotInv, RotTypeOK, RotDiskOK, AnyHdr
    <3> QED BY <1>1, <1>3, <2>1, <2>3, <3>1, ReturnRot, Zenon DEF RecoverHeader
  <2>4. CASE hdr.state = "committed"
    <3>1. /\ UNCHANGED <<tx, jrc, clean>> /\ ji' = 1
          /\ jpc' = IF hdr.count = 0 THEN "rclear" ELSE "rec"
      BY <1>3, <2>4 DEF RecoverHeader, Goto
    <3>2. UNCHANGED <<hdr, desc>> /\ DescsIssued
      BY <2>1, Zenon DEF diskVars, RotInv
    <3>3. \A i \in 1..hcount' : DescIssued(i)'
      BY <1>3, <2>4, <3>2, Zenon DEF DescsIssued, DescIssued
    <3>4. CheckedSoFar'
      BY <1>1, <1>3, <2>4, <3>1, <3>2, <3>3 DEF CheckedSoFar
    <3>5. 1 \in 1..MaxRec
      BY JournalAssumption
    <3> QED BY <2>1, <2>2, <3>1, <3>4, <3>5, GoesOn, Zenon DEF Recovers
  <2>5. CASE hdr.state \notin {"empty", "committed"}
    BY <1>1, <1>3, <2>1, <2>5, ReturnRot, Zenon DEF RecoverHeader
  <2> QED BY <2>3, <2>4, <2>5, Zenon
<1>5. CASE RecoverEnd /\ UNCHANGED hcount
  <2>1. RotDiskOK' /\ DescsIssued' /\ OnlyCommittedApplied'
    BY <1>5, ClearedRot, Zenon DEF RecoverEnd
  <2>2. jpc' = "idle" /\ hdr' = EmptyHdr /\ CallTypeOK'
    BY <1>5, JournalAssumption DEF RecoverEnd, Return, WriteHdr, CallTypeOK
  <2> QED BY <2>1, <2>2, Zenon DEF RotInv, RotTypeOK, LoggedSoFar, CheckedSoFar, TxIssued,
          NoCommittedTxDropped, Commits
<1> QED BY <1>2, <1>3, <1>5, Zenon

(* The payload of a record that passed the checks goes where its           *)
(* descriptor says.                                                        *)
LEMMA WriteRot ==
  ASSUME RotInv, NEW l \in Block, NEW v \in Val, WriteBlock(l, v), UNCHANGED <<hcount, issued>>,
         l \in strays \/ <<l, v>> \in issued
  PROVE  /\ RotDiskOK' /\ DescsIssued' /\ OnlyCommittedApplied'
         /\ \A k \in 1..MaxRec : DescIssued(k) => DescIssued(k)'
         /\ strays \subseteq strays'
         /\ Intact' => UNCHANGED <<hdr, desc, data>>
<1>1. RotDiskOK /\ DescsIssued /\ OnlyCommittedApplied
  BY Zenon DEF RotInv, RotTypeOK
<1>2. strays \subseteq strays'
  BY Zenon DEF WriteBlock
<1>3. HdrOf[v] \in AnyHdr /\ DescOf[v] \in AnyDesc \cup {NoDesc}
  BY RotAssumption, Zenon
<1>4. l \in JournalBlock => ~Intact'
  <2> SUFFICES ASSUME l \in JournalBlock PROVE l \in strays'
    BY Zenon DEF Intact
  <2>1. <<l, v>> \in issued => l \in Lba
    BY <1>1 DEF RotDiskOK
  <2> QED BY <1>2, <2>1, RotAssumption, Zenon
<1>5. CASE l \in Lba /\ WriteHome(l, v) /\ UNCHANGED strays
  <2>1. UNCHANGED <<hdr, desc, data>>
    BY <1>5, Zenon DEF WriteHome
  <2>2. RotDiskOK' /\ DescsIssued' /\ OnlyCommittedApplied'
    BY <1>5, HomeRot, Zenon
  <2> QED BY <1>2, <1>5, <2>1, <2>2, Zenon DEF DescIssued
<1>6. CASE l = HdrBlock /\ WriteHdr(HdrOf[v]) /\ strays' = strays \cup Named(HdrOf[v].count)
  <2>1. hdr' = HdrOf[v] /\ UNCHANGED <<home, desc, data>>
    BY <1>6, Zenon DEF WriteHdr
  <2>2. RotDiskOK' /\ OnlyCommittedApplied'
    BY <1>1, <1>2, <1>3, <2>1, Zenon DEF RotDiskOK, OnlyCommittedApplied
  <2>3. \A k \in 1..MaxRec : DescIssued(k) => DescIssued(k)'
    BY <1>2, <2>1, Zenon DEF DescIssued
  <2>4. \A k \in 1..HdrOf[v].count : DescIssued(k)'
    BY <1>6, <2>1, Zenon DEF DescIssued, Named
  <2>5. DescsIssued'
    BY <2>1, <2>4, Zenon DEF DescsIssued
  <2>6. l \in JournalBlock
    BY <1>6, Zenon DEF JournalBlock
  <2> QED BY <1>2, <1>4, <2>2, <2>3, <2>5, <2>6, Zenon
<1>7. ASSUME NEW i \in 1..MaxRec, l = DescBlock(i), WriteDesc(i, DescOf[v]),
             strays' = strays \cup (IF DescOf[v] = NoDesc THEN {} ELSE {DescOf[v].target})
      PROVE  /\ RotDiskOK' /\ DescsIssued' /\ OnlyCommittedApplied'
             /\ \A k \in 1..MaxRec : DescIssued(k) => DescIssued(k)'
             /\ l \in JournalBlock
  <2>1. desc' = [desc EXCEPT ![i] = DescOf[v]] /\ UNCHANGED <<home, hdr, data>>
    BY <1>7, Zenon DEF WriteDesc
  <2>2. RotDiskOK' /\ OnlyCommittedApplied'
    BY <1>1, <1>2, <1>3, <1>7, <2>1, Zenon DEF RotDiskOK, OnlyCommittedApplied
  <2>3. ASSUME NEW k \in 1..MaxRec, DescIssued(k) PROVE DescIssued(k)'
    <3>1. CASE k = i
      <4>1. desc'[k] = DescOf[v]
        BY <1>1, <2>1, <3>1, Zenon DEF RotDiskOK
      <4> QED BY <1>7, <4>1, Zenon DEF DescIssued
    <3>2. CASE k # i
      <4>1. desc'[k] = desc[k]
        BY <1>1, <2>1, <3>2, Zenon DEF RotDiskOK
      <4> QED BY <1>2, <2>3, <4>1, Zenon DEF DescIssued
    <3> QED BY <3>1, <3>2, Zenon
  <2>4. \A k \in 1..hdr.count : k \in 1..MaxRec
    <3>1. hdr.count \in 0..MaxRec
      BY <1>1, CountBounded, Zenon DEF RotDiskOK
    <3> QED BY <3>1, JournalAssumption
  <2>5. DescsIssued'
    BY <1>1, <2>1, <2>3, <2>4, Zenon DEF DescsIssued
  <2> QED BY <1>7, <2>2, <2>3, <2>5, Zenon DEF JournalBlock
<1>8. ASSUME NEW i \in 1..MaxRec, l = DataBlock(i), WriteData(i, v), UNCHANGED strays
      PROVE  /\ RotDiskOK' /\ DescsIssued' /\ OnlyCommittedApplied'
             /\ \A k \in 1..MaxRec : DescIssued(k) => DescIssued(k)'
             /\ l \in JournalBlock
  <2>1. data' = [data EXCEPT ![i] = v] /\ UNCHANGED <<home, hdr, desc>>
    BY <1>8, Zenon DEF WriteData
  <2>2. RotDiskOK' /\ OnlyCommittedApplied'
    BY <1>1, <1>2, <2>1, Zenon DEF RotDiskOK, OnlyCommittedApplied
  <2> QED BY <1>1, <1>8, <2>1, <2>2, Zenon DEF DescIssued, DescsIssued, JournalBlock
<1> QED BY <1>2, <1>4, <1>5, <1>6, <1>7, <1>8, Zenon DEF WriteBlock

(* One round of the loop of m16_journal_recover.                           *)
LEMMA ReplayRot ==
  ASSUME RotInv, Replay
  PROVE  RotInv'
<1>1. jpc = "rec" /\ UNCHANGED <<hcount, issued>> /\ hcount' \in 0..MaxRec /\ hcount \in 0..MaxRec
  BY Zenon DEF Replay, RotInv, RotTypeOK, RotDiskOK
<1>2. CASE ~ValidRecord(ji)
  BY <1>1, <1>2, ReturnRot, Zenon DEF Replay, RecoverCorrupt
<1>3. CASE ValidRecord(ji)
  <2>1. /\ WriteBlock(desc[ji].target, data[ji]) /\ UNCHANGED <<tx, jrc, clean>>
        /\ IF ji < hcount THEN jpc' = "rec" /\ ji' = ji + 1 ELSE jpc' = "rclear" /\ ji' = 1
    BY <1>3, Zenon DEF Replay, Goto
  <2>2. ji \in 1..hcount /\ \A i \in 1..hcount : DescIssued(i)
    BY <1>1, Zenon DEF RotInv, CheckedSoFar
  <2>3. ji \in 1..MaxRec /\ ji' \in 1..MaxRec /\ \A i \in 1..hcount : i \in 1..MaxRec
    BY <1>1, <2>1, <2>2, JournalAssumption
  <2>4. desc[ji] \in AnyDesc /\ data[ji] \in Val /\ data[ji] = desc[ji].sum /\ desc[ji] # NoDesc
    BY <1>3, <2>3, Zenon DEF ValidRecord, Checksum, RotInv, RotTypeOK, RotDiskOK
  <2>5. desc[ji].target \in Block /\ (desc[ji].target \in strays \/ <<desc[ji].target, data[ji]>> \in issued)
    BY <2>2, <2>4, Zenon DEF DescIssued, AnyDesc
  <2>6. /\ RotDiskOK' /\ DescsIssued' /\ OnlyCommittedApplied'
        /\ \A k \in 1..MaxRec : DescIssued(k) => DescIssued(k)'
        /\ strays \subseteq strays'
        /\ Intact' => UNCHANGED <<hdr, desc, data>>
    BY <1>1, <2>1, <2>4, <2>5, WriteRot, Zenon
  <2>7. \A i \in 1..hcount' : DescIssued(i)'
    BY <1>1, <2>2, <2>3, <2>6, Zenon
  <2>8. ASSUME Intact'
        PROVE  /\ hdr'.state = "committed" /\ hdr'.count = hcount'
               /\ \A i \in 1..ji : ValidRecord(i)'
    <3>1. Intact /\ UNCHANGED <<hdr, desc, data>>
      BY <2>6, <2>8, Zenon DEF Intact
    <3>2. /\ hdr.state = "committed" /\ hdr.count = hcount
          /\ \A i \in 1..(ji - 1) : ValidRecord(i)
      BY <1>1, <3>1, Zenon DEF RotInv, CheckedSoFar
    <3>3. \A i \in 1..ji : i \in 1..(ji - 1) \/ i = ji
      BY <2>3
    <3> QED BY <1>1, <1>3, <3>1, <3>2, <3>3, Zenon DEF ValidRecord
  <2>9. CheckedSoFar'
    <3>1. CASE ji < hcount
      <4>1. jpc' = "rec" /\ ji' \in 1..hcount' /\ 1..(ji' - 1) = 1..ji
        BY <1>1, <2>1, <2>3, <3>1
      <4> QED BY <2>7, <2>8, <4>1, Zenon DEF CheckedSoFar
    <3>2. CASE ~(ji < hcount)
      <4>1. jpc' = "rclear" /\ 1..hcount' = 1..ji
        BY <1>1, <2>1, <2>2, <3>2
      <4> QED BY <2>8, <4>1, Zenon DEF CheckedSoFar
    <3> QED BY <3>1, <3>2, Zenon
  <2>10. jpc' \in {"rec", "rclear"}
    BY <2>1, Zenon
  <2> QED BY <1>1, <2>1, <2>3, <2>6, <2>9, <2>10, GoesOn, Zenon DEF Recovers
<1> QED BY <1>2, <1>3, Zenon

(* A block decays.  A number that changes in a descriptor makes a stray; a *)
(* payload or a sum that changes makes the record invalid.                 *)
LEMMA DecayRot ==
  ASSUME RotInv, NEW i \in 1..MaxRec, Rot(i)
  PROVE  RotInv'
<1>1. jpc = "idle" /\ UNCHANGED <<home, jpc, ji, tx, jrc, hcount, issued>> /\ ~clean'
  BY Zenon DEF Rot
<1>2. strays \subseteq strays'
  BY Zenon DEF Rot
<1>3. OnlyCommittedApplied'
  BY <1>1, <1>2, Zenon DEF RotInv, OnlyCommittedApplied
<1>4. CallTypeOK'
  BY <1>1, Zenon DEF RotInv, RotTypeOK, CallTypeOK
<1> SUFFICES RotDiskOK' /\ DescsIssued'
  BY <1>1, <1>3, <1>4, Zenon DEF RotInv, RotTypeOK, LoggedSoFar, CheckedSoFar, TxIssued,
     NoCommittedTxDropped, Commits
<1>5. RotDiskOK /\ DescsIssued
  BY Zenon DEF RotInv, RotTypeOK
<1>11. hdr.count \in 0..MaxRec
  BY <1>5, CountBounded, Zenon DEF RotDiskOK
<1>6. CASE hdr' = [state |-> "bad", count |-> hdr.count] /\ UNCHANGED <<desc, data, strays>>
  <2>1. hdr.count \in 0..MaxRec
    BY <1>5, CountBounded, Zenon DEF RotDiskOK
  <2>2. hdr'.state = "bad" /\ hdr' \in [state : {"committed", "bad"}, count : 0..MaxRec]
    BY <1>6, <2>1, Zenon
  <2> QED BY <1>1, <1>5, <1>6, <2>2, Zenon DEF RotDiskOK, DescsIssued, AnyHdr
<1>7. CASE desc' = [desc EXCEPT ![i] = NoDesc] /\ UNCHANGED <<hdr, data, strays>>
  <2>1. RotDiskOK'
    BY <1>1, <1>5, <1>7, Zenon DEF RotDiskOK
  <2>2. \A k \in 1..MaxRec : desc'[k] = NoDesc \/ desc'[k] = desc[k]
    BY <1>5, <1>7, Zenon DEF RotDiskOK
  <2>3. hdr.state = "committed" => \A k \in 1..hdr.count : k \in 1..MaxRec
    BY <1>11, JournalAssumption
  <2> QED BY <1>1, <1>5, <1>7, <2>1, <2>2, <2>3 DEF DescsIssued, DescIssued
<1>8. CASE /\ desc[i] # NoDesc
           /\ \E l \in Block \ {desc[i].target} :
                desc' = [desc EXCEPT ![i].target = l] /\ strays' = strays \cup {l}
           /\ UNCHANGED <<hdr, data>>
  <2>1. PICK l \in Block : desc' = [desc EXCEPT ![i].target = l] /\ strays' = strays \cup {l}
    BY <1>8, Zenon
  <2>2. desc[i] \in AnyDesc
    BY <1>5, <1>8, Zenon DEF RotDiskOK
  <2>3. desc'[i] = [desc[i] EXCEPT !.target = l] /\ \A k \in 1..MaxRec \ {i} : desc'[k] = desc[k]
    BY <1>5, <2>1, Zenon DEF RotDiskOK
  <2>4. desc'[i] \in AnyDesc /\ desc'[i].target = l
    BY <2>2, <2>3, Zenon DEF AnyDesc
  <2>5. desc' \in [1..MaxRec -> AnyDesc \cup {NoDesc}]
    BY <1>5, <2>1, <2>3, <2>4, Zenon DEF RotDiskOK
  <2>6. RotDiskOK'
    BY <1>1, <1>5, <1>8, <2>5, Zenon DEF RotDiskOK
  <2>7. hdr.state = "committed" => \A k \in 1..hdr.count : k \in 1..MaxRec
    BY <1>11, JournalAssumption
  <2>8. DescsIssued'
    <3> SUFFICES ASSUME hdr.state = "committed", NEW k \in 1..hdr.count, desc'[k] # NoDesc
                 PROVE  desc'[k].target \in strays' \/ <<desc'[k].target, desc'[k].sum>> \in issued'
      BY <1>8, Zenon DEF DescsIssued, DescIssued
    <3>1. CASE k = i
      BY <2>1, <2>4, <3>1
    <3>2. CASE k # i
      BY <1>1, <1>2, <1>5, <2>3, <2>7, <3>2, Zenon DEF DescsIssued, DescIssued
    <3> QED BY <3>1, <3>2, Zenon
  <2> QED BY <2>6, <2>8, Zenon
<1>9. CASE /\ \E v \in Val \ {data[i]} : data' = [data EXCEPT ![i] = v]
           /\ UNCHANGED <<hdr, desc, strays>>
  BY <1>1, <1>5, <1>9, Zenon DEF RotDiskOK, DescsIssued, DescIssued
<1> QED BY <1>6, <1>7, <1>8, <1>9, Zenon DEF Rot

LEMMA NextRot == RotInv /\ [RNext]_rvars => RotInv'
<1> SUFFICES ASSUME RotInv, [RNext]_rvars PROVE RotInv'
  BY Zenon
<1>0. hcount \in 0..MaxRec
  BY Zenon DEF RotInv, RotTypeOK, RotDiskOK
<1>1. CASE UNCHANGED <<diskVars, jpc, ji, tx, jrc, clean, hcount, issued, strays>>
  <2>1. RotDiskOK' /\ DescsIssued' /\ OnlyCommittedApplied'
    BY <1>0, <1>1, NothingWritten, Zenon
  <2>2. RotTypeOK'
    BY <1>1, <2>1, Zenon DEF RotInv, RotTypeOK, CallTypeOK, NoCommittedTxDropped, diskVars
  <2>3. LoggedSoFar' /\ TxIssued'
    BY <1>1, Zenon DEF RotInv, LoggedSoFar, TxIssued, diskVars
  <2>4. CheckedSoFar'
    BY <1>1, Zenon DEF RotInv, CheckedSoFar, DescIssued, Intact, ValidRecord, diskVars
  <2> QED BY <2>1, <2>2, <2>3, <2>4, Zenon DEF RotInv
<1>2. CASE \E i \in 1..MaxRec : Rot(i)
  BY <1>2, DecayRot, Zenon
<1>3. CASE Replay
  BY <1>3, ReplayRot, Zenon
<1>4. CASE Commit
  BY <1>4, HeaderRot, Zenon DEF Commit
<1>5. CASE ReadHeader
  BY <1>5, RecoverRot, Zenon DEF ReadHeader
<1>6. ASSUME NEW t \in Tx, NEW s \in BOOLEAN, Begin(t, s) PROVE RotInv'
  <2>1. clean /\ StartCommit(t, s) /\ UNCHANGED <<hcount, issued, strays>>
    BY <1>6, Zenon DEF Begin
  <2>2. RotDiskOK' /\ DescsIssued' /\ OnlyCommittedApplied'
    BY <1>0, <2>1, NothingWritten, Zenon DEF StartCommit
  <2>3. jpc' = "clear0" /\ ji' = 1 /\ tx' = t /\ jrc' = "none" /\ ~clean' /\ hdr' = EmptyHdr
    BY <2>1, Zenon DEF StartCommit, RotInv, RotTypeOK, NoCommittedTxDropped, diskVars
  <2>4. Len(t) \in 1..MaxRec /\ t # <<>>
    BY TxFacts, EmptyNotTx, Zenon
  <2>5. RotTypeOK'
    BY <2>2, <2>3, <2>4, JournalAssumption DEF RotTypeOK, CallTypeOK, NoCommittedTxDropped, Commits
  <2> QED BY <2>2, <2>3, <2>5, Zenon DEF RotInv, LoggedSoFar, CheckedSoFar, TxIssued
<1>7. CASE AsBefore
  <2>1. UNCHANGED <<hcount, issued, strays>>
    BY <1>7, Zenon DEF AsBefore
  <2>2. CASE StartRecover \/ RecoverEnd
    BY <2>1, <2>2, RecoverRot, Zenon
  <2>3. CASE CommitClear \/ CommitDesc \/ CommitData \/ CommitStop \/ CommitHome \/ CommitEnd
    BY <2>1, <2>3, CommitRot, Zenon
  <2>4. CASE WriteError
    BY <1>0, <2>1, <2>4, ReturnRot, Zenon DEF WriteError
  <2>5. CASE PowerLoss
    BY <1>0, <2>1, <2>5, ReturnRot, Zenon DEF PowerLoss
  <2>6. CASE Fault \/ Repair
    BY <1>1, <2>1, <2>6, Zenon DEF Fault, Repair, callVars
  <2> QED BY <1>7, <2>2, <2>3, <2>4, <2>5, <2>6, Zenon DEF AsBefore
<1>8. CASE UNCHANGED rvars
  BY <1>1, <1>8, Zenon DEF rvars, jvars, callVars
<1> QED BY <1>2, <1>3, <1>4, <1>5, <1>6, <1>7, <1>8, Zenon DEF RNext

(* On a medium whose journal blocks decay, home blocks hold what was       *)
(* committed for them, for any number of damaged blocks: replay applies no *)
(* damaged payload and follows no damaged header.  Only the blocks named   *)
(* by descriptors that no commit wrote, or put in force by a header that   *)
(* no commit wrote, are excepted, whatever a payload written into the      *)
(* journal looks like there.                                               *)
THEOREM DecayContained == RSpec => []OnlyCommittedApplied
<1>1. RotInv => OnlyCommittedApplied
  BY Zenon DEF RotInv
<1> QED BY <1>1, InitRot, NextRot, PTL DEF RSpec

(* A replay that meets a damaged record never clears the header, for any   *)
(* number of damaged blocks and power failures, as long as no damaged      *)
(* target_lba points into the journal: the next mount sees the damage.     *)
THEOREM DamageStays == RSpec => DamageNotForgotten
<1>1. RotInv /\ [RNext]_rvars =>
        [ (/\ strays \cap JournalBlock = {}
           /\ jpc \notin Commits /\ hdr.state = "committed" /\ \E i \in 1..hdr.count : ~ValidRecord(i))
          => hdr' = hdr \/ hdr'.state = "bad" ]_rvars
  <2> SUFFICES ASSUME RotInv, RNext, Intact, jpc \notin Commits, hdr.state = "committed",
                      NEW k \in 1..hdr.count, ~ValidRecord(k)
               PROVE  hdr' = hdr \/ hdr'.state = "bad"
    BY Zenon DEF Intact
  <2>1. CASE \E i \in 1..MaxRec : Rot(i)
    BY <2>1 DEF Rot
  <2>2. CASE RecoverEnd
    BY <2>2, Zenon DEF RecoverEnd, CanWrite, RotInv, CheckedSoFar
  <2>3. CASE CommitClear \/ CommitDesc \/ CommitData \/ CommitHeader \/ CommitStop \/ CommitHome \/ CommitEnd
    BY <2>3, Zenon DEF CommitClear, CommitDesc, CommitData, CommitHeader, CommitStop, CommitHome, CommitEnd,
       CanWrite, Commits
  <2>4. CASE StartRecover \/ RecoverHeader \/ WriteError \/ Fault \/ Repair \/ PowerLoss
    BY <2>4, Zenon DEF StartRecover, RecoverHeader, WriteError, Fault, Repair, PowerLoss, diskVars
  <2>5. CASE Replay
    <3>1. CASE ~ValidRecord(ji)
      BY <2>5, <3>1, Zenon DEF Replay, RecoverCorrupt, diskVars
    <3>2. CASE ValidRecord(ji)
      <4>1. jpc = "rec" /\ WriteBlock(desc[ji].target, data[ji])
        BY <2>5, <3>2, Zenon DEF Replay
      <4>2. ji \in 1..hcount /\ DescIssued(ji) /\ hcount \in 0..MaxRec
        BY <4>1, Zenon DEF RotInv, CheckedSoFar, RotTypeOK, RotDiskOK
      <4>3. desc[ji].target # HdrBlock
        <5>1. desc[ji] # NoDesc
          BY <3>2, Zenon DEF ValidRecord
        <5>2. issued \subseteq Lba \X Val
          BY Zenon DEF RotInv, RotTypeOK, RotDiskOK
        <5>3. desc[ji].target \in strays \cup Lba
          BY <4>2, <5>1, <5>2 DEF DescIssued
        <5> QED BY <5>3, RotAssumption, Zenon DEF Intact, JournalBlock
      <4> QED BY <4>1, <4>3, Zenon DEF WriteBlock, WriteHome, WriteDesc, WriteData
    <3> QED BY <3>1, <3>2, Zenon
  <2>6. CASE \E t \in Tx, s \in BOOLEAN : Begin(t, s)
    BY <2>6, Zenon DEF Begin, StartCommit, diskVars
  <2> QED BY <2>1, <2>2, <2>3, <2>4, <2>5, <2>6, Zenon DEF RNext, AsBefore, Commit, ReadHeader
<1> QED BY <1>1, InitRot, NextRot, PTL DEF RSpec, DamageNotForgotten
=============================================================================
