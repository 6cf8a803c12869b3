------------------------------- MODULE Mcsfs1j -------------------------------
(***************************************************************************)
(* The file system MCSFS1J (kernel/fs/mcsfs1j) on top of its journal.      *)
(*                                                                         *)
(* One API call runs at a time, as in the code, which has no locks.  A     *)
(* call alternates between steps of its own, which only read blocks and    *)
(* prepare transactions in memory, and the block writes of the journal     *)
(* (module Journal) or of m16_format.  Power may fail between any two.     *)
(***************************************************************************)
EXTENDS Journal, FiniteSets, FiniteSetsExt

CONSTANTS
    Name,           \* file names
    BadName,        \* those that are empty or M16_MAX_NAME long or longer
    Bytes,          \* contents of a data block
    Data,           \* file contents: a size and the padded block
    BlockSize,      \* M16_BLOCK_SIZE
    NumBlocks,      \* M16_MAX_BLOCKS
    NumInodes,      \* M16_MAX_INODES
    TableBlocks,    \* M16_INODE_TABLE_BLOCKS
    NumSlots,       \* directory entries in a block
    ZeroBytes,      \* a zeroed data block
    NoFile, NoCall, NoEntry, NoInode,
    MaxCuts         \* bound on cuts

VARIABLES
    call,           \* the API call in progress
    stage,          \* how far it got
    tx2,            \* the second transaction of m16_write_file_ex (on its stack)
    fi,             \* next block write of m16_format
    rc,             \* return code of the last call
    out,            \* what the last m16_read_file returned
    formatted,      \* ghost: the last m16_format ran to its end
    cuts            \* ghost: writes cut short after they began to commit

fvars == <<call, stage, tx2, fi, rc, out, formatted, cuts>>
vars == <<jvars, fvars>>

-----------------------------------------------------------------------------
(* The layout of the device.                                               *)

InodeBitmapLba == 2 + 2 * MaxRec
BlockBitmapLba == InodeBitmapLba + 1
InodeTableLba == BlockBitmapLba + 1
RootDirLba == InodeTableLba + TableBlocks
DataStartLba == RootDirLba + 1

HomeLba == {0} \cup (InodeBitmapLba..(NumBlocks - 1))
Inode == 0..(NumInodes - 1)
Slot == 1..NumSlots
TableLba == InodeTableLba..(RootDirLba - 1)
InodesOf(l) == { i \in Inode : InodeTableLba + (i * TableBlocks) \div NumInodes = l }

(* Block contents, each kind with a field of its own.                      *)
SuperBlock(v) == [super |-> v]
InodeBitmap(s) == [ib |-> s]
BlockBitmap(s) == [bb |-> s]
TableBlock(t, l) == [inodes |-> [i \in InodesOf(l) |-> t[i]]]
DirBlock(d) == [dir |-> d]
DataBlock(b) == [file |-> b]

(* A zeroed block, as the code that reads block l takes it.                *)
ZeroBlock(l) ==
    CASE l = 0 -> SuperBlock(FALSE)
      [] l = InodeBitmapLba -> InodeBitmap({})
      [] l = BlockBitmapLba -> BlockBitmap({})
      [] l \in TableLba -> TableBlock([i \in Inode |-> NoInode], l)
      [] l = RootDirLba -> DirBlock([s \in Slot |-> NoEntry])
      [] OTHER -> DataBlock(ZeroBytes)

(* What the blocks of each kind may hold.                                  *)
InodeRec == [kind : {1, 2}, size : 0..BlockSize, direct : RootDirLba..(NumBlocks - 1)]
Dirent == [ino : Inode, name : Name \ BadName]
BlockAt(l) ==
    CASE l = 0 -> [super : BOOLEAN]
      [] l = InodeBitmapLba -> [ib : SUBSET Inode]
      [] l = BlockBitmapLba -> [bb : SUBSET (0..(NumBlocks - 1))]
      [] l \in TableLba -> [inodes : [InodesOf(l) -> {NoInode} \cup InodeRec]]
      [] l = RootDirLba -> [dir : [Slot -> {NoEntry} \cup Dirent]]
      [] OTHER -> [file : Bytes]
FsBlock == UNION { BlockAt(l) : l \in HomeLba }

(* The calls, as the caller makes them.                                    *)
Call ==
    [op : {"write"}, name : Name \ BadName, data : Data, stop : BOOLEAN]
      \cup [op : {"read"}, name : Name, cap : {0, BlockSize}]
      \cup [op : {"fsck", "mount", "format"}]

(* The journal holds a whole transaction, and there are blocks for data.   *)
ASSUME McsAssumption ==
    /\ NumBlocks \in Nat /\ NumInodes \in Nat \ {0} /\ TableBlocks \in Nat \ {0}
    /\ NumSlots \in Nat /\ BlockSize \in Nat /\ MaxCuts \in Nat
    /\ DataStartLba < NumBlocks
    /\ TableBlocks + 2 <= MaxRec
    /\ Lba = HomeLba
    /\ FsBlock \subseteq Val
    /\ ZeroBytes \in Bytes
    /\ Data \subseteq [size : Nat, bytes : Bytes]
    /\ NoFile \notin Data /\ NoInode \notin InodeRec
    /\ NoEntry \notin Dirent /\ NoCall \notin Call

(* m16_load_inode_table.                                                   *)
Table(d) == [i \in Inode |-> d[CHOOSE l \in TableLba : i \in InodesOf(l)].inodes[i]]
Dir(d) == d[RootDirLba].dir

RootInode == [kind |-> 2, size |-> 0, direct |-> RootDirLba]

-----------------------------------------------------------------------------
(* Searches.                                                               *)

FindDirent(d, n) == { s \in Slot : d[s] # NoEntry /\ d[s].name = n }
FreeInodes(d) == { i \in Inode \ {0} : i \notin d[InodeBitmapLba].ib }
FreeBlocks(d) == { b \in DataStartLba..(NumBlocks - 1) : b \notin d[BlockBitmapLba].bb }
FreeSlots(d) == { s \in Slot : Dir(d)[s] = NoEntry }

(* m16_fsck, on the blocks d: what it checks and what it does not.         *)
FsckOk(d) ==
    /\ d[0].super
    /\ 0 \in d[InodeBitmapLba].ib
    /\ Table(d)[0] # NoInode
    /\ Table(d)[0].kind = 2
    /\ Table(d)[0].direct = RootDirLba
    /\ 0..(DataStartLba - 1) \subseteq d[BlockBitmapLba].bb
    /\ \A s \in Slot : Dir(d)[s] # NoEntry =>
         LET i == Dir(d)[s].ino
             inode == Table(d)[i]
         IN /\ i \in Inode
            /\ i \in d[InodeBitmapLba].ib
            /\ inode # NoInode
            /\ inode.kind = 1
            /\ inode.size <= BlockSize
            /\ inode.direct \in DataStartLba..(NumBlocks - 1)
            /\ inode.direct \in d[BlockBitmapLba].bb

-----------------------------------------------------------------------------
(* Calls.                                                                  *)

FInit ==
    /\ home = [l \in HomeLba |-> ZeroBlock(l)]
    /\ hdr = EmptyHdr
    /\ desc = [i \in 1..MaxRec |-> NoDesc]
    /\ data = [i \in 1..MaxRec |-> DataBlock(ZeroBytes)]
    /\ failing = FALSE /\ jpc = "idle" /\ ji = 1 /\ tx = <<>> /\ stop = FALSE
    /\ jrc = "none" /\ clean = FALSE
    /\ call = NoCall /\ stage = "none" /\ tx2 = <<>> /\ fi = 0
    /\ rc = "none" /\ out = NoFile /\ formatted = FALSE /\ cuts = 0

(* The call ends with return code r.                                       *)
Done(r) ==
    /\ call' = NoCall
    /\ stage' = "none"
    /\ tx2' = <<>>
    /\ fi' = 0
    /\ rc' = r

(* A call begins.  After MaxCuts no call is made while the device fails.   *)
Begin(c, s) ==
    /\ stage = "none"
    /\ failing => cuts < MaxCuts
    /\ call' = c
    /\ stage' = s
    /\ rc' = "none"
    /\ out' = NoFile
    /\ UNCHANGED <<tx2, cuts>>

(* m16_write_file, m16_read_file, m16_fsck and m16_mount begin by mounting,*)
(* which begins with m16_journal_recover.                                  *)
CallMounting(c) ==
    /\ Begin(c, "mount")
    /\ StartRecover
    /\ UNCHANGED <<fi, formatted>>

(* Arguments that m16_write_file_ex refuses before it mounts.              *)
WriteRefused(n, d) ==
    /\ stage = "none"
    /\ n \in BadName \/ d.size > BlockSize
    /\ rc' = IF n \in BadName THEN "TOOLONG" ELSE "INVAL"
    /\ out' = NoFile
    /\ UNCHANGED <<jvars, call, stage, tx2, fi, formatted, cuts>>

CallWrite(n, d, s) ==
    /\ n \notin BadName
    /\ d.size <= BlockSize
    /\ CallMounting([op |-> "write", name |-> n, data |-> d, stop |-> s])
CallRead(n, cap) == CallMounting([op |-> "read", name |-> n, cap |-> cap])
CallFsck == CallMounting([op |-> "fsck"])
CallMount == CallMounting([op |-> "mount"])

(* The recovery is over.  A mount that failed ends every call.             *)
Mounted(op) ==
    /\ stage = "mount"
    /\ jpc = "idle"
    /\ call.op = op
    /\ jrc = "OK"
    /\ home[0].super

MountFailed ==
    /\ stage = "mount"
    /\ jpc = "idle"
    /\ jrc # "none"
    /\ jrc # "OK" \/ ~home[0].super
    /\ Done(IF jrc # "OK" THEN jrc ELSE "CORRUPT")
    /\ UNCHANGED <<jvars, out, formatted, cuts>>

MountDone ==
    /\ Mounted("mount")
    /\ Done("OK")
    /\ UNCHANGED <<jvars, out, formatted, cuts>>

FsckDone ==
    /\ Mounted("fsck")
    /\ Done(IF FsckOk(home) THEN "OK" ELSE "CORRUPT")
    /\ UNCHANGED <<jvars, out, formatted, cuts>>

(* The part of m16_read_file after the mount.                              *)
ReadDone ==
    /\ Mounted("read")
    /\ LET found == FindDirent(Dir(home), call.name)
           inode == Table(home)[Dir(home)[Min(found)].ino]
       IN CASE found = {} -> Done("NOENT") /\ UNCHANGED out
            [] found # {} /\ (inode = NoInode \/ inode.kind # 1) ->
                 Done("CORRUPT") /\ UNCHANGED out
            [] found # {} /\ inode # NoInode /\ inode.kind = 1 ->
                 IF inode.size > call.cap \/ inode.direct >= NumBlocks
                   THEN Done("INVAL") /\ UNCHANGED out
                   ELSE /\ Done("OK")
                        /\ out' = [size |-> inode.size, bytes |-> home[inode.direct].file]
    /\ UNCHANGED <<jvars, formatted, cuts>>

(* m16_write_file_ex gives up after the mount.                             *)
WriteRejected ==
    /\ Mounted("write")
    /\ CASE FindDirent(Dir(home), call.name) # {} -> Done("EXISTS")
         [] OTHER -> /\ FreeInodes(home) = {} \/ FreeBlocks(home) = {} \/ FreeSlots(home) = {}
                     /\ Done("NOSPC")
    /\ UNCHANGED <<jvars, out, formatted, cuts>>

(* The two transactions of m16_write_file_ex: bitmaps and inode table,     *)
(* then root directory and data block.                                     *)
MetaTx(d, ino, block, size) ==
    LET table == [Table(d) EXCEPT ![ino] = [kind |-> 1, size |-> size, direct |-> block]]
    IN << [lba |-> InodeBitmapLba, val |-> InodeBitmap(d[InodeBitmapLba].ib \cup {ino})],
          [lba |-> BlockBitmapLba, val |-> BlockBitmap(d[BlockBitmapLba].bb \cup {block})] >>
       \o [k \in 1..TableBlocks |->
             [lba |-> InodeTableLba + k - 1, val |-> TableBlock(table, InodeTableLba + k - 1)]]

NameTx(d, slot, entry, block, bytes) ==
    << [lba |-> RootDirLba, val |-> DirBlock([Dir(d) EXCEPT ![slot] = entry])],
       [lba |-> block, val |-> DataBlock(bytes)] >>

(* m16_write_file_ex picks inode, block and directory entry, prepares both *)
(* transactions and commits the first.                                     *)
WriteTx1 ==
    /\ Mounted("write")
    /\ FindDirent(Dir(home), call.name) = {}
    /\ FreeInodes(home) # {} /\ FreeBlocks(home) # {} /\ FreeSlots(home) # {}
    /\ LET ino == Min(FreeInodes(home))
           block == Min(FreeBlocks(home))
           slot == Min(FreeSlots(home))
       IN /\ StartCommit(MetaTx(home, ino, block, call.data.size), FALSE)
          /\ tx2' = NameTx(home, slot, [ino |-> ino, name |-> call.name], block, call.data.bytes)
    /\ stage' = "tx1"
    /\ UNCHANGED <<call, fi, rc, out, formatted, cuts>>

(* Mutant: the data block is left out of the second transaction.           *)
WriteTx2Mut ==
    /\ stage = "tx1"
    /\ jpc = "idle"
    /\ jrc = "OK"
    /\ StartCommit(<<tx2[1]>>, call.stop)
    /\ stage' = "tx2"
    /\ UNCHANGED <<call, tx2, fi, rc, out, formatted, cuts>>

(* Then the second.                                                        *)
WriteTx2 ==
    /\ stage = "tx1"
    /\ jpc = "idle"
    /\ jrc = "OK"
    /\ StartCommit(tx2, call.stop)
    /\ stage' = "tx2"
    /\ UNCHANGED <<call, tx2, fi, rc, out, formatted, cuts>>

(* Mutant: the call may return after the first transaction.                *)
WriteDoneMut ==
    /\ stage \in {"tx1", "tx2"} /\ jpc = "idle" /\ jrc # "none"
    /\ Done(jrc)
    /\ cuts' = IF jrc = "OK" THEN cuts ELSE cuts + 1
    /\ UNCHANGED <<jvars, out, formatted>>

WriteDone ==
    /\ \/ stage = "tx1" /\ jpc = "idle" /\ jrc = "EIO"
       \/ stage = "tx2" /\ jpc = "idle" /\ jrc # "none"
    /\ Done(jrc)
    /\ cuts' = IF jrc = "OK" THEN cuts ELSE cuts + 1
    /\ UNCHANGED <<jvars, out, formatted>>

-----------------------------------------------------------------------------
(* m16_format: the array of blocks is zeroed at once, then the metadata is *)
(* written block by block, the superblock first.                           *)

(* The bitmaps of an empty file system.  Mutant: the block of the root     *)
(* directory is not marked as used.                                        *)
UsedInodes == {0}
UsedBlocksMut == 0..(DataStartLba - 2)
UsedBlocks == 0..(DataStartLba - 1)

FormatWrites ==
    << [lba |-> 0, val |-> SuperBlock(TRUE)],
       [lba |-> InodeBitmapLba, val |-> InodeBitmap(UsedInodes)],
       [lba |-> BlockBitmapLba, val |-> BlockBitmap(UsedBlocks)] >>
    \o [k \in 1..TableBlocks |->
          [lba |-> InodeTableLba + k - 1,
           val |-> TableBlock([i \in Inode |-> IF i = 0 THEN RootInode ELSE NoInode],
                              InodeTableLba + k - 1)]]
    \o << [lba |-> RootDirLba, val |-> ZeroBlock(RootDirLba)] >>

CallFormat ==
    /\ jpc = "idle"
    /\ Begin([op |-> "format"], "format")
    /\ home' = [l \in HomeLba |-> ZeroBlock(l)]
    /\ hdr' = EmptyHdr
    /\ desc' = [i \in 1..MaxRec |-> NoDesc]
    /\ data' = [i \in 1..MaxRec |-> DataBlock(ZeroBytes)]
    /\ clean' = FALSE
    /\ fi' = 1
    /\ formatted' = FALSE
    /\ UNCHANGED <<failing, jpc, ji, tx, stop, jrc>>

(* Mutant: the index is not advanced.                                      *)
FormatWriteMut ==
    /\ stage = "format"
    /\ ~failing
    /\ fi <= Len(FormatWrites)
    /\ WriteHome(FormatWrites[fi].lba, FormatWrites[fi].val)
    /\ UNCHANGED <<callVars, fvars>>

FormatWrite ==
    /\ stage = "format"
    /\ ~failing
    /\ fi <= Len(FormatWrites)
    /\ WriteHome(FormatWrites[fi].lba, FormatWrites[fi].val)
    /\ fi' = fi + 1
    /\ UNCHANGED <<callVars, call, stage, tx2, rc, out, formatted, cuts>>

FormatEnd ==
    /\ stage = "format"
    /\ ~failing
    /\ fi > Len(FormatWrites)
    /\ WriteHdr(EmptyHdr)
    /\ Done("OK")
    /\ formatted' = TRUE
    /\ UNCHANGED <<callVars, out, cuts>>

FormatError ==
    /\ stage = "format"
    /\ failing
    /\ Done("EIO")
    /\ UNCHANGED <<jvars, out, formatted, cuts>>

-----------------------------------------------------------------------------
Committing == stage \in {"tx1", "tx2"}

FsPowerLoss ==
    /\ stage # "none"
    /\ Committing => cuts < MaxCuts
    /\ PowerLoss
    /\ Done("none")
    /\ out' = NoFile
    /\ cuts' = IF Committing THEN cuts + 1 ELSE cuts
    /\ UNCHANGED formatted

FsFault == cuts < MaxCuts /\ Fault /\ UNCHANGED fvars
FsRepair == stage = "none" /\ Repair /\ UNCHANGED fvars

(* The code runs: a step of the call in progress.                          *)
CallStep ==
    \/ JournalStep /\ UNCHANGED fvars
    \/ MountFailed \/ MountDone \/ FsckDone \/ ReadDone
    \/ WriteRejected \/ WriteTx1 \/ WriteTx2 \/ WriteDone
    \/ FormatWrite \/ FormatEnd \/ FormatError

FNext ==
    \/ \E n \in Name, d \in Data : WriteRefused(n, d)
    \/ \E n \in Name, d \in Data, s \in BOOLEAN : CallWrite(n, d, s)
    \/ \E n \in Name, cap \in {0, BlockSize} : CallRead(n, cap)
    \/ CallFsck
    \/ CallMount
    \/ CallFormat
    \/ CallStep
    \/ FsFault
    \/ FsRepair
    \/ FsPowerLoss

FSpec == FInit /\ [][FNext]_vars

(* A call, once made, keeps running.                                       *)
FFairSpec == FSpec /\ WF_vars(CallStep)

-----------------------------------------------------------------------------
(* Properties.                                                             *)

(* Types of the blocks and of the call in progress.  In particular a name  *)
(* that m16_write_file_ex refuses never reaches the directory.             *)
FsTypeOK ==
    /\ DOMAIN home = HomeLba
    /\ \A l \in HomeLba : home[l] \in BlockAt(l)
    /\ stage \in {"none", "mount", "tx1", "tx2", "format"}
    /\ stage = "none" <=> call = NoCall
    /\ fi \in 0..(Len(FormatWrites) + 1)
    /\ out \in {NoFile} \cup Data
    /\ cuts \in 0..MaxCuts

Entries(d) == { s \in Slot : Dir(d)[s] # NoEntry }
Linked(d) == { Dir(d)[s].ino : s \in Entries(d) }
Allocated(d) == d[InodeBitmapLba].ib \ {0}

(* Whatever is cut short, and at whichever block write, the next mount     *)
(* finds a file system that m16_fsck accepts, once a format has completed. *)
AlwaysConsistent == formatted => FsckOk(Effective)

(* Beyond what m16_fsck looks at: no two directory entries share a name,   *)
(* an inode or a data block, and no two inodes, linked or leaked, share a  *)
(* block.                                                                  *)
NothingShared ==
    LET d == Effective
    IN /\ \A s, u \in Entries(d) :
            s # u => /\ Dir(d)[s].name # Dir(d)[u].name
                     /\ Dir(d)[s].ino # Dir(d)[u].ino
       /\ \A i, j \in Inode \ {0} :
            i # j /\ Table(d)[i] # NoInode /\ Table(d)[j] # NoInode
              => Table(d)[i].direct # Table(d)[j].direct

(* The bitmaps agree with the inode table: a block is in use exactly when  *)
(* it is metadata or some inode points to it.                              *)
BitmapsAgree ==
    LET d == Effective
    IN formatted =>
         /\ d[InodeBitmapLba].ib = { i \in Inode : Table(d)[i] # NoInode }
         /\ d[BlockBitmapLba].bb =
              0..(DataStartLba - 1) \cup { Table(d)[i].direct : i \in Allocated(d) }

(* A write cut short between its two transactions leaves its inode and its *)
(* block allocated to no file, and nothing ever frees them.  At most one   *)
(* inode is lost for each write cut short.                                 *)
LeakBounded ==
    Cardinality(Allocated(Effective) \ Linked(Effective))
      <= cuts + IF Committing THEN 1 ELSE 0

(* The journal is used as its correctness requires: a commit begins only   *)
(* over an empty journal, and only with distinct blocks, so a committed    *)
(* header always describes records that a replay accepts.                  *)
JournalUsedRight == NoCommittedTxDropped /\ CommittedReplayable

(* What every mount can rely on, whatever calls were cut short before it,  *)
(* and at whichever block write: the device is a file system to m16_fsck   *)
(* and beyond what it looks at, and the journal replays what it should.    *)
DiskInv ==
    FsTypeOK /\ AlwaysConsistent /\ NothingShared /\ BitmapsAgree /\ JournalUsedRight

(* The files the next mount will show.                                     *)
Visible(d) ==
    [n \in Name |->
        IF FindDirent(Dir(d), n) = {} THEN NoFile
        ELSE LET inode == Table(d)[Dir(d)[Min(FindDirent(Dir(d), n))].ino]
             IN [size |-> inode.size, bytes |-> d[inode.direct].file]]

(* MCSFS1J implements a store of write-once files in which creating a file *)
(* is atomic, at the commit header of the second transaction.              *)
Files == INSTANCE FileStore WITH
           files <- Visible(Effective),
           busy <- call,
           created <- stage = "tx2" /\ Visible(Effective)[call.name] # NoFile,
           result <- rc,
           output <- out
ImplementsFileStore == Files!FsSpec

(* Every call returns, with an error if the device fails.                  *)
FsCallReturns == stage # "none" ~> stage = "none"
=============================================================================
