------------------------------- MODULE Mcsfs1 -------------------------------
(***************************************************************************)
(* The file system MCSFS1 (fs/mcsfs1): no journal, one root directory,     *)
(* files of up to DirectBlocks blocks that can be rewritten and unlinked.  *)
(*                                                                         *)
(* One call runs at a time.  Nothing but the call itself changes the       *)
(* device, so what a call will write follows from the blocks it reads at   *)
(* its start; the writes then reach the device one by one.  Any of them,   *)
(* or the flush at the end, may fail, and power may fail between two.      *)
(***************************************************************************)
EXTENDS Integers, Sequences, FiniteSets, FiniteSetsExt, SequencesExt

CONSTANTS
    Name,           \* file names
    NameError,      \* what valid_name returns for each
    LongName,       \* the valid names of exactly MCSFS1_MAX_NAME characters
    Value,          \* contents of a full data block
    Content,        \* what callers write: sequences of values
    Zero,           \* a zeroed data block
    PerBlock,       \* inodes in a block of the inode table
    TableBlocks,    \* MCSFS1_INODE_TABLE_BLOCKS
    NumBlocks,      \* dev->block_count
    NumSlots,       \* MCSFS1_DIRENT_COUNT
    DirectBlocks,   \* MCSFS1_DIRECT_BLOCKS
    MaxCuts,        \* bound on cuts
    NoName, NoCall

ASSUME Mcsfs1Assumption ==
    /\ LongName \subseteq { n \in Name : NameError[n] = "OK" }
    /\ {PerBlock, TableBlocks, NumBlocks, NumSlots, DirectBlocks} \subseteq Nat \ {0}
    /\ MaxCuts \in Nat

VARIABLES
    disk,           \* the blocks of the device
    mounted,        \* the caller holds a struct mcsfs1_mount
    call,           \* the call in progress
    todo,           \* the block writes it still has to make
    result,         \* what it returns after them
    rc,             \* return code of the last call
    formatted,      \* ghost: the last mcsfs1_format wrote all its blocks
    failed,         \* ghost: since then, a call was cut short or failed late
    twins,          \* ghost: names created over an entry that went unseen
    cuts            \* ghost: errors of the device and power losses

vars == <<disk, mounted, call, todo, result, rc, formatted, failed, twins, cuts>>

-----------------------------------------------------------------------------
(* Layout.                                                                 *)

SbLba == 0
InodeBmapLba == 1
BlockBmapLba == 2
InodeTableLba == 3
RootDirLba == InodeTableLba + TableBlocks
DataStartLba == RootDirLba + 1

Lba == 0..(NumBlocks - 1)
DataLba == DataStartLba..(NumBlocks - 1)
RootIno == 1
Inode == 1..(PerBlock * TableBlocks)
Slot == 0..(NumSlots - 1)
TableLba(ino) == InodeTableLba + (ino - 1) \div PerBlock
InodesOf(l) == { i \in Inode : TableLba(i) = l }

ZeroInode == [mode |-> "free", size |-> 0, direct |-> [i \in 1..DirectBlocks |-> 0]]
NoEntry == [ino |-> 0, type |-> "free", name |-> NoName]
FileEntry(ino, n) == [ino |-> ino, type |-> "file", name |-> n]

(* A zeroed block, as the code that reads block l takes it.                *)
ZeroBlock(l) ==
    CASE l = SbLba -> [super |-> FALSE]
      [] l \in {InodeBmapLba, BlockBmapLba} -> [bits |-> {}]
      [] l \in InodeTableLba..(RootDirLba - 1) ->
           [inodes |-> [i \in InodesOf(l) |-> ZeroInode]]
      [] l = RootDirLba -> [dir |-> [s \in Slot |-> NoEntry]]
      [] OTHER -> [file |-> Zero]

Ib(d) == d[InodeBmapLba].bits
Bb(d) == d[BlockBmapLba].bits
Dir(d) == d[RootDirLba].dir
ReadInode(d, i) == d[TableLba(i)].inodes[i]

PutBits(l, s) == [lba |-> l, val |-> [bits |-> s]]
PutDir(dir) == [lba |-> RootDirLba, val |-> [dir |-> dir]]
PutInode(d, i, inode) ==
    [lba |-> TableLba(i), val |-> [inodes |-> [d[TableLba(i)].inodes EXCEPT ![i] = inode]]]
StoreBmaps(ib, bb) == << PutBits(InodeBmapLba, ib), PutBits(BlockBmapLba, bb) >>

-----------------------------------------------------------------------------
(* Searches.                                                               *)

(* The entries find_dirent takes for n.  A name of MCSFS1_MAX_NAME         *)
(* characters is stored without a terminating zero, and its length is      *)
(* counted on into the inode number of the next entry, or, in the last     *)
(* entry, into the byte past the block: past says whether that is zero.    *)
FindDirent(d, n, past) ==
    { s \in Slot :
        /\ Dir(d)[s].ino # 0
        /\ Dir(d)[s].name = n
        /\ n \in LongName => IF s + 1 \in Slot THEN Dir(d)[s + 1].ino = 0 ELSE past }

(* Mutant: the bit of the next block is tested.                            *)
FreeBlocksMut(d) == { b \in DataLba : b + 1 \notin Bb(d) }

FreeBlocks(d) == DataLba \ Bb(d)
FreeInodes(d) == (Inode \ {RootIno}) \ Ib(d)
Names(d) == { Dir(d)[s].name : s \in { t \in Slot : Dir(d)[t].ino # 0 } }
FreeSlots(d) == { s \in Slot : Dir(d)[s].ino = 0 }

Needed(size) == IF size = 0 THEN 1 ELSE size

(* Mutant: the root inode is not looked at.                                *)
MountOkMut(d) == d[SbLba].super

(* load_super and the checks of mcsfs1_mount.                              *)
MountOk(d) ==
    /\ d[SbLba].super
    /\ ReadInode(d, RootIno).mode = "dir"
    /\ ReadInode(d, RootIno).direct[1] = RootDirLba

(* mcsfs1_fsck: what it checks.                                            *)
FsckOk(d) ==
    /\ MountOk(d)
    /\ RootIno \in Ib(d)
    /\ 0..(DataStartLba - 1) \subseteq Bb(d)
    /\ \A s \in Slot :
         LET i == Dir(d)[s].ino
         IN i # 0 =>
              /\ i \in Inode
              /\ Dir(d)[s].type = "file"
              /\ i \in Ib(d)
              /\ ReadInode(d, i).mode = "file"
              /\ ReadInode(d, i).size <= DirectBlocks
              /\ \A j \in 1..Needed(ReadInode(d, i).size) :
                   ReadInode(d, i).direct[j] \in DataLba \cap Bb(d)

-----------------------------------------------------------------------------
(* Calls.                                                                  *)

Init ==
    /\ disk = [l \in Lba |-> ZeroBlock(l)]
    /\ mounted = FALSE
    /\ call = NoCall /\ todo = <<>> /\ result = "OK" /\ rc = "none"
    /\ formatted = FALSE /\ failed = FALSE /\ twins = {} /\ cuts = 0

(* A call whose reads lead to error: it returns without a write.           *)
Refuse(error) ==
    /\ call = NoCall
    /\ rc' = error
    /\ UNCHANGED <<disk, mounted, call, todo, result, formatted, failed, twins>>

(* A call that goes on to make these writes, and then returns res.         *)
Begin(c, writes, res) ==
    /\ call = NoCall
    /\ call' = c
    /\ todo' = writes
    /\ result' = res
    /\ rc' = "none"
    /\ UNCHANGED <<disk, mounted, formatted, failed>>

(* One more error of the device.                                           *)
Cut == cuts < MaxCuts /\ cuts' = cuts + 1

FormatWrites ==
    LET root == [ZeroInode EXCEPT !.mode = "dir", !.size = 1, !.direct[1] = RootDirLba]
    IN [l \in 1..NumBlocks |-> [lba |-> l - 1, val |-> ZeroBlock(l - 1)]]
       \o << [lba |-> SbLba, val |-> [super |-> TRUE]] >>
       \o StoreBmaps({0, RootIno}, 0..(DataStartLba - 1))
       \o << PutInode([l \in Lba |-> ZeroBlock(l)], RootIno, root) >>

Format ==
    /\ Begin([op |-> "format"], FormatWrites, "OK")
    /\ UNCHANGED <<twins, cuts>>

Mount ==
    /\ call = NoCall
    /\ rc' = IF MountOk(disk) THEN "OK" ELSE "CORRUPT"
    /\ mounted' = (mounted \/ MountOk(disk))
    /\ UNCHANGED <<disk, call, todo, result, formatted, failed, twins, cuts>>

Fsck == Refuse(IF FsckOk(disk) THEN "OK" ELSE "CORRUPT") /\ UNCHANGED cuts

(* The checks of mcsfs1_create.  An error of find_dirent is taken for      *)
(* "no such file": lost says that its read failed.                         *)
CreateError(n, past, lost) ==
    CASE ~mounted -> "INVAL"
      [] mounted /\ NameError[n] # "OK" -> NameError[n]
      [] OTHER ->
           IF ~lost /\ FindDirent(disk, n, past) # {} THEN "EXIST"
           ELSE IF {} \in {FreeSlots(disk), FreeInodes(disk), FreeBlocks(disk)} THEN "NOSPC"
           ELSE "OK"

(* Mutant: the directory is written first.                                 *)
CreateWritesMut(d, n) ==
    LET ino == Min(FreeInodes(d))
        block == Min(FreeBlocks(d))
    IN << PutDir([Dir(d) EXCEPT ![Min(FreeSlots(d))] = FileEntry(ino, n)]) >>
       \o StoreBmaps(Ib(d) \cup {ino}, Bb(d) \cup {block})
       \o << PutInode(d, ino, [ZeroInode EXCEPT !.mode = "file", !.direct[1] = block]) >>

CreateWrites(d, n) ==
    LET ino == Min(FreeInodes(d))
        block == Min(FreeBlocks(d))
    IN StoreBmaps(Ib(d) \cup {ino}, Bb(d) \cup {block})
       \o << PutInode(d, ino, [ZeroInode EXCEPT !.mode = "file", !.direct[1] = block]),
             PutDir([Dir(d) EXCEPT ![Min(FreeSlots(d))] = FileEntry(ino, n)]) >>

Create(n, past, lost) ==
    LET error == CreateError(n, past, lost)
    IN /\ IF lost THEN Cut ELSE UNCHANGED cuts
       /\ \/ error # "OK" /\ Refuse(error)
          \/ /\ error = "OK"
             /\ Begin([op |-> "create", name |-> n], CreateWrites(disk, n), "OK")
             /\ twins' = IF (lost \/ n \in LongName) /\ n \in Names(disk)
                           THEN twins \cup {n} ELSE twins

(* find_dirent and read_inode, as mcsfs1_write, _read and _unlink use them.*)
LookupError(d, n, past) ==
    CASE NameError[n] # "OK" -> NameError[n]
      [] NameError[n] = "OK" /\ FindDirent(d, n, past) = {} -> "NOENT"
      [] OTHER -> IF ReadInode(d, Dir(d)[Min(FindDirent(d, n, past))].ino).mode # "file"
                    THEN "ISDIR" ELSE "OK"
Found(d, n, past) == Dir(d)[Min(FindDirent(d, n, past))].ino

(* The blocks mcsfs1_write allocates, one alloc_data_block each, the lowest*)
(* free one for the lowest missing index, until the device is full.        *)
Missing(inode, c) ==
    SetToSortSeq({ i \in 1..Needed(Len(c)) : inode.direct[i] = 0 }, <)
Fresh(d, inode, c) ==
    LET free == SetToSortSeq(FreeBlocks(d), <)
    IN SubSeq(free, 1, Min({Len(free), Len(Missing(inode, c))}))

(* Mutant: every missing index is given the same block.                    *)
DirectMut(d, inode, c) ==
    [i \in 1..DirectBlocks |->
        IF i \in Range(Missing(inode, c)) THEN Fresh(d, inode, c)[1] ELSE inode.direct[i]]

Direct(d, inode, c) ==
    [i \in 1..DirectBlocks |->
        IF \E k \in DOMAIN Fresh(d, inode, c) : Missing(inode, c)[k] = i
        THEN Fresh(d, inode, c)[CHOOSE k \in DOMAIN Fresh(d, inode, c) : Missing(inode, c)[k] = i]
        ELSE inode.direct[i]]

AllocWrites(d, fresh) ==
    FlattenSeq([k \in DOMAIN fresh |-> StoreBmaps(Ib(d), Bb(d) \cup Range(SubSeq(fresh, 1, k)))])

WriteWrites(d, ino, c) ==
    LET inode == ReadInode(d, ino)
        direct == Direct(d, inode, c)
    IN AllocWrites(d, Fresh(d, inode, c))
       \o [i \in 1..Needed(Len(c)) |->
             [lba |-> direct[i], val |-> [file |-> IF c = <<>> THEN Zero ELSE c[i]]]]
       \o << PutInode(d, ino, [inode EXCEPT !.size = Len(c), !.direct = direct]) >>

WriteError(n, c, past) ==
    CASE ~mounted -> "INVAL"
      [] mounted /\ Len(c) > DirectBlocks -> "RANGE"
      [] OTHER -> LookupError(disk, n, past)

Write(n, c, past) ==
    LET error == WriteError(n, c, past)
        ino == Found(disk, n, past)
        fresh == Fresh(disk, ReadInode(disk, ino), c)
        request == [op |-> "write", name |-> n, content |-> c]
    IN /\ UNCHANGED cuts
       /\ \/ error # "OK" /\ Refuse(error)
          \/ /\ error = "OK"
             /\ UNCHANGED twins
             /\ IF Len(fresh) = Len(Missing(ReadInode(disk, ino), c))
                  THEN Begin(request, WriteWrites(disk, ino, c), "OK")
                  ELSE Begin(request, AllocWrites(disk, fresh), "NOSPC")

(* mcsfs1_read: what it returns, code and bytes.                           *)
ReadResult(d, n, cap, past) ==
    LET error == LookupError(d, n, past)
        inode == ReadInode(d, Found(d, n, past))
        blocks == [i \in 1..inode.size |-> inode.direct[i]]
    IN CASE error # "OK" -> [rc |-> error, data |-> <<>>]
         [] error = "OK" /\ cap < inode.size -> [rc |-> "RANGE", data |-> <<>>]
         [] OTHER -> IF Range(blocks) \subseteq Lba \ {0}
                       THEN [rc |-> "OK", data |-> [i \in DOMAIN blocks |-> d[blocks[i]].file]]
                       ELSE [rc |-> "CORRUPT", data |-> <<>>]

Read(n, cap, past) ==
    /\ Refuse(IF mounted THEN ReadResult(disk, n, cap, past).rc ELSE "INVAL")
    /\ UNCHANGED cuts

(* Mutant: only the first block is freed.                                  *)
UnlinkLeaksMut(d, slot) ==
    LET ino == Dir(d)[slot].ino
    IN << PutDir([Dir(d) EXCEPT ![slot] = NoEntry]) >>
       \o StoreBmaps(Ib(d) \ {ino}, Bb(d) \ {ReadInode(d, ino).direct[1]})
       \o << PutInode(d, ino, ZeroInode) >>

(* mcsfs1_unlink: entry, free_inode_and_blocks, inode.                     *)
UnlinkWrites(d, slot) ==
    LET ino == Dir(d)[slot].ino
    IN << PutDir([Dir(d) EXCEPT ![slot] = NoEntry]) >>
       \o StoreBmaps(Ib(d) \ {ino}, Bb(d) \ ((1..(NumBlocks - 1)) \cap Range(ReadInode(d, ino).direct)))
       \o << PutInode(d, ino, ZeroInode) >>

Unlink(n, past) ==
    LET error == IF mounted THEN LookupError(disk, n, past) ELSE "INVAL"
    IN /\ UNCHANGED cuts
       /\ \/ error # "OK" /\ Refuse(error)
          \/ /\ error = "OK"
             /\ UNCHANGED twins
             /\ Begin([op |-> "unlink", name |-> n],
                      UnlinkWrites(disk, Min(FindDirent(disk, n, past))), "OK")

-----------------------------------------------------------------------------
(* The device.                                                             *)

(* dev_write succeeds.                                                     *)
DevWrite ==
    /\ todo # <<>>
    /\ disk' = [disk EXCEPT ![Head(todo).lba] = Head(todo).val]
    /\ todo' = Tail(todo)
    /\ formatted' = IF call.op = "format" THEN Len(todo) = 1 ELSE formatted
    /\ failed' = (failed /\ call.op # "format")
    /\ twins' = IF call.op = "format" /\ Len(todo) = 1 THEN {} ELSE twins
    /\ UNCHANGED <<mounted, call, result, rc, cuts>>

(* The call ends, with a dev_flush unless it failed.                       *)
Return(r) ==
    /\ call # NoCall
    /\ call' = NoCall
    /\ todo' = <<>>
    /\ result' = "OK"
    /\ rc' = r
    /\ failed' = (failed \/ r # "OK")
    /\ UNCHANGED <<disk, formatted, twins>>

Finish == todo = <<>> /\ Return(result) /\ UNCHANGED <<mounted, cuts>>

(* dev_write or dev_flush fails, and so does the call.                     *)
DevError ==
    /\ todo # <<>> \/ result = "OK"
    /\ Cut
    /\ Return("IO")
    /\ UNCHANGED mounted

(* dev_read fails, in any call but the lookup of mcsfs1_create.            *)
ReadError == Refuse("IO") /\ UNCHANGED cuts

PowerLoss == Cut /\ Return("none") /\ mounted' = FALSE

Next ==
    \/ Format \/ Mount \/ Fsck
    \/ \E n \in Name : \E past \in {n \notin LongName, TRUE} :
         \/ \E lost \in BOOLEAN : Create(n, past, lost)
         \/ \E c \in Content : Write(n, c, past)
         \/ \E cap \in {0, DirectBlocks} : Read(n, cap, past)
         \/ Unlink(n, past)
    \/ DevWrite \/ Finish \/ DevError \/ ReadError \/ PowerLoss

Spec == Init /\ [][Next]_vars

-----------------------------------------------------------------------------
(* Properties.                                                             *)

Entries(d) == { s \in Slot : Dir(d)[s].ino # 0 }
Linked(d) == { Dir(d)[s].ino : s \in Entries(d) }
BlocksOf(d, i) == Range(ReadInode(d, i).direct) \ {0}

(* Types of the blocks: inodes point to the root directory or into the     *)
(* data area, and a name that valid_name refuses is never stored.          *)
FsTypeOK ==
    /\ disk[SbLba].super \in BOOLEAN
    /\ Ib(disk) \subseteq Inode \cup {0}
    /\ Bb(disk) \subseteq Lba
    /\ \A i \in Inode : ReadInode(disk, i) \in
         [mode : {"free", "file", "dir"}, size : 0..DirectBlocks,
          direct : [1..DirectBlocks -> {0, RootDirLba} \cup DataLba]]
    /\ Dir(disk) \in [Slot -> {NoEntry} \cup
         { FileEntry(i, n) : i \in Inode \ {RootIno}, n \in { m \in Name : NameError[m] = "OK" } }]
    /\ \A b \in DataLba : disk[b].file \in Value \cup {Zero}
    /\ call = NoCall => todo = <<>>

(* The writes of a call are ordered so that, cut short after any of them   *)
(* by an I/O error or a power loss, they leave a file system that          *)
(* mcsfs1_fsck accepts: a directory entry never outlives its inode and     *)
(* never precedes it.                                                      *)
CutsAreClean == formatted => FsckOk(disk)

(* No two entries share an inode, no two files share a block, also not a   *)
(* block beyond the size of a file that was rewritten shorter; and every   *)
(* block of a file is marked in the bitmap, so none is allocated twice.    *)
FilesDisjoint ==
    formatted =>
      /\ \A s, t \in Entries(disk) : s # t =>
           /\ Dir(disk)[s].ino # Dir(disk)[t].ino
           /\ BlocksOf(disk, Dir(disk)[s].ino) \cap BlocksOf(disk, Dir(disk)[t].ino) = {}
      /\ \A i \in Linked(disk) : BlocksOf(disk, i) \subseteq Bb(disk) \cap DataLba

(* No name has two entries, whatever was cut short, unless mcsfs1_create   *)
(* did not see the first one.                                              *)
NamesUnique ==
    \A s, t \in Entries(disk) :
      s # t /\ Dir(disk)[s].name = Dir(disk)[t].name => Dir(disk)[s].name \in twins

(* The device after every single write of mcsfs1_create, mcsfs1_write and  *)
(* mcsfs1_unlink, completed or cut short there: mcsfs1_fsck accepts it, and*)
(* no two files share a name, an inode or a block.                         *)
DiskInv == FsTypeOK /\ CutsAreClean /\ FilesDisjoint /\ NamesUnique

(* mcsfs1_create never makes a second entry for a name that exists.        *)
NoTwins == twins = {}

(* The bitmaps mark exactly the inodes and blocks that are in use.         *)
BitmapsExact(d) ==
    /\ Ib(d) = {0, RootIno} \cup Linked(d)
    /\ Bb(d) = 0..(DataStartLba - 1) \cup UNION { BlocksOf(d, i) : i \in Linked(d) }

(* Inodes and blocks are lost only by calls that are cut short or fail     *)
(* half way: as long as none has, the bitmaps mark exactly what is in use. *)
NothingLeaksQuietly == formatted /\ ~failed /\ call = NoCall => BitmapsExact(disk)

View(d, n) == ReadResult(d, n, DirectBlocks, TRUE)

(* A call on one file, successful or cut short at any write, leaves what   *)
(* mcsfs1_read returns for every other file as it was.                     *)
OthersUntouched ==
    [][ formatted /\ call # NoCall /\ call.op # "format" =>
          \A n \in Name \ {call.name} : View(disk', n) = View(disk, n) ]_vars

(* When a call returns MCSFS1_ERR_OK, mcsfs1_read returns what it says, for*)
(* a name that has one entry.                                              *)
OkMeansDone ==
    [][ (/\ formatted /\ call # NoCall /\ call.op # "format" /\ rc' = "OK"
         /\ call.name \notin twins) =>
          View(disk', call.name) =
            CASE call.op = "create" -> [rc |-> "OK", data |-> <<>>]
              [] call.op = "write" -> [rc |-> "OK", data |-> call.content]
              [] call.op = "unlink" -> [rc |-> "NOENT", data |-> <<>>] ]_vars

(* A device whose mcsfs1_format was cut short, over whatever was there     *)
(* before, is never mounted.                                               *)
MountsWhole == [][ ~mounted /\ mounted' => formatted ]_vars
=============================================================================
