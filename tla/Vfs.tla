--------------------------------- MODULE Vfs ---------------------------------
(***************************************************************************)
(* Descriptors (kernel/vfs/fd.c) on the RAM file system                    *)
(* (kernel/vfs/ramfs.c).  A path is the sequence of its segments, <<>> for *)
(* "/"; Relative is one that does not start with a slash and TooLong one of*)
(* MCS_MAX_PATH bytes or more.  BadName is an empty or too long segment.   *)
(* A call returns a number, negative if it failed: the state keeps whether *)
(* the last call failed, not the number, nor what read copied out.         *)
(***************************************************************************)
EXTENDS Integers, Sequences

CONSTANTS
    Name, BadName,
    Relative, TooLong,
    Byte,           \* includes 0
    MaxNodes,       \* MCS_MAX_NODES
    MaxOpen,        \* MCS_MAX_OPEN_FILES
    DataBytes,      \* MCS_RAMFS_DATA_BYTES
    FileCap,        \* the 256 bytes of a new file
    IntMax,         \* largest int
    MaxOffset       \* bound: lseek goes no further

ASSUME VfsAssumption ==
    /\ BadName \notin Name
    /\ 0 \in Byte
    /\ MaxNodes \in Nat \ {0} /\ MaxOpen \in Nat /\ DataBytes \in Nat /\ FileCap \in Nat
    /\ IntMax \in Nat /\ MaxOffset \in Nat

VARIABLES
    nodes,          \* fs->nodes, up to node_count
    nodeCount,      \* fs->node_count
    data,           \* fs->data
    dataUsed,       \* fs->data_used
    fds,            \* table->files, NoFile where not used
    failed          \* the last call returned a negative number

vvars == <<nodes, nodeCount, data, dataUsed, fds, failed>>

OK == 0
ENOENT == -2
EBADF == -9
EACCES == -13
ENOTDIR == -20
EISDIR == -21
EINVAL == -22
ENFILE == -23
ENOSPC == -28
ENAMETOOLONG == -36

Path == Seq(Name \cup {BadName}) \cup {Relative, TooLong}
Flags == {"RDONLY", "WRONLY", "RDWR", "CREAT", "TRUNC", "APPEND"}

Node == 0..(MaxNodes - 1)
Fd == 0..(MaxOpen - 1)
NoFile == [used |-> FALSE]
Root == [name |-> BadName, parent |-> 0, dir |-> TRUE, size |-> 0, off |-> 0, cap |-> 0]

(* mcs_ramfs_init and mcs_fd_table_init.                                   *)
VInit ==
    /\ nodes = [n \in {0} |-> Root]
    /\ nodeCount = 1
    /\ data = [i \in 0..(DataBytes - 1) |-> 0]
    /\ dataUsed = 0
    /\ fds = [fd \in Fd |-> NoFile]
    /\ failed = FALSE

Returns(r) == failed' = (r < 0)
Min(a, b) == IF a < b THEN a ELSE b

-----------------------------------------------------------------------------
(* Names.  A lookup gives a node, or an error.                             *)

(* mcs_find_child: the first node of that name in the directory.           *)
Children(d, s) == { n \in 0..(nodeCount - 1) : nodes[n].parent = d /\ nodes[n].name = s }

FindChild(d, s) ==
    IF s = BadName THEN EINVAL
    ELSE IF Children(d, s) = {} THEN ENOENT
    ELSE CHOOSE n \in Children(d, s) : \A m \in Children(d, s) : n <= m

(* The node reached after i segments of p: each but the last is a directory.*)
Walk(p) ==
    LET reached[i \in 0..Len(p)] ==
          IF i = 0 THEN 0
          ELSE IF reached[i - 1] < 0 THEN reached[i - 1]
          ELSE IF ~nodes[reached[i - 1]].dir THEN ENOTDIR
          ELSE FindChild(reached[i - 1], p[i])
    IN reached[Len(p)]

Lookup(p) ==
    IF p = Relative THEN EINVAL ELSE IF p = TooLong THEN ENAMETOOLONG ELSE Walk(p)

(* mcs_split_parent_leaf: the directory in which the last segment is.      *)
Parent(p) ==
    LET d == Walk(SubSeq(p, 1, Len(p) - 1))
    IN IF p = Relative \/ p = <<>> THEN EINVAL
       ELSE IF p = TooLong THEN ENAMETOOLONG
       ELSE IF d < 0 THEN d
       ELSE IF ~nodes[d].dir THEN ENOTDIR
       ELSE IF p[Len(p)] = BadName THEN EINVAL ELSE d

(* Whether mcs_alloc_node finds room, and why mcs_ramfs_create_file fails  *)
(* for a path that does not exist.  Mutant: the data area is not checked.  *)
RoomMut == nodeCount < MaxNodes
Room == nodeCount < MaxNodes /\ dataUsed + FileCap <= DataBytes

CreateError(p) == IF Parent(p) < 0 THEN Parent(p) ELSE IF ~Room THEN ENOSPC ELSE OK

(* Mutant: a file's data begins one byte early.                            *)
NewFileMut(p) ==
    [name |-> p[Len(p)], parent |-> Parent(p), dir |-> FALSE, size |-> 0,
     off |-> IF dataUsed = 0 THEN 0 ELSE dataUsed - 1, cap |-> FileCap]

NewFile(p) ==
    [name |-> p[Len(p)], parent |-> Parent(p), dir |-> FALSE, size |-> 0,
     off |-> dataUsed, cap |-> FileCap]

AddNode(f) ==
    /\ nodes' = [n \in 0..nodeCount |-> IF n = nodeCount THEN f ELSE nodes[n]]
    /\ nodeCount' = nodeCount + 1
    /\ dataUsed' = dataUsed + f.cap

SameNodes == UNCHANGED <<nodes, nodeCount, dataUsed>>

(* memcpy of buf to the file, from its byte at on.                         *)
Store(f, at, buf) ==
    data' = [i \in DOMAIN data |->
               IF f.off + at <= i /\ i < f.off + at + Len(buf) THEN buf[i - f.off - at + 1]
               ELSE data[i]]

-----------------------------------------------------------------------------
(* mcs_ramfs_seed_file.                                                    *)
SeedFile(p, buf) ==
    LET n == Lookup(p)
        err == IF n >= 0 THEN IF nodes[n].dir THEN EISDIR ELSE OK ELSE CreateError(p)
        f == IF n >= 0 THEN nodes[n] ELSE NewFile(p)
        fits == Len(buf) <= f.cap
        g == IF fits THEN [f EXCEPT !.size = Len(buf)] ELSE f
    IN /\ IF err < 0 THEN Returns(err) /\ SameNodes /\ UNCHANGED data
          ELSE /\ IF n >= 0 THEN nodes' = [nodes EXCEPT ![n] = g] /\ UNCHANGED <<nodeCount, dataUsed>>
                  ELSE AddNode(g)
               /\ IF fits THEN Store(f, 0, buf) /\ Returns(OK)
                  ELSE UNCHANGED data /\ Returns(ENOSPC)
       /\ UNCHANGED fds

(* Descriptors.                                                            *)
CanRead(flags) == "RDONLY" \in flags \/ "RDWR" \in flags
CanWrite(flags) == "WRONLY" \in flags \/ "RDWR" \in flags
WithAccess(flags) ==
    IF flags \cap {"RDONLY", "WRONLY", "RDWR"} = {} THEN flags \cup {"RDONLY"} ELSE flags

(* mcs_fd_get, and mcs_fd_alloc: the lowest unused descriptor.             *)
IsOpen(fd) == fd \in Fd /\ fds[fd].used
Unused == { fd \in Fd : ~fds[fd].used }
FdAlloc == IF Unused = {} THEN ENFILE
           ELSE CHOOSE fd \in Unused : \A g \in Unused : fd <= g

OpenFile(n, offset, flags) ==
    [used |-> TRUE, node |-> n, offset |-> offset, flags |-> flags \ {"CREAT", "TRUNC"}]

(* O_TRUNC empties the file once nothing can fail any more.  Mutant: at    *)
(* once.                                                                   *)
TruncatesMut(flags, code) == "TRUNC" \in flags
Truncates(flags, code) == code >= 0 /\ "TRUNC" \in flags

(* mcs_vfs_open.  The file is created before the descriptor is looked for  *)
(* and before O_TRUNC is compared with the access asked for.               *)
VfsOpen(p, asked) ==
    LET flags == WithAccess(asked)
        n == Lookup(p)
        err == IF n >= 0 THEN OK ELSE IF "CREAT" \in flags THEN CreateError(p) ELSE n
        id == IF n >= 0 THEN n ELSE nodeCount
        f == IF n >= 0 THEN nodes[n] ELSE NewFile(p)
        code == IF err < 0 THEN err
                ELSE IF f.dir /\ CanWrite(flags) THEN EISDIR
                ELSE IF FdAlloc < 0 THEN ENFILE
                ELSE IF "TRUNC" \in flags /\ ~CanWrite(flags) THEN EACCES
                ELSE FdAlloc
        trunc == Truncates(flags, code)
        g == IF trunc THEN [f EXCEPT !.size = 0] ELSE f
        start == IF ~trunc /\ "APPEND" \in flags THEN f.size ELSE 0
    IN /\ IF err < 0 THEN SameNodes
          ELSE IF n >= 0 THEN nodes' = [nodes EXCEPT ![n] = g] /\ UNCHANGED <<nodeCount, dataUsed>>
          ELSE AddNode(g)
       /\ fds' = IF code >= 0 THEN [fds EXCEPT ![code] = OpenFile(id, start, flags)] ELSE fds
       /\ Returns(code)
       /\ UNCHANGED data

(* The bytes that mcs_vfs_read copies, if it copies any.                   *)
ReadCount(fd, len) ==
    IF nodes[fds[fd].node].size <= fds[fd].offset THEN 0
    ELSE Min(len, nodes[fds[fd].node].size - fds[fd].offset)

ReadError(fd) ==
    IF ~IsOpen(fd) THEN EBADF
    ELSE IF ~CanRead(fds[fd].flags) THEN EACCES
    ELSE IF nodes[fds[fd].node].dir THEN EISDIR
    ELSE OK

VfsRead(fd, len) ==
    /\ IF ReadError(fd) < 0 THEN Returns(ReadError(fd)) /\ UNCHANGED fds
       ELSE /\ fds' = [fds EXCEPT ![fd].offset = @ + ReadCount(fd, len)]
            /\ Returns(ReadCount(fd, len))
    /\ SameNodes /\ UNCHANGED data

(* mcs_vfs_write: all of buf or nothing.  O_APPEND moves the offset also if*)
(* the call then fails.                                                    *)
WriteStart(fd) ==
    IF "APPEND" \in fds[fd].flags THEN nodes[fds[fd].node].size ELSE fds[fd].offset

WriteError(fd, len) ==
    IF ~IsOpen(fd) THEN EBADF
    ELSE IF ~CanWrite(fds[fd].flags) THEN EACCES
    ELSE IF nodes[fds[fd].node].dir THEN EISDIR
    ELSE IF WriteStart(fd) > nodes[fds[fd].node].cap THEN EINVAL
    ELSE IF len > nodes[fds[fd].node].cap - WriteStart(fd) THEN ENOSPC
    ELSE OK

VfsWrite(fd, buf) ==
    LET err == WriteError(fd, Len(buf))
        end == WriteStart(fd) + Len(buf)
        n == fds[fd].node
    IN /\ IF err < 0
            THEN /\ fds' = IF err \in {EINVAL, ENOSPC} THEN [fds EXCEPT ![fd].offset = WriteStart(fd)]
                           ELSE fds
                 /\ Returns(err) /\ UNCHANGED <<nodes, data>>
            ELSE /\ Store(nodes[n], WriteStart(fd), buf)
                 /\ fds' = [fds EXCEPT ![fd].offset = end]
                 /\ nodes' = [nodes EXCEPT ![n].size = IF end > @ THEN end ELSE @]
                 /\ Returns(Len(buf))
       /\ UNCHANGED <<nodeCount, dataUsed>>

(* mcs_vfs_lseek.  What it returns is cut down to an int, so that a        *)
(* position beyond IntMax is reported as a negative number.                *)
AsInt(i) == ((i + IntMax + 1) % (2 * (IntMax + 1))) - (IntMax + 1)

SeekBase(fd, whence) ==
    CASE whence = "SET" -> 0
      [] whence = "CUR" -> fds[fd].offset
      [] whence = "END" -> nodes[fds[fd].node].size
      [] OTHER -> 0

VfsLseek(fd, by, whence) ==
    LET to == SeekBase(fd, whence) + by
        err == IF ~IsOpen(fd) THEN EBADF
               ELSE IF nodes[fds[fd].node].dir THEN EISDIR
               ELSE IF whence \notin {"SET", "CUR", "END"} \/ to < 0 THEN EINVAL
               ELSE OK
    IN /\ err = OK => to <= MaxOffset
       /\ IF err < 0 THEN Returns(err) /\ UNCHANGED fds
          ELSE fds' = [fds EXCEPT ![fd].offset = to] /\ Returns(AsInt(to))
       /\ SameNodes /\ UNCHANGED data

VfsClose(fd) ==
    /\ fds' = IF IsOpen(fd) THEN [fds EXCEPT ![fd] = NoFile] ELSE fds
    /\ Returns(IF IsOpen(fd) THEN OK ELSE EBADF)
    /\ SameNodes /\ UNCHANGED data

(* mcs_vfs_dup: the new descriptor has an offset of its own.               *)
VfsDup(fd) ==
    /\ IF ~IsOpen(fd) THEN Returns(EBADF) /\ UNCHANGED fds
       ELSE IF FdAlloc < 0 THEN Returns(ENFILE) /\ UNCHANGED fds
       ELSE fds' = [fds EXCEPT ![FdAlloc] = fds[fd]] /\ Returns(FdAlloc)
    /\ SameNodes /\ UNCHANGED data

-----------------------------------------------------------------------------
(* Properties.                                                             *)

NodeRec == [name : Name \cup {BadName}, parent : Node, dir : BOOLEAN,
            size : Nat, off : Nat, cap : Nat]
FileRec == [used : {TRUE}, node : Node, offset : Nat,
            flags : SUBSET {"RDONLY", "WRONLY", "RDWR", "APPEND"}]

VTypeOK ==
    /\ nodeCount \in 1..MaxNodes
    /\ nodes \in [0..(nodeCount - 1) -> NodeRec]
    /\ data \in [0..(DataBytes - 1) -> Byte]
    /\ dataUsed \in 0..DataBytes
    /\ fds \in [Fd -> FileRec \cup {NoFile}]
    /\ failed \in BOOLEAN

IsFile(n) == n \in 0..(nodeCount - 1) /\ ~nodes[n].dir

(* Each file has its own part of the data array and stays inside it, in    *)
(* the order of creation.                                                  *)
DataApart ==
    \A n \in 0..(nodeCount - 1) :
      /\ nodes[n].size <= nodes[n].cap
      /\ nodes[n].off + nodes[n].cap <= dataUsed
      /\ \A m \in 0..(nodeCount - 1) :
           m < n => nodes[m].off + nodes[m].cap <= nodes[n].off \/ nodes[m].cap = 0

(* Node 0 is the only directory, every file is in it, and no two files have*)
(* one name: what a path names never changes.                              *)
OneTree ==
    /\ nodes[0] = Root
    /\ \A n \in 1..(nodeCount - 1) : ~nodes[n].dir /\ nodes[n].parent = 0 /\ nodes[n].name \in Name
    /\ \A m, n \in 1..(nodeCount - 1) : nodes[m].name = nodes[n].name => m = n

(* An open descriptor is of a node that exists, and may read or write it;  *)
(* a directory is open for reading only.                                   *)
FdsLive ==
    \A fd \in Fd : fds[fd].used =>
      /\ fds[fd].node < nodeCount
      /\ CanRead(fds[fd].flags) \/ CanWrite(fds[fd].flags)
      /\ CanWrite(fds[fd].flags) => IsFile(fds[fd].node)

(* The inductive invariant of files and descriptors.                       *)
VfsInv == VTypeOK /\ DataApart /\ OneTree /\ FdsLive

(* A call that fails leaves descriptors and files as they were.  Three     *)
(* things may remain of it: an empty file, from an open that found no      *)
(* descriptor or might not truncate, or a seed that was too long; the new  *)
(* offset of a descriptor with O_APPEND; and the offset of an lseek whose  *)
(* result is no int.                                                       *)
FailedHarmless ==
    [][ failed' =>
          /\ data' = data
          /\ \A n \in DOMAIN nodes : nodes'[n] = nodes[n]
          /\ \A n \in DOMAIN nodes' \ DOMAIN nodes : nodes'[n].size = 0
          /\ \A fd \in Fd : \/ fds'[fd] = fds[fd]
                            \/ /\ fds[fd].used /\ fds'[fd].used
                               /\ fds'[fd].node = fds[fd].node
                               /\ \/ "APPEND" \in fds[fd].flags
                                  \/ fds'[fd].offset > IntMax ]_vvars

=============================================================================
