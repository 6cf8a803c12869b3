-------------------------------- MODULE Files --------------------------------
(***************************************************************************)
(* What the descriptors promise: every name is a private array of Cap bytes*)
(* with a size, every descriptor has a position of its own.  Nodes, the    *)
(* shared data array and the search for names do not appear.               *)
(***************************************************************************)
EXTENDS Integers, Sequences

CONSTANTS
    Name, Fd,
    Buf,        \* what callers write
    Cap,        \* bytes a file can have
    Dir         \* the root directory

VARIABLES
    files,      \* from the names that exist to their size and bytes
    handles,    \* from the open descriptors to name, position and append
    failed

fvars == <<files, handles, failed>>

Empty == [size |-> 0, bytes |-> [i \in 0..(Cap - 1) |-> 0]]

FInit == files = <<>> /\ handles = <<>> /\ failed = FALSE

With(f, k, v) == [x \in DOMAIN f \cup {k} |-> IF x = k THEN v ELSE f[x]]
Without(f, k) == [x \in DOMAIN f \ {k} |-> f[x]]

(* A failed call may leave an empty file behind, or move a descriptor.     *)
FFail ==
    /\ failed'
    /\ \/ files' = files
       \/ \E n \in Name \ DOMAIN files : files' = With(files, n, Empty)
    /\ \/ handles' = handles
       \/ /\ files' = files
          /\ \E fd \in DOMAIN handles : handles = [handles' EXCEPT ![fd].at = handles[fd].at]

(* Opening gives the lowest descriptor that is not open.  The file exists  *)
(* afterwards; it keeps its bytes, and either its size or none of it.      *)
FOpen(fd) ==
    LET h == handles'[fd]
        f == IF h.name \in DOMAIN files THEN files[h.name] ELSE Empty
    IN /\ fd \notin DOMAIN handles
       /\ DOMAIN handles' = DOMAIN handles \cup {fd}
       /\ \A g \in Fd : g < fd => g \in DOMAIN handles
       /\ Without(handles', fd) = handles
       /\ IF h.name = Dir THEN files' = files
          ELSE \E size \in {0, f.size} : /\ h.at = IF h.append THEN size ELSE 0
                                         /\ files' = With(files, h.name, [f EXCEPT !.size = size])

FDup(fd) ==
    /\ fd \in DOMAIN handles
    /\ \E new \in Fd \ DOMAIN handles : handles' = With(handles, new, handles[fd])

FClose(fd) == fd \in DOMAIN handles /\ handles' = Without(handles, fd)

FRead(fd) ==
    /\ fd \in DOMAIN handles /\ handles[fd].name # Dir
    /\ \E n \in 0..Cap :
         /\ handles' = [handles EXCEPT ![fd].at = @ + n]
         /\ n > 0 => handles[fd].at + n <= files[handles[fd].name].size

FSeek(fd) ==
    /\ fd \in DOMAIN handles /\ handles[fd].name # Dir
    /\ handles = [handles' EXCEPT ![fd].at = handles[fd].at]

(* The bytes of buf, and no others, change; those between the size and the *)
(* first of them are what they last were.                                  *)
Put(f, at, buf) ==
    [size |-> IF at + Len(buf) > f.size THEN at + Len(buf) ELSE f.size,
     bytes |-> [i \in 0..(Cap - 1) |->
                  IF at <= i /\ i < at + Len(buf) THEN buf[i - at + 1] ELSE f.bytes[i]]]

FWrite(fd, buf) ==
    LET h == handles[fd]
        at == IF h.append THEN files[h.name].size ELSE h.at
    IN /\ fd \in DOMAIN handles /\ h.name # Dir
       /\ handles' = [handles EXCEPT ![fd].at = at + Len(buf)]
       /\ at + Len(buf) <= Cap
       /\ files' = [files EXCEPT ![h.name] = Put(@, at, buf)]

(* Filled by the kernel, not through a descriptor.                         *)
FSeed(n, buf) ==
    LET f == IF n \in DOMAIN files THEN files[n] ELSE Empty
    IN /\ handles' = handles
       /\ Len(buf) <= Cap
       /\ files' = With(files, n, [Put(f, 0, buf) EXCEPT !.size = Len(buf)])

FNext ==
    \/ FFail
    \/ /\ ~failed' /\ files' = files
       /\ \/ handles' = handles
          \/ \E fd \in Fd : FDup(fd) \/ FClose(fd) \/ FRead(fd) \/ FSeek(fd)
    \/ /\ ~failed'
       /\ \/ \E fd \in Fd : FOpen(fd)
          \/ \E fd \in Fd, buf \in Buf : FWrite(fd, buf)
          \/ \E n \in Name, buf \in Buf : FSeed(n, buf)

FSpec == FInit /\ [][FNext]_fvars

=============================================================================
