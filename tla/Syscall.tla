------------------------------- MODULE Syscall -------------------------------
(***************************************************************************)
(* The system call dispatcher (kernel/syscall/syscall.c): the user region, *)
(* the checks of pointers and lengths, the callbacks of the kernel and the *)
(* calls on files.  A call runs to its end on vector 0x80 with interrupts  *)
(* off, so it is one step.  User memory is AddrSpace bytes, in which       *)
(* addresses wrap.                                                         *)
(***************************************************************************)
EXTENDS Vfs

CONSTANTS
    AddrSpace,      \* 2^64
    Regions,        \* user regions the kernel may set
    MaxPath,        \* MCS_MAX_PATH
    MaxSerial,      \* the 4096 bytes of one serial write
    NrMax,          \* MCSOS_SYS_MAX
    Opens, Seeds, Seeks,                \* arguments of open, seed and lseek
    Buffers, ReadLens, Ptrs,            \* other arguments
    FdRegs                              \* registers passed as a descriptor

ASSUME SyscallAssumption ==
    /\ AddrSpace \in Nat \ {0}
    /\ MaxPath \in 1..(AddrSpace - 1) /\ MaxSerial \in Nat /\ NrMax \in Nat
    /\ Regions \subseteq [base : 0..(AddrSpace - 1), limit : 0..(AddrSpace - 1)]
    /\ Opens \subseteq [path : Path, flags : SUBSET Flags]
    /\ Seeds \subseteq [path : Path, buf : Seq(Byte)]
    /\ Seeks \subseteq [by : Int, whence : STRING]
    /\ Buffers \subseteq Seq(Byte) /\ ReadLens \subseteq Nat /\ FdRegs \subseteq Nat

VARIABLES
    ops,            \* g_ops: the callbacks that are not null
    region          \* g_user_region

svars == <<ops, region>>
vars == <<vvars, svars>>

EFAULT == -14
EBUSY == -16
ENOSYS == -38

Callback == {"get_ticks", "yield_current", "exit_current", "write_serial"}

(* The calls on files initialise the file system before the first of them; *)
(* nothing reads it earlier.                                               *)
Init ==
    /\ VInit
    /\ ops = {}
    /\ region = [base |-> 0, limit |-> 0]

(* mcsos_syscall_init and mcsos_syscall_set_user_region, in kmain.  A      *)
(* callback that is not given is null, but for a default write_serial.     *)
SyscallInit(given, r) ==
    /\ ops = {}
    /\ ops' = given \cup {"write_serial"}
    /\ region' = r
    /\ UNCHANGED vvars

(* mcsos_user_check_range.  Mutant: the end of the range may wrap.         *)
RangeOKMut(addr, len) ==
    LET last == (addr + len - 1) % AddrSpace
    IN \/ len = 0
       \/ /\ region.base # 0 /\ region.limit > region.base
          /\ addr >= region.base /\ addr <= region.limit
          /\ last < region.limit

RangeOK(addr, len) ==
    LET last == (addr + len - 1) % AddrSpace
    IN \/ len = 0
       \/ /\ region.base # 0 /\ region.limit > region.base
          /\ addr >= region.base /\ addr <= region.limit
          /\ last >= addr
          /\ last < region.limit

(* mcsos_copy_from_user.                                                   *)
CopyError(src, len) ==
    IF len = 0 THEN OK ELSE IF src = 0 THEN EINVAL ELSE IF RangeOK(src, len) THEN OK ELSE EFAULT

(* The checks at the head of sys_open, sys_read and sys_write, and of      *)
(* sys_write_serial.                                                       *)
PathError(ptr) == IF ptr = 0 THEN EINVAL ELSE IF RangeOK(ptr, MaxPath) THEN OK ELSE EFAULT

BufError(ptr, len) ==
    IF ptr = 0 /\ len # 0 THEN EINVAL ELSE IF len > 0 /\ ~RangeOK(ptr, len) THEN EFAULT ELSE OK

SerialError(ptr, len) ==
    IF ptr = 0 \/ len > MaxSerial THEN EINVAL ELSE IF RangeOK(ptr, len) THEN OK ELSE EFAULT

Only(code) == Returns(code) /\ SameNodes /\ UNCHANGED <<data, fds>>

SysOpen(ptr, p, flags) ==
    IF PathError(ptr) < 0 THEN Only(PathError(ptr)) ELSE VfsOpen(p, flags)

(* The register that holds a descriptor is cast to int: its upper half is  *)
(* lost, so 2^32 is descriptor 0.                                          *)
SysRead(reg, ptr, len) ==
    IF BufError(ptr, len) < 0 THEN Only(BufError(ptr, len)) ELSE VfsRead(AsInt(reg), len)

SysWrite(reg, ptr, buf) ==
    IF BufError(ptr, Len(buf)) < 0 THEN Only(BufError(ptr, Len(buf))) ELSE VfsWrite(AsInt(reg), buf)

SysClose(reg) == VfsClose(AsInt(reg))

(* whence is what its register holds after the same cast.                  *)
SysLseek(reg, by, whence) == VfsLseek(AsInt(reg), by, whence)

SysWriteSerial(ptr, len) ==
    Only(SerialError(ptr, len))

(* sys_ping, and the calls that only go to a callback.                     *)
SysCallback(nr) ==
    Only(IF nr = "ping" \/ nr \in ops THEN OK ELSE EBUSY)

SysUnknown(nr) == nr >= NrMax /\ Only(ENOSYS)

(* mcsos_syscall_dispatch.                                                 *)
Dispatch ==
    /\ ops # {}
    /\ \/ \E ptr \in Ptrs, o \in Opens : SysOpen(ptr, o.path, o.flags)
       \/ \E reg \in FdRegs, ptr \in Ptrs, len \in ReadLens : SysRead(reg, ptr, len)
       \/ \E reg \in FdRegs, ptr \in Ptrs, buf \in Buffers : SysWrite(reg, ptr, buf)
       \/ \E reg \in FdRegs : SysClose(reg)
       \/ \E reg \in FdRegs, k \in Seeks : SysLseek(reg, k.by, k.whence)
       \/ \E ptr \in Ptrs, len \in ReadLens : SysWriteSerial(ptr, len)
       \/ \E nr \in {"ping", "get_ticks", "yield_current", "exit_current"} : SysCallback(nr)
       \/ SysUnknown(NrMax)
    /\ UNCHANGED svars

(* The two calls of the file system that have no system call.              *)
KernelCalls ==
    /\ ops # {}
    /\ \/ \E s \in Seeds : SeedFile(s.path, s.buf)
       \/ \E reg \in FdRegs : VfsDup(AsInt(reg))
    /\ UNCHANGED svars

Next ==
    \/ \E r \in Regions : SyscallInit(Callback, r)
    \/ Dispatch
    \/ KernelCalls

Spec == Init /\ [][Next]_vars

-----------------------------------------------------------------------------
(* Properties.                                                             *)

Addr == 0..(AddrSpace - 1)

(* The n bytes from addr on are user memory, each of them.                 *)
InUser(addr, n) ==
    \A i \in 0..(n - 1) :
      /\ region.base <= (addr + i) % AddrSpace
      /\ (addr + i) % AddrSpace < region.limit

(* The user bytes that open reads of its path: to the terminating zero, or *)
(* the first byte if that is no slash.                                     *)
PathReads(p) == IF p = Relative THEN 1 ELSE IF p = TooLong THEN MaxPath + 1 ELSE MaxPath

Exact ==
    \A addr \in Addr :
      /\ PathError(addr) = OK =>
           \A o \in Opens : o.path # TooLong => InUser(addr, PathReads(o.path))
      /\ \A len \in Addr :
           /\ CopyError(addr, len) = OK => InUser(addr, len)
           /\ SerialError(addr, len) = OK => InUser(addr, len) /\ len <= MaxSerial
           /\ BufError(addr, len) = OK => InUser(addr, len)
           /\ InUser(addr, len) /\ addr # 0 /\ region.base # 0 => BufError(addr, len) = OK

(* Whatever region is set and whatever the arguments, what the kernel reads*)
(* and writes of user memory is inside the region: the checks lose no range*)
(* that wraps or is one too long.  The one exception is a path without a   *)
(* zero in MaxPath bytes, which mcs_strlen follows beyond them.  Nor do    *)
(* they refuse a range inside the region.                                  *)
UserAccess == [][region' # region => Exact']_region

(* Descriptors and files behave as private arrays (Files).                 *)
NodeOf(nm) == CHOOSE n \in 1..(nodeCount - 1) : nodes[n].name = nm

Handles ==
    [fd \in { g \in Fd : fds[g].used } |->
       [name |-> nodes[fds[fd].node].name, at |-> fds[fd].offset,
        append |-> "APPEND" \in fds[fd].flags]]

Contents ==
    [nm \in { nodes[n].name : n \in 1..(nodeCount - 1) } |->
       [size |-> nodes[NodeOf(nm)].size,
        bytes |-> [i \in 0..(FileCap - 1) |-> data[nodes[NodeOf(nm)].off + i]]]]

F == INSTANCE Files WITH Buf <- Buffers, Cap <- FileCap, Dir <- BadName,
                         files <- Contents, handles <- Handles

ImplementsFiles == F!FSpec

=============================================================================
