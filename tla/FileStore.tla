------------------------------ MODULE FileStore ------------------------------
(***************************************************************************)
(* What MCSFS1J promises its callers: a store of named, write-once files.  *)
(* Creating a file is indivisible.  A call that returns OK has created its *)
(* file; a call that failed, or that a power failure cut short, may have   *)
(* created it completely or not at all.  Files disappear only when the     *)
(* device is formatted.                                                    *)
(***************************************************************************)
CONSTANTS
    Name,       \* file names
    Data,       \* file contents
    NoFile,     \* content of a name that has no file
    NoCall      \* no call in progress

VARIABLES
    files,      \* the files
    busy,       \* the call in progress: operation, name and content
    created,    \* whether the call in progress has created its file
    result,     \* the last call's return code
    output      \* what the last read returned

fsVars == <<files, busy, created, result, output>>

FsInit ==
    /\ files = [n \in Name |-> NoFile]
    /\ busy = NoCall
    /\ created = FALSE
    /\ result = "none"
    /\ output = NoFile

Start ==
    /\ busy = NoCall
    /\ busy' # NoCall
    /\ created' = FALSE
    /\ output' = NoFile
    /\ files' = IF busy'.op = "format" THEN [n \in Name |-> NoFile] ELSE files
    /\ result' = "none"

Create ==
    /\ busy # NoCall
    /\ busy.op = "write"
    /\ ~created
    /\ files[busy.name] = NoFile
    /\ files' = [files EXCEPT ![busy.name] = busy.data]
    /\ created' = TRUE
    /\ UNCHANGED <<busy, result, output>>

(* What a return code tells the caller.                                    *)
Return ==
    /\ busy # NoCall
    /\ busy.op = "write" /\ result' = "OK" => created
    /\ busy.op = "write" /\ created => result' \in {"OK", "EIO"}
    /\ busy.op = "write" /\ result' = "EXISTS" => files[busy.name] # NoFile
    /\ busy.op = "read" /\ result' = "OK" => /\ files[busy.name] # NoFile
                                             /\ output' = files[busy.name]
    /\ busy.op = "read" /\ result' = "NOENT" => files[busy.name] = NoFile
    /\ busy' = NoCall
    /\ created' = FALSE
    /\ UNCHANGED files

(* Power failure, and calls refused for their arguments.                   *)
Idle ==
    /\ busy' = NoCall
    /\ created' = FALSE
    /\ result' \in {"none", "INVAL", "TOOLONG"}
    /\ output' = NoFile
    /\ UNCHANGED files

FsNext == Start \/ Create \/ Return \/ Idle

FsSpec == FsInit /\ [][FsNext]_fsVars
=============================================================================
