------------------------------ MODULE JournalRot ------------------------------
(***************************************************************************)
(* The journal on a medium whose journal blocks decay between two calls,   *)
(* as the last host test of m16_mcsfs_journal.c has them do: what          *)
(* m16_journal_recover refuses, and what it does not notice.               *)
(*                                                                         *)
(* A damaged target_lba is followed to every block of the device, the      *)
(* blocks of the journal itself included: m16_valid_lba compares it with   *)
(* the size of the device only.                                            *)
(***************************************************************************)
EXTENDS Journal

CONSTANTS
    MaxRots,    \* bound on the number of damaged blocks
    MaxCommits, \* bound on the number of commits
    HdrOf,      \* what a payload is taken for where a header should be
    DescOf      \* what a payload is taken for where a descriptor should be

HdrBlock == <<"header", 1>>
DescBlock(i) == <<"desc", i>>
DataBlock(i) == <<"data", i>>
JournalBlock ==
    {HdrBlock} \cup { DescBlock(i) : i \in 1..MaxRec }
               \cup { DataBlock(i) : i \in 1..MaxRec }
Block == Lba \cup JournalBlock

AnyDesc == [target : Block, sum : Val]
AnyHdr == {EmptyHdr} \cup [state : {"committed", "bad"}, count : 0..MaxRec]

ASSUME RotAssumption ==
    /\ MaxRots \in Nat
    /\ MaxCommits \in Nat
    /\ Lba \cap JournalBlock = {}
    /\ NoDesc \notin AnyDesc
    /\ HdrOf \in [Val -> AnyHdr]
    /\ DescOf \in [Val -> AnyDesc \cup {NoDesc}]

VARIABLES
    hcount,     \* h.count of m16_journal_recover, on its stack
    rots,       \* number of blocks damaged so far
    commits,    \* number of commits begun so far
    issued,     \* every <<block, payload>> a commit header stood for, and
                \* the initial contents
    strays      \* the blocks named by descriptors that no commit wrote, or
                \* that only a header which no commit wrote put in force

rvars == <<jvars, hcount, rots, commits, issued, strays>>

RInit ==
    /\ JInit
    /\ hcount = 0
    /\ rots = 0
    /\ commits = 0
    /\ issued = { <<l, home[l]>> : l \in Lba }
    /\ strays = {}

(* Bits of one block flip, between two calls: the next call is one that    *)
(* mounts.  The header's checksum covers all its fields.  No checksum      *)
(* covers a descriptor: other magic, another sum or a number outside the   *)
(* device make it one that is refused, any other number is followed.       *)
Rot(i) ==
    /\ jpc = "idle"
    /\ rots < MaxRots
    /\ rots' = rots + 1
    /\ \/ /\ hdr' = [state |-> "bad", count |-> hdr.count]
          /\ UNCHANGED <<desc, data, strays>>
       \/ /\ desc' = [desc EXCEPT ![i] = NoDesc]
          /\ UNCHANGED <<hdr, data, strays>>
       \/ /\ desc[i] # NoDesc
          /\ \E l \in Block \ {desc[i].target} :
               /\ desc' = [desc EXCEPT ![i].target = l]
               /\ strays' = strays \cup {l}
          /\ UNCHANGED <<hdr, data>>
       \/ /\ \E v \in Val \ {data[i]} : data' = [data EXCEPT ![i] = v]
          /\ UNCHANGED <<hdr, desc, strays>>
    /\ clean' = FALSE
    /\ UNCHANGED <<home, failing, jpc, ji, tx, stop, jrc, hcount, commits, issued>>

(* The blocks that the first n descriptors name.                           *)
Named(n) == { desc[k].target : k \in { j \in 1..n : desc[j] # NoDesc } }

(* m16_write_block(dev, d.target_lba, payload), wherever that is.          *)
WriteBlock(l, v) ==
    \/ /\ l \in Lba
       /\ WriteHome(l, v)
       /\ UNCHANGED strays
    \/ /\ l = HdrBlock
       /\ WriteHdr(HdrOf[v])
       /\ strays' = strays \cup Named(HdrOf[v].count)
    \/ \E i \in 1..MaxRec :
         \/ /\ l = DescBlock(i)
            /\ WriteDesc(i, DescOf[v])
            /\ strays' = strays \cup
                 (IF DescOf[v] = NoDesc THEN {} ELSE {DescOf[v].target})
         \/ /\ l = DataBlock(i)
            /\ WriteData(i, v)
            /\ UNCHANGED strays

(* One round of the replay loop.  It runs to the count of the header that  *)
(* was read before it, whatever the header block holds meanwhile.          *)
Replay ==
    /\ jpc = "rec"
    /\ \/ /\ ValidRecord(ji)
          /\ ~failing
          /\ WriteBlock(desc[ji].target, data[ji])
          /\ IF ji < hcount THEN Goto("rec", ji + 1) ELSE Goto("rclear", 1)
       \/ /\ ~ValidRecord(ji)
          /\ RecoverCorrupt
          /\ UNCHANGED strays
    /\ UNCHANGED <<hcount, rots, commits, issued>>

(* The commit header is written: from here on its records count.           *)
Commit ==
    /\ CommitHeader
    /\ issued' = issued \cup { <<tx[i].lba, tx[i].val>> : i \in DOMAIN tx }
    /\ UNCHANGED <<hcount, rots, commits, strays>>

ReadHeader ==
    /\ RecoverHeader
    /\ hcount' = hdr.count
    /\ UNCHANGED <<rots, commits, issued, strays>>

Begin(t, s) ==
    /\ clean
    /\ commits < MaxCommits
    /\ StartCommit(t, s)
    /\ commits' = commits + 1
    /\ UNCHANGED <<hcount, rots, issued, strays>>

(* The steps of Journal that meet nothing new here.                        *)
AsBefore ==
    /\ \/ CommitClear \/ CommitDesc \/ CommitData
       \/ CommitStop \/ CommitHome \/ CommitEnd
       \/ StartRecover \/ RecoverEnd
       \/ WriteError \/ Fault \/ Repair \/ PowerLoss
    /\ UNCHANGED <<hcount, rots, commits, issued, strays>>

RNext ==
    \/ \E t \in Tx, s \in BOOLEAN : Begin(t, s)
    \/ AsBefore
    \/ Commit
    \/ ReadHeader
    \/ Replay
    \/ \E i \in 1..MaxRec : Rot(i)

RSpec == RInit /\ [][RNext]_rvars

(* A home block only ever holds a payload that some transaction committed  *)
(* for that very block: m16_journal_recover applies no damaged payload and *)
(* nothing under a damaged header.  The exception is what follows from     *)
(* target_lba being under no checksum: the block a damaged one names and,  *)
(* when that is a block of the journal, the blocks named by what is then   *)
(* taken for a descriptor or put in force by what is taken for a header.   *)
OnlyCommittedApplied == \A l \in Lba \ strays : <<l, home[l]>> \in issued

(* A committed journal with a damaged record keeps its header, also when   *)
(* m16_journal_recover has written the records before it: no later mount   *)
(* takes the half-replayed transaction for a finished one.  This is lost   *)
(* only when a damaged target_lba sends a payload into the journal.        *)
DamageNotForgotten ==
    [][ (/\ strays \cap JournalBlock = {}
         /\ jpc \notin Commits
         /\ hdr.state = "committed"
         /\ \E i \in 1..hdr.count : ~ValidRecord(i))
        => hdr' = hdr \/ hdr'.state = "bad" ]_rvars
=============================================================================
