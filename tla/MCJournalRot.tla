---------------------------- MODULE MCJournalRot ----------------------------
EXTENDS JournalRot

CONSTANTS l1, l2, v1, v2

MCLba == {l1, l2}
MCVal == {v1, v2}

(* v1 is a block of zeroes, v2 one that looks like part of a journal.      *)
MCHdrOf == [v \in MCVal |-> IF v = v1 THEN EmptyHdr ELSE CommittedHdr(2)]
MCDescOf == [v \in MCVal |-> IF v = v1 THEN NoDesc
                                       ELSE [target |-> l2, sum |-> v1]]
=============================================================================
