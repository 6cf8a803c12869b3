------------------------------ MODULE MCJournal ------------------------------
(* The journal alone, on two home blocks, with transactions of up to two   *)
(* records.                                                                *)
EXTENDS Journal

CONSTANTS l1, l2, v1, v2

MCLba == {l1, l2}
MCVal == {v1, v2}
=============================================================================
