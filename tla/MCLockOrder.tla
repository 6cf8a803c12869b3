----------------------------- MODULE MCLockOrder -----------------------------
(* Three processors and three lock classes, of which one processor may hold*)
(* two, so that the stack of held classes overflows.                       *)
EXTENDS LockOrder

CONSTANTS p1, p2, p3
=============================================================================
