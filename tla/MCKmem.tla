------------------------------- MODULE MCKmem -------------------------------
EXTENDS Kmem

(* An arena that is not aligned, and arenas that are too small: for a      *)
(* header, once their start is aligned, or once their end is.              *)
MCArenas == [base : {9}, bytes : {9, 11, 12, 43}] \cup {[base |-> 0, bytes |-> 43]}
MCPtr == 0..SizeMax
=============================================================================
