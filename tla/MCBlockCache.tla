---------------------------- MODULE MCBlockCache ----------------------------
(* The RAM disk and two devices of one block each, for a table of two.     *)
EXTENDS BlockCache, TLC

CONSTANTS ram, disk, usb

MCBlocks == ram :> 2 @@ disk :> 1 @@ usb :> 1

MCSymmetry == Permutations({disk, usb})
=============================================================================
