------------------------------- MODULE MCHeap -------------------------------
(***************************************************************************)
(* Small heaps for TLC: a header of 3 units and an alignment of 2, as on   *)
(* x86_64, and pages of 8 units so that a page holds one small block.      *)
(***************************************************************************)
EXTENDS Heap
=============================================================================
