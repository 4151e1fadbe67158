------------------------------- MODULE MCExt4 -------------------------------
(***************************************************************************)
(* A small disk for TLC: two names of different length, of which a new     *)
(* directory holds only one at a time (7 = 2 * 2 + 3), and two disk images *)
(* whose free blocks are scattered or partly adjacent.                     *)
(***************************************************************************)
EXTENDS Ext4, TLC

MCNames == {"a", "long"}
MCNameSize == [n \in MCNames |-> IF n = "a" THEN 2 ELSE 3]
MCWriteLens == {1, 3}
MCImages == {{3, 5}, {5}}
FdSymmetry == Permutations(Fds)
=============================================================================
