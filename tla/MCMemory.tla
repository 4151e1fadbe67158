------------------------------ MODULE MCMemory ------------------------------
(***************************************************************************)
(* Small memories for TLC.  The stack has two pages where the code has     *)
(* four, and a fresh region misses as many page-table levels as the run    *)
(* says; frames are few enough for every allocation to fail somewhere.     *)
(***************************************************************************)
EXTENDS Memory
=============================================================================
