------------------------------- MODULE MCLibc -------------------------------
(***************************************************************************)
(* Words of eight bits, seconds of ten milliseconds.                       *)
(***************************************************************************)
EXTENDS Libc

MCRates == {1, 3, 10}
MCBases == {2, 8, 10, 16, 36}
MCValues == 0 .. 20
MCWidths == {0, 2, 17, 18, 19}
=============================================================================
