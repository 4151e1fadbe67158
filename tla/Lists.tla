------------------------------- MODULE Lists --------------------------------
(***************************************************************************)
(* The operators on sequences that Ext4 and Vfs need.  They mean what the  *)
(* operators of these names mean in SequencesExt, which is not extended:   *)
(* the prover goes through every definition of the modules a proof module  *)
(* extends, for every obligation, and SequencesExt makes it ten times      *)
(* slower.                                                                 *)
(***************************************************************************)
EXTENDS Integers, Sequences, FiniteSetsExt

\* The elements of list s.
ToSet(s) == {s[k] : k \in DOMAIN s}

\* The index of the first element that passes the test, and 0 when there is none.
SelectInSeq(s, Test(_)) ==
    LET passing == {k \in 1..Len(s) : Test(s[k])}
    IN  IF passing = {} THEN 0 ELSE Min(passing)

\* List s with x put in as its k-th element, and list s without its k-th element.
InsertAt(s, k, x) == SubSeq(s, 1, k - 1) \o <<x>> \o SubSeq(s, k, Len(s))
RemoveAt(s, k) == SubSeq(s, 1, k - 1) \o SubSeq(s, k + 1, Len(s))

\* The last element of a list that has one, and all the others.
Last(s) == s[Len(s)]
Front(s) == SubSeq(s, 1, Len(s) - 1)
=============================================================================
