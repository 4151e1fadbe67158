------------------------------ MODULE MCFat32 -------------------------------
(***************************************************************************)
(* A volume of six clusters of two sectors.  The image: a root directory   *)
(* of two clusters with a volume label and one file of two clusters, whose *)
(* long name ends the first cluster and whose entry begins the second.     *)
(***************************************************************************)
EXTENDS Fat32

CONSTANTS h1, h2

N(s, m, es) == [stem |-> s, more |-> m, exts |-> es]
MCAlias == N("LONGFI~1", FALSE, <<>>)
MCLong == N("LONGFILE", TRUE, <<>>)
MCNames == {N("A", FALSE, <<>>), N("A", FALSE, <<"TXT">>), MCAlias}
MCHandles == {h1, h2}
MCTables == {7, 8}
MCWriteLens == {2}

MCImage ==
    (Fat(0) :> EOC) @@ (Fat(1) :> EOC) @@ (Fat(2) :> 3) @@ (Fat(3) :> EOC) @@ (Fat(4) :> 5)
    @@ (Fat(5) :> EOC)
    @@ (Sec(2, 1) :> Label) @@ (Sec(2, 2) :> Lfn(MCLong))
    @@ (Sec(3, 1) :> Entry(<<"LONGFI~1", "">>, FALSE, 4, 3, 0, MCAlias))
    @@ (Sec(4, 1) :> Data(0)) @@ (Sec(4, 2) :> Data(0)) @@ (Sec(5, 1) :> Data(0))

Symmetry == Permutations(Handles)
=============================================================================
