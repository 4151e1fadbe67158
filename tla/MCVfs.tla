------------------------------- MODULE MCVfs --------------------------------
(***************************************************************************)
(* A disk with the directories /a and /a/b, an initrd with one file (which *)
(* serves as the program), and a program with two descriptors.             *)
(***************************************************************************)
EXTENDS Vfs, TLC

E(n, i) == [name |-> n, ino |-> i]
MCSystems == {"ext4", "fat32"}
MCNames == {"a", "b", "p"}
MCDirs == (2 :> <<E("a", 3)>>) @@ (3 :> <<E("b", 4)>>) @@ (4 :> <<>>)
MCSizes == [i \in {} |-> 0]
Abs(c) == Path(TRUE, c)
Rel(c) == Path(FALSE, c)
MCCdPaths == {Rel(<<"a">>), Rel(<<"..">>), Rel(<<"a", ".">>)}
MCShellPaths == {Rel(<<"a">>), Abs(<<"p">>)}
MCProgramPaths == {Rel(<<"p">>), Rel(<<".">>), Rel(<<"..">>), Rel(<<"b", "..">>), Abs(<<"initrd", "rfile">>)}
=============================================================================
