------------------------------ MODULE MCShell -------------------------------
(***************************************************************************)
(* A screen of three rows of three characters, the prompt "$", lines of up *)
(* to four characters, three commands of which two start alike, and        *)
(* directories with one, and with two, entries.                            *)
(***************************************************************************)
EXTENDS Shell

MCLetters == {"a", "b", " "}
MCPrompt == <<"$">>
MCCommands == <<<<"a", "b">>, <<"a", "c">>, <<"b">>>>
F(n) == [name |-> n, dir |-> FALSE]
D(n) == [name |-> n, dir |-> TRUE]
MCListings == {<<D(<<"a">>)>>, <<F(<<"a", "b">>), F(<<"b">>)>>}
MCOutputs == {<<>>, <<"x">>, <<"tab", "x", "backspace">>}
=============================================================================
