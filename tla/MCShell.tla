------------------------------ MODULE MCShell ------------------------------
(* Names absolute and relative, with a slash too many in front, between or *)
(* behind; a screen of four rows, and of twelve columns so that the prompt *)
(* of "//a/b" fits without room for a character, and "//a/b/" wraps.       *)
EXTENDS Shell
MCPaths == {<<"a">>, <<"b">>, <<"a", "a">>, <<"a", "b">>, <<"b", "a">>, <<"b", "b">>}
MCInputs == {[abs |-> TRUE,  parts |-> <<>>],
             [abs |-> TRUE,  parts |-> <<"", "a">>],
             [abs |-> TRUE,  parts |-> <<"", "a", "b">>],
             [abs |-> FALSE, parts |-> <<"b", "">>]}
MCData == {<<"x">>}
MCBlocks == {1}
=============================================================================
