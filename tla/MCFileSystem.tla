---------------------------- MODULE MCFileSystem ----------------------------
(* Two names and directories one deep below the root; tables that fill:    *)
(* four entries, the root and two more directories, two entries in each,   *)
(* so that every limit is met, with three blocks of memory.                *)
EXTENDS FileSystem
MCPaths == {<<"a">>, <<"b">>, <<"a", "a">>}
MCData  == {<<"x">>, <<"y", "y">>}
MCBlocks == 1 .. 3
=============================================================================
