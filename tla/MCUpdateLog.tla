----------------------------- MODULE MCUpdateLog -----------------------------
(* Two files of one directory, one at the root that has the name of the     *)
(* directory's file, and exactly as many ids as there are entities.         *)
EXTENDS UpdateLog
CONSTANT v
MCPaths == {<<"d", "x">>, <<"d", "y">>, <<"x">>}
==============================================================================
