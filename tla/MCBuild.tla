------------------------------ MODULE MCBuild ------------------------------
(***************************************************************************)
(* An instance of Build: two files of one name, in the root and in the     *)
(* directory of a sub module, and a file that impacts every test.          *)
(***************************************************************************)
EXTENDS Build

MCPaths == {<<Root, "x">>, <<"a", "x">>, <<"a", "package.json">>}
=============================================================================
