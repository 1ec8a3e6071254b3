-------------------------------- MODULE MCPkg --------------------------------
(* A small instance of Pkg for TLC.                                         *)
EXTENDS Pkg
MCLengths == {0, 1, 3}
=============================================================================
