---------------------------- MODULE MCRemrtEnv ----------------------------
(* RemrtEnv on small instances: every constant is given in the .cfg.         *)
EXTENDS RemrtEnv
=============================================================================
