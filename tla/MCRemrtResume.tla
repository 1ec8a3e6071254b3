--------------------------- MODULE MCRemrtResume ---------------------------
(* RemrtResume on small instances.                                         *)
EXTENDS RemrtResume

AllFaults == FaultKinds
AllCommands == CommandKinds

\* All but what makes the code forget a span (RequeuedOnly in RemrtRefinement),
\* and but the command that only changes the order of the hand-out.
RequeuedFaults == FaultKinds \ {"matrix", "open"}
RequeuedCommands == CommandKinds \ {"restart", "allocate"}
=============================================================================
