--------------------------- MODULE MCTraceSources ---------------------------
(* One log and one shell file, two runs: the second is where a daemon and  *)
(* the contents of the first are left over.                                *)
EXTENDS TraceSources

CONSTANTS log, shell
=============================================================================
