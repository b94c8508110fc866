------------------------- MODULE MCValidatedRounds -------------------------
(* Two projects, of which the second finds the rows of the first.          *)
EXTENDS ValidatedRounds

MCProjects == <<"hbase", "alluxio">>
=============================================================================
