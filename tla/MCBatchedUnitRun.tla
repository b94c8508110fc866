-------------------------- MODULE MCBatchedUnitRun --------------------------
(***************************************************************************)
(* An instance of BatchedUnitRun for TLC: two parameters, three tests in   *)
(* two classes; t1 and t2 share a class and not their parameters.          *)
(***************************************************************************)
EXTENDS BatchedUnitRun

CONSTANTS p1, p2, t1, t2, t3

MCParams == {p1, p2}
MCTests == {t1, t2, t3}
MCClassOf == [t \in MCTests |-> IF t = t3 THEN "B" ELSE "A"]
MCMapped == [p \in MCParams |-> IF p = p1 THEN {t1, t2, t3} ELSE {t2}]

MCInputs == {{}, MCParams}

\* Grouped, on alluxio too; parallel with the required gate and without.
MCSettings == {
    [parallel |-> FALSE, alluxio |-> FALSE, required |-> TRUE],
    [parallel |-> FALSE, alluxio |-> TRUE, required |-> FALSE],
    [parallel |-> TRUE, alluxio |-> FALSE, required |-> TRUE],
    [parallel |-> TRUE, alluxio |-> FALSE, required |-> FALSE]}
=============================================================================
