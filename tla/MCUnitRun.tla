------------------------------ MODULE MCUnitRun ------------------------------
(***************************************************************************)
(* An instance of UnitRun for TLC.                                         *)
(***************************************************************************)
EXTENDS UnitRun
=============================================================================
