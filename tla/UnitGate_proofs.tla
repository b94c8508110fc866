--------------------------- MODULE UnitGate_proofs ---------------------------
(***************************************************************************)
(* The promise of the gate.  UnitRun and BatchedUnitRun implement it.      *)
(***************************************************************************)
EXTENDS UnitGate, TLAPS

\* A failed test is only seen while the tests run, and the verdict is put together when
\* they are over; so it can be relied on from then to the next test case.
GateInv ==
    /\ phase \in Phases
    /\ phase \in {"idle", "judged", "system"} => ~injected
    /\ phase \in {"judged", "system"} => (failing => verdict = 1)
    /\ phase = "system" => ~alive

LEMMA GateInductive == Spec => []GateInv
<1>1. Init => GateInv
  BY DEF Init, GateInv, Phases
<1>2. GateInv /\ [Next]_vars => GateInv'
  <2> SUFFICES ASSUME GateInv, [Next]_vars PROVE GateInv'
    OBVIOUS
  <2> USE DEF GateInv, Phases
  <2>1. CASE Begin
    BY <2>1 DEF Begin
  <2>2. CASE NoTests
    BY <2>2 DEF NoTests
  <2>3. CASE Work
    BY <2>3 DEF Work
  <2>4. CASE Judge
    BY <2>4 DEF Judge
  <2>5. CASE Reject \/ StartSystemTest \/ EndSystemTest
    BY <2>5 DEF Reject, StartSystemTest, EndSystemTest
  <2>6. CASE LeftOverEnds
    BY <2>6 DEF LeftOverEnds
  <2>7. CASE End \/ AfterEnd
    BY <2>7 DEF End, AfterEnd
  <2>8. CASE UNCHANGED vars
    BY <2>8 DEF vars
  <2> QED
    BY <2>1, <2>2, <2>3, <2>4, <2>5, <2>6, <2>7, <2>8 DEF Next
<1> QED
  BY <1>1, <1>2, PTL DEF Spec

\* The system test shares the machine with no Maven and finds no injected value, and a
\* failed test that was seen is in the verdict: TestValidator.runTest goes on with the
\* system test only past the look for Maven.
THEOREM SystemTestIsAlone == Spec => []SystemTestAlone
<1>1. GateInv => SystemTestAlone
  BY DEF GateInv, SystemTestAlone
<1> QED
  BY <1>1, GateInductive, PTL
=============================================================================
