------------------------------ MODULE UnitGate ------------------------------
(***************************************************************************)
(* What a test case may expect of its unit tests, whichever way they are   *)
(* run: the mutated values are in the injected files while they run, and   *)
(* gone when there is a verdict; a failed test that was seen makes the     *)
(* verdict a failure; and the system test starts only when no Maven is     *)
(* left and the values are out of the files.                               *)
(***************************************************************************)
EXTENDS Naturals

VARIABLES
    phase,    \* "idle", "unit", "judged", "system" or "ended"
    alive,    \* some Maven is running
    injected, \* the mutated values are in the files Maven's tests read
    failing,  \* a failed test of this test case was seen
    verdict   \* unitResult.status: 0 passed, 1 failed

vars == <<phase, alive, injected, failing, verdict>>

Phases == {"idle", "unit", "judged", "system", "ended"}

Init ==
    /\ phase = "idle" /\ alive = FALSE /\ injected = FALSE
    /\ failing = FALSE /\ verdict = 0

\* The tests of a test case start; values of the last one may not be there any more.
Begin ==
    /\ phase = "idle" /\ ~injected
    /\ phase' = "unit"
    /\ alive' \in BOOLEAN /\ injected' \in BOOLEAN
    /\ failing' = FALSE /\ verdict' = 0

\* A test case without tests.
NoTests ==
    /\ phase = "idle" /\ ~injected
    /\ phase' = "judged"
    /\ failing' = FALSE /\ verdict' = 0
    /\ UNCHANGED <<alive, injected>>

\* Values are injected and cleaned, Mavens start and end, tests fail, a verdict is put
\* together.
Work ==
    /\ phase = "unit"
    /\ alive' \in BOOLEAN
    /\ injected' \in BOOLEAN
    /\ failing' \in {failing, TRUE}
    /\ verdict' \in {0, 1}
    /\ UNCHANGED phase

\* The values go, and a failed test that was seen decides.
Judge ==
    /\ phase = "unit"
    /\ phase' = "judged"
    /\ injected' = FALSE
    /\ verdict' \in {0, 1} /\ (failing => verdict' = 1)
    /\ UNCHANGED <<alive, failing>>

\* The unit tests were enough: the next test case.
Reject ==
    /\ phase = "judged"
    /\ phase' = "idle"
    /\ UNCHANGED <<alive, injected, failing, verdict>>

StartSystemTest ==
    /\ phase = "judged" /\ ~alive
    /\ phase' = "system"
    /\ UNCHANGED <<alive, injected, failing, verdict>>

EndSystemTest ==
    /\ phase = "system"
    /\ phase' = "idle"
    /\ UNCHANGED <<alive, injected, failing, verdict>>

\* A Maven that nobody waits for any more ends.
LeftOverEnds ==
    /\ alive /\ alive' = FALSE
    /\ UNCHANGED <<phase, injected, failing, verdict>>

\* An interrupt, or a Maven found where none should be.  A Maven may still end, and one
\* nobody told may go on.
End ==
    /\ phase' = "ended"
    /\ UNCHANGED <<alive, injected, failing, verdict>>

AfterEnd ==
    /\ phase = "ended"
    /\ alive' \in {alive, FALSE} /\ failing' \in {failing, TRUE}
    /\ UNCHANGED <<phase, injected, verdict>>

Next == \/ Begin \/ NoTests \/ Work \/ Judge \/ Reject \/ StartSystemTest
        \/ EndSystemTest \/ LeftOverEnds \/ End \/ AfterEnd

Spec == Init /\ [][Next]_vars

-----------------------------------------------------------------------------

\* The system test shares the machine with no Maven and finds no injected value; a
\* verdict of a test case in which a failed test was seen is a failure.
SystemTestAlone ==
    /\ phase = "system" => ~alive /\ ~injected
    /\ phase \in {"judged", "system"} /\ failing => verdict = 1
=============================================================================
