-------------------------- MODULE UnitTestSelection --------------------------
(***************************************************************************)
(* Which unit tests a test case runs, and what their surefire reports say: *)
(* UnitTester.resolve_associated_tests with its two trimmers, the groups   *)
(* of run_unit_test_utils.split_tests, and UnitTestUtils.parse_surefire.   *)
(***************************************************************************)
EXTENDS Naturals, FiniteSets

CONSTANTS
    Tests,  \* the unit tests
    ClassOf \* the test class of each

ASSUME ClassOfAssumption == DOMAIN ClassOf = Tests

ClassesOf(tests) == {ClassOf[t] : t \in tests}
Classes == ClassesOf(Tests)
OfClass(tests, class) == {t \in tests : ClassOf[t] = class}

-----------------------------------------------------------------------------
(* Selection.                                                              *)

\* SampleTrimmer.trimCtests: the list is shuffled; a longer one than sampling keeps every
\* sampling-th.
Samples(tests, sampling) ==
    IF Cardinality(tests) <= sampling THEN {tests}
    ELSE {s \in SUBSET tests :
            Cardinality(s) = (Cardinality(tests) + sampling - 1) \div sampling}

\* TimeFilterTrimmer.trimCtests: no test that took five seconds or more the last time.
FilteredByTime(tests, slow) == tests \ slow

\* For every mutated parameter the tests that remain, in every way the sample can fall.
Selections(mapped, params, sampling, slow) ==
    {[p \in params \cap DOMAIN mapped |-> FilteredByTime(sample[p], slow)] :
        sample \in {f \in [params \cap DOMAIN mapped -> SUBSET Tests] :
                      \A p \in DOMAIN f : f[p] \in Samples(mapped[p], sampling)}}

TestsOf(selection) == UNION {selection[p] : p \in DOMAIN selection}

\* Mutant: the parameters a test is run with are all those of the test case.
EveryParam(selection, t) == DOMAIN selection

\* reverse_map, encode_signature: the mutated parameters that led to a test.
Signature(selection, t) == {p \in DOMAIN selection : t \in selection[p]}

\* split_tests: the tests with the same parameters run together.
Groups(selection) ==
    {[params |-> Signature(selection, t),
      tests |-> {u \in TestsOf(selection) : Signature(selection, u) = Signature(selection, t)}] :
        t \in TestsOf(selection)}

-----------------------------------------------------------------------------
(* Reports.  TEST-<class>.xml is missing, torn by a kill, or says of some  *)
(* of the tests how they ended; a "blank" is a failure without a text.     *)

Results == {"pass", "fail", "blank"}
Says(report) == report.kind = "full"
Listed(report) == IF Says(report) THEN DOMAIN report.says ELSE {}
Blanks(report) == {t \in Listed(report) : report.says[t] = "blank"}

\* Mutant: an expected test that does not show up is left out.
LeaveOut(report, tests) == [ran |-> tests \cap Listed(report),
    failed |-> {t \in tests \cap Listed(report) : report.says[t] = "fail"}]

\* A readable report: an expected test that does not show up has failed, whatever took
\* its place in the report.
ReadReport(report, tests) ==
    [ran |-> tests,
     failed |-> {t \in tests : t \in Listed(report) => report.says[t] = "fail"}]

\* Where the parsing breaks off at a blank failure, the entries before it have their
\* result and the failed test itself has only its time.
BrokenOff(report, before, blank) ==
    [ran |-> before \cup {blank}, failed |-> {t \in before : report.says[t] = "fail"}]

\* parse_surefire: what is recorded of the expected tests of a class.  Where it raises,
\* every project but alluxio counts them as failed.
Parsed(report, tests, alluxio) ==
    IF Says(report) /\ Blanks(report) = {} THEN {ReadReport(report, tests)}
    ELSE IF ~alluxio THEN {[ran |-> tests, failed |-> tests]}
    ELSE IF ~Says(report) THEN {[ran |-> {}, failed |-> {}]}
    ELSE {[ran |-> b.ran \cap tests, failed |-> b.failed \cap tests] :
            b \in {BrokenOff(report, before, blank) :
                     before \in SUBSET (Listed(report) \ Blanks(report)),
                     blank \in Blanks(report)}}

\* Mutant: the trace of a class with a failure is passed over.
ObservedIfPassed(report, tests) ==
    {t \in tests \cap Listed(report) : \A u \in Listed(report) : report.says[u] = "pass"}

\* extract_events_from_surefire: the expected tests whose trace is in the report.
Observed(report, tests) == tests \cap Listed(report)
=============================================================================
