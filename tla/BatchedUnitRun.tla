--------------------------- MODULE BatchedUnitRun ---------------------------
(***************************************************************************)
(* The unit tests of a test case where no run is killed at its first       *)
(* failure.  Either one Maven after the other, each for the tests that     *)
(* share their parameters and with those alone injected                    *)
(* (UnitTester.test_conf_file), or one Maven for each class, a batch of    *)
(* them at a time, with all values injected once                           *)
(* (UnitTester.runWithMutilprocess).  Then what TestValidator.runTest does *)
(* with the verdict, and the next test case.                               *)
(*                                                                         *)
(* A Maven that takes too long is killed with its process group in the     *)
(* first way.  In the second the kill reaches the shell that started it:   *)
(* Maven may be gone, or go on alone, read whatever values are in the      *)
(* files and write its report whenever it is done.                         *)
(***************************************************************************)
EXTENDS UnitTestSelection, Sequences

CONSTANTS
    Mapped,    \* confUnitMap: the tests of each parameter that has some
    Params,    \* the parameters
    Inputs,    \* the sets of them that test cases mutate (bound)
    Sampling,  \* ctests_trim_sampling
    BatchSize, \* Mavens at a time: four in the code
    MaxRounds, \* the test cases (bound)
    MaxOdd,    \* the tests not passed or missing in the reports at a time (bound)
    MaxSlow,   \* the tests that take too long (bound)
    MaxAlone,  \* the Mavens left alone at a time (bound)
    Settings   \* the ways a campaign is configured

ASSUME MappedAssumption ==
    DOMAIN Mapped \subseteq Params /\ \A p \in DOMAIN Mapped : Mapped[p] \subseteq Tests
ASSUME BatchedAssumption ==
    /\ Inputs \subseteq SUBSET Params
    /\ Sampling \in Nat \ {0} /\ BatchSize \in Nat \ {0} /\ MaxRounds \in Nat \ {0}
    /\ MaxOdd \in Nat /\ MaxSlow \in Nat /\ MaxAlone \in Nat

\* use_mutil_pro; whether the project is alluxio, whose unreadable reports count for
\* nothing; requireUnitPassForSystemTest.
SettingSet == [parallel : BOOLEAN, alluxio : BOOLEAN, required : BOOLEAN]
ASSUME SettingsAssumption == Settings \subseteq SettingSet

VARIABLES
    pc,       \* where the main thread is
    setting,  \* how the campaign is configured
    round,    \* the test case, by its number
    selected, \* associated_test_map
    todo,     \* groups, in parallel classes, whose Maven has not been started
    current,  \* the group whose Maven runs
    waiting,  \* popen_list: the Mavens waited for, in their order
    unparsed, \* the classes whose report is not parsed yet
    conf,     \* the injected files: the values of a test case for some parameters, or none
    mavens,   \* the Mavens that run
    reports,  \* the surefire report of each class
    results,  \* of each test recorded as run what its report said
    failed,   \* the tests recorded as failed
    observed, \* last_ran_tests: the tests whose trace was found
    slow,     \* unitTestTimeMap: the tests that took five seconds or more
    status    \* unitResult.status

vars == <<pc, setting, round, selected, todo, current, waiting, unparsed, conf, mavens,
          reports, results, failed, observed, slow, status>>
plan == <<setting, round, selected>>
verdict == <<results, failed, observed, slow, status>>

NoConf == [of |-> 0, params |-> {}]
NoReport == [kind |-> "none"]
TornReport == [kind |-> "torn"]
NoEntry == [says |-> "nothing", of |-> 0, conf |-> NoConf, alone |-> FALSE]
NoGroup == [params |-> {}, tests |-> {}]
Idle == "none"

Init ==
    /\ pc = "idle" /\ setting \in Settings /\ round = 0 /\ selected = <<>>
    /\ todo = {} /\ current = NoGroup /\ waiting = <<>> /\ unparsed = {}
    /\ conf = NoConf /\ mavens = {} /\ reports = [c \in Classes |-> NoReport]
    /\ results = <<>> /\ failed = {} /\ observed = {} /\ slow = {} /\ status = 0

-----------------------------------------------------------------------------
(* Maven.  It runs the classes it was given one after the other; the tests *)
(* of a class read the values when the class begins, and its report is     *)
(* written when the class ends.                                            *)

NewMaven(tests) ==
    [of |-> round, tests |-> tests, left |-> ClassesOf(tests), class |-> Idle,
     conf |-> NoConf, alone |-> FALSE]

BeginClass ==
    /\ \E m \in mavens : \E class \in m.left :
        /\ m.class = Idle
        /\ mavens' = (mavens \ {m}) \cup
                       {[m EXCEPT !.class = class, !.left = @ \ {class}, !.conf = conf]}
    /\ UNCHANGED <<pc, plan, todo, current, waiting, unparsed, conf, reports, verdict>>

Odd(written) ==
    {t \in Tests : /\ written[ClassOf[t]].kind = "full" /\ t \in Listed(written[ClassOf[t]])
                  /\ written[ClassOf[t]].says[t] # "pass"}

\* A test may be missing from the report: its class failed first, or it goes by another
\* name there.
EndClass ==
    /\ \E m \in mavens : \E listed \in SUBSET OfClass(m.tests, m.class) :
        /\ m.class # Idle
        /\ \E says \in [listed -> Results] :
             reports' = [reports EXCEPT ![m.class] =
                [kind |-> "full", says |-> says, of |-> m.of, conf |-> m.conf,
                 alone |-> m.alone]]
        /\ Cardinality(Odd(reports') \cup (OfClass(m.tests, m.class) \ listed)) <= MaxOdd
        /\ mavens' = (mavens \ {m}) \cup {[m EXCEPT !.class = Idle]}
    /\ UNCHANGED <<pc, plan, todo, current, waiting, unparsed, conf, verdict>>

\* With its classes done, or before.
ExitMaven ==
    /\ \E m \in mavens : mavens' = mavens \ {m}
    /\ UNCHANGED <<pc, plan, todo, current, waiting, unparsed, conf, reports, verdict>>

\* SIGKILL may catch Maven writing.
MayTear(m) ==
    \/ UNCHANGED reports
    \/ m.class # Idle /\ reports' = [reports EXCEPT ![m.class] = TornReport]

-----------------------------------------------------------------------------
(* The next test case: runTest deletes the reports and selects the tests.  *)

\* Mutant: the reports stay.
KeepReports(old) == old

\* shutil.rmtree of every surefire directory.
Deleted(old) == [c \in Classes |-> NoReport]

Select(params) ==
    /\ pc = "idle" /\ round < MaxRounds
    /\ round' = round + 1
    /\ selected' \in Selections(Mapped, params, Sampling, slow)
    /\ reports' = Deleted(reports)
    /\ results' = <<>> /\ failed' = {} /\ observed' = {} /\ status' = 0
    /\ UNCHANGED <<setting, slow>>

StartUnmapped ==
    /\ \E params \in Inputs : Select(params)
    /\ TestsOf(selected') = {}
    /\ pc' = "judged"
    /\ UNCHANGED <<todo, current, waiting, unparsed, conf, mavens>>

StartGrouped ==
    /\ ~setting.parallel
    /\ \E params \in Inputs : Select(params)
    /\ TestsOf(selected') # {}
    /\ todo' = Groups(selected')
    /\ pc' = "group"
    /\ UNCHANGED <<current, waiting, unparsed, conf, mavens>>

\* Every mutated parameter is injected, those without a test too.
StartParallel ==
    /\ setting.parallel
    /\ \E params \in Inputs :
        Select(params) /\ conf' = [of |-> round + 1, params |-> params]
    /\ TestsOf(selected') # {}
    /\ todo' = ClassesOf(TestsOf(selected')) /\ unparsed' = todo'
    /\ pc' = "spawn"
    /\ UNCHANGED <<current, waiting, mavens>>

-----------------------------------------------------------------------------
(* What is recorded of a class.                                            *)

\* A test that is recorded gets the time of its report, or next to none where it did not
\* show up.
Retimed(report, ran) ==
    {(slow \ ran) \cup lasting :
        lasting \in {l \in SUBSET (ran \cap Listed(report)) :
                        l = {} \/ Cardinality((slow \ ran) \cup l) <= MaxSlow}}

\* What a report says of a test, and of whom it is.
Entry(report, t) ==
    IF t \in Listed(report)
    THEN [says |-> report.says[t], of |-> report.of, conf |-> report.conf, alone |-> report.alone]
    ELSE NoEntry

Record(report, tests) ==
    \E parsed \in Parsed(report, tests, setting.alluxio) :
        /\ results' = [t \in DOMAIN results \cup parsed.ran |->
                        IF t \in parsed.ran THEN Entry(report, t) ELSE results[t]]
        /\ failed' = failed \cup (parsed.failed \cap parsed.ran)
        /\ slow' \in Retimed(report, parsed.ran)

\* Mutant: the status is the number of the failures.
NumberOf(failures) == Cardinality(failures)

\* unitResult.status
StatusOf(failures) == IF failures = {} THEN 0 ELSE 1

-----------------------------------------------------------------------------
(* test_conf_file and run_test_batch.                                      *)

\* Mutant: the groups share one injection of all values.
InjectedAll(group) == [of |-> round, params |-> DOMAIN selected]

\* inject_config overwrites the files.
Injected(group) == [of |-> round, params |-> group.params]

StartGroup ==
    /\ pc = "group"
    /\ \E group \in todo :
        /\ current' = group /\ todo' = todo \ {group}
        /\ conf' = Injected(group)
        /\ mavens' = mavens \cup {NewMaven(group.tests)}
    /\ pc' = "wait"
    /\ UNCHANGED <<plan, waiting, unparsed, reports, verdict>>

GroupEnded ==
    /\ pc = "wait" /\ ~setting.parallel /\ mavens = {}
    /\ pc' = "parse"
    /\ UNCHANGED <<plan, todo, current, waiting, unparsed, conf, mavens, reports, verdict>>

\* Mutant: communicate without a timeout.
GroupHangs == FALSE

\* TimeoutExpired: killpg.
GroupTimeout ==
    /\ pc = "wait" /\ ~setting.parallel
    /\ \E m \in mavens : MayTear(m) /\ mavens' = mavens \ {m}
    /\ pc' = "parse"
    /\ UNCHANGED <<plan, todo, current, waiting, unparsed, conf, verdict>>

\* The classes of the group, one after the other; no Maven is there to interfere.
ParseGroup ==
    /\ pc = "parse" /\ ~setting.parallel
    /\ \E class \in ClassesOf(current.tests) :
        LET tests == OfClass(current.tests, class) IN
        /\ Record(reports[class], tests)
        /\ observed' = observed \cup Observed(reports[class], tests)
        /\ current' = [current EXCEPT !.tests = @ \ tests]
        /\ pc' = IF current.tests = tests THEN "group" ELSE "parse"
    /\ UNCHANGED <<plan, todo, waiting, unparsed, conf, mavens, reports, status>>

\* Mutant: the values of the last group stay in the files.
KeepConf(old) == old

\* clean_config
Cleaned(old) == NoConf

FinishGroups ==
    /\ pc = "group" /\ todo = {}
    /\ conf' = Cleaned(conf)
    /\ status' = StatusOf(failed)
    /\ pc' = "judged"
    /\ UNCHANGED <<plan, todo, current, waiting, unparsed, mavens, reports, results,
                   failed, observed, slow>>

-----------------------------------------------------------------------------
(* runWithMutilprocess.                                                    *)

Spawn ==
    /\ pc = "spawn"
    /\ \E class \in todo :
        LET m == NewMaven(OfClass(TestsOf(selected), class)) IN
        /\ todo' = todo \ {class}
        /\ mavens' = mavens \cup {m}
        /\ waiting' = Append(waiting, class)
        /\ pc' = IF Len(waiting) + 1 = BatchSize \/ todo = {class} THEN "wait" ELSE "spawn"
    /\ UNCHANGED <<plan, current, unparsed, conf, reports, verdict>>

\* The Maven of this test case that was started for a class; one of an earlier test case
\* is nobody's.
MavenOf(class) ==
    {m \in mavens : m.of = round /\ ~m.alone /\ ClassesOf(m.tests) = {class}}

\* communicate: the Mavens of the batch are waited for in the order they were started.
Waited ==
    /\ waiting' = Tail(waiting)
    /\ pc' = IF Len(waiting) > 1 THEN "wait" ELSE IF todo = {} THEN "parse" ELSE "spawn"

MavenEnded ==
    /\ pc = "wait" /\ setting.parallel /\ MavenOf(Head(waiting)) = {}
    /\ Waited
    /\ UNCHANGED <<plan, todo, current, unparsed, conf, mavens, reports, verdict>>

\* TimeoutExpired: the shell is killed.
MavenTimeout ==
    /\ pc = "wait" /\ setting.parallel
    /\ \E m \in MavenOf(Head(waiting)) :
        \/ MayTear(m) /\ mavens' = mavens \ {m}
        \/ /\ Cardinality({n \in mavens : n.alone}) < MaxAlone
           /\ mavens' = (mavens \ {m}) \cup {[m EXCEPT !.alone = TRUE]}
           /\ UNCHANGED reports
    /\ Waited
    /\ UNCHANGED <<plan, todo, current, unparsed, conf, verdict>>

ParseClass ==
    /\ pc = "parse" /\ setting.parallel
    /\ \E class \in unparsed :
        /\ Record(reports[class], OfClass(TestsOf(selected), class))
        /\ unparsed' = unparsed \ {class}
        /\ pc' = IF unparsed' = {} THEN "clean" ELSE "parse"
    /\ UNCHANGED <<plan, todo, current, waiting, conf, mavens, reports, observed, status>>

\* clean_config; the classes are there again for the trace.
CleanUp ==
    /\ pc = "clean"
    /\ conf' = Cleaned(conf)
    /\ unparsed' = ClassesOf(TestsOf(selected))
    /\ pc' = "trace"
    /\ UNCHANGED <<plan, todo, current, waiting, mavens, reports, verdict>>

\* collect_trace_events opens the reports once more.
TraceClass ==
    /\ pc = "trace"
    /\ \E class \in unparsed :
        /\ observed' = observed \cup
                         Observed(reports[class], OfClass(TestsOf(selected), class))
        /\ unparsed' = unparsed \ {class}
    /\ pc' = IF unparsed' = {} THEN "judged" ELSE "trace"
    /\ status' = IF unparsed' = {} THEN StatusOf(failed) ELSE status
    /\ UNCHANGED <<plan, todo, current, waiting, conf, mavens, reports, results, failed, slow>>

-----------------------------------------------------------------------------
(* TestValidator.runTest with the verdict.                                 *)

\* finalize_without_system: with the required gate unless the tests passed, otherwise
\* for some of the test cases whose tests passed.
Reject ==
    /\ pc = "judged"
    /\ IF setting.required THEN status = 1 \/ TestsOf(selected) = {}
       ELSE status = 0 /\ TestsOf(selected) # {}
    /\ pc' = "idle"
    /\ UNCHANGED <<plan, todo, current, waiting, unparsed, conf, mavens, reports, verdict>>

\* Mutant: nobody looks.
NobodyLeft(processes) == TRUE

\* ps -ef | grep maven
NoMavenLeft(processes) == processes = {}

LookForMaven ==
    /\ pc = "judged"
    /\ setting.required => status = 0 /\ TestsOf(selected) # {}
    /\ pc' = IF NoMavenLeft(mavens) THEN "system" ELSE "exited"
    /\ UNCHANGED <<plan, todo, current, waiting, unparsed, conf, mavens, reports, verdict>>

EndSystemTest ==
    /\ pc = "system"
    /\ pc' = "idle"
    /\ UNCHANGED <<plan, todo, current, waiting, unparsed, conf, mavens, reports, verdict>>

\* SIGINT, or an exception: nothing is cleaned.
Abort ==
    /\ pc \notin {"exited", "aborted"}
    /\ pc' = "aborted"
    /\ UNCHANGED <<plan, todo, current, waiting, unparsed, conf, mavens, reports, verdict>>

-----------------------------------------------------------------------------
MavenStep == BeginClass \/ EndClass \/ ExitMaven

Start == StartUnmapped \/ StartGrouped \/ StartParallel
Grouped == StartGroup \/ GroupEnded \/ GroupTimeout \/ ParseGroup \/ FinishGroups
Parallel == Spawn \/ MavenEnded \/ MavenTimeout \/ ParseClass \/ CleanUp \/ TraceClass
Validate == Reject \/ LookForMaven \/ EndSystemTest

TesterStep == Start \/ Grouped \/ Parallel \/ Validate

Next == MavenStep \/ TesterStep \/ Abort

Spec == Init /\ [][Next]_vars

\* The tester runs, and every Maven it waits for has a timeout.  Maven need not do
\* anything.
FairSpec == Spec /\ WF_vars(TesterStep)

-----------------------------------------------------------------------------
(* Properties.                                                             *)

PCs == {"idle", "group", "wait", "parse", "spawn", "clean", "trace", "judged", "system",
        "exited", "aborted"}

ConfSet == [of : 0..MaxRounds, params : SUBSET Params]
FullReport(report) ==
    /\ report.kind = "full"
    /\ DOMAIN report.says \subseteq Tests /\ \A t \in DOMAIN report.says : report.says[t] \in Results
    /\ report.of \in 1..MaxRounds /\ report.conf \in ConfSet /\ report.alone \in BOOLEAN
EntrySet == [says : Results \cup {"nothing"}, of : 0..MaxRounds, conf : ConfSet,
             alone : BOOLEAN]
MavenSet == [of : 1..MaxRounds, tests : SUBSET Tests, left : SUBSET Classes,
             class : Classes \cup {Idle}, conf : ConfSet, alone : BOOLEAN]

\* Every variable keeps its type; a test is recorded as failed only if it is recorded.
TypeOK ==
    /\ pc \in PCs /\ setting \in SettingSet /\ round \in 0..MaxRounds
    /\ DOMAIN selected \subseteq Params /\ \A p \in DOMAIN selected : selected[p] \subseteq Tests
    /\ todo \subseteq (IF setting.parallel THEN Classes
                      ELSE [params : SUBSET Params, tests : SUBSET Tests])
    /\ current \in [params : SUBSET Params, tests : SUBSET Tests]
    /\ waiting \in Seq(Classes) /\ unparsed \subseteq Classes
    /\ conf \in ConfSet /\ mavens \subseteq MavenSet
    /\ DOMAIN reports = Classes
    /\ \A c \in Classes : reports[c] \in {NoReport, TornReport} \/ FullReport(reports[c])
    /\ DOMAIN results \subseteq Tests /\ failed \subseteq DOMAIN results
    /\ \A t \in DOMAIN results : results[t] \in EntrySet
    /\ observed \subseteq Tests /\ slow \subseteq Tests /\ status \in {0, 1}

Passed == DOMAIN results \ failed

\* The values a test must have been run with: in a group those that led to it and no
\* other, in parallel all of this test case.
OwnValues(values, t) ==
    /\ values.of = round
    /\ IF setting.parallel THEN DOMAIN selected \subseteq values.params
       ELSE values.params = Signature(selected, t)

\* A test that counts as passed stands as passed in a report, and ran with exactly the
\* values of its own group: not with those of the group before it, whose report may still
\* lie there, and not after they were cleaned.  Two exceptions: alluxio takes a failure
\* without a text for a pass, and a Maven left alone reads what it finds.
PassEarned ==
    \A t \in Passed :
        /\ results[t].says = "pass" \/ (setting.alluxio /\ results[t].says = "blank")
        /\ OwnValues(results[t].conf, t) \/ (setting.parallel /\ results[t].alone)

\* A verdict of zero failures means that every selected test was recorded as passed, be
\* its Maven killed, its report torn, missing or that of another group; on alluxio only
\* that no recorded one failed.
PassMeansAllRan ==
    pc = "judged" /\ status = 0 =>
        failed = {} /\ (setting.alluxio \/ TestsOf(selected) \subseteq Passed)

\* No result comes from a Maven of an earlier test case, except where its shell alone was
\* killed and TestValidator went on without a look for it: the gate rejected the test
\* case, or alluxio let it pass without the report.
ForeignNeedsRejection ==
    \A t \in DOMAIN results :
        results[t].says # "nothing" /\ results[t].of # round =>
            /\ setting.parallel /\ results[t].alone
            /\ setting.required \/ setting.alluxio

\* The trace of a test that passed is found, unless a Maven left alone has written its
\* report anew between the two readings.
PassedTraced ==
    pc = "judged" =>
        \A t \in Passed \ observed :
            setting.parallel /\ Entry(reports[ClassOf[t]], t) # results[t]

\* Every test case gets to its end, whatever Maven does.
EveryCaseEnds == <>(pc \in {"exited", "aborted"} \/ (pc = "idle" /\ round = MaxRounds))

-----------------------------------------------------------------------------
(* The gate.                                                               *)

GatePhase ==
    CASE pc \in {"idle", "judged", "system"} -> pc
      [] pc \in {"exited", "aborted"} -> "ended"
      [] OTHER -> "unit"

Gate == INSTANCE UnitGate WITH
    phase <- GatePhase, alive <- mavens # {}, injected <- conf # NoConf,
    failing <- failed # {}, verdict <- status

\* Both ways of running the tests implement the gate: the values are out of the files and
\* no Maven is left when the system test starts, and a failed test decides.
ImplementsGate == Gate!Spec
=============================================================================
